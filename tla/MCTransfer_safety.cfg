SPECIFICATION Spec
CONSTANTS
  Projects = {p1}
  Jobs = {j1, j2}
  Own = own
  Outputs = {x1, x2}
  NoExport = NoExport
  Commands = {c1, c2}
  MaxChanges = 1
  MaxEdits = 1
SYMMETRY Symmetry
INVARIANTS
  VerifiedIsComplete
PROPERTIES
  UsersKeepTheirWork
  ImportIsAllOrNothing
  OpenJobsAreDecided
CHECK_DEADLOCK FALSE
