SPECIFICATION Spec
CONSTANTS
  Scripts = {p1, p2}
  Slots = {stable, candidate}
  Releases = {r1, r2}
  None = None
  Mixed = Mixed
SYMMETRY Symmetry
INVARIANT GateFailureRestores
