SPECIFICATION ImageSpec
CONSTANTS
  Calls = {c1, c2}
  Jobs = {c1, c2}
  Admins = {a1, a2}
  Keys = {k1}
  Prompts = {p1, p2}
  small = small
  large = large
  Sizes <- MCSizes
  Unset = unset
  Offers <- MCOffers
  MaxEdits = 3
  Workers = {w1, w2}
  NoWorker = NoWorker
  NoJob = NoJob
  MaxOutputs = 1
  MaxFaults = 1
SYMMETRY Symmetry
CONSTRAINT OneRace
INVARIANTS RetriesAgree AdmittedDuringTheCall NoLostPolicyEdit
PROPERTY KeepsPromise
CHECK_DEADLOCK FALSE
