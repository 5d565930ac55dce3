SPECIFICATION FairSpec
CONSTANTS
  Tabs = {e1, e2}
  Pictures = {p1, p2}
  Base = base
  NoPicture = NoPicture
  MaxVersion = 3
  MaxFaults = 1
INVARIANTS
  CurrentIsLastRevision
  NoSilentOverwrite
  OneRevisionPerResult
  RevisionsAreStored
PROPERTY BusyEnds
CHECK_DEADLOCK FALSE
