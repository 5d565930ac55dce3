SPECIFICATION Spec
CONSTANTS
  Tabs = {t1, t2}
  Items = {old, new}
  LegacyItems = {old}
  NoTab = NoTab
  Hidden = Hidden
  MaxChanges = 2
  MaxMishaps = 1
SYMMETRY Interchangeable
INVARIANTS
  LegacyIsKept
  ViewIsStored
CHECK_DEADLOCK FALSE
