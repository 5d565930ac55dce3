SPECIFICATION SessionSpec
CONSTANTS
  t1 = t1
  t2 = t2
  c1 = c1
  c2 = c2
  c3 = c3
  Adapters = {t1, t2}
  Calls = {c1, c2, c3}
  AdapterOf <- TwoAndOne
  MaxPairs = 4
  MaxLogins = 2
INVARIANTS
  SessionTypeOK
  LeftSessionStaysLeft
  RefreshTokenSentOnce
CHECK_DEADLOCK FALSE
