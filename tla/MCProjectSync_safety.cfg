SPECIFICATION FairSpec
CONSTANTS
  t1 = t1
  t2 = t2
  b1 = b1
  b2 = b2
  Tabs = {t1, t2}
  Browsers = {b1, b2}
  BrowserOf <- MCOwnBrowsers
  MaxEdits = 2
  MaxFaults = 2
INVARIANTS CleanSaveLosesNothing ClosingLosesNothing
PROPERTY EverySaveSettles
CHECK_DEADLOCK FALSE
