SPECIFICATION FairSpec
CONSTANTS
  t1 = t1  t2 = t2
  b1 = b1
  None = None
  Tabs = {t1, t2}
  Browsers = {b1}
  BrowserOf <- MCBrowserOf
  MaxSkew = 1
  Acts <- MCActs
  MaxFaults = 1
  MaxChanges = 2
  MaxTime = 2
CHECK_DEADLOCK FALSE
INVARIANTS NothingLost 
PROPERTY QueueDrains
