SPECIFICATION Spec
CONSTANTS
  t1 = t1
  t2 = t2
  t3 = t3
  here = here
  there = there
  Tabs = {t1, t2, t3}
  Browsers = {here, there}
  BrowserOf <- MCBrowserOf
  MaxTokens = 3
  MaxLinks = 2
  MaxCalls = 4
  MaxFaults = 1
SYMMETRY TabSymmetry
INVARIANTS
  TypeOK
  StaleSessionsEnd
  SessionsCounted
  RotationArrives
  LinksCounted
CHECK_DEADLOCK FALSE
