SPECIFICATION FairSpec
CONSTANTS
  s1 = s1
  s2 = s2
  m1 = m1
  Slots = {s1}
  Manual = {m1}
  MaxMessages = 1
  HistoryPage = 1
  MaxScan = 1
  MaxRequests = 1
  MaxFaults = 0
PROPERTY
  DueIsScanned
CHECK_DEADLOCK FALSE
