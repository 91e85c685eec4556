SPECIFICATION Spec
CONSTANTS
  s1 = s1
  s2 = s2
  m1 = m1
  Slots = {s1, s2}
  Manual = {m1}
  MaxMessages = 2
  HistoryPage = 1
  MaxScan = 2
  MaxRequests = 2
  MaxFaults = 1
SYMMETRY SlotSymmetry
INVARIANTS
  TypeOK
  CursorCovers
  HandedOver
  ScanNeedsConsent
CHECK_DEADLOCK FALSE
