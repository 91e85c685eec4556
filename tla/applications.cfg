SPECIFICATION Spec
CONSTANTS
  e1 = e1
  e2 = e2
  c1 = c1
  c2 = c2
  s1 = s1
  s2 = s2
  Emails = {e1, e2}
  NoEmail = NoEmail
  Cycles = {c1, c2}
  NoCycle = NoCycle
  Resembles <- Resembling
  Readings <- TwoReadings
  Analysts = {a1}
  Slots = {s1, s2}
  User = User
  Overrides = {"APPLIED"}
  Enabled = {"link", "create", "ignore", "not_job", "correct", "override", "merge", "reprocess", "crash", "stall", "fail", "refuse", "overlook"}
  MaxRequests = 1
  MaxFaults = 1
CHECK_DEADLOCK FALSE
INVARIANTS TypeOK DuplicatesBounded TimelineReflected EvidenceOfFiling NeverStranded
PROPERTIES ForwardUnlessStale
SYMMETRY SlotSymmetry
