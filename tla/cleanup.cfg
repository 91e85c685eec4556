SPECIFICATION Spec
CONSTANTS
  m1 = m1
  r1 = r1
  r2 = r2
  w1 = w1
  Message = {m1}
  Requests = {r1, r2}
  Pipeline = {w1}
  MaxActions = 3
  MaxRequests = 3
  MaxFaults = 1
SYMMETRY RequestSymmetry
INVARIANTS
  TypeOK
  ProposalsBounded
  DeletesUndoable
  NoFalseRestore
PROPERTY
  EvidenceStays
CHECK_DEADLOCK FALSE
