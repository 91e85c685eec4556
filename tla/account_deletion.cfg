SPECIFICATION FairSpec
CONSTANTS
  j1 = j1
  w1 = w1
  d1 = d1
  d2 = d2
  Job = {j1}
  Workers = {w1}
  Deletions = {d1, d2}
  MaxAdds = 1
  MaxFaults = 1
INVARIANTS
  TypeOK
  ReceiptIsTrue
  OnlyStragglers
  PurgeIsComplete
PROPERTY
  Settles
CHECK_DEADLOCK FALSE
