SPECIFICATION FairSpec
CONSTANTS
  Followed <- MCFollowed
  Chased = {"settings", "me"}
  MaxClicks = 2
  MaxFaults = 1
INVARIANTS
  TypeOK
  EditsKept
PROPERTY
  CatchesUp
CHECK_DEADLOCK FALSE
