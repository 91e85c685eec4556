SPECIFICATION Spec
CONSTANTS
  NoDeadline = NoDeadline
  n1 = n1
  n2 = n2
  n3 = n3
  n4 = n4
  n5 = n5
  n6 = n6
  Notifications = {n1, n2, n3, n4, n5, n6}
  Slots = 2
  Emails <- SomeEmails
  Settings <- SomeSettings
  MaxCap = 2
  HoursPerDay = 2
  Offset = 1
  FirstHour = 1
  LastHour = 2
  Faults <- SomeFaults
  MaxFaults = 1
SYMMETRY Symmetric
CHECK_DEADLOCK FALSE
INVARIANTS TypeOK DailyMaximum PermissionIsCurrent
