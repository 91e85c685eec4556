SPECIFICATION ChangesSpec
CONSTANTS
  NoDeadline = NoDeadline
  Analysed <- SomeEmails
  Defaults <- SchemaDefaults
  Deadlines <- SomeDeadlines
  Severities <- SomeSeverities
  EventSets <- SomeEvents
  CategorySets <- SomeCategories
INVARIANTS NeverBothWays
PROPERTIES AskingForLess PressureIsHeard
