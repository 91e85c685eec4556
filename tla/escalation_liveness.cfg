SPECIFICATION FairSpec
CONSTANTS
  w1 = w1
  w2 = w2
  d1 = d1
  d2 = d2
  Workers = {w1, w2}
  Dispatchers = {d1}
  NoWorker = NoWorker
  Ladders <- LongLadders
  MaxStage = 1
  MaxAttempts = 5
  MaxQueued = 1
  Enabled <- LivenessEvents
  MaxEvents = 1
  MaxFaults = 1
PROPERTIES NeverDropped
