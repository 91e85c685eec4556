SPECIFICATION FairSpec
CONSTANTS
  w1 = w1
  w2 = w2
  d1 = d1
  d2 = d2
  Workers = {w1}
  Dispatchers = {d1}
  NoWorker = NoWorker
  Ladders <- FullLadder
  MaxStage = 2
  MaxAttempts = 5
  MaxQueued = 1
  Enabled <- FireEvents
  MaxEvents = 1
  MaxFaults = 0
PROPERTIES LadderSurvivesSlack
