SPECIFICATION Spec
CONSTANTS
  w1 = w1
  w2 = w2
  d1 = d1
  d2 = d2
  Workers = {w1, w2}
  Dispatchers = {d1}
  NoWorker = NoWorker
  Ladders <- MixedLadders
  MaxStage = 1
  MaxAttempts = 2
  MaxQueued = 1
  Enabled <- SafetyEvents
  MaxEvents = 2
  MaxFaults = 1
SYMMETRY Symmetric
INVARIANTS TypeOK NoStageSkipped StopIsHeard ContactsBounded
PROPERTIES KeepsPromise
