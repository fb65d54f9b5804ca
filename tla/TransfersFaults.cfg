\* One API process that crashes, stalls or loses its database.
SPECIFICATION FairSpec
CONSTANTS
  N = 2
  w1 = w1
  w2 = w2
  Workers <- OneProcess
  NoWorker = NoWorker
  MaxAttempts = 2
  MaxStalls = 1
  MaxFaults = 2
PROPERTY JobsEnd
CHECK_DEADLOCK FALSE
