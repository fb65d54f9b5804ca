\* One API process and one fault.
SPECIFICATION Spec
CONSTANTS
  N = 1
  w1 = w1
  w2 = w2
  Workers <- OneProcess
  NoWorker = NoWorker
  MaxAttempts = 2
  MaxStalls = 1
  MaxFaults = 1
INVARIANT SettledBatchIsClosed
CHECK_DEADLOCK FALSE
