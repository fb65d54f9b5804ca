\* Two API processes, no fault.
SPECIFICATION Spec
CONSTANTS
  N = 2
  w1 = w1
  w2 = w2
  Workers <- TwoProcesses
  NoWorker = NoWorker
  MaxAttempts = 1
  MaxStalls = 1
  MaxFaults = 0
INVARIANT SettledBatchIsClosed
CHECK_DEADLOCK FALSE
