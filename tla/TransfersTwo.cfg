\* Two API processes, one fault of any kind.
SPECIFICATION Spec
CONSTANTS
  N = 2
  w1 = w1
  w2 = w2
  Workers <- TwoProcesses
  NoWorker = NoWorker
  MaxAttempts = 2
  MaxStalls = 1
  MaxFaults = 1
SYMMETRY Processes
INVARIANTS TypeOK CompletedHasDetails JobMatchesItem OneSyncPerItem
PROPERTY CompletedStays
CHECK_DEADLOCK FALSE
