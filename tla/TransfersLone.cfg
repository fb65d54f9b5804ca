\* One API process, providers fail at will, nothing else does.
SPECIFICATION FairSpec
CONSTANTS
  N = 3
  w1 = w1
  w2 = w2
  Workers <- OneProcess
  NoWorker = NoWorker
  MaxAttempts = 3
  MaxStalls = 1
  MaxFaults = 0
INVARIANT RestingBatchIsSummary
PROPERTIES KeepsPromise AcceptedBatchCloses
CHECK_DEADLOCK FALSE
