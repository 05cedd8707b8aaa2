\* The queue has room for one entry: of two pills one can be dropped.
SPECIFICATION FairSpec
CONSTANTS
  MaxThreads = 2
  InitThreads = 2
  MaxWaiting = 1
  Jobs = {j1}
  Pill = Pill
PROPERTY RemovedThreadsLeave
CHECK_DEADLOCK FALSE
