\* Every rank has a thread, so nothing but exiting threads fills ptp->finished.
SPECIFICATION Spec
CONSTANTS
  MaxThreads = 2
  InitThreads = 2
  MaxWaiting = 4
  Jobs = {j1}
  Pill = Pill
INVARIANT QueuesOutliveThreads
