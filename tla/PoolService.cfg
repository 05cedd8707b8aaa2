\* One spare rank, and a queue that the jobs can fill, so that jobs are
\* refused and pills dropped.
SPECIFICATION FairSpec
CONSTANTS
  MaxThreads = 3
  InitThreads = 2
  MaxWaiting = 2
  Jobs = {j1, j2, j3}
  Pill = Pill
INVARIANTS TypeOK SemMakesAssertTrue StopDrains FinishedRanksAreFree
PROPERTIES AcceptedJobsFinish StopTerminates
\* stop really hangs when a pill was dropped, see PoolStopHangs.cfg.
CHECK_DEADLOCK FALSE
