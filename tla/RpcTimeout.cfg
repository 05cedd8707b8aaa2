\* One worker thread and room for one worker: of two calls one can be refused.
SPECIFICATION FairSpec
CONSTANTS
  Calls = {c1, c2}
  Known = {c1, c2}
  Fitting = {c1, c2}
  NumFds = 2
  MaxThreads = 1
  InitThreads = 1
  MaxWaiting = 1
  Pill = Pill
  None = None
PROPERTY EveryCallReturns
\* With every call returned nothing happens; refused calls wait for ever.
CHECK_DEADLOCK FALSE
