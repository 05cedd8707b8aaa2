\* Fewer descriptors than calls, so numbers are reused; room for one worker,
\* so that the pool refuses some.
SPECIFICATION Spec
CONSTANTS
  Calls = {c1, c2, c3}
  Known = {c1, c2}
  Fitting = {c1}
  NumFds = 2
  MaxThreads = 2
  InitThreads = 2
  MaxWaiting = 1
  Pill = Pill
  None = None
INVARIANTS TypeOK OneReader DescriptorsStayMine AnswersFit
\* With every call returned nothing happens; refused calls wait for ever.
CHECK_DEADLOCK FALSE
