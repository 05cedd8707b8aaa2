\* Two calls, one of an unknown function; a full queue refuses the second.
SPECIFICATION FairSpec
CONSTANTS
  Calls = {c1, c2}
  Known = {c1}
  Fitting = {c1}
  NumFds = 2
  MaxThreads = 2
  InitThreads = 2
  MaxWaiting = 1
  Pill = Pill
  None = None
PROPERTIES AcceptedCallsReturn
\* With every call returned nothing happens; refused calls wait for ever.
CHECK_DEADLOCK FALSE
