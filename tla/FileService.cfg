\* A data server and a client, or two data servers, which all may die; the
\* meta server too.
SPECIFICATION FairSpec
CONSTANTS
  Servers = {d1, d2}
  Clients = {c1}
  Installations <- MCInstallations
  None = None
  d1 = d1
  d2 = d2
  c1 = c1
  MaxFds <- MCMaxFds
  MaxWrites = 2
  MaxStarts <- MCMaxStarts
  MaxMetaStarts = 2
INVARIANTS TypeOK EnteredAfterPut AckedEntered WritesTile
PROPERTIES SoleServerFound WritesReturn
\* The servers may stop for good, and a client need not write.
CHECK_DEADLOCK FALSE
