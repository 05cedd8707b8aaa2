\* Two puts and a get, each of which may meet a process of its own.
SPECIFICATION FairSpec
CONSTANTS
  small = small
  large = large
  getter = getter
  shipped = shipped
  closer = closer
  Clients <- MCClients
  Message <- MCMessage
  Addrs = {a1, a2}
  None = None
  MaxStarts = 3
  MaxForeign = 1
INVARIANTS TypeOK OneStorage StoredObjectsIntact AnswersAreOneObject
PROPERTIES ProcessSettles
\* After the last start and the one request it serves nothing happens.
CHECK_DEADLOCK FALSE
