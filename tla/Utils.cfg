SPECIFICATION Spec
CONSTANTS
  Callers = {t1, t2}
  Loggers = {l1}
  NoSlot = NoSlot
  MaxLogQueue = 2
  MaxLoggers = 1
  MaxLogs = 2
  k1 = k1
  k2 = k2
  k3 = k3
  short = short
  long = long
  HashKeys = {k1, k2, k3}
  HashOf <- MCHashOf
  HashSize = 2
  HashValues = {short, long}
  ValueLen <- MCValueLen
  Rooms = {1, 2}
  NotFound = NotFound
  RingSize = 7
  Chunk = 3
  MaxPieces = 4
  FBLen = 2
  MaxDepth = 2
  RpcMessages <- MCRpcMessages
  Expects <- MCExpects
  IntLen = 2
INVARIANTS UtilsTypeOK NothingLost ValuesFit ChunkIsFree ItemsWhole AnswerDeserved
PROPERTIES PrintsToOpenFiles LoggedIsWritten StopEnds HashIsMap RoomComes FastBitIsSet ReadEnds
CHECK_DEADLOCK FALSE
