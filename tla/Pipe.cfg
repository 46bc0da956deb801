SPECIFICATION FairSpec
CONSTANTS
  Thread = {t1, t2, t3}
  Byte = {a}
  PIPE_BUFFER_SIZE = 3
  MaxSize = 2
  MaxFids = 2
  NULL = NULL
INVARIANTS Lifetime NoMissedBroadcast
PROPERTIES RefinesStream CloseReleases
