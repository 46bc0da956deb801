CONSTANTS
  NULL = NULL
  Thread = {t1, t2}
  Port = {1}
  MAX_SCB = 4
  MAX_PIPES = 2
  MAX_REFS = 1
SPECIFICATION FairSpec
INVARIANT SocketsSound
PROPERTIES CallsAnswered EOFDelivered
CHECK_DEADLOCK FALSE
