CONSTANTS
  Parts = {"serial", "symposium", "barrier", "server", "pipeline", "process",
           "lock", "harness", "terminal"}
  NULL = NULL
  Terminal = {0}
  Reader = {r1}
  Writer = {w1}
  BufferSize = 2
  FifoSize = 1
  Nobody = Nobody
  N = 4
  bites = 2
  Party = {b1, b2, b3}
  n = 3
  MaxRounds = 3
  EpochSize = 2
  Conn = {c1, c2, c3}
  SizeT = 8
  MaxFrags = 3
  MaxLines = 2
  MAX_FILEID = 8
  PIPE_BUFFER_SIZE = 1
  Amount = 3
  tty = 1
  MAX_PROC = 4
  Thread = {t1, t2, t3}
  Locker = {l1, l2, l3, l4}
  kernel_sem_cv = kernel_sem_cv
  MaxTests = 2
  MaxPatterns = 1
  FifoRoom = 1
  Room = 1
  MaxChars = 1
  MaxBoots = 2
SPECIFICATION Spec
CHECK_DEADLOCK FALSE
PROPERTIES SerialServed PhilosophersDine BarrierHolds ServerEnds LineRuns ProcessesEnd LockGoesOn HarnessWorks
