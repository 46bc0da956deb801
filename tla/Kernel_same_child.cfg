CONSTANTS
  Parts = {"process"}
  Thread = {t1, t2, t3}
  WChan = {w1, w2}
  kernel_sem_cv = kernel_sem_cv
  NULL = NULL
  MAX_PROC = 4
  ProcThread = {u1, u2, u3}
  SharesChildren = TRUE
SPECIFICATION KernelSpec
INVARIANT FreeList
