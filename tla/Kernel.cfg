CONSTANTS
  Parts = {"lock", "process"}
  Thread = {t1, t2, t3}
  WChan = {w1, w2}
  kernel_sem_cv = kernel_sem_cv
  NULL = NULL
  MAX_PROC = 5
  ProcThread = {u1, u2, u3, u4}
  SharesChildren = FALSE
SPECIFICATION KernelSpec
SYMMETRY KernelSymmetry
INVARIANTS  NoLostWakeup Family ThreadsCounted NoMissedExit
PROPERTIES RefinesMonitor RefinesTree
