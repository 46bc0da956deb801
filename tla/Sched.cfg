SPECIFICATION Spec
CONSTANTS
  t1 = t1
  t2 = t2
  t3 = t3
  c1 = c1
  c2 = c2
  NULL = NULL
  Thread <- ThreeThreads
  Core <- TwoCores
  InitThread = t1
  MAX_PRIORITIES = 1
  MAX_YIELDS = 2
  YieldCauses = {}
  SleepCauses = {"OTHER"}
  Timeouts = {0, 1}
  MaxClock = 2
SYMMETRY SpareThreads
CHECK_DEADLOCK FALSE
INVARIANTS
  QueueInvariant
  ContextIntegrity
  ActiveThreads
  SchedAssertions
PROPERTY WakeupSticks
