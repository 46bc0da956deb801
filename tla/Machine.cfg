CONSTANTS
  NULL = NULL
  ncores = 2
  physical_cores = 2
  MaxAlarms = 2
  Thread = {t1}
SPECIFICATION Spec
INVARIANTS PendingSeen TimeSlicesEnd RestartSeen
