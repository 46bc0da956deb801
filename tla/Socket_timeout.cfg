CONSTANTS
  NULL = NULL
  Thread = {t1, t2}
  Port = {1}
  MAX_SCB = 3
  MAX_PIPES = 2
  MAX_REFS = 1
SPECIFICATION Spec
PROPERTY ConnectedByConnect
CHECK_DEADLOCK FALSE
