CONSTANTS
  Parts = {"streams", "info", "lists", "args"}
  NULL = NULL
  Process = {p1, p2}
  Thread = {p1, p2}
  owner <- TheOwner
  InitProcess = p1
  MAX_FILEID = 3
  MAX_FILES = 3
  Stream = {s1, s2}
  MAX_PROC = 5
  List = {la, lb}
  Node = {n1, n2, n3}
  Char = {1}
  MaxLength = 2
  MaxArgs = 3
  PROCINFO_MAX_ARGS_SIZE = 6
SPECIFICATION TablesSpec
SYMMETRY StreamSymmetry
CHECK_DEADLOCK FALSE
INVARIANTS FCBAccounting  ArgsArrive
PROPERTIES RefinesFiles 
