------------------------------ MODULE ProcInfo ------------------------------
(***************************************************************************)
(* An information stream (kernel_proc.c:361-510): OpenInfo, and Reads that *)
(* each return a procinfo.  The process table changes between the Reads,   *)
(* as ProcessTree allows, which Process implements; its FREE PCBs are in   *)
(* the free list, in the order of `free', by their parent fields.          *)
(*                                                                         *)
(* Of what procinfo_read copies from the PCB it stops at (thread_count,    *)
(* main_task, argl, args) the model keeps whose it is, in `of'.            *)
(***************************************************************************)
EXTENDS Integers, Sequences, SequencesExt

CONSTANTS MAX_PROC, NULL

InfoAssumption == MAX_PROC \in Nat /\ MAX_PROC >= 2 /\ NULL \notin Int

VARIABLES
  state, parent,    \* of ProcessTree
  free,
  stream,           \* "closed", "open", or "end" when Read has returned -1
  PT_cursor, process_info,
  reported,         \* whose the procinfos are that were returned since OpenInfo
  stayed            \* the PCBs in use all the time since then

table    == <<state, parent, free>>
infoVars == <<table, stream, PT_cursor, process_info, reported, stayed>>

Pid    == 1 .. MAX_PROC - 1
NOPROC == -1

Tree == INSTANCE ProcessTree WITH INIT <- 1

\* The idle process is not in the tree, and is there from boot on.
Used(p) == p = 0 \/ state[p] # "FREE"

Zeros == [pid |-> 0, ppid |-> 0, alive |-> 0, of |-> NULL]

Init ==
  /\ Tree!Init
  /\ free = [k \in 1 .. MAX_PROC - 2 |-> k + 1]
  /\ stream = "closed" /\ PT_cursor = 0 /\ process_info = Zeros
  /\ reported = <<>> /\ stayed = {}

\* Exec, the end of a process, and cleanup_zombie.
TableStep ==
  /\ \/ /\ free # <<>> /\ free' = Tail(free)
        /\ \E p \in Pid : Tree!Begin(p, Head(free))
     \/ \E p \in Pid : Tree!End(p) /\ free' = free
     \/ \E p \in Pid : Tree!Collect(p) /\ free' = <<p>> \o free
  /\ stayed' = {p \in stayed : p = 0 \/ state'[p] # "FREE"}
  /\ UNCHANGED <<stream, PT_cursor, process_info, reported>>

sys_OpenInfo ==
  /\ stream = "closed" /\ stream' = "open"
  /\ stayed' = {p \in 0 .. MAX_PROC - 1 : Used(p)}
  /\ UNCHANGED <<table, PT_cursor, process_info, reported>>

\* get_pid(cur_pcb->parent): a FREE PCB has its successor in the free list.
ppid(p) ==
  LET next == {k \in 2 .. Len(free) : free[k - 1] = p}
      field == IF p = 0 THEN NULL
               ELSE IF Used(p) THEN parent[p]
               ELSE IF next = {} THEN NULL ELSE free[CHOOSE k \in next : TRUE]
  IN  IF field = NULL THEN NOPROC ELSE field

\* Where the loop over the FREE PCBs stops.
Stop_Twice(p) == IF Used(p) THEN p ELSE p + 2

Stop(p) ==
  CHOOSE q \in p .. MAX_PROC :
    /\ q < MAX_PROC => Used(q)
    /\ \A r \in p .. q - 1 : ~Used(r)

\* alive is set only when the loop is not entered.
alive(p) ==
  IF ~Used(p) THEN process_info.alive
  ELSE IF p # 0 /\ state[p] = "ZOMBIE" THEN 0 ELSE 1

procinfo_read ==
  LET cur == Stop(PT_cursor)
  IN
  /\ stream = "open" /\ PT_cursor < MAX_PROC
  /\ \/ /\ cur < MAX_PROC
        /\ process_info' = [pid |-> PT_cursor, ppid |-> ppid(PT_cursor),
                            alive |-> alive(PT_cursor), of |-> cur]
        /\ PT_cursor' = cur + 1
        /\ reported' = Append(reported, cur)
        /\ UNCHANGED stream
     \/ /\ cur >= MAX_PROC
        /\ process_info' = [process_info EXCEPT !.pid = PT_cursor, !.ppid = ppid(PT_cursor)]
        /\ PT_cursor' = cur /\ stream' = "end"
        /\ UNCHANGED reported
  /\ UNCHANGED <<table, stayed>>

\* A Read at the end of the table.
AtEnd ==
  /\ stream = "open" /\ PT_cursor >= MAX_PROC
  /\ stream' = "end"
  /\ UNCHANGED <<table, PT_cursor, process_info, reported, stayed>>

procinfo_close ==
  /\ stream # "closed" /\ stream' = "closed"
  /\ PT_cursor' = 0 /\ process_info' = Zeros /\ reported' = <<>> /\ stayed' = {}
  /\ UNCHANGED table

Read == procinfo_read \/ AtEnd

Next == TableStep \/ sys_OpenInfo \/ Read \/ procinfo_close

Spec == Init /\ [][Next]_infoVars

-----------------------------------------------------------------------------
\* A stream reports no PCB twice, and misses none that was in use all along,
\* whatever processes begin and end between the Reads (kernel_proc.c:397-497,
\* tinyos.h:745-754).
InfoComplete ==
  /\ \A i, j \in DOMAIN reported : i < j => reported[i] < reported[j]
  /\ \A p \in stayed : p < PT_cursor => p \in Range(reported)

\* What tinyos.h:709-713 and 749 say: a procinfo is about one used PCB, and
\* says of that PCB who it is.
InfoOfUsedPCB ==
  [][reported' # reported /\ stream' = "open" => process_info'.pid = Last(reported')]_infoVars

=============================================================================
