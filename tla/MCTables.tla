------------------------------- MODULE MCTables -------------------------------
(***************************************************************************)
(* An instance for TLC of Streams, ProcInfo, Rlist and Args.  One part     *)
(* runs in each behaviour, and the others stay in an initial state.        *)
(***************************************************************************)
EXTENDS Streams, TLC

CONSTANTS
  Parts,                               \* the parts that run
  MAX_PROC,
  List, Node,
  Char, MaxLength, MaxArgs, PROCINFO_MAX_ARGS_SIZE

VARIABLES
  part,
  state, parent, free, stream, PT_cursor, process_info, reported, stayed,
  next, prev,
  given, args, called, parsed

infoVars ==
  <<state, parent, free, stream, PT_cursor, process_info, reported, stayed>>
listVars == <<next, prev>>
argsVars == <<given, args, called, parsed>>

tablesVars == <<part, vars, infoVars, listVars, argsVars>>

\* Two processes of one thread each use the streams.
TheOwner == [t \in Thread |-> t]

\* One node of the lists has a key of its own; the predicate is true of the others.
key    == [x \in Node |-> IF x = CHOOSE y \in Node : TRUE THEN 1 ELSE 0]
Chosen == {x \in Node : key[x] = 0}

In == INSTANCE ProcInfo
Rl == INSTANCE Rlist
Ar == INSTANCE Args

ASSUME TablesAssumption ==
  StreamsAssumption /\ In!InfoAssumption /\ Rl!RlistAssumption /\ Ar!ArgsAssumption

StreamSymmetry == Permutations(Stream)

TablesInit ==
  /\ part \in Parts
  /\ Init /\ In!Init /\ Rl!Init
  /\ Ar!Init /\ (part = "args" \/ given = <<>>)

TablesNext ==
  /\ part' = part
  /\ IF part = "streams" THEN Next ELSE UNCHANGED vars
  /\ IF part = "info" THEN In!Next ELSE UNCHANGED infoVars
  /\ IF part = "lists" THEN Rl!Next ELSE UNCHANGED listVars
  /\ IF part = "args" THEN Ar!Next ELSE UNCHANGED argsVars

TablesSpec == TablesInit /\ [][TablesNext]_tablesVars

-----------------------------------------------------------------------------
\* kernel_proc.c: an information stream misses no process, and names none twice.
InfoComplete == In!InfoComplete

\* kernel_proc.c and tinyos.h: a procinfo is about one used PCB.
InfoOfUsedPCB == In!InfoOfUsedPCB

\* util.h: the rings are lists, and the operations do to them what they are for.
ListsWork ==
  /\ [](part = "lists" => Rl!TypeOK /\ Rl!WellLinked)
  /\ Rl!Lists!Init
  /\ [][part = "lists" => Rl!ListStep]_listVars

\* tinyoslib.c and util.h: a program gets its arguments.
ArgsArrive == Ar!ArgsArrive

=============================================================================
