-------------------------------- MODULE Args --------------------------------
(***************************************************************************)
(* How a program gets its arguments: Execute packs them in a buffer with   *)
(* the pointer to the program (tinyoslib.c:148-168, util.h:599-631), Exec  *)
(* hands the buffer to the new process, and exec_wrapper unpacks it;       *)
(* ParseProcInfo unpacks the copy that an information stream returns.      *)
(*                                                                         *)
(* A string is a sequence of characters that are not 0, and the pointer    *)
(* takes one cell of a buffer.                                             *)
(***************************************************************************)
EXTENDS Integers, Sequences, SequencesExt, FiniteSets

CONSTANTS Char, MaxLength, MaxArgs, PROCINFO_MAX_ARGS_SIZE

ArgsAssumption == 0 \notin Char /\ {MaxLength, MaxArgs, PROCINFO_MAX_ARGS_SIZE} \subseteq Nat

VARIABLES
  given,       \* the argv of Execute
  args,        \* the buffer of the process
  called,      \* the argv of its main function, in a set (empty before)
  parsed       \* what ParseProcInfo returns, and leaves in argv, likewise

argsVars == <<given, args, called, parsed>>

Strings == UNION {[1 .. k -> Char] : k \in 0 .. MaxLength}
Argv    == UNION {[1 .. k -> Strings] : k \in 0 .. MaxArgs}

\* The loops of argvlen and argvpack, over the first k strings.
Lengths(argv) ==
  LET lengths[k \in 0 .. Len(argv)] ==
        IF k = 0 THEN 0 ELSE lengths[k - 1] + Len(argv[k]) + 1
  IN  lengths

argvlen(argv) == Lengths(argv)[Len(argv)]

Copied_Short(s) == s

\* A string with its zero.
Copied(s) == Append(s, 0)

Packed(argv) ==
  LET packed[k \in 0 .. Len(argv)] ==
        IF k = 0 THEN <<>> ELSE packed[k - 1] \o Copied(argv[k])
  IN  packed

argvpack(argv) == Packed(argv)[Len(argv)]

argscount(buf) == Cardinality({i \in DOMAIN buf : buf[i] = 0})

\* The end of the string that begins at i.
Zero(buf, i) ==
  CHOOSE j \in i .. Len(buf) : buf[j] = 0 /\ \A h \in i .. j - 1 : buf[h] # 0

\* The k-th string begins after the zero of the one before it.
Starts(argc, buf) ==
  LET start[k \in 1 .. argc] == IF k = 1 THEN 1 ELSE Zero(buf, start[k - 1]) + 1
  IN  start

argvunpack(argc, buf) ==
  [k \in 1 .. argc |->
     SubSeq(buf, Starts(argc, buf)[k], Zero(buf, Starts(argc, buf)[k]) - 1)]

Init ==
  /\ given \in Argv
  /\ args = <<>> /\ called = {} /\ parsed = {}

\* The buffer has argvlen(argv) bytes besides the pointer.
Execute ==
  /\ args = <<>>
  /\ args' = <<"prog">> \o argvpack(given)
  /\ UNCHANGED <<given, called, parsed>>

exec_wrapper ==
  /\ args # <<>> /\ called = {}
  /\ called' = {argvunpack(argscount(Tail(args)), Tail(args))}
  /\ UNCHANGED <<given, args, parsed>>

ParseProcInfo(argc) ==
  LET buf == Tail(args)
      N   == argscount(buf)
  IN
  /\ args # <<>>
  /\ parsed' = IF Len(args) > PROCINFO_MAX_ARGS_SIZE THEN {[n |-> -1, argv |-> <<>>]}
               ELSE {[n |-> N, argv |-> argvunpack(IF argc > N THEN N ELSE argc, buf)]}
  /\ UNCHANGED <<given, args, called>>

Next == Execute \/ exec_wrapper \/ \E argc \in 0 .. MaxArgs : ParseProcInfo(argc)

Spec == Init /\ [][Next]_argsVars

-----------------------------------------------------------------------------
\* A program is called with the arguments given to Execute, empty strings
\* included, from a buffer that they just fill; and ParseProcInfo finds them, when
\* they all fit in the procinfo (tinyoslib.c:95-168, util.h:599-674).
ArgsArrive ==
  /\ called \subseteq {given}
  /\ args # <<>> => Len(args) = argvlen(given) + 1
  /\ \A p \in parsed :
       \/ p.n = -1 /\ argvlen(given) >= PROCINFO_MAX_ARGS_SIZE
       \/ p.n = Len(given) /\ IsPrefix(p.argv, given)

=============================================================================
