------------------------------ MODULE MCLiveness ------------------------------
(***************************************************************************)
(* An instance for TLC of the modules whose liveness is checked, Sched,    *)
(* Pipe, Socket and Machine excepted, which have runs of their own.  One   *)
(* part runs in each behaviour, and the others stay in an initial state,   *)
(* which is one of their behaviours too: a property of a part holds here   *)
(* if and only if it holds of the part alone.                              *)
(***************************************************************************)
EXTENDS Integers, FiniteSets, Sequences

CONSTANTS
  Parts,                               \* the parts that run
  NULL,
  Terminal, Reader, Writer, BufferSize, FifoSize, Nobody,
  N, bites,
  Party, n, MaxRounds, EpochSize,
  Conn, SizeT,
  MaxFrags, MaxLines, MAX_FILEID, PIPE_BUFFER_SIZE, Amount, tty,
  MAX_PROC, Thread,
  Locker, kernel_sem_cv,
  MaxTests, MaxPatterns, FifoRoom,
  Room, MaxChars, MaxBoots

VARIABLES
  part,
  at, in_kernel, count, kbd, con, ready, late, pic, selected, rx_pending,
  state, seat, bitten, host,
  bar_count, bar_epoch, step, my_epoch, met,
  console, listening, listener_socket, quit, active_conn, total_conn,
  conn_id_counter, log, old_conn, conn, torn, early,
  lines, frags, kind, doing, frag, fidt, savein, saveout, pipe_read, child,
  child_fidt, held, buffered, shown,
  pstate, parent, children_list, exited_list, threadCounter, PTCB_List,
  pcb_freelist, child_exit, allocated, exited, detached, refcount, exit_cv,
  owner_pcb, kernel, proc_pc, target,
  kernel_mutex, kernel_sem, waitset, waitset_lock, signalled, removed,
  asleep, timed, pc, goal, cv, ret,
  test, waiter, pending, alarm, signo, main, FLAG_FAILURE, daemon, complete,
  pattern, fifo, oldcomplete, asked,
  vm, boots, place, polled, readied, err, chars, made, seen

serialVars ==
  <<at, in_kernel, count, kbd, con, ready, late, pic, selected, rx_pending>>
symposiumVars ==
  <<state, seat, bitten, host>>
barrierVars ==
  <<bar_count, bar_epoch, step, my_epoch, met>>
serverVars ==
  <<console, listening, listener_socket, quit, active_conn, total_conn,
    conn_id_counter, log, old_conn, conn, torn, early>>
pipelineVars ==
  <<lines, frags, kind, doing, frag, fidt, savein, saveout, pipe_read,
    child, child_fidt, held, buffered, shown>>
processVars ==
  <<pstate, parent, children_list, exited_list, threadCounter, PTCB_List,
    pcb_freelist, child_exit, allocated, exited, detached, refcount,
    exit_cv, owner_pcb, kernel, proc_pc, target>>
lockVars ==
  <<kernel_mutex, kernel_sem, waitset, waitset_lock, signalled, removed,
    asleep, timed, pc, goal, cv, ret>>

harnessVars ==
  <<test, waiter, pending, alarm, signo, main, FLAG_FAILURE, daemon,
    complete, pattern, fifo, oldcomplete, asked>>
terminalVars ==
  <<vm, boots, place, polled, readied, err, chars, made, seen>>

partsVars ==
  <<part, serialVars, symposiumVars, barrierVars, serverVars, pipelineVars,
    processVars, lockVars, harnessVars, terminalVars>>

\* All the readers and writers are at one terminal.
TerminalOf == [t \in Reader \cup Writer |-> CHOOSE d \in Terminal : TRUE]

Se == INSTANCE Serial
Sy == INSTANCE Symposium
Ba == INSTANCE Barrier
Re == INSTANCE RemoteServer
Li == INSTANCE Pipeline
Pr == INSTANCE Process WITH pc <- proc_pc, SharesChildren <- FALSE
Lo == INSTANCE KernelLock WITH Thread <- Locker, WChan <- {}
Ha == INSTANCE Harness
Te == INSTANCE Terminal WITH at <- place, ready <- readied

ASSUME Se!SerialAssumption /\ Sy!SymposiumAssumption /\ Ba!BarrierAssumption
ASSUME Re!ServerAssumption /\ Li!PipelineAssumption /\ Ha!HarnessAssumption
ASSUME Te!TerminalAssumption

-----------------------------------------------------------------------------
\* A part that does not run stays in one of its initial states.
Init ==
  /\ part \in Parts
  /\ Se!Init /\ Sy!Init /\ Ba!Init /\ Re!Init /\ Li!Init /\ Lo!Init /\ Ha!Init
  /\ Te!Init
  /\ Pr!Init /\ (part = "process" \/ allocated[CHOOSE t \in Thread : TRUE])

Next ==
  /\ part' = part
  /\ IF part = "serial" THEN Se!Next ELSE UNCHANGED serialVars
  /\ IF part = "symposium" THEN Sy!Next ELSE UNCHANGED symposiumVars
  /\ IF part = "barrier" THEN Ba!Next ELSE UNCHANGED barrierVars
  /\ IF part = "server" THEN Re!Next ELSE UNCHANGED serverVars
  /\ IF part = "pipeline" THEN Li!Next ELSE UNCHANGED pipelineVars
  /\ IF part = "process" THEN Pr!Next ELSE UNCHANGED processVars
  /\ IF part = "lock" THEN Lo!Next ELSE UNCHANGED lockVars
  /\ IF part = "harness" THEN Ha!Next ELSE UNCHANGED harnessVars
  /\ IF part = "terminal" THEN Te!Next ELSE UNCHANGED terminalVars

Spec == Init /\ [][Next]_partsVars

-----------------------------------------------------------------------------
\* kernel_dev.c: nobody waits for ever for a byte that has come, nor for room;
\* terminal.c, at the other end: characters pass, and a terminal whose machine has
\* gone shows what it wrote and waits for the next one.
SerialServed ==
  /\ [](Se!TypeOK /\ Te!TypeOK /\ Te!ShownFirst)
  /\ part = "serial" /\ Se!Fairness => Se!ByteIsSeen /\ Se!WriteReturns
  /\ part = "terminal" /\ Te!Fairness => Te!CharsPass /\ Te!Disconnects

\* symposium.c: the forks are shared out, and the table outlives its guests.
PhilosophersDine ==
  /\ [](Sy!TypeOK /\ Sy!Forks /\ Sy!HungryHasCause /\ Sy!FreedLast)
  /\ part = "symposium" /\ Sy!Fairness => Sy!Ends

\* tinyoslib.c: BarrierSync waits for all, and lets all go.
BarrierHolds ==
  [](Ba!TypeOK /\ Ba!Meets) /\ (part = "barrier" /\ Ba!Fairness => Ba!AllPass)

\* tinyos_shell.c: the remote server counts its clients and ends after them.
ServerEnds ==
  [](Re!TypeOK /\ Re!ConnsCounted /\ Re!QuitAlone) /\ (part = "server" /\ Re!Fairness => Re!QuitEnds)

\* tinyos_shell.c: a command line leaves the shell's files as they were, passes
\* every character on, and ends.
LineRuns ==
  /\ [](Li!TypeOK /\ Li!FidsRestored /\ Li!OneWriter /\ Li!NothingLost)
  /\ part = "pipeline" /\ Li!Fairness => Li!LineEnds

\* kernel_threads.c and kernel_proc.c: joins return, and init collects its
\* children.
ProcessesEnd ==
  [](Pr!TypeOK) /\ (part = "process" /\ Pr!Fairness => Pr!JoinReturns /\ Pr!InitCollects)

\* kernel_cc.c: nobody sleeps for the kernel while it stays free, and the waiters
\* are in their rings.
LockGoesOn ==
  /\ [](Lo!TypeOK /\ Lo!RingIntegrity /\ Lo!CvAssertion)
  /\ part = "lock" /\ Lo!Fairness => Lo!Progress

\* unit_testing.c: the tests all run, and each waits for its own signals.
HarnessWorks ==
  /\ part = "harness" => []Ha!OwnSignals
  /\ part = "harness" /\ Ha!Fairness => Ha!TestsRun
  /\ part = "harness" /\ Ha!ChildFairness => Ha!ClosesReturn

=============================================================================
