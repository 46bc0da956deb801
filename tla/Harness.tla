------------------------------ MODULE Harness ------------------------------
(***************************************************************************)
(* How a test runs (unit_testing.c:164-584): execute_fork starts it in a   *)
(* child process and waits for SIGCHLD or SIGALRM; the child starts the    *)
(* two daemons of its terminal, boots the machine, and closes them when    *)
(* boot returns, or it hangs.                                              *)
(*                                                                         *)
(* A pattern is one character, which the test writes (or reads) at some    *)
(* time, rightly or wrongly.  sigwait returns the pending signal with the  *)
(* lowest number, which is SIGALRM.                                        *)
(***************************************************************************)
EXTENDS Naturals, FiniteSets, Sequences

CONSTANTS
  MaxTests,
  MaxPatterns,      \* how many times a test calls expect, and sendme
  FifoRoom          \* the characters that fit in a fifo

HarnessAssumption == {MaxTests, MaxPatterns, FifoRoom} \subseteq Nat \ {0}

VARIABLES
  test,             \* the number of tests begun
  waiter,           \* where execute_fork is, "dead" when a signal has killed it
  pending,          \* the blocked signals that have come
  alarm,            \* whether the alarm is set
  signo,
  main,             \* where the child is; "none" before fork and after waitpid
  FLAG_FAILURE,
  daemon,           \* where the two daemons are
  complete, pattern,
  fifo,             \* "con": the characters written, kbd: their number
  oldcomplete,
  asked             \* the calls of expect and sendme so far

waitVars    == <<test, waiter, pending, alarm, signo>>
proxyVars   == <<daemon, complete, pattern, fifo, oldcomplete>>
childVars   == <<main, FLAG_FAILURE, proxyVars, asked>>
harnessVars == <<waitVars, childVars>>

Proxy == {"con", "kbd"}
Ended == {"ok", "abort", "killed"}

Fresh(d) ==
  /\ daemon = [p \in Proxy |-> d] /\ complete = [p \in Proxy |-> FALSE]
  /\ pattern = [p \in Proxy |-> 0] /\ fifo = [con |-> <<>>, kbd |-> 0]
  /\ oldcomplete = FALSE /\ FLAG_FAILURE = FALSE /\ asked = [p \in Proxy |-> 0]

Init ==
  /\ test = 0 /\ waiter = "start" /\ pending = {} /\ alarm = FALSE /\ signo = "none"
  /\ main = "none" /\ Fresh("gone")

-----------------------------------------------------------------------------
(* The proxies of the child.                                               *)

Move(p, place) == daemon' = [daemon EXCEPT ![p] = place]

Fails == FLAG_FAILURE' = TRUE

\* term_proxy_daemon_get and the loop of term_proxy_daemon.
Get(p) ==
  /\ daemon[p] = "get"
  /\ \/ /\ pattern[p] > 0
        /\ pattern' = [pattern EXCEPT ![p] = @ - 1]
        /\ Move(p, "poll")
     \/ /\ pattern[p] = 0 /\ complete[p]
        /\ Move(p, "gone")
        /\ UNCHANGED pattern
  /\ UNCHANGED <<waitVars, main, FLAG_FAILURE, complete, fifo, oldcomplete, asked>>

\* con_proc reads what poll has found; ...
Matches ==
  /\ daemon["con"] = "poll" /\ fifo.con # <<>>
  /\ fifo' = [fifo EXCEPT !.con = Tail(@)]
  /\ IF Head(fifo.con) = "right" THEN UNCHANGED FLAG_FAILURE ELSE Fails
  /\ Move("con", "get")
  /\ UNCHANGED <<waitVars, main, complete, pattern, oldcomplete, asked>>

\* ... when it has found nothing, COMPLETE is tested after it.
NoData ==
  /\ daemon["con"] = "poll" /\ fifo.con = <<>>
  /\ Move("con", "nodata")
  /\ UNCHANGED <<waitVars, main, FLAG_FAILURE, complete, pattern, fifo, oldcomplete, asked>>

GivesUp == daemon["con"] = "nodata" /\ complete["con"]

TestsComplete ==
  /\ daemon["con"] = "nodata"
  /\ IF GivesUp THEN Fails /\ Move("con", "get")
     ELSE Move("con", "poll") /\ UNCHANGED FLAG_FAILURE
  /\ UNCHANGED <<waitVars, main, complete, pattern, fifo, oldcomplete, asked>>

\* kbd_proc waits for room or completion, ...
PollOut ==
  /\ daemon["kbd"] = "poll"
  /\ complete["kbd"] \/ fifo.kbd < FifoRoom
  /\ oldcomplete' = complete["kbd"]
  /\ Move("kbd", "write")
  /\ UNCHANGED <<waitVars, main, FLAG_FAILURE, complete, pattern, fifo, asked>>

\* ... and writes.
TypeIn ==
  /\ daemon["kbd"] = "write"
  /\ IF fifo.kbd < FifoRoom
     THEN /\ fifo' = [fifo EXCEPT !.kbd = @ + 1]
          /\ Move("kbd", "get") /\ UNCHANGED FLAG_FAILURE
     ELSE /\ IF oldcomplete THEN Fails /\ Move("kbd", "get")
             ELSE Move("kbd", "poll") /\ UNCHANGED FLAG_FAILURE
          /\ UNCHANGED fifo
  /\ UNCHANGED <<waitVars, main, complete, pattern, oldcomplete, asked>>

DaemonStep == (\E p \in Proxy : Get(p)) \/ Matches \/ NoData \/ TestsComplete \/ PollOut \/ TypeIn

-----------------------------------------------------------------------------
(* The child: boot_test_wrapper.                                           *)

JoinOf == [con |-> "join con", kbd |-> "join kbd"]

At(place, next) == main = place /\ main' = next

\* The test calls expect or sendme: term_proxy_daemon_add.
Ask(p) ==
  /\ main = "boot" /\ asked[p] < MaxPatterns
  /\ asked' = [asked EXCEPT ![p] = @ + 1]
  /\ pattern' = [pattern EXCEPT ![p] = @ + 1]
  /\ UNCHANGED <<waitVars, main, FLAG_FAILURE, daemon, complete, fifo, oldcomplete>>

\* It writes to the console and reads from the keyboard, if it does.
Write ==
  /\ main = "boot" /\ Len(fifo.con) < FifoRoom
  /\ \E c \in {"right", "wrong"} : fifo' = [fifo EXCEPT !.con = Append(@, c)]
  /\ UNCHANGED <<waitVars, main, FLAG_FAILURE, daemon, complete, pattern, oldcomplete, asked>>

ReadKey ==
  /\ main = "boot" /\ fifo.kbd > 0
  /\ fifo' = [fifo EXCEPT !.kbd = @ - 1]
  /\ UNCHANGED <<waitVars, main, FLAG_FAILURE, daemon, complete, pattern, oldcomplete, asked>>

BootReturns ==
  /\ At("boot", "con")
  /\ UNCHANGED <<waitVars, FLAG_FAILURE, proxyVars, asked>>

\* term_proxy_daemon_close, up to pthread_join ...
Completed(p) == [complete EXCEPT ![p] = TRUE]

Close(p) ==
  /\ At(p, JoinOf[p])
  /\ complete' = Completed(p)
  /\ UNCHANGED <<waitVars, FLAG_FAILURE, daemon, pattern, fifo, oldcomplete, asked>>

\* ... and from there.
Joined(p) ==
  /\ daemon[p] = "gone"
  /\ At(JoinOf[p], IF p = "con" THEN "kbd" ELSE "exit")
  /\ UNCHANGED <<waitVars, FLAG_FAILURE, proxyVars, asked>>

ChildExit ==
  /\ At("exit", IF FLAG_FAILURE THEN "abort" ELSE "ok")
  /\ pending' = pending \cup {"SIGCHLD"}
  /\ UNCHANGED <<test, waiter, alarm, signo, FLAG_FAILURE, proxyVars, asked>>

Closing == BootReturns \/ ChildExit \/ \E p \in Proxy : Close(p) \/ Joined(p)

Alive == main \notin Ended \cup {"none"}

Child == Alive /\ (DaemonStep \/ Closing \/ Write \/ ReadKey \/ \E p \in Proxy : Ask(p))

-----------------------------------------------------------------------------
(* execute_fork.                                                           *)

To(place, next) == waiter = place /\ waiter' = next

\* SIGCHLD is blocked.
Fork ==
  /\ To("start", "forked") /\ test < MaxTests
  /\ test' = test + 1
  /\ main' = "boot" /\ daemon' = [p \in Proxy |-> "get"]
  /\ complete' = [p \in Proxy |-> FALSE] /\ pattern' = [p \in Proxy |-> 0]
  /\ fifo' = [con |-> <<>>, kbd |-> 0] /\ oldcomplete' = FALSE
  /\ FLAG_FAILURE' = FALSE /\ asked' = [p \in Proxy |-> 0]
  /\ UNCHANGED <<pending, alarm, signo>>

\* SIGALRM is blocked, and the alarm set.
SetAlarm ==
  /\ To("forked", "armed")
  /\ alarm' = TRUE
  /\ UNCHANGED <<test, pending, signo, childVars>>

TimeOut ==
  /\ alarm /\ waiter # "dead"
  /\ alarm' = FALSE
  /\ pending' = pending \cup {"SIGALRM"}
  /\ UNCHANGED <<test, waiter, signo, childVars>>

SigWait ==
  /\ pending # {}
  /\ To("armed", "woken")
  /\ signo' = IF "SIGALRM" \in pending THEN "SIGALRM" ELSE "SIGCHLD"
  /\ pending' = pending \ {signo'}
  /\ UNCHANGED <<test, alarm, childVars>>

CancelAlarm ==
  /\ To("woken", "cancelled")
  /\ alarm' = FALSE
  /\ UNCHANGED <<test, pending, signo, childVars>>

Killed == signo = "SIGALRM" /\ Alive

Kill ==
  /\ To("cancelled", "waitpid")
  /\ IF Killed THEN main' = "killed" /\ pending' = pending \cup {"SIGCHLD"}
               ELSE UNCHANGED <<main, pending>>
  /\ UNCHANGED <<test, alarm, signo, FLAG_FAILURE, proxyVars, asked>>

WaitPid ==
  /\ main \in Ended
  /\ To("waitpid", "restore")
  /\ UNCHANGED <<test, pending, alarm, signo, childVars>>

\* With the mask as it was, a pending SIGCHLD is ignored, and a pending
\* SIGALRM kills.
Unblocked_Kept == pending
Unblocked == {}

Restore ==
  /\ To("restore", IF "SIGALRM" \in pending THEN "dead" ELSE "start")
  /\ pending' = Unblocked
  /\ main' = "none"
  /\ UNCHANGED <<test, alarm, signo, FLAG_FAILURE, proxyVars, asked>>

execute_fork ==
  Fork \/ SetAlarm \/ SigWait \/ CancelAlarm \/ Kill \/ WaitPid \/ Restore

Next == execute_fork \/ TimeOut \/ Child

\* The harness and its alarm go on; nothing is assumed of the test, ...
Fairness == WF_harnessVars(execute_fork) /\ WF_harnessVars(TimeOut)

\* ... or, for ClosesReturn, the child goes on once boot has returned.
ChildFairness ==
  /\ WF_harnessVars(Alive /\ DaemonStep)
  /\ WF_harnessVars(Alive /\ main # "boot" /\ Closing)

Spec == Init /\ [][Next]_harnessVars /\ Fairness

-----------------------------------------------------------------------------
\* The tests all run, whatever the tests do, unless the alarm has gone off
\* after sigwait had returned SIGCHLD, which kills the harness when it restores
\* its mask (unit_testing.c:508-526).
TestsRun == <>(waiter = "dead" \/ (waiter = "start" /\ test = MaxTests))

\* The sigwait of a test does not take the signal of an earlier test, and no
\* alarm outlives its test (unit_testing.c:507-526).
OwnSignals ==
  /\ waiter \in {"start", "forked"} => "SIGALRM" \notin pending /\ ~alarm
  /\ "SIGCHLD" \in pending => main \in Ended

\* term_proxy_close returns, with whatever the test has left undone, unless the
\* time is over first (unit_testing.c:264-291).
ClosesReturn == [](main # "killed") => (main = "con" ~> main = "exit")

=============================================================================
