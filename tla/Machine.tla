-------------------------------- MODULE Machine --------------------------------
(***************************************************************************)
(* The virtual machine: the cores, interrupts and timers of bios.c, the    *)
(* boot of kernel_init.c, and the parts of yield, gain and idle_thread     *)
(* that deal with them.                                                    *)
(*                                                                         *)
(* A core is a pthread, an interrupt a bit of intr_pending and a SIGUSR1   *)
(* that makes the core look at its bits; of these signals one at most is   *)
(* pending.  A core runs contexts, which yield swaps, also in the middle   *)
(* of a dispatch: a context that an ALARM has preempted goes on with       *)
(* dispatch_interrupts when it runs again, on this core or on another.     *)
(* pc[x] is where context x is, outside of a handler:                      *)
(*                                                                         *)
(*   "run"      in a time slice; the idle thread tests active_threads      *)
(*   "cancel"   at the beginning of yield, in bios_cancel_timer            *)
(*   "yield"    in yield, before the swap                                  *)
(*   "arm"      in gain, before bios_set_timer                             *)
(*   "halting"  the idle thread has seen active threads                    *)
(*   "halt"     in sigwaitinfo, with SIGUSR1 blocked                       *)
(*   "woken"    in cpu_core_halt, a signal has come                        *)
(*                                                                         *)
(* and handler[x] is where it is in dispatch_interrupts of core inside[x]. *)
(* The idle thread of core c is c itself.  Scheduler queues, states and    *)
(* the spinlock are those of Sched: here yield gives the core to any       *)
(* thread that does not run.                                               *)
(***************************************************************************)
EXTENDS Integers, FiniteSets

CONSTANTS
  ncores, physical_cores,
  MaxAlarms,      \* a bound: no timer expires while so many alarms are unserved
  Thread,         \* the threads besides the idle ones
  NULL

ASSUME MachineAssumption ==
  /\ ncores \in Nat \ {0} /\ physical_cores \in Nat /\ MaxAlarms \in Nat
  /\ Thread \cap Nat = {} /\ IsFiniteSet(Thread)
  /\ NULL \notin Int

Core == 0 .. ncores - 1
Context == Thread \cup Core

\* In the order in which they are dispatched.  SERIAL stands for the two serial
\* interrupts; nobody raises ICI.
ALARM == 1
SERIAL == 2
Interrupt == {ALARM, SERIAL}

VARIABLES
  place,          \* of each core: how far core_thread is
  pic,            \* how far PIC_daemon is
  PIC_active,
  intr_pending, signal, halt_vector,
  timer,          \* the cores whose timer is armed
  sigalrm,        \* the cores of the timers that have expired, unknown to the PIC
  current,        \* the context that each core runs
  pc, handler, inside,
  timer_id,       \* the core whose timer a context is about to cancel
  alive,          \* the threads that active_threads counts
  stolen          \* the cores whose running timer a context of another has cancelled

coreVars == <<current, pc, handler, inside, timer_id, alive>>
intrVars == <<intr_pending, signal, halt_vector, timer, sigalrm>>
lifeVars == <<place, pic, PIC_active, stolen>>
vars == <<coreVars, intrVars, lifeVars>>

\* vm_run, up to the barrier at the beginning of core_thread
Init ==
  /\ place = [c \in Core |-> "start"] /\ pic = "start" /\ PIC_active = TRUE
  /\ intr_pending = [c \in Core |-> {}] /\ signal = [c \in Core |-> FALSE]
  /\ halt_vector = {} /\ timer = {} /\ sigalrm = {}
  /\ current = [c \in Core |-> c]
  /\ pc = [x \in Context |-> IF x \in Core THEN "cancel" ELSE "arm"]
  /\ handler = [x \in Context |-> "none"]
  /\ inside = [x \in Context |-> NULL] /\ timer_id = [x \in Context |-> NULL]
  /\ alive = Thread /\ stolen = {}

-----------------------------------------------------------------------------
(* Interrupts.                                                             *)

RaiseSignal_Empty(cores, i) ==
  [c \in Core |-> signal[c] \/ (c \in cores /\ intr_pending[c] = {})]

\* raise_interrupt, of all the cores in a set: a signal if the bit was not set.
RaiseSignal(cores, i) ==
  [c \in Core |-> signal[c] \/ (c \in cores /\ i \notin intr_pending[c])]

Raise(cores, i) ==
  /\ intr_pending' = [c \in Core |->
       IF c \in cores THEN intr_pending[c] \cup {i} ELSE intr_pending[c]]
  /\ signal' = RaiseSignal(cores, i)

Lowest(bits) == CHOOSE i \in bits : \A j \in bits : i <= j

\* SIGUSR1 is blocked in a handler and in cpu_core_halt.
Masked(x) == handler[x] # "none" \/ pc[x] \in {"halt", "woken"}

\* sigusr1_handler
Deliver(c) ==
  LET x == current[c]
  IN
  /\ place[c] = "sched" /\ signal[c] /\ ~Masked(x)
  /\ signal' = [signal EXCEPT ![c] = FALSE]
  /\ handler' = [handler EXCEPT ![x] = "loop"]
  /\ inside' = [inside EXCEPT ![x] = c]
  /\ UNCHANGED <<intr_pending, halt_vector, timer, sigalrm, current, pc, timer_id,
                 alive, lifeVars>>

\* One turn of dispatch_interrupts.  The ALARM handler yields.
Dispatch(c) ==
  LET x == current[c]
      i == Lowest(intr_pending[c])
  IN
  /\ handler[x] = "loop" /\ inside[x] = c /\ intr_pending[c] # {}
  /\ intr_pending' = [intr_pending EXCEPT ![c] = @ \ {i}]
  /\ IF i = ALARM
     THEN handler' = [handler EXCEPT ![x] = "yield"] /\ timer' = timer \ {c}
     ELSE UNCHANGED <<handler, timer>>
  /\ UNCHANGED <<signal, halt_vector, sigalrm, current, pc, inside, timer_id, alive,
                 lifeVars>>

\* Nothing is pending, or the context has changed cores.
DispatchEnds(c) ==
  LET x == current[c]
  IN
  /\ handler[x] = "loop" /\ inside[x] = c => intr_pending[c] = {}
  /\ handler[x] = "loop"
  /\ handler' = [handler EXCEPT ![x] = "none"]
  /\ inside' = [inside EXCEPT ![x] = NULL]
  /\ UNCHANGED <<current, pc, timer_id, alive, intrVars, lifeVars>>

\* A core outside the scheduler has no handlers.
Ignore(c) ==
  /\ place[c] # "sched" /\ signal[c]
  /\ signal' = [signal EXCEPT ![c] = FALSE]
  /\ intr_pending' = [intr_pending EXCEPT ![c] = {}]
  /\ UNCHANGED <<halt_vector, timer, sigalrm, coreVars, lifeVars>>

\* The alarms on their way to a core, and the handlers that have not returned.
Unserved ==
  Cardinality(sigalrm) + Cardinality({c \in Core : ALARM \in intr_pending[c]})
    + Cardinality({x \in Context : handler[x] # "none"})

TimerExpires(c) ==
  /\ c \in timer /\ Unserved < MaxAlarms
  /\ timer' = timer \ {c} /\ sigalrm' = sigalrm \cup {c}
  /\ UNCHANGED <<intr_pending, signal, halt_vector, coreVars, lifeVars>>

\* PIC_daemon reads a SIGALRM ...
PICAlarm(c) ==
  /\ pic = "loop" /\ c \in sigalrm
  /\ sigalrm' = sigalrm \ {c}
  /\ Raise({c}, ALARM)
  /\ UNCHANGED <<halt_vector, timer, coreVars, lifeVars>>

\* ... or finds a device ready: its interrupts go to core 0.
PICSerial ==
  /\ pic = "loop" /\ PIC_active
  /\ Raise({0}, SERIAL)
  /\ UNCHANGED <<halt_vector, timer, sigalrm, coreVars, lifeVars>>

-----------------------------------------------------------------------------
(* Time slices.                                                            *)

\* yield is called, by the idle thread when it starts and when it has woken, ...
Yields(c) ==
  LET x == current[c]
  IN
  /\ place[c] = "sched" /\ handler[x] = "none"
  /\ pc[x] = "cancel" \/ (x \in Thread /\ pc[x] = "run")

\* ... and finds the timer of its core, ...
ReadTimerId(c) ==
  LET x == current[c]
  IN
  /\ Yields(c) /\ timer_id[x] = NULL
  /\ timer_id' = [timer_id EXCEPT ![x] = c]
  /\ pc' = [pc EXCEPT ![x] = "cancel"]
  /\ UNCHANGED <<current, handler, inside, alive, intrVars, lifeVars>>

\* ... which it cancels, also when an ALARM has come in between and it runs on
\* another core by now.
CancelTimer(c) ==
  LET x == current[c]
  IN
  /\ Yields(c) /\ timer_id[x] # NULL
  /\ timer' = timer \ {timer_id[x]}
  /\ stolen' = IF timer_id[x] = c THEN stolen ELSE stolen \cup ({timer_id[x]} \cap timer)
  /\ timer_id' = [timer_id EXCEPT ![x] = NULL]
  /\ pc' = [pc EXCEPT ![x] = "yield"]
  /\ UNCHANGED <<intr_pending, signal, halt_vector, sigalrm, current, handler, inside,
                 alive, place, pic, PIC_active>>

Running == {current[c] : c \in Core}

\* The swap, after which x goes on in gain when it runs again.  A thread that
\* has called yield to exit does not.
Swap(c, y) ==
  LET x == current[c]
  IN
  /\ y = c \/ (y \in alive /\ y \notin Running \ {x})
  /\ IF handler[x] = "none"
     THEN pc[x] = "yield" /\ pc' = [pc EXCEPT ![x] = "arm"] /\ UNCHANGED handler
     ELSE handler[x] = "yield" /\ handler' = [handler EXCEPT ![x] = "arm"] /\ UNCHANGED pc
  /\ current' = [current EXCEPT ![c] = y]
  /\ alive' \in IF x \in Thread /\ handler[x] = "none" /\ y # x
                THEN {alive, alive \ {x}} ELSE {alive}
  /\ UNCHANGED <<inside, timer_id, intrVars, lifeVars>>

Armed_Not(c) == timer

Armed(c) == timer \cup {c}

\* gain has restored preemption and sets the timer.
Arm(c) ==
  LET x == current[c]
  IN
  /\ place[c] = "sched"
  /\ IF handler[x] = "none"
     THEN pc[x] = "arm" /\ pc' = [pc EXCEPT ![x] = "run"] /\ UNCHANGED handler
     ELSE handler[x] = "arm" /\ handler' = [handler EXCEPT ![x] = "loop"] /\ UNCHANGED pc
  /\ timer' = Armed(c) /\ stolen' = stolen \ {c}
  /\ UNCHANGED <<intr_pending, signal, halt_vector, sigalrm, current, inside, timer_id,
                 alive, place, pic, PIC_active>>

-----------------------------------------------------------------------------
(* Idle cores.                                                             *)

IdleRuns(c) ==
  place[c] = "sched" /\ current[c] = c /\ handler[c] = "none"

IdleTests(c) ==
  /\ IdleRuns(c) /\ pc[c] = "run" /\ alive # {}
  /\ pc' = [pc EXCEPT ![c] = "halting"]
  /\ UNCHANGED <<current, handler, inside, timer_id, alive, intrVars, lifeVars>>

Halt(c) ==
  /\ IdleRuns(c) /\ pc[c] = "halting"
  /\ pc' = [pc EXCEPT ![c] = "halt"]
  /\ halt_vector' = halt_vector \cup {c}
  /\ UNCHANGED <<intr_pending, signal, timer, sigalrm, current, handler, inside,
                 timer_id, alive, lifeVars>>

\* sigwaitinfo returns, and the interrupts are dispatched.
Wake(c) ==
  /\ IdleRuns(c) /\ pc[c] = "halt" /\ signal[c]
  /\ signal' = [signal EXCEPT ![c] = FALSE]
  /\ pc' = [pc EXCEPT ![c] = "woken"]
  /\ handler' = [handler EXCEPT ![c] = "loop"]
  /\ inside' = [inside EXCEPT ![c] = c]
  /\ UNCHANGED <<intr_pending, halt_vector, timer, sigalrm, current, timer_id, alive,
                 lifeVars>>

\* The end of cpu_core_halt, and the call of yield.
Unhalt(c) ==
  /\ IdleRuns(c) /\ pc[c] = "woken"
  /\ halt_vector' = halt_vector \ {c}
  /\ pc' = [pc EXCEPT ![c] = "cancel"]
  /\ UNCHANGED <<intr_pending, signal, timer, sigalrm, current, handler, inside,
                 timer_id, alive, lifeVars>>

Interrupted_None(cores) == signal

Interrupted(cores) == [c \in Core |-> signal[c] \/ c \in cores]

\* __core_restart
Restart(cores) ==
  /\ halt_vector' = halt_vector \ cores
  /\ signal' = Interrupted(cores \cap halt_vector)

\* A thread that has made another ready.
RestartOne(c) ==
  /\ place[c] = "sched" /\ current[c] \in Thread /\ halt_vector # {}
  /\ Lowest(halt_vector) < physical_cores
  /\ Restart({Lowest(halt_vector)})
  /\ UNCHANGED <<intr_pending, timer, sigalrm, coreVars, lifeVars>>

\* The idle thread leaves the scheduler.
IdleLeaves(c) ==
  /\ IdleRuns(c) /\ pc[c] = "run" /\ alive = {}
  /\ timer' = timer \ {c}
  /\ Restart(Core)
  /\ place' = [place EXCEPT ![c] = "left"]
  /\ UNCHANGED <<intr_pending, sigalrm, coreVars, pic, PIC_active, stolen>>

-----------------------------------------------------------------------------
(* Boot and shutdown: a barrier is a step of all that wait at it.          *)

All(here, there) == place = [c \in Core |-> here] /\ place' = [c \in Core |-> there]

SystemBarrier(from, to, picFrom, picTo) ==
  /\ All(from, to)
  /\ pic = picFrom /\ pic' = picTo
  /\ UNCHANGED <<PIC_active, stolen, intrVars, coreVars>>

CoreBarrier(from, to) == All(from, to) /\ UNCHANGED <<pic, PIC_active, stolen, intrVars, coreVars>>

\* core_thread; boot_tinyos_kernel, where core 0 initializes the kernel first.
Start == SystemBarrier("start", "boot", "start", "loop")
Boot  == CoreBarrier("boot", "sched")
Leave == CoreBarrier("left", "stopping")

\* Core 0 stops the PIC ...
Stop(c) ==
  /\ place[c] = "stopping"
  /\ place' = [place EXCEPT ![c] = "stopped"]
  /\ PIC_active' = (PIC_active /\ c # 0)
  /\ UNCHANGED <<pic, stolen, intrVars, coreVars>>

\* ... which sees it at its next turn.
PICStops ==
  /\ pic = "loop" /\ ~PIC_active
  /\ pic' = "stopped"
  /\ UNCHANGED <<place, PIC_active, stolen, intrVars, coreVars>>

End == SystemBarrier("stopped", "off", "stopped", "off")

Halted == pic = "off" /\ UNCHANGED vars

-----------------------------------------------------------------------------
CoreSteps(c) ==
  \/ Deliver(c) \/ Dispatch(c) \/ DispatchEnds(c) \/ Ignore(c) \/ RestartOne(c)
  \/ ReadTimerId(c) \/ CancelTimer(c) \/ Arm(c)
  \/ (place[c] = "sched" /\ \E y \in Context : Swap(c, y))
  \/ IdleTests(c) \/ Halt(c) \/ Wake(c) \/ Unhalt(c) \/ IdleLeaves(c) \/ Stop(c)

Next ==
  \/ \E c \in Core : CoreSteps(c) \/ TimerExpires(c) \/ PICAlarm(c)
  \/ Start \/ Boot \/ Leave \/ PICStops \/ End
  \/ PICSerial \/ Halted

Spec == Init /\ [][Next]_vars

-----------------------------------------------------------------------------
TypeOK ==
  /\ place \in [Core -> {"start", "boot", "sched", "left", "stopping", "stopped", "off"}]
  /\ pic \in {"start", "loop", "stopped", "off"} /\ PIC_active \in BOOLEAN
  /\ intr_pending \in [Core -> SUBSET Interrupt] /\ signal \in [Core -> BOOLEAN]
  /\ halt_vector \subseteq Core /\ timer \subseteq Core /\ sigalrm \subseteq Core
  /\ current \in [Core -> Context]
  /\ \A c, d \in Core : c # d => current[c] # current[d]
  /\ pc \in [Context -> {"run", "cancel", "yield", "arm", "halting", "halt", "woken"}]
  /\ handler \in [Context -> {"none", "loop", "yield", "arm"}]
  /\ inside \in [Context -> Core \cup {NULL}]
  /\ \A x \in Context : inside[x] = NULL <=> handler[x] = "none"
  /\ timer_id \in [Context -> Core \cup {NULL}]
  /\ alive \subseteq Thread /\ stolen \subseteq Core

\* The timer of a core runs, has expired, or is about to be set.
Ticking(c) ==
  \/ c \in timer \cup sigalrm
  \/ ALARM \in intr_pending[c]
  \/ "arm" \in {pc[current[c]], handler[current[c]]}
  \/ pc[current[c]] \in {"cancel", "yield"} \/ handler[current[c]] = "yield"

\* An ALARM is never overlooked: a signal is on its way, or the core is in
\* dispatch_interrupts; also when the ALARM before it has changed contexts and
\* left other interrupts pending, for which no more signals are sent (bios.c:338).
PendingSeen ==
  /\ TypeOK
  /\ \A c \in Core : place[c] = "sched" /\ ALARM \in intr_pending[c] =>
       signal[c] \/ (inside[current[c]] = c /\ handler[current[c]] = "loop")

\* No time slice is endless: while a core runs a context, its timer is running,
\* has expired, or is about to be set, unless a context that has left the core in
\* bios_cancel_timer cancels it from another (kernel_sched.c:425).
TimeSlicesEnd == \A c \in Core : place[c] = "sched" => Ticking(c) \/ c \in stolen

\* A restart is never lost: a core asleep whose halt bit is clear has a signal.
RestartSeen ==
  \A c \in Core : pc[c] = "halt" /\ c \notin halt_vector => signal[c]

=============================================================================
