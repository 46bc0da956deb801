------------------------------- MODULE Sched -------------------------------
(***************************************************************************)
(* The scheduler of TinyOS: kernel_sched.c and kernel_sched.h.             *)
(*                                                                         *)
(* Every TCB has a state and a phase.  READY threads whose context is      *)
(* clean wait in SCHED, one FIFO queue per priority; sleeping threads with *)
(* a timeout also stand in TIMEOUT_LIST, linked by the same sched_node.    *)
(* The state is protected by sched_spinlock, but no scheduler call runs    *)
(* under it from end to end: sleep_releasing unlocks before it yields, a   *)
(* yield unlocks before it swaps contexts and locks again in gain, on the  *)
(* stack of the next thread.  pc[c] names the point core c has reached:    *)
(*                                                                         *)
(*   "boot"    in run_scheduler, before the idle thread's first yield      *)
(*   "run"     outside the scheduler, preemption on                        *)
(*   "asleep"  in sleep_releasing, the spinlock released, yield not called *)
(*   "count"   in yield, numofYields read and not yet written back         *)
(*   "enter"   in yield, about to lock sched_spinlock                      *)
(*   "expire"  in sched_wakeup_expired_timeouts, sched_spinlock held       *)
(*   "switch"  yield has unlocked, CURTHREAD is the next thread, and gain  *)
(*             has not locked yet                                          *)
(*   "release" in release_TCB, sched_spinlock held                         *)
(*   "done"    the idle thread has left the scheduler                      *)
(*                                                                         *)
(* The idle thread of core c is identified with c itself.                  *)
(***************************************************************************)
EXTENDS Integers, FiniteSets, SequencesExt

CONSTANTS
  Thread,           \* the TCBs that spawn_thread can allocate
  Core,             \* the cores, each standing for its idle TCB too
  InitThread,       \* the main thread of the init process
  NULL,             \* no thread, no core
  MAX_PRIORITIES,   \* length of SCHED (1000 in the code)
  MAX_YIELDS,       \* yields between two boosts (2000 in the code)
  YieldCauses,      \* causes of a voluntary yield of a normal thread
  SleepCauses,      \* causes of a sleep
  Timeouts,         \* timeouts of a timed sleep, in ticks
  MaxClock          \* bound on bios_clock

\* SCHED_CAUSE.  yield treats SCHED_PIPE, SCHED_POLL, SCHED_IDLE and SCHED_USER
\* alike: they are all written "OTHER".
Causes == {"SCHED_QUANTUM", "SCHED_IO", "SCHED_MUTEX", "OTHER"}

\* All that yield ever asks of a recorded cause.
Recorded(why) == IF why = "SCHED_MUTEX" THEN why ELSE "OTHER"

ASSUME SchedAssumption ==
  /\ InitThread \in Thread
  /\ Thread \cap Core = {}
  /\ NULL \notin Thread \cup Core
  /\ IsFiniteSet(Thread) /\ IsFiniteSet(Core)
  /\ MAX_PRIORITIES \in Nat \ {0}
  /\ MAX_YIELDS \in Nat \ {0}
  /\ YieldCauses \subseteq Causes
  /\ SleepCauses \subseteq Causes
  /\ Timeouts \subseteq Nat
  /\ MaxClock \in Nat

VARIABLES
  state,            \* Thread_state of each TCB, or "FREE" when not allocated
  phase,            \* Thread_phase of each TCB
  Priority,         \* priority of each TCB
  last_cause,       \* why the time slice before the last one ended
  curr_cause,       \* why the last time slice ended
  wakeup_time,      \* when a timed sleep ends, or NO_TIMEOUT
  SCHED,            \* the run queue of each priority
  TIMEOUT_LIST,     \* the timed sleepers, by wakeup time
  sched_spinlock,   \* the core that holds it, or NULL
  active_threads_spinlock,  \* the thread that holds it, or NULL
  active_threads,   \* threads that exist, the idle ones excepted
  numofYields,      \* yields since the last boost
  current_thread,   \* of each CCB
  previous_thread,  \* of each CCB
  pc,               \* where each core is, see above
  cause,            \* the argument of the yield a core is in
  readYields,       \* numofYields as a core read it, before its increment
  curtime,          \* bios_clock as the holder of sched_spinlock read it
  spawner,          \* the thread in CreateThread or Exec, or NULL
  newborn,          \* the TCB it has spawned, or NULL
  clock             \* bios_clock

tcbVars    == <<state, phase, Priority, last_cause, curr_cause, wakeup_time>>
queueVars  == <<SCHED, TIMEOUT_LIST>>
spawnVars  == <<spawner, newborn, active_threads_spinlock, active_threads>>
coreVars   == <<current_thread, previous_thread, pc, cause>>
yieldVars  == <<numofYields, readYields>>
vars == <<tcbVars, queueVars, spawnVars, coreVars, yieldVars,
          sched_spinlock, curtime, clock>>

-----------------------------------------------------------------------------
TCB        == Thread \cup Core
Priorities == 0 .. MAX_PRIORITIES - 1
TopPriority == MAX_PRIORITIES - 1
NO_TIMEOUT == -1

\* Every value above MAX_YIELDS fails the test of yield in the same way, so
\* the counter is kept below this bound.
YieldsCap  == MAX_YIELDS + 1

CURTHREAD(c) == current_thread[c]
InUse(t)     == state[t] # "FREE"

\* The cores whose context is in use by TCB t: the core that runs it, and, in
\* the middle of a context switch, the core that is leaving it.
Occupies(c, t) ==
  IF pc[c] = "switch" THEN previous_thread[c] = t ELSE CURTHREAD(c) = t

Moved(c, to) == pc' = [pc EXCEPT ![c] = to]

-----------------------------------------------------------------------------
(* The queues.                                                             *)

Queued(t) == \E p \in Priorities : t \in Range(SCHED[p])

\* sched_queue_add: to the back of the queue of its priority.
SchedQueueAdd(t) ==
  SCHED' = [SCHED EXCEPT ![Priority[t]] = Append(@, t)]

\* sched_register_timeout: before the first entry that expires later.
TimeoutPosition_Back(when) == Len(TIMEOUT_LIST) + 1

TimeoutPosition(when) ==
  CHOOSE i \in 1 .. Len(TIMEOUT_LIST) + 1 :
    /\ i <= Len(TIMEOUT_LIST) => when < wakeup_time[TIMEOUT_LIST[i]]
    /\ \A j \in 1 .. i - 1 : wakeup_time[TIMEOUT_LIST[j]] <= when

RegisterTimeout(t, timeout) ==
  IF timeout = NO_TIMEOUT
  THEN UNCHANGED <<wakeup_time, TIMEOUT_LIST>>
  ELSE /\ wakeup_time' = [wakeup_time EXCEPT ![t] = clock + timeout]
       /\ TIMEOUT_LIST' =
            InsertAt(TIMEOUT_LIST, TimeoutPosition(clock + timeout), t)

TimeoutIndex(t) == CHOOSE i \in DOMAIN TIMEOUT_LIST : TIMEOUT_LIST[i] = t

MakeReady_Unphased(t) ==
  /\ UNCHANGED <<wakeup_time, TIMEOUT_LIST>>
  /\ state' = [state EXCEPT ![t] = "READY"]
  /\ SchedQueueAdd(t)

\* sched_make_ready: a thread with a wakeup time is unlinked from
\* TIMEOUT_LIST; only a thread whose context is clean enters a run queue.
MakeReady(t) ==
  /\ IF wakeup_time[t] = NO_TIMEOUT
     THEN UNCHANGED <<wakeup_time, TIMEOUT_LIST>>
     ELSE /\ TIMEOUT_LIST' = RemoveAt(TIMEOUT_LIST, TimeoutIndex(t))
          /\ wakeup_time' = [wakeup_time EXCEPT ![t] = NO_TIMEOUT]
  /\ state' = [state EXCEPT ![t] = "READY"]
  /\ IF phase[t] = "CTX_CLEAN" THEN SchedQueueAdd(t) ELSE UNCHANGED SCHED

\* sched_queue_select: the head of the best queue that is not empty, else
\* the current thread if it may go on, else the idle thread of the core.
Nonempty == {p \in Priorities : SCHED[p] # <<>>}
Best     == CHOOSE p \in Nonempty : \A q \in Nonempty : q <= p

Selected_Current(c) ==
  IF state[CURTHREAD(c)] = "READY" THEN CURTHREAD(c)
  ELSE IF Nonempty # {} THEN Head(SCHED[Best]) ELSE c

Selected(c) ==
  IF Nonempty # {} THEN Head(SCHED[Best])
  ELSE IF state[CURTHREAD(c)] = "READY" THEN CURTHREAD(c) ELSE c

-----------------------------------------------------------------------------
(* Priorities: the switch of yield falls through from case to case.        *)

MutexAdjusted(prio, last) ==
  IF last = "SCHED_MUTEX" /\ prio > 0 THEN prio - 1 ELSE prio
IoAdjusted(prio, last) ==
  IF prio < TopPriority THEN prio + 1 ELSE MutexAdjusted(prio, last)
QuantumAdjusted(prio, last) ==
  IF prio > 0 THEN prio - 1 ELSE IoAdjusted(prio, last)

AdjustedPriority(prio, why, last) ==
  CASE why = "SCHED_QUANTUM" -> QuantumAdjusted(prio, last)
    [] why = "SCHED_IO"      -> IoAdjusted(prio, last)
    [] why = "SCHED_MUTEX"   -> MutexAdjusted(prio, last)
    [] OTHER                 -> prio

\* The boost empties each queue, from the second best down, head first onto
\* the front of the next better one, so that it arrives there reversed.
Boosted(queue) ==
  [p \in Priorities |->
     LET lifted == IF p = 0 THEN <<>> ELSE Reverse(queue[p - 1])
     IN  IF p = TopPriority THEN lifted \o queue[p] ELSE lifted]

Lifted_Never(t) == FALSE

Lifted(t) == \E p \in Priorities \ {TopPriority} : t \in Range(SCHED[p])

-----------------------------------------------------------------------------
(* Boot: initialize_scheduler, and Exec of the init process before any     *)
(* core enters the scheduler.                                              *)

Init ==
  /\ state = [t \in TCB |-> IF t \in Core THEN "RUNNING"
                            ELSE IF t = InitThread THEN "READY" ELSE "FREE"]
  /\ phase = [t \in TCB |-> IF t \in Core THEN "CTX_DIRTY" ELSE "CTX_CLEAN"]
  /\ Priority = [t \in TCB |-> IF t \in Core THEN 0 ELSE TopPriority]
  /\ last_cause = [t \in TCB |-> "OTHER"]
  /\ curr_cause = [t \in TCB |-> "OTHER"]
  /\ wakeup_time = [t \in TCB |-> NO_TIMEOUT]
  /\ SCHED = [p \in Priorities |->
                IF p = TopPriority THEN <<InitThread>> ELSE <<>>]
  /\ TIMEOUT_LIST = <<>>
  /\ sched_spinlock = NULL
  /\ active_threads_spinlock = NULL
  /\ active_threads = 1
  /\ numofYields = 0
  /\ readYields = [c \in Core |-> 0]
  /\ current_thread = [c \in Core |-> c]
  /\ previous_thread = [c \in Core |-> NULL]
  /\ pc = [c \in Core |-> "boot"]
  /\ cause = [c \in Core |-> "OTHER"]
  /\ curtime = 0
  /\ spawner = NULL
  /\ newborn = NULL
  /\ clock = 0

-----------------------------------------------------------------------------
(* What the current thread of a core may do.                               *)

\* spawn_thread, up to the lock: a fresh TCB, and active_threads_spinlock
\* taken with preemption on.  One thread at a time is here: the callers are
\* system calls, serialised by the kernel lock.
SpawnThread(c, t) ==
  /\ pc[c] = "run" /\ CURTHREAD(c) \in Thread
  /\ spawner = NULL /\ active_threads_spinlock = NULL
  /\ ~InUse(t)
  /\ state' = [state EXCEPT ![t] = "INIT"]
  /\ phase' = [phase EXCEPT ![t] = "CTX_CLEAN"]
  /\ Priority' = [Priority EXCEPT ![t] = TopPriority]
  /\ last_cause' = [last_cause EXCEPT ![t] = "OTHER"]
  /\ curr_cause' = [curr_cause EXCEPT ![t] = "OTHER"]
  /\ wakeup_time' = [wakeup_time EXCEPT ![t] = NO_TIMEOUT]
  /\ active_threads_spinlock' = CURTHREAD(c)
  /\ spawner' = CURTHREAD(c)
  /\ newborn' = t
  /\ UNCHANGED <<queueVars, active_threads, coreVars, yieldVars,
                 sched_spinlock, curtime, clock>>

\* The rest of spawn_thread: the count, and the unlock.
SpawnCount(c) ==
  /\ pc[c] = "run" /\ CURTHREAD(c) = active_threads_spinlock
  /\ active_threads' = active_threads + 1
  /\ active_threads_spinlock' = NULL
  /\ UNCHANGED <<tcbVars, queueVars, spawner, newborn, coreVars, yieldVars,
                 sched_spinlock, curtime, clock>>

\* wakeup of the new thread, the last act of CreateThread and of Exec.
WakeupNewborn(c) ==
  /\ pc[c] = "run" /\ CURTHREAD(c) = spawner
  /\ active_threads_spinlock = NULL
  /\ sched_spinlock = NULL
  /\ MakeReady(newborn)
  /\ spawner' = NULL /\ newborn' = NULL
  /\ UNCHANGED <<phase, Priority, last_cause, curr_cause,
                 active_threads_spinlock, active_threads, coreVars,
                 yieldVars, sched_spinlock, curtime, clock>>

\* wakeup of a sleeper, by a thread that signals it or by an interrupt
\* handler.  On a thread in any other state the call changes nothing.
Wakeup(c, t) ==
  /\ pc[c] = "run"
  /\ sched_spinlock = NULL
  /\ state[t] = "STOPPED"
  /\ MakeReady(t)
  /\ UNCHANGED <<phase, Priority, last_cause, curr_cause, spawnVars,
                 coreVars, yieldVars, sched_spinlock, curtime, clock>>

\* sleep_releasing(STOPPED, mx, why, timeout), up to the unlock.  A thread
\* that is spawning holds the kernel lock and does not sleep.
Sleep(c, why, timeout) ==
  /\ pc[c] = "run" /\ CURTHREAD(c) \in Thread \ {spawner}
  /\ sched_spinlock = NULL
  /\ timeout = NO_TIMEOUT \/ clock + timeout <= MaxClock
  /\ state' = [state EXCEPT ![CURTHREAD(c)] = "STOPPED"]
  /\ RegisterTimeout(CURTHREAD(c), timeout)
  /\ cause' = [cause EXCEPT ![c] = why]
  /\ Moved(c, "asleep")
  /\ UNCHANGED <<phase, Priority, last_cause, curr_cause, SCHED, spawnVars,
                 current_thread, previous_thread, yieldVars, sched_spinlock,
                 curtime, clock>>

\* sleep_releasing(EXITED, kernel_mutex, SCHED_USER, NO_TIMEOUT), up to the
\* unlock.  The exiting thread holds the kernel lock until here, so no other
\* thread is spawning.
Exit(c) ==
  /\ pc[c] = "run" /\ CURTHREAD(c) \in Thread
  /\ spawner = NULL
  /\ sched_spinlock = NULL
  /\ state' = [state EXCEPT ![CURTHREAD(c)] = "EXITED"]
  /\ cause' = [cause EXCEPT ![c] = "OTHER"]
  /\ Moved(c, "asleep")
  /\ UNCHANGED <<phase, Priority, last_cause, curr_cause, wakeup_time,
                 queueVars, spawnVars, current_thread, previous_thread,
                 yieldVars, sched_spinlock, curtime, clock>>

-----------------------------------------------------------------------------
(* yield.                                                                  *)

\* The call, and the load of numofYields, which no lock protects.
CallYield(c, why) ==
  /\ cause' = [cause EXCEPT ![c] = why]
  /\ readYields' = [readYields EXCEPT ![c] = numofYields]
  /\ Moved(c, "count")
  /\ UNCHANGED <<tcbVars, queueVars, spawnVars, current_thread,
                 previous_thread, numofYields, sched_spinlock, curtime,
                 clock>>

\* The ALARM interrupt: the quantum of the current thread has expired.
Preempt(c) == pc[c] = "run" /\ CallYield(c, "SCHED_QUANTUM")

\* Mutex_Lock yields when it has spun long enough, serial_write when the
\* device is busy.
YieldCore(c, why) ==
  pc[c] = "run" /\ CURTHREAD(c) \in Thread /\ CallYield(c, why)

\* idle_thread yields once when it starts, and then for as long as there are
\* active threads.
IdleYield(c) ==
  /\ CURTHREAD(c) = c
  /\ pc[c] = "boot" \/ (pc[c] = "run" /\ active_threads > 0)
  /\ CallYield(c, "OTHER")

SleepYield_Late(c) ==
  /\ pc[c] = "asleep"
  /\ state' = [state EXCEPT ![CURTHREAD(c)] = "STOPPED"]
  /\ readYields' = [readYields EXCEPT ![c] = numofYields]
  /\ Moved(c, "count")
  /\ UNCHANGED <<phase, Priority, last_cause, curr_cause, wakeup_time,
                 queueVars, spawnVars, current_thread, previous_thread,
                 cause, numofYields, sched_spinlock, curtime, clock>>

SleepYield(c) == pc[c] = "asleep" /\ CallYield(c, cause[c])

\* The store of numofYields++.
CountYield(c) ==
  /\ pc[c] = "count"
  /\ numofYields' = IF readYields[c] < YieldsCap THEN readYields[c] + 1
                                                 ELSE YieldsCap
  /\ readYields' = [readYields EXCEPT ![c] = 0]
  /\ Moved(c, "enter")
  /\ UNCHANGED <<tcbVars, queueVars, spawnVars, current_thread,
                 previous_thread, cause, sched_spinlock, curtime, clock>>

\* The test for a boost, of a counter that other cores may have stepped past
\* MAX_YIELDS since this core incremented it.
BoostDue_TopEmpty ==
  numofYields = MAX_YIELDS /\ SCHED[TopPriority] = <<>>
BoostDue_Never == FALSE

BoostDue == numofYields = MAX_YIELDS

\* With sched_spinlock locked: the priority of the current thread, the boost,
\* the bookkeeping, and the clock that sched_wakeup_expired_timeouts reads.
YieldLocked(c) ==
  LET cur   == CURTHREAD(c)
      boost == BoostDue
  IN
  /\ pc[c] = "enter"
  /\ sched_spinlock = NULL
  /\ sched_spinlock' = c
  /\ Priority' = [t \in TCB |->
        IF t = cur
        THEN AdjustedPriority(Priority[t], cause[c], last_cause[t])
        ELSE IF boost /\ Lifted(t) THEN Priority[t] + 1 ELSE Priority[t]]
  /\ SCHED' = IF boost THEN Boosted(SCHED) ELSE SCHED
  /\ numofYields' = IF boost THEN 0 ELSE numofYields
  /\ state' = [state EXCEPT ![cur] = IF @ = "RUNNING" THEN "READY" ELSE @]
  /\ last_cause' = [last_cause EXCEPT ![cur] = curr_cause[cur]]
  /\ curr_cause' = [curr_cause EXCEPT ![cur] = Recorded(cause[c])]
  /\ curtime' = clock
  /\ Moved(c, "expire")
  /\ UNCHANGED <<phase, wakeup_time, TIMEOUT_LIST, spawnVars,
                 current_thread, previous_thread, cause, readYields, clock>>

Expired_Exactly ==
  TIMEOUT_LIST # <<>> /\ wakeup_time[Head(TIMEOUT_LIST)] = curtime

Expired ==
  TIMEOUT_LIST # <<>> /\ wakeup_time[Head(TIMEOUT_LIST)] <= curtime

\* One turn of the loop of sched_wakeup_expired_timeouts.
WakeupExpired(c) ==
  /\ pc[c] = "expire"
  /\ Expired
  /\ MakeReady(Head(TIMEOUT_LIST))
  /\ UNCHANGED <<phase, Priority, last_cause, curr_cause, spawnVars,
                 coreVars, yieldVars, sched_spinlock, curtime, clock>>

\* The rest of yield: select, save the current thread for gain, unlock, and
\* swap contexts.
Select(c) ==
  /\ pc[c] = "expire"
  /\ ~Expired
  /\ SCHED' = IF Nonempty # {} THEN [SCHED EXCEPT ![Best] = Tail(@)]
                               ELSE SCHED
  /\ previous_thread' = [previous_thread EXCEPT ![c] = CURTHREAD(c)]
  /\ current_thread' = [current_thread EXCEPT ![c] = Selected(c)]
  /\ sched_spinlock' = NULL
  /\ curtime' = 0
  /\ cause' = [cause EXCEPT ![c] = "OTHER"]
  /\ Moved(c, "switch")
  /\ UNCHANGED <<tcbVars, TIMEOUT_LIST, spawnVars, yieldVars, clock>>

-----------------------------------------------------------------------------
(* gain, on the stack of the thread that now owns the core.                *)

\* What becomes of the thread that gain has left, by its state.
Requeued(t, left) == left = "READY" /\ t \in Thread
Reaped_Never(left) == FALSE
Reaped(left)       == left = "EXITED"

Gain(c) ==
  LET cur  == CURTHREAD(c)
      prev == previous_thread[c]
      \* the state of prev, after cur has been marked
      left == IF cur = prev THEN "RUNNING" ELSE state[prev]
  IN
  /\ pc[c] = "switch"
  /\ sched_spinlock = NULL
  /\ state' = [t \in TCB |->
        IF t = cur THEN "RUNNING"
        ELSE IF t = prev /\ Reaped(left) THEN "FREE" ELSE state[t]]
  /\ phase' = [t \in TCB |->
        IF t = cur THEN "CTX_DIRTY"
        ELSE IF t = prev THEN "CTX_CLEAN" ELSE phase[t]]
  /\ IF Requeued(prev, left) THEN SchedQueueAdd(prev)
                                          ELSE UNCHANGED SCHED
  /\ sched_spinlock' = IF Reaped(left) THEN c ELSE NULL
  /\ Moved(c, IF Reaped(left) THEN "release" ELSE "run")
  \* the next yield overwrites previous_thread before anything reads it
  /\ previous_thread' = [previous_thread EXCEPT ![c] = NULL]
  /\ UNCHANGED <<Priority, last_cause, curr_cause, wakeup_time,
                 TIMEOUT_LIST, spawnVars, current_thread, cause, yieldVars,
                 curtime, clock>>

\* release_TCB: the memory is already free, the count needs the second lock;
\* then gain unlocks sched_spinlock.
ReleaseTCB_Uncounted(c) ==
  /\ pc[c] = "release"
  /\ active_threads_spinlock = NULL
  /\ sched_spinlock' = NULL
  /\ Moved(c, "run")
  /\ UNCHANGED <<tcbVars, queueVars, spawnVars, current_thread,
                 previous_thread, cause, yieldVars, curtime, clock>>

ReleaseTCB(c) ==
  /\ pc[c] = "release"
  /\ active_threads_spinlock = NULL
  /\ active_threads' = active_threads - 1
  /\ sched_spinlock' = NULL
  /\ Moved(c, "run")
  /\ UNCHANGED <<tcbVars, queueVars, spawner, newborn,
                 active_threads_spinlock, current_thread, previous_thread,
                 cause, yieldVars, curtime, clock>>

-----------------------------------------------------------------------------
\* idle_thread returns, and with it run_scheduler.
IdleReturn(c) ==
  /\ pc[c] = "run" /\ CURTHREAD(c) = c
  /\ active_threads = 0
  /\ Moved(c, "done")
  /\ UNCHANGED <<tcbVars, queueVars, spawnVars, current_thread,
                 previous_thread, cause, yieldVars, sched_spinlock, curtime,
                 clock>>

\* The system has shut down: nothing happens any more.
Shutdown == (\A c \in Core : pc[c] = "done") /\ UNCHANGED vars

Tick ==
  /\ clock < MaxClock
  /\ clock' = clock + 1
  /\ UNCHANGED <<tcbVars, queueVars, spawnVars, coreVars, yieldVars,
                 sched_spinlock, curtime>>

Yield(c) ==
  \/ Preempt(c)
  \/ \E why \in YieldCauses : YieldCore(c, why)
  \/ IdleYield(c)
  \/ SleepYield(c)

ThreadStep(c) ==
  \/ \E t \in Thread : SpawnThread(c, t) \/ Wakeup(c, t)
  \/ SpawnCount(c)
  \/ WakeupNewborn(c)
  \/ \E why \in SleepCauses, d \in Timeouts \cup {NO_TIMEOUT} :
        Sleep(c, why, d)
  \/ Exit(c)

SchedStep(c) ==
  \/ CountYield(c)
  \/ YieldLocked(c)
  \/ WakeupExpired(c)
  \/ Select(c)
  \/ Gain(c)
  \/ ReleaseTCB(c)

Next ==
  \/ \E c \in Core :
       Yield(c) \/ ThreadStep(c) \/ SchedStep(c) \/ IdleReturn(c)
  \/ Tick
  \/ Shutdown

Spec == Init /\ [][Next]_vars

-----------------------------------------------------------------------------
(* Fairness.  Every core executes: a core inside the scheduler goes on, the *)
(* ALARM that gain arms ends every time slice, a thread in spawn_thread or  *)
(* CreateThread finishes, and time passes.  Waiting for a spinlock is fair: *)
(* a core that finds it free again and again gets it.  Nothing makes a      *)
(* thread call a system call, nor makes anyone wake a sleeper.              *)
CoreFairness(c) ==
  /\ WF_vars(Preempt(c)) /\ WF_vars(IdleYield(c))
  /\ WF_vars(SleepYield(c) \/ CountYield(c) \/ WakeupExpired(c) \/ Select(c))
  /\ SF_vars(YieldLocked(c) \/ Gain(c) \/ ReleaseTCB(c))
  /\ SF_vars(SpawnCount(c) \/ WakeupNewborn(c))

FairSpec == Spec /\ WF_vars(Tick) /\ \A c \in Core : CoreFairness(c)

-----------------------------------------------------------------------------
(* Type correctness.                                                        *)

TypeOK ==
  /\ state \in [TCB -> {"FREE", "INIT", "READY", "RUNNING", "STOPPED", "EXITED"}]
  /\ phase \in [TCB -> {"CTX_CLEAN", "CTX_DIRTY"}]
  /\ Priority \in [TCB -> Priorities]
  /\ last_cause \in [TCB -> {"SCHED_MUTEX", "OTHER"}]
  /\ curr_cause \in [TCB -> {"SCHED_MUTEX", "OTHER"}]
  /\ wakeup_time \in [TCB -> Nat \cup {NO_TIMEOUT}]
  /\ SCHED \in [Priorities -> Seq(Thread)]
  /\ TIMEOUT_LIST \in Seq(Thread)
  /\ sched_spinlock \in Core \cup {NULL}
  /\ active_threads_spinlock \in Thread \cup {NULL}
  /\ active_threads \in Int
  /\ numofYields \in 0 .. YieldsCap
  /\ readYields \in [Core -> 0 .. YieldsCap]
  /\ current_thread \in [Core -> TCB]
  /\ previous_thread \in [Core -> TCB \cup {NULL}]
  /\ pc \in [Core -> {"boot", "run", "asleep", "count", "enter", "expire",
                      "switch", "release", "done"}]
  /\ cause \in [Core -> Causes]
  /\ curtime \in Nat
  /\ spawner \in Thread \cup {NULL} /\ newborn \in Thread \cup {NULL}
  /\ clock \in Nat

-----------------------------------------------------------------------------
(* Safety.                                                                  *)

\* The invariant of kernel_sched.h, made exact: a normal thread is in the
\* scheduler queue if and only if it is READY, its context is clean, and no
\* core has already selected it.
QueueInvariant ==
  \A t \in Thread :
    Queued(t) <=> /\ state[t] = "READY"
                  /\ phase[t] = "CTX_CLEAN"
                  /\ \A c \in Core : CURTHREAD(c) # t

\* The intrusive node of a thread is linked once at most: no thread is queued
\* twice, stands twice in TIMEOUT_LIST, or stands in both lists; and a queued
\* thread is in the queue of its own priority, where a yield will look for it.
LinkedOnce ==
  /\ \A p, q \in Priorities : \A i \in DOMAIN SCHED[p], j \in DOMAIN SCHED[q] :
        SCHED[p][i] = SCHED[q][j] => p = q /\ i = j
  /\ \A i, j \in DOMAIN TIMEOUT_LIST :
        TIMEOUT_LIST[i] = TIMEOUT_LIST[j] => i = j
  /\ \A t \in Range(TIMEOUT_LIST) : ~Queued(t)
  /\ \A p \in Priorities : \A t \in Range(SCHED[p]) : Priority[t] = p

\* A context is used by one core at a time: a TCB whose phase is CTX_DIRTY is
\* occupied by exactly one core, no other TCB is occupied at all, and a core
\* only swaps to a context that nobody occupies.
ContextIntegrity ==
  /\ \A t \in TCB, c, d \in Core : Occupies(c, t) /\ Occupies(d, t) => c = d
  /\ \A t \in TCB : phase[t] = "CTX_DIRTY" <=> \E c \in Core : Occupies(c, t)
  /\ \A c, d \in Core : CURTHREAD(c) = CURTHREAD(d) => c = d
  /\ \A c \in Core : pc[c] = "switch" /\ CURTHREAD(c) # previous_thread[c] =>
        phase[CURTHREAD(c)] = "CTX_CLEAN" /\ state[CURTHREAD(c)] = "READY"

\* The assertions of sched_make_ready and gain: a thread with a wakeup time is
\* asleep and linked in TIMEOUT_LIST, which is sorted; and gain never finds
\* the thread it left INIT, RUNNING or already released.
SchedAssertions ==
  /\ \A t \in TCB : wakeup_time[t] # NO_TIMEOUT <=> t \in Range(TIMEOUT_LIST)
  /\ \A t \in Range(TIMEOUT_LIST) : state[t] = "STOPPED"
  /\ \A i, j \in DOMAIN TIMEOUT_LIST :
        i <= j => wakeup_time[TIMEOUT_LIST[i]] <= wakeup_time[TIMEOUT_LIST[j]]
  /\ \A c \in Core : pc[c] = "switch" =>
        state[previous_thread[c]] \in {"READY", "STOPPED", "EXITED"}

\* active_threads counts the threads that exist, give or take the one whose
\* creation or release is between the memory and the count; so no core leaves
\* the scheduler while a thread is left.
ActiveThreads ==
  /\ active_threads
       + (IF active_threads_spinlock # NULL THEN 1 ELSE 0)
       - Cardinality({c \in Core : pc[c] = "release"})
     = Cardinality({t \in Thread : InUse(t)})
  /\ (\E c \in Core : pc[c] = "done") => \A t \in Thread : ~InUse(t)

\* A step never takes a wakeup back: a thread that is READY stays READY until
\* it runs, and a timed sleeper is only woken, never put off.
WakeupSticks ==
  [][\A t \in TCB :
       /\ state[t] = "READY" => state'[t] \in {"READY", "RUNNING"}
       /\ wakeup_time[t] # NO_TIMEOUT =>
            wakeup_time'[t] \in {wakeup_time[t], NO_TIMEOUT}]_vars

-----------------------------------------------------------------------------
(* Liveness.                                                                *)

\* kernel_sched.h: an EXITED thread is eventually cleaned up by the scheduler,
\* that is, its TCB is freed and release_TCB returns.
ExitedIsReleased ==
  \A t \in Thread :
    state[t] = "EXITED" ~> /\ state[t] # "EXITED"
                           /\ \A c \in Core : pc[c] # "release"

\* Every READY thread runs: the boost lifts a thread out of a queue that
\* better threads keep from being selected.
ReadyRuns == \A t \in Thread : state[t] = "READY" ~> state[t] = "RUNNING"

\* kernel_sched.h: a thread that sleeps with a timeout is made READY by the
\* scheduler after the timeout, even without a call to wakeup.
TimeoutFires ==
  \A t \in Thread : wakeup_time[t] # NO_TIMEOUT ~> wakeup_time[t] = NO_TIMEOUT

\* The comment of yield: when the number of yields reaches its maximum, the
\* boost must happen (and reset the counter).
BoostHappens ==
  numofYields >= MAX_YIELDS ~>
    numofYields < MAX_YIELDS \/ \A c \in Core : pc[c] = "done"

=============================================================================
