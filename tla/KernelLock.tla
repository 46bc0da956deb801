----------------------------- MODULE KernelLock -----------------------------
(***************************************************************************)
(* The kernel lock and the condition variables under it: kernel_cc.c.      *)
(*                                                                         *)
(* The kernel lock is a semaphore, kernel_sem, implemented as a monitor on *)
(* kernel_mutex and kernel_sem_cv.  A CondVar is a ring of waiters, each   *)
(* on the stack of its thread, protected by waitset_lock.  cv_wait takes   *)
(* waitset_lock, links its waiter, releases the mutex, and gives           *)
(* waitset_lock to sleep_releasing, which puts the thread to sleep before  *)
(* it releases the lock.  A sleeper is woken by cv_signal or by its        *)
(* timeout; it locks waitset_lock, unlinks itself if nobody else has, and  *)
(* locks the mutex again.                                                  *)
(*                                                                         *)
(* pc[t] is the next thing thread t does, goal[t] the call it is in:       *)
(*   "user"       kernel_lock                                              *)
(*   "test"       test kernel_sem, kernel_mutex held                       *)
(*   "kernel"     anything a system call does under the kernel lock        *)
(*   "release"    lock kernel_sem_cv to signal it, kernel_mutex held       *)
(*   "signal"     one turn of cv_signal, waitset_lock of cv[t] held        *)
(*   "signalled"  unlock waitset_lock                                      *)
(*   "after"      what follows the signal of kernel_sem_cv                 *)
(*   "enqueue"    lock waitset_lock in cv_wait                             *)
(*   "unlock"     unlock kernel_mutex in cv_wait                           *)
(*   "sleep"      sleep_releasing                                          *)
(*   "asleep"     tidy up, once woken                                      *)
(*   "relock"     lock kernel_mutex at the end of cv_wait                  *)
(*   "gone"       the thread has exited                                    *)
(* The scheduler is seen through asleep[t]: the thread is STOPPED.         *)
(***************************************************************************)
EXTENDS Integers, FiniteSets, SequencesExt

CONSTANTS
  Thread,
  WChan,           \* the condition variables that system calls wait on
  kernel_sem_cv,
  NULL

ASSUME LockAssumption ==
  /\ kernel_sem_cv \notin WChan
  /\ NULL \notin Thread \cup WChan \cup {kernel_sem_cv}

VARIABLES
  kernel_mutex,    \* the thread that holds it, or NULL
  kernel_sem,
  waitset,         \* the ring of each CondVar, first waiter first
  waitset_lock,    \* the thread that holds it, or NULL
  signalled,       \* of the waiter of each thread
  removed,         \* of the waiter of each thread
  asleep,          \* the thread is STOPPED
  timed,           \* its sleep has a timeout
  pc, goal, cv,    \* where each thread is, in which call, on which CondVar
  ret              \* what the last wait on a channel of each thread returned

vars == <<kernel_mutex, kernel_sem, waitset, waitset_lock, signalled, removed,
          asleep, timed, pc, goal, cv, ret>>
waiterVars == <<signalled, removed>>
sleepVars  == <<asleep, timed>>

CondVar == WChan \cup {kernel_sem_cv}
Goals   == {"enter", "leave", "wait", "exit", "signal", "broadcast"}

To(t, next) == pc' = [pc EXCEPT ![t] = next]

Init ==
  /\ kernel_mutex = NULL
  /\ kernel_sem = 1
  /\ waitset = [c \in CondVar |-> <<>>]
  /\ waitset_lock = [c \in CondVar |-> NULL]
  /\ signalled = [t \in Thread |-> FALSE]
  /\ removed = [t \in Thread |-> FALSE]
  /\ asleep = [t \in Thread |-> FALSE]
  /\ timed = [t \in Thread |-> FALSE]
  /\ pc = [t \in Thread |-> "user"]
  /\ goal = [t \in Thread |-> "enter"]
  /\ cv = [t \in Thread |-> NULL]
  /\ ret = [t \in Thread |-> FALSE]

-----------------------------------------------------------------------------
\* Mutex_Lock(&kernel_mutex): the spinning and yielding that ends with the
\* atomic test and set.
MutexLock_Untested(t) == kernel_mutex' = t

MutexLock(t) == kernel_mutex = NULL /\ kernel_mutex' = t

-----------------------------------------------------------------------------
(* The kernel semaphore.                                                   *)

\* kernel_lock, up to the lock of kernel_mutex.
KernelLock(t) ==
  /\ pc[t] = "user"
  /\ MutexLock(t)
  /\ goal' = [goal EXCEPT ![t] = "enter"]
  /\ To(t, "test")
  /\ UNCHANGED <<kernel_sem, waitset, waitset_lock, waiterVars, sleepVars, cv, ret>>

\* The condition of the while loops of kernel_lock and kernel_wait_wchan.
SemTaken(t) == kernel_sem <= 0

Acquire(t) ==
  /\ pc[t] = "test" /\ ~SemTaken(t)
  /\ kernel_sem' = kernel_sem - 1
  /\ kernel_mutex' = NULL
  /\ cv' = [cv EXCEPT ![t] = NULL]
  /\ goal' = [goal EXCEPT ![t] = "enter"]
  /\ To(t, "kernel")
  /\ UNCHANGED <<waitset, waitset_lock, waiterVars, sleepVars, ret>>

WaitForSem(t) ==
  /\ pc[t] = "test" /\ SemTaken(t)
  /\ cv' = [cv EXCEPT ![t] = kernel_sem_cv]
  /\ To(t, "enqueue")
  /\ UNCHANGED <<kernel_mutex, kernel_sem, waitset, waitset_lock, waiterVars,
                 sleepVars, goal, ret>>

\* The common beginning of kernel_unlock, kernel_wait_wchan and kernel_sleep.
Release(t, what, w, timeout) ==
  /\ pc[t] = "kernel"
  /\ MutexLock(t)
  /\ kernel_sem' = kernel_sem + 1
  /\ goal' = [goal EXCEPT ![t] = what]
  /\ cv' = [cv EXCEPT ![t] = w]
  /\ timed' = [timed EXCEPT ![t] = timeout]
  /\ To(t, "release")
  /\ UNCHANGED <<waitset, waitset_lock, waiterVars, asleep, ret>>

KernelUnlock(t)      == Release(t, "leave", NULL, FALSE)
KernelSleep(t)       == Release(t, "exit", NULL, FALSE)
KernelWait(t, w, timeout) == Release(t, "wait", w, timeout)

\* What they do after Cond_Signal(&kernel_sem_cv): unlock, be STOPPED for ever,
\* or wait.
AfterRelease(t) ==
  /\ pc[t] = "after"
  /\ CASE goal[t] = "leave" -> kernel_mutex' = NULL /\ To(t, "user")
       [] goal[t] = "exit"  -> kernel_mutex' = NULL /\ To(t, "gone")
       [] goal[t] = "wait"  -> UNCHANGED kernel_mutex /\ To(t, "enqueue")
  /\ UNCHANGED <<kernel_sem, waitset, waitset_lock, waiterVars, sleepVars,
                 goal, cv, ret>>

-----------------------------------------------------------------------------
(* Cond_Signal and Cond_Broadcast.                                         *)

\* The CondVar that t is signalling: kernel_sem_cv while it releases the
\* kernel, else the channel that it has named.
Signalling(t) ==
  IF goal[t] \in {"signal", "broadcast"} THEN cv[t] ELSE kernel_sem_cv

\* kernel_signal and kernel_broadcast, up to the lock of waitset_lock.
KernelSignal(t, w, how) ==
  /\ pc[t] = "kernel"
  /\ waitset_lock[w] = NULL
  /\ waitset_lock' = [waitset_lock EXCEPT ![w] = t]
  /\ goal' = [goal EXCEPT ![t] = how]
  /\ cv' = [cv EXCEPT ![t] = w]
  /\ To(t, "signal")
  /\ UNCHANGED <<kernel_mutex, kernel_sem, waitset, waiterVars, sleepVars, ret>>

SignalSem_Never(t) ==
  /\ pc[t] = "release"
  /\ To(t, "after")
  /\ UNCHANGED <<kernel_mutex, kernel_sem, waitset, waitset_lock, waiterVars,
                 sleepVars, goal, cv, ret>>

SignalSem(t) ==
  /\ pc[t] = "release"
  /\ waitset_lock[kernel_sem_cv] = NULL
  /\ waitset_lock' = [waitset_lock EXCEPT ![kernel_sem_cv] = t]
  /\ To(t, "signal")
  /\ UNCHANGED <<kernel_mutex, kernel_sem, waitset, waiterVars, sleepVars,
                 goal, cv, ret>>

\* cv_signal returns when it has woken a thread, not when it has removed one.
Served_Removed(t, w) == goal[t] # "broadcast"

Served(t, w) == asleep[w] /\ goal[t] # "broadcast"

\* waiter->removed = 1.
MarkRemoved(w) == [removed EXCEPT ![w] = TRUE]

\* One turn of the loop of cv_signal, with the loop of Cond_Broadcast around it.
SignalOne(t) ==
  LET c == Signalling(t)
      w == Head(waitset[c])
  IN
  /\ pc[t] = "signal"
  /\ waitset[c] # <<>>
  /\ waitset' = [waitset EXCEPT ![c] = Tail(@)]
  /\ removed' = MarkRemoved(w)
  /\ signalled' = [signalled EXCEPT ![w] = asleep[w]]
  /\ asleep' = [asleep EXCEPT ![w] = FALSE]
  /\ timed' = [timed EXCEPT ![w] = @ /\ ~asleep[w]]
  /\ To(t, IF Served(t, w) THEN "signalled" ELSE "signal")
  /\ UNCHANGED <<kernel_mutex, kernel_sem, waitset_lock, goal, cv, ret>>

SignalNobody(t) ==
  /\ pc[t] = "signal"
  /\ waitset[Signalling(t)] = <<>>
  /\ To(t, "signalled")
  /\ UNCHANGED <<kernel_mutex, kernel_sem, waitset, waitset_lock, waiterVars,
                 sleepVars, goal, cv, ret>>

SignalUnlock(t) ==
  /\ pc[t] = "signalled"
  /\ waitset_lock' = [waitset_lock EXCEPT ![Signalling(t)] = NULL]
  /\ IF goal[t] \in {"signal", "broadcast"}
     THEN cv' = [cv EXCEPT ![t] = NULL] /\ To(t, "kernel")
     ELSE UNCHANGED cv /\ To(t, "after")
  /\ UNCHANGED <<kernel_mutex, kernel_sem, waitset, waiterVars, sleepVars,
                 goal, ret>>

-----------------------------------------------------------------------------
(* cv_wait.                                                                *)

Enqueue(t) ==
  /\ pc[t] = "enqueue"
  /\ waitset_lock[cv[t]] = NULL
  /\ waitset_lock' = [waitset_lock EXCEPT ![cv[t]] = t]
  /\ waitset' = [waitset EXCEPT ![cv[t]] = Append(@, t)]
  /\ signalled' = [signalled EXCEPT ![t] = FALSE]
  /\ removed' = [removed EXCEPT ![t] = FALSE]
  /\ To(t, "unlock")
  /\ UNCHANGED <<kernel_mutex, kernel_sem, sleepVars, goal, cv, ret>>

MutexUnlock(t) ==
  /\ pc[t] = "unlock"
  /\ kernel_mutex' = NULL
  /\ To(t, "sleep")
  /\ UNCHANGED <<kernel_sem, waitset, waitset_lock, waiterVars, sleepVars,
                 goal, cv, ret>>

\* sleep_releasing: under sched_spinlock the thread is STOPPED, its timeout is
\* registered, and waitset_lock is released.
SleepReleasing(t) ==
  /\ pc[t] = "sleep"
  /\ asleep' = [asleep EXCEPT ![t] = TRUE]
  /\ waitset_lock' = [waitset_lock EXCEPT ![cv[t]] = NULL]
  /\ To(t, "asleep")
  /\ UNCHANGED <<kernel_mutex, kernel_sem, waitset, waiterVars, timed, goal,
                 cv, ret>>

\* The scheduler wakes a thread whose timeout has expired.
Timeout(t) ==
  /\ asleep[t] /\ timed[t]
  /\ asleep' = [asleep EXCEPT ![t] = FALSE]
  /\ timed' = [timed EXCEPT ![t] = FALSE]
  /\ UNCHANGED <<kernel_mutex, kernel_sem, waitset, waitset_lock, waiterVars,
                 pc, goal, cv, ret>>

\* The waiter of a thread that nobody signalled is still linked in the ring.
LeftInRing(t) == ~removed[t]

PlaceIn(ring, t) == CHOOSE i \in DOMAIN ring : ring[i] = t

TidyUp(t) ==
  /\ pc[t] = "asleep" /\ ~asleep[t]
  /\ waitset_lock[cv[t]] = NULL
  /\ waitset' = IF LeftInRing(t)
                THEN [waitset EXCEPT ![cv[t]] = RemoveAt(@, PlaceIn(@, t))]
                ELSE waitset
  /\ To(t, "relock")
  /\ UNCHANGED <<kernel_mutex, kernel_sem, waitset_lock, waiterVars, sleepVars,
                 goal, cv, ret>>

\* Mutex_Lock(mutex) and the return of cv_wait, to the loop on kernel_sem; the
\* waiter goes with the stack frame.
Relock(t) ==
  /\ pc[t] = "relock"
  /\ MutexLock(t)
  /\ ret' = IF cv[t] \in WChan THEN [ret EXCEPT ![t] = signalled[t]] ELSE ret
  /\ signalled' = [signalled EXCEPT ![t] = FALSE]
  /\ removed' = [removed EXCEPT ![t] = FALSE]
  /\ To(t, "test")
  /\ UNCHANGED <<kernel_sem, waitset, waitset_lock, sleepVars, goal, cv>>

-----------------------------------------------------------------------------
\* Nothing is left to do when every thread has exited, or sleeps on a channel
\* with nobody left to signal it.
Quiet ==
  /\ \A t \in Thread : \/ pc[t] = "gone"
                       \/ asleep[t] /\ ~timed[t] /\ cv[t] \in WChan
  /\ UNCHANGED vars

\* The calls a thread makes of its own accord.
CallStep(t) ==
  \/ KernelLock(t) \/ KernelSleep(t)
  \/ \E w \in WChan : \/ \E timeout \in BOOLEAN : KernelWait(t, w, timeout)
                      \/ \E how \in {"signal", "broadcast"} : KernelSignal(t, w, how)

\* What a thread does to finish a call: first what needs no lock of its own,
\* then what waits for a lock.
OwnStep(t) ==
  \/ WaitForSem(t) \/ AfterRelease(t) \/ SignalOne(t) \/ SignalNobody(t)
  \/ SignalUnlock(t) \/ MutexUnlock(t) \/ SleepReleasing(t) \/ Acquire(t)

LockStep(t) == SignalSem(t) \/ Enqueue(t) \/ TidyUp(t) \/ Relock(t)

Next ==
  \/ \E t \in Thread :
       CallStep(t) \/ KernelUnlock(t) \/ OwnStep(t) \/ LockStep(t) \/ Timeout(t)
  \/ Quiet

Spec == Init /\ [][Next]_vars

\* Somebody goes on: one thread that can finish its call takes a step of it, the
\* scheduler may choose whom.  A system call ends: a thread leaves the kernel
\* unless it waits or exits.
Fairness ==
  WF_vars(\E t \in Thread : OwnStep(t) \/ LockStep(t) \/ KernelUnlock(t) \/ Timeout(t))

-----------------------------------------------------------------------------
TypeOK ==
  /\ kernel_mutex \in Thread \cup {NULL}
  /\ kernel_sem \in {0, 1}
  /\ waitset \in [CondVar -> Seq(Thread)]
  /\ waitset_lock \in [CondVar -> Thread \cup {NULL}]
  /\ signalled \in [Thread -> BOOLEAN] /\ removed \in [Thread -> BOOLEAN]
  /\ asleep \in [Thread -> BOOLEAN] /\ timed \in [Thread -> BOOLEAN]
  /\ pc \in [Thread -> {"user", "test", "kernel", "release", "signal",
                        "signalled", "after", "enqueue", "unlock", "sleep",
                        "asleep", "relock", "gone"}]
  /\ goal \in [Thread -> Goals]
  /\ cv \in [Thread -> CondVar \cup {NULL}]
  /\ ret \in [Thread -> BOOLEAN]

\* The threads that have the kernel: from the decrement of kernel_sem to the
\* increment.
Inside(t) ==
  \/ pc[t] = "kernel"
  \/ pc[t] \in {"signal", "signalled"} /\ goal[t] \in {"signal", "broadcast"}

\* The threads that must hold kernel_mutex.
UnderMutex(t) ==
  \/ pc[t] \in {"test", "release", "after", "enqueue", "unlock"}
  \/ pc[t] \in {"signal", "signalled"} /\ goal[t] \notin {"signal", "broadcast"}

\* kernel_lock admits one thread at a time, and kernel_sem says whether the
\* kernel is free, whatever the barging and the woken threads that come too
\* late; and no thread tests or changes kernel_sem, or is on its way from the
\* increment to its place in a ring, without kernel_mutex.
MutualExclusion ==
  /\ \A t, u \in Thread : Inside(t) /\ Inside(u) => t = u
  /\ kernel_sem = IF \E t \in Thread : Inside(t) THEN 0 ELSE 1
  /\ \A t \in Thread : UnderMutex(t) <=> kernel_mutex = t

\* A waiter lives on the stack of its thread: it is in the ring of the CondVar
\* the thread waits on, once, until it is removed, and in no other; when
\* cv_wait returns it is in none.  Nobody touches a ring without its lock.
Linked(t) == pc[t] \in {"unlock", "sleep", "asleep"} /\ ~removed[t]

RingIntegrity ==
  /\ \A c \in CondVar, t \in Thread :
       t \in Range(waitset[c]) <=> Linked(t) /\ cv[t] = c
  /\ \A c \in CondVar : IsInjective(waitset[c])
  /\ \A c \in CondVar, t \in Thread :
       waitset_lock[c] = t <=>
         \/ pc[t] \in {"signal", "signalled"} /\ Signalling(t) = c
         \/ pc[t] \in {"unlock", "sleep"} /\ cv[t] = c

\* cv_wait's assertion, kernel_cc.c:143, and its counterpart: a waiter that is
\* still linked has not been signalled, and a sleeper is still linked.
CvAssertion ==
  \A t \in Thread :
    /\ Linked(t) => ~signalled[t]
    /\ asleep[t] => pc[t] = "asleep" /\ ~removed[t]

\* No wakeup of kernel_unlock is lost: while a thread sleeps in kernel_lock,
\* the kernel is taken, or somebody who will test kernel_sem, or will signal
\* kernel_sem_cv, is on the way.
NoLostWakeup ==
  \A t \in Thread :
    asleep[t] /\ cv[t] = kernel_sem_cv =>
      \/ kernel_sem = 0
      \/ \E u \in Thread :
           \/ pc[u] = "release"
           \/ pc[u] = "signal" /\ Signalling(u) = kernel_sem_cv
           \/ pc[u] = "test"
           \/ pc[u] \in {"asleep", "relock"} /\ ~asleep[u]

\* A thread that waits for the kernel does not wait in vain: somebody gets it.
Wanting(t) == pc[t] = "asleep" /\ cv[t] = kernel_sem_cv

Progress == \A t \in Thread : Wanting(t) ~> ~Wanting(t) \/ \E u \in Thread : Inside(u)

-----------------------------------------------------------------------------
(* Refinement: the kernel lock is the monitor of KernelMonitor.            *)

Place(t) ==
  CASE pc[t] = "gone" -> "gone"
    [] Inside(t) -> "kernel"
    [] pc[t] \in {"release", "after", "signal", "signalled"} -> "kernel"
    [] pc[t] \in {"enqueue", "unlock"} /\ cv[t] \in WChan -> "kernel"
    [] pc[t] = "sleep" /\ cv[t] \in WChan -> "asleep"
    [] pc[t] = "asleep" /\ cv[t] \in WChan /\ asleep[t] -> "asleep"
    [] OTHER -> IF goal[t] = "wait" THEN "back" ELSE "user"

CallOf(t) ==
  IF pc[t] = "signal" /\ goal[t] \in {"signal", "broadcast"} THEN goal[t]
                                                             ELSE "none"

Monitor == INSTANCE KernelMonitor WITH
  place   <- [t \in Thread |-> Place(t)],
  channel <- [t \in Thread |-> IF Place(t) = "asleep" \/ CallOf(t) # "none"
                               THEN cv[t] ELSE NULL],
  patient <- [t \in Thread |-> Place(t) # "asleep" \/ ~timed[t]],
  ret     <- [t \in Thread |->
                IF pc[t] \in {"sleep", "asleep", "relock"} /\ cv[t] \in WChan
                THEN signalled[t] ELSE ret[t]],
  call    <- [t \in Thread |-> CallOf(t)]

\* kernel_lock, kernel_wait_wchan, kernel_signal and their kin implement the
\* monitor: see KernelMonitor for what that promises.
RefinesMonitor == Monitor!Spec

=============================================================================
