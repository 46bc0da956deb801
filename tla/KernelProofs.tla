---------------------------- MODULE KernelProofs ----------------------------
(***************************************************************************)
(* Proofs about the kernel lock and the condition variables, for any       *)
(* number of threads and channels: mutual exclusion, the integrity of the  *)
(* rings of waiters, and that no release of the kernel is missed.          *)
(*                                                                         *)
(* The next part carries the theorems of ProcessProofs over to the         *)
(* specification that the run `kernel' checks: a behaviour of KernelSpec   *)
(* is one of Process, in which the part of the kernel lock stutters.       *)
(*                                                                         *)
(* The end is about two monitors that user programs make of a mutex and    *)
(* condition variables: BarrierSync and the table of the philosophers.     *)
(***************************************************************************)
EXTENDS MCKernel, QueueLemmas, FiniteSetTheorems

-----------------------------------------------------------------------------
(* The inductive invariant.                                                *)

Signals == {"signal", "broadcast"}
Leaves  == {"leave", "exit", "wait"}

\* What the place of a thread says of its call, its CondVar and its waiter.
CallInv ==
  \A t \in Thread :
    /\ pc[t] \in {"enqueue", "unlock", "sleep", "asleep", "relock"} =>
         cv[t] \in CondVar
    /\ pc[t] \in {"release", "after"} => goal[t] \in Leaves
    /\ pc[t] \in {"signal", "signalled"} => goal[t] \in Leaves \cup Signals
    /\ pc[t] \in {"signal", "signalled"} /\ goal[t] \in Signals =>
         cv[t] \in WChan
    /\ pc[t] \in {"release", "after", "signal", "signalled"} /\ goal[t] = "wait" =>
         cv[t] \in WChan
    /\ pc[t] \in {"unlock", "sleep"} => ~removed[t]
    /\ pc[t] = "user" => goal[t] \in {"enter", "leave"}
    /\ pc[t] \in {"test", "enqueue", "unlock", "sleep", "asleep", "relock"} =>
         goal[t] \in {"enter", "wait"}
    /\ pc[t] \in {"enqueue", "unlock", "sleep", "asleep", "relock"} /\ cv[t] \in WChan =>
         goal[t] = "wait"

\* A thread that is asleep in kernel_lock, or on its way there.
SemWaiter(t) ==
  /\ cv[t] = kernel_sem_cv
  /\ asleep[t] \/ pc[t] \in {"enqueue", "unlock", "sleep"}

\* Somebody who will signal kernel_sem_cv or test kernel_sem.
Helper(u) ==
  \/ pc[u] = "release"
  \/ pc[u] = "signal" /\ Signalling(u) = kernel_sem_cv
  \/ pc[u] = "test"
  \/ pc[u] \in {"asleep", "relock"} /\ ~asleep[u]

\* NoLostWakeup, from the moment a thread has found the kernel taken.
WakeupInv ==
  \A t \in Thread : SemWaiter(t) => kernel_sem = 0 \/ \E u \in Thread : Helper(u)

IInv ==
  /\ TypeOK
  /\ CallInv
  /\ MutualExclusion
  /\ CvAssertion
  /\ RingIntegrity
  /\ WakeupInv

\* kernel_lock takes kernel_mutex.
LEMMA KernelLockStep ==
  ASSUME IInv, NEW t \in Thread, KernelLock(t)
  PROVE  IInv'
<1>1. TypeOK'
  BY DEF KernelLock, MutexLock, To, IInv, TypeOK, Goals, waiterVars, sleepVars
<1>2. CallInv'
  BY DEF KernelLock, To, IInv, TypeOK, CallInv, waiterVars
<1>3. MutualExclusion'
  BY LockAssumption
     DEF KernelLock, MutexLock, To, IInv, TypeOK, MutualExclusion, Inside,
         UnderMutex
<1>4. CvAssertion'
  BY DEF KernelLock, To, IInv, TypeOK, CvAssertion, Linked, waiterVars,
         sleepVars
<1>5. RingIntegrity'
  BY DEF KernelLock, To, IInv, TypeOK, RingIntegrity, Linked, Signalling,
         waiterVars
<1>6. WakeupInv'
  BY DEF KernelLock, To, IInv, TypeOK, WakeupInv, Helper
<1> QED BY <1>1, <1>2, <1>3, <1>4, <1>5, <1>6 DEF IInv

\* kernel_sem is 1: the thread takes it, and nobody else was inside.
LEMMA AcquireStep ==
  ASSUME IInv, NEW t \in Thread, Acquire(t)
  PROVE  IInv'
<1>1. TypeOK'
  BY DEF Acquire, SemTaken, To, IInv, TypeOK, Goals, waiterVars, sleepVars
<1>2. CallInv'
  BY DEF Acquire, To, IInv, TypeOK, CallInv, waiterVars
<1>3. MutualExclusion'
  BY LockAssumption
     DEF Acquire, SemTaken, To, IInv, TypeOK, MutualExclusion, Inside,
         UnderMutex
<1>4. CvAssertion'
  BY DEF Acquire, To, IInv, TypeOK, CvAssertion, Linked, waiterVars, sleepVars
<1>5. RingIntegrity'
  BY DEF Acquire, To, IInv, TypeOK, RingIntegrity, Linked, Signalling,
         waiterVars
<1>6. WakeupInv'
  BY DEF Acquire, SemTaken, To, IInv, TypeOK, WakeupInv
<1> QED BY <1>1, <1>2, <1>3, <1>4, <1>5, <1>6 DEF IInv

\* kernel_sem is 0: from here on somebody is to wake this thread.
LEMMA WaitForSemStep ==
  ASSUME IInv, NEW t \in Thread, WaitForSem(t)
  PROVE  IInv'
<1>1. TypeOK'
  BY DEF WaitForSem, To, IInv, TypeOK, CondVar, waiterVars, sleepVars
<1>2. CallInv'
  BY LockAssumption
     DEF WaitForSem, To, IInv, TypeOK, CallInv, CondVar, waiterVars
<1>3. MutualExclusion'
  BY DEF WaitForSem, To, IInv, TypeOK, MutualExclusion, Inside, UnderMutex
<1>4. CvAssertion'
  BY DEF WaitForSem, To, IInv, TypeOK, CvAssertion, Linked, waiterVars,
         sleepVars
<1>5. RingIntegrity'
  BY DEF WaitForSem, To, IInv, TypeOK, RingIntegrity, Linked, Signalling,
         waiterVars
<1>6. WakeupInv'
  BY DEF WaitForSem, SemTaken, To, IInv, TypeOK, WakeupInv
<1> QED BY <1>1, <1>2, <1>3, <1>4, <1>5, <1>6 DEF IInv

\* kernel_sem becomes 1 again, and a signal to kernel_sem_cv is under way.
LEMMA ReleaseStep ==
  ASSUME IInv, NEW t \in Thread, NEW what \in Leaves, NEW w,
         NEW timeout \in BOOLEAN,
         IF what = "wait" THEN w \in WChan ELSE w = NULL, Release(t, what, w, timeout)
  PROVE  IInv'
<1>1. TypeOK'
  BY DEF Release, MutexLock, To, IInv, TypeOK, MutualExclusion, CvAssertion,
         Inside, Leaves, CondVar, Goals, waiterVars
<1>2. CallInv'
  BY DEF Release, To, IInv, TypeOK, CallInv, waiterVars
<1>3. MutualExclusion'
  BY LockAssumption
     DEF Release, MutexLock, To, IInv, TypeOK, MutualExclusion, Inside,
         UnderMutex
<1>4. CvAssertion'
  BY DEF Release, To, IInv, TypeOK, CvAssertion, Linked, waiterVars
<1>5. RingIntegrity'
  BY DEF Release, To, IInv, TypeOK, RingIntegrity, Linked, Signalling,
         waiterVars
<1>6. WakeupInv'
  BY DEF Release, To, IInv, TypeOK, WakeupInv, Helper
<1> QED BY <1>1, <1>2, <1>3, <1>4, <1>5, <1>6 DEF IInv

\* The rest of kernel_unlock, kernel_wait_wchan and kernel_sleep.
LEMMA AfterReleaseStep ==
  ASSUME IInv, NEW t \in Thread, AfterRelease(t)
  PROVE  IInv'
<1>0. \/ goal[t] = "leave" /\ kernel_mutex' = NULL /\ To(t, "user")
      \/ goal[t] = "exit" /\ kernel_mutex' = NULL /\ To(t, "gone")
      \/ goal[t] = "wait" /\ UNCHANGED kernel_mutex /\ To(t, "enqueue")
  BY DEF AfterRelease, IInv, CallInv, Leaves
<1>00. /\ pc[t] = "after"
       /\ UNCHANGED <<kernel_sem, waitset, waitset_lock, waiterVars, sleepVars,
                      goal, cv, ret>>
  BY DEF AfterRelease
<1>1. TypeOK'
  <2>1. \/ pc' = [pc EXCEPT ![t] = "user"]
        \/ pc' = [pc EXCEPT ![t] = "gone"]
        \/ pc' = [pc EXCEPT ![t] = "enqueue"]
    BY <1>0 DEF To
  <2>2. kernel_mutex' \in {NULL, kernel_mutex}
    BY <1>0
  <2> QED BY <1>00, <2>1, <2>2 DEF IInv, TypeOK, waiterVars, sleepVars
<1>2. CallInv'
  BY <1>0, <1>00 DEF To, IInv, TypeOK, CallInv, CondVar, waiterVars
<1>3. MutualExclusion'
  BY <1>0, <1>00, LockAssumption
     DEF To, IInv, TypeOK, MutualExclusion, Inside, UnderMutex, CondVar
<1>4. CvAssertion'
  BY <1>0, <1>00
     DEF To, IInv, TypeOK, CvAssertion, Linked, waiterVars, sleepVars
<1>5. RingIntegrity'
  BY <1>0, <1>00
     DEF To, IInv, TypeOK, RingIntegrity, Linked, Signalling, waiterVars
<1>6. WakeupInv'
  BY <1>0, <1>00, LockAssumption, SMTT(30)
     DEF To, IInv, TypeOK, CallInv, WakeupInv, Signalling, SemWaiter, Helper,
         sleepVars
<1> QED BY <1>1, <1>2, <1>3, <1>4, <1>5, <1>6 DEF IInv

\* The thread inside begins to signal a channel.
LEMMA KernelSignalStep ==
  ASSUME IInv, NEW t \in Thread, NEW w \in WChan, NEW how \in Signals, KernelSignal(t, w, how)
  PROVE  IInv'
<1>1. TypeOK'
  BY DEF KernelSignal, To, IInv, TypeOK, Signals, CondVar, Goals, waiterVars,
         sleepVars
<1>2. CallInv'
  BY DEF KernelSignal, To, IInv, TypeOK, CallInv, waiterVars
<1>3. MutualExclusion'
  BY DEF KernelSignal, To, IInv, TypeOK, MutualExclusion, Inside, UnderMutex,
         Signals
<1>4. CvAssertion'
  BY DEF KernelSignal, To, IInv, TypeOK, CvAssertion, Linked, waiterVars,
         sleepVars
<1>5. RingIntegrity'
  BY LockAssumption
     DEF KernelSignal, To, IInv, TypeOK, RingIntegrity, Linked, Signalling,
         Signals, waiterVars
<1>6. WakeupInv'
  BY DEF KernelSignal, To, IInv, TypeOK, WakeupInv, Signalling, SemWaiter,
         Helper, sleepVars
<1> QED BY <1>1, <1>2, <1>3, <1>4, <1>5, <1>6 DEF IInv

\* kernel_sem_cv is signalled with kernel_mutex still held.
LEMMA SignalSemStep ==
  ASSUME IInv, NEW t \in Thread, SignalSem(t)
  PROVE  IInv'
<1>0. /\ pc[t] = "release" /\ pc' = [pc EXCEPT ![t] = "signal"]
      /\ waitset_lock[kernel_sem_cv] = NULL
      /\ waitset_lock' = [waitset_lock EXCEPT ![kernel_sem_cv] = t]
      /\ kernel_sem_cv \in CondVar /\ NULL \notin Thread
      /\ Signalling(t) = kernel_sem_cv
      /\ \A u \in Thread : Signalling(u)' = Signalling(u)
      /\ UNCHANGED <<waitset, waiterVars, goal, cv>>
  BY LockAssumption
     DEF SignalSem, To, IInv, TypeOK, CallInv, Signalling, Leaves, CondVar
<1>1. TypeOK'
  BY DEF SignalSem, To, IInv, TypeOK, waiterVars, sleepVars
<1>2. CallInv'
  BY DEF SignalSem, To, IInv, TypeOK, CallInv, Signals, Leaves, waiterVars
<1>3. MutualExclusion'
  BY DEF SignalSem, To, IInv, TypeOK, CallInv, MutualExclusion, Inside,
         UnderMutex, Leaves
<1>4. CvAssertion'
  BY DEF SignalSem, To, IInv, TypeOK, CvAssertion, Linked, waiterVars, sleepVars
<1>5. RingIntegrity'
  <2>1. \A c \in CondVar, u \in Thread :
          u \in Range(waitset'[c]) <=> Linked(u)' /\ cv'[u] = c
    BY DEF SignalSem, To, IInv, TypeOK, RingIntegrity, Linked, waiterVars
  <2>2. \A c \in CondVar : IsInjective(waitset'[c])
    BY DEF SignalSem, To, IInv, TypeOK, RingIntegrity
  <2>3. \A c \in CondVar, u \in Thread :
          waitset_lock'[c] = u <=>
            \/ pc'[u] \in {"signal", "signalled"} /\ Signalling(u)' = c
            \/ pc'[u] \in {"unlock", "sleep"} /\ cv'[u] = c
    BY <1>0 DEF IInv, TypeOK, RingIntegrity
  <2> QED BY <2>1, <2>2, <2>3 DEF RingIntegrity
<1>6. WakeupInv'
  BY DEF SignalSem, To, IInv, TypeOK, CallInv, WakeupInv, Signalling, Helper,
         Leaves
<1> QED BY <1>1, <1>2, <1>3, <1>4, <1>5, <1>6 DEF IInv

\* The head leaves the ring, marked as removed.
LEMMA SignalOneStep ==
  ASSUME IInv, NEW t \in Thread, SignalOne(t)
  PROVE  IInv'
<1> DEFINE s == waitset[Signalling(t)]
           w == Head(s)
<1>0. /\ pc[t] = "signal" /\ s # <<>>
      /\ Signalling(t) \in CondVar /\ s \in Seq(Thread) /\ IsInjective(s)
      /\ w \in Thread /\ w \in Range(s)
  BY PopLemma
     DEF SignalOne, To, IInv, TypeOK, CallInv, RingIntegrity, Signalling,
         Leaves, CondVar, Goals
<1>7. /\ waitset' = [waitset EXCEPT ![Signalling(t)] = Tail(s)]
      /\ \A u : u \in Range(Tail(s)) <=> u \in Range(s) /\ u # w
      /\ IsInjective(Tail(s)) /\ Tail(s) \in Seq(Thread)
  BY <1>0, PopLemma DEF SignalOne
<1>8. /\ cv[w] = Signalling(t) /\ pc[w] = "asleep" /\ ~removed[w]
      /\ w # t
  <2>1. Linked(w) /\ cv[w] = Signalling(t)
    BY <1>0 DEF IInv, RingIntegrity
  <2>2. waitset_lock[Signalling(t)] = t
    BY <1>0 DEF IInv, RingIntegrity
  <2>3. pc[w] \in {"unlock", "sleep"} => w = t
    BY <1>0, <2>1, <2>2 DEF IInv, RingIntegrity
  <2> QED BY <1>0, <2>1, <2>3 DEF Linked
<1>9. /\ \A u \in Thread : pc'[u] = IF u = t THEN pc'[t] ELSE pc[u]
      /\ pc'[t] \in {"signal", "signalled"}
      /\ \A u \in Thread : removed'[u] = IF u = w THEN TRUE ELSE removed[u]
      /\ UNCHANGED <<waitset_lock, goal, cv>>
  BY <1>0 DEF SignalOne, MarkRemoved, To, IInv, TypeOK
<1> HIDE DEF s
<1>1. TypeOK'
  BY DEF SignalOne, MarkRemoved, To, IInv, TypeOK, CallInv, CvAssertion,
         Signalling, Leaves, CondVar
<1>2. CallInv'
  BY <1>0, <1>8, <1>9 DEF IInv, CallInv, Leaves, Signals
<1>3. MutualExclusion'
  BY DEF SignalOne, MarkRemoved, To, IInv, TypeOK, MutualExclusion, Inside,
         UnderMutex
<1>4. CvAssertion'
  BY DEF SignalOne, MarkRemoved, To, IInv, TypeOK, CvAssertion, Linked
<1>5. RingIntegrity'
  <2>1. \A c \in CondVar, u \in Thread :
          u \in Range(waitset'[c]) <=> Linked(u)' /\ cv'[u] = c
    <3>1. \A u \in Thread : Linked(u)' <=> Linked(u) /\ u # w
      BY <1>0, <1>8, <1>9 DEF Linked
    <3>2. \A c \in CondVar, u \in Thread :
            u \in Range(waitset'[c]) <=> u \in Range(waitset[c]) /\ (c = Signalling(t) => u # w)
      BY <1>0, <1>7 DEF IInv, TypeOK, s
    <3> QED BY <1>0, <1>8, <1>9, <3>1, <3>2 DEF IInv, RingIntegrity
  <2>2. \A c \in CondVar : IsInjective(waitset'[c])
    BY <1>0, <1>7 DEF IInv, TypeOK, RingIntegrity
  <2>3. \A c \in CondVar, u \in Thread :
          waitset_lock'[c] = u <=>
            \/ pc'[u] \in {"signal", "signalled"} /\ Signalling(u)' = c
            \/ pc'[u] \in {"unlock", "sleep"} /\ cv'[u] = c
    BY DEF SignalOne, MarkRemoved, To, IInv, TypeOK, CvAssertion,
           RingIntegrity, Signalling
  <2> QED BY <2>1, <2>2, <2>3 DEF RingIntegrity
<1>6. WakeupInv'
  BY DEF SignalOne, MarkRemoved, Served, To, IInv, TypeOK, CvAssertion,
         WakeupInv, Signalling, SemWaiter, Helper, CondVar
<1> QED BY <1>1, <1>2, <1>3, <1>4, <1>5, <1>6 DEF IInv

\* An empty ring: nobody waits who could have been woken.
LEMMA SignalNobodyStep ==
  ASSUME IInv, NEW t \in Thread, SignalNobody(t)
  PROVE  IInv'
<1>1. TypeOK'
  BY DEF SignalNobody, To, IInv, TypeOK, waiterVars, sleepVars
<1>2. CallInv'
  BY DEF SignalNobody, To, IInv, TypeOK, CallInv, waiterVars
<1>3. MutualExclusion'
  BY DEF SignalNobody, To, IInv, TypeOK, MutualExclusion, Inside, UnderMutex
<1>4. CvAssertion'
  BY DEF SignalNobody, To, IInv, TypeOK, CvAssertion, Linked, waiterVars,
         sleepVars
<1>5. RingIntegrity'
  BY DEF SignalNobody, To, IInv, TypeOK, RingIntegrity, Linked, Signalling,
         waiterVars
<1>6. WakeupInv'
  <2>1. ASSUME Signalling(t) = kernel_sem_cv, NEW u \in Thread, SemWaiter(u)
        PROVE  kernel_sem = 0
    <3>1. waitset[kernel_sem_cv] \in Seq(Thread) /\ Range(waitset[kernel_sem_cv]) = {}
      BY <2>1 DEF SignalNobody, Range, IInv, TypeOK, CondVar
    <3>2. pc[u] = "enqueue"
      BY <2>1, <3>1
         DEF To, IInv, TypeOK, CallInv, CvAssertion, RingIntegrity, Linked,
             SemWaiter, CondVar
    <3>3. pc[t] = "signal" /\ goal[t] \notin Signals
      BY <2>1, LockAssumption
         DEF SignalNobody, To, IInv, TypeOK, CallInv, Signalling, Signals
    <3> QED BY <3>2, <3>3 DEF IInv, MutualExclusion, UnderMutex, Signals
  <2> QED BY <2>1
       DEF SignalNobody, To, IInv, TypeOK, WakeupInv, Signalling, SemWaiter,
           Helper, sleepVars
<1> QED BY <1>1, <1>2, <1>3, <1>4, <1>5, <1>6 DEF IInv

\* Cond_Signal and Cond_Broadcast unlock the ring.
LEMMA SignalUnlockStep ==
  ASSUME IInv, NEW t \in Thread, SignalUnlock(t)
  PROVE  IInv'
<1>0. \/ goal[t] \in Signals /\ cv' = [cv EXCEPT ![t] = NULL] /\ To(t, "kernel")
      \/ goal[t] \in Leaves /\ UNCHANGED cv /\ To(t, "after")
  BY DEF SignalUnlock, IInv, CallInv, Leaves, Signals
<1>00. /\ pc[t] = "signalled"
       /\ waitset_lock' = [waitset_lock EXCEPT ![Signalling(t)] = NULL]
       /\ UNCHANGED <<kernel_mutex, kernel_sem, waitset, waiterVars, sleepVars,
                      goal, ret>>
  BY DEF SignalUnlock
<1>7. /\ Signalling(t) \in CondVar /\ Signalling(t) # NULL /\ NULL \notin Thread
      /\ waitset_lock[Signalling(t)] = t
  BY <1>00, LockAssumption
     DEF To, IInv, TypeOK, CallInv, RingIntegrity, Signalling, Leaves,
         CondVar
<1>1. TypeOK'
  <2>1. pc' = [pc EXCEPT ![t] = "kernel"] \/ pc' = [pc EXCEPT ![t] = "after"]
    BY <1>0 DEF To
  <2>2. cv' = cv \/ cv' = [cv EXCEPT ![t] = NULL]
    BY <1>0
  <2> QED BY <1>00, <2>1, <2>2 DEF IInv, TypeOK, waiterVars, sleepVars
<1>2. CallInv'
  BY <1>0, <1>00, <1>7 DEF To, IInv, TypeOK, CallInv, waiterVars
<1>3. MutualExclusion'
  BY <1>0, <1>00, <1>7
     DEF To, IInv, TypeOK, MutualExclusion, Inside, UnderMutex, Signals,
         Leaves, CondVar, waiterVars
<1>4. CvAssertion'
  BY <1>0, <1>00, <1>7
     DEF To, IInv, TypeOK, CvAssertion, Linked, waiterVars, sleepVars
<1>5. RingIntegrity'
  <2>1. \A u \in Thread : u # t => Signalling(u)' = Signalling(u) /\ pc'[u] = pc[u] /\ cv'[u] = cv[u]
    BY <1>0, <1>00 DEF Signalling, To, IInv, TypeOK
  <2>2. pc'[t] \in {"kernel", "after"}
    BY <1>0, <1>00 DEF To, IInv, TypeOK
  <2>3. \A u \in Thread : Linked(u)' <=> Linked(u)
    BY <1>00, <2>1, <2>2 DEF Linked, waiterVars
  <2>4. \A c \in CondVar, u \in Thread :
          u \in Range(waitset'[c]) <=> Linked(u)' /\ cv'[u] = c
    BY <1>00, <2>1, <2>3 DEF IInv, RingIntegrity, Linked
  <2>5. \A c \in CondVar : IsInjective(waitset'[c])
    BY <1>00 DEF IInv, RingIntegrity
  <2>6. \A c \in CondVar, u \in Thread :
          waitset_lock'[c] = u <=>
            \/ pc'[u] \in {"signal", "signalled"} /\ Signalling(u)' = c
            \/ pc'[u] \in {"unlock", "sleep"} /\ cv'[u] = c
    BY <1>00, <1>7, <2>1, <2>2 DEF IInv, TypeOK, RingIntegrity
  <2> QED BY <2>4, <2>5, <2>6 DEF RingIntegrity
<1>6. WakeupInv'
  BY <1>0, <1>00, <1>7
     DEF To, IInv, TypeOK, MutualExclusion, WakeupInv, Inside, Signalling,
         SemWaiter, Helper, waiterVars, sleepVars
<1> QED BY <1>1, <1>2, <1>3, <1>4, <1>5, <1>6 DEF IInv

\* cv_wait links a waiter that is in no ring.
LEMMA EnqueueStep ==
  ASSUME IInv, NEW t \in Thread, Enqueue(t)
  PROVE  IInv'
<1> DEFINE s == waitset[cv[t]]
<1>0. pc[t] = "enqueue" /\ cv[t] \in CondVar /\ s \in Seq(Thread) /\ IsInjective(s)
      /\ t \notin Range(s)
  <2>1. pc[t] = "enqueue"
    BY DEF Enqueue
  <2>2. cv[t] \in CondVar
    BY <2>1 DEF IInv, CallInv
  <2>3. s \in Seq(Thread)
    BY <2>2 DEF IInv, TypeOK
  <2>4. IsInjective(s) /\ t \notin Range(s)
    BY <2>1, <2>2 DEF IInv, RingIntegrity, Linked
  <2> QED BY <2>1, <2>2, <2>3, <2>4
<1>7. /\ waitset' = [waitset EXCEPT ![cv[t]] = Append(s, t)]
      /\ \A u : u \in Range(Append(s, t)) <=> u \in Range(s) \/ u = t
      /\ IsInjective(Append(s, t)) /\ Append(s, t) \in Seq(Thread)
  BY <1>0, AppendLemma DEF Enqueue
<1> HIDE DEF s
<1>1. TypeOK'
  BY DEF Enqueue, To, IInv, TypeOK, CallInv, RingIntegrity, sleepVars
<1>2. CallInv'
  BY DEF Enqueue, To, IInv, TypeOK, CallInv
<1>3. MutualExclusion'
  BY DEF Enqueue, To, IInv, TypeOK, MutualExclusion, Inside, UnderMutex
<1>4. CvAssertion'
  BY DEF Enqueue, To, IInv, TypeOK, CvAssertion, Linked, sleepVars
<1>5. RingIntegrity'
  <2>1. \A c \in CondVar, u \in Thread :
          u \in Range(waitset'[c]) <=> Linked(u)' /\ cv'[u] = c
    <3>1. \A c \in CondVar, u \in Thread :
            u \in Range(waitset'[c]) <=> u \in Range(waitset[c]) \/ (c = cv[t] /\ u = t)
      BY <1>0, <1>7 DEF IInv, TypeOK, s
    <3>2. \A u \in Thread : Linked(u)' <=> Linked(u) \/ u = t
      BY <1>0 DEF Enqueue, To, Linked, IInv, TypeOK
    <3>3. ~Linked(t)
      BY <1>0 DEF Linked
    <3>4. UNCHANGED cv
      BY DEF Enqueue
    <3> QED BY <1>0, <3>1, <3>2, <3>3, <3>4 DEF IInv, RingIntegrity
  <2>2. \A c \in CondVar : IsInjective(waitset'[c])
    BY <1>0, <1>7 DEF IInv, TypeOK, RingIntegrity
  <2>3. \A c \in CondVar, u \in Thread :
          waitset_lock'[c] = u <=>
            \/ pc'[u] \in {"signal", "signalled"} /\ Signalling(u)' = c
            \/ pc'[u] \in {"unlock", "sleep"} /\ cv'[u] = c
    BY LockAssumption DEF Enqueue, To, IInv, TypeOK, RingIntegrity, Signalling
  <2> QED BY <2>1, <2>2, <2>3 DEF RingIntegrity
<1>6. WakeupInv'
  BY DEF Enqueue, To, IInv, TypeOK, WakeupInv, Signalling, SemWaiter, Helper,
         sleepVars
<1> QED BY <1>1, <1>2, <1>3, <1>4, <1>5, <1>6 DEF IInv

\* cv_wait unlocks the mutex and keeps the lock of the ring.
LEMMA MutexUnlockStep ==
  ASSUME IInv, NEW t \in Thread, MutexUnlock(t)
  PROVE  IInv'
<1>1. TypeOK'
  BY DEF MutexUnlock, To, IInv, TypeOK, waiterVars, sleepVars
<1>2. CallInv'
  BY DEF MutexUnlock, To, IInv, TypeOK, CallInv, waiterVars
<1>3. MutualExclusion'
  BY LockAssumption
     DEF MutexUnlock, To, IInv, TypeOK, MutualExclusion, Inside, UnderMutex
<1>4. CvAssertion'
  BY DEF MutexUnlock, To, IInv, TypeOK, CvAssertion, Linked, waiterVars,
         sleepVars
<1>5. RingIntegrity'
  BY DEF MutexUnlock, To, IInv, TypeOK, RingIntegrity, Linked, Signalling,
         waiterVars
<1>6. WakeupInv'
  BY DEF MutexUnlock, To, IInv, TypeOK, WakeupInv, Signalling, SemWaiter,
         Helper, sleepVars
<1> QED BY <1>1, <1>2, <1>3, <1>4, <1>5, <1>6 DEF IInv

\* The waiter, still linked, falls asleep as the ring is unlocked.
LEMMA SleepReleasingStep ==
  ASSUME IInv, NEW t \in Thread, SleepReleasing(t)
  PROVE  IInv'
<1>1. TypeOK'
  BY DEF SleepReleasing, To, IInv, TypeOK, waiterVars
<1>2. CallInv'
  BY DEF SleepReleasing, To, IInv, TypeOK, CallInv, waiterVars
<1>3. MutualExclusion'
  BY DEF SleepReleasing, To, IInv, TypeOK, MutualExclusion, Inside, UnderMutex
<1>4. CvAssertion'
  BY DEF SleepReleasing, To, IInv, TypeOK, CallInv, CvAssertion, Linked,
         waiterVars
<1>5. RingIntegrity'
  BY LockAssumption
     DEF SleepReleasing, To, IInv, TypeOK, RingIntegrity, Linked, Signalling,
         waiterVars
<1>6. WakeupInv'
  BY DEF SleepReleasing, To, IInv, TypeOK, WakeupInv, Signalling, SemWaiter,
         Helper
<1> QED BY <1>1, <1>2, <1>3, <1>4, <1>5, <1>6 DEF IInv

\* A sleeper wakes, unsignalled, and stays linked for now.
LEMMA TimeoutStep ==
  ASSUME IInv, NEW t \in Thread, Timeout(t)
  PROVE  IInv'
<1>1. TypeOK'
  BY DEF Timeout, To, IInv, TypeOK, waiterVars
<1>2. CallInv'
  BY DEF Timeout, To, IInv, TypeOK, CallInv, waiterVars
<1>3. MutualExclusion'
  BY DEF Timeout, To, IInv, TypeOK, MutualExclusion, Inside, UnderMutex
<1>4. CvAssertion'
  BY DEF Timeout, To, IInv, TypeOK, CvAssertion, Linked, waiterVars
<1>5. RingIntegrity'
  BY DEF Timeout, To, IInv, TypeOK, RingIntegrity, Linked, Signalling,
         waiterVars
<1>6. WakeupInv'
  BY DEF Timeout, To, IInv, TypeOK, WakeupInv, Signalling, SemWaiter, Helper
<1> QED BY <1>1, <1>2, <1>3, <1>4, <1>5, <1>6 DEF IInv

\* Back from its sleep, the thread unlinks its waiter if no signaller has.
LEMMA TidyUpStep ==
  ASSUME IInv, NEW t \in Thread, TidyUp(t)
  PROVE  IInv'
<1> DEFINE s == waitset[cv[t]]
           i == PlaceIn(s, t)
<1>0. pc[t] = "asleep" /\ cv[t] \in CondVar /\ s \in Seq(Thread) /\ IsInjective(s)
  BY DEF TidyUp, To, IInv, TypeOK, CallInv, RingIntegrity
<1>7. /\ waitset' \in [CondVar -> Seq(Thread)]
      /\ \A c \in CondVar : IsInjective(waitset'[c])
      /\ \A c \in CondVar : \A u \in Thread :
           u \in Range(waitset'[c]) <=> u \in Range(waitset[c]) /\ (c = cv[t] => u # t)
  <2>1. CASE LeftInRing(t)
    <3>1. t \in Range(s)
      BY <1>0, <2>1 DEF IInv, RingIntegrity, Linked, LeftInRing
    <3>2. i \in 1 .. Len(s) /\ s[i] = t
      BY <1>0, <3>1, Positions DEF PlaceIn
    <3>3. waitset' = [waitset EXCEPT ![cv[t]] = RemoveAt(s, i)]
      BY <2>1 DEF TidyUp
    <3>4. /\ RemoveAt(s, i) \in Seq(Thread) /\ IsInjective(RemoveAt(s, i))
          /\ \A u : u \in Range(RemoveAt(s, i)) <=> u \in Range(s) /\ u # t
      BY <1>0, <3>2, RemoveAtLemma
    <3> HIDE DEF s, i
    <3> QED BY <1>0, <3>3, <3>4 DEF IInv, TypeOK, RingIntegrity, s
  <2>2. CASE ~LeftInRing(t)
    <3>1. t \notin Range(s)
      BY <1>0, <2>2 DEF IInv, RingIntegrity, Linked, LeftInRing
    <3> QED BY <1>0, <3>1, <2>2 DEF TidyUp, IInv, TypeOK, RingIntegrity
  <2> QED BY <2>1, <2>2
<1>1. TypeOK'
  BY <1>7 DEF TidyUp, To, IInv, TypeOK, waiterVars, sleepVars
<1>2. CallInv'
  BY DEF TidyUp, To, IInv, TypeOK, CallInv, waiterVars
<1>3. MutualExclusion'
  BY DEF TidyUp, To, IInv, TypeOK, MutualExclusion, Inside, UnderMutex
<1>4. CvAssertion'
  BY DEF TidyUp, To, IInv, TypeOK, CvAssertion, Linked, waiterVars, sleepVars
<1>5. RingIntegrity'
  <2>1. \A c \in CondVar, u \in Thread :
          u \in Range(waitset'[c]) <=> Linked(u)' /\ cv'[u] = c
    BY <1>7 DEF TidyUp, To, IInv, TypeOK, RingIntegrity, Linked, waiterVars
  <2>2. \A c \in CondVar : IsInjective(waitset'[c])
    BY <1>7 DEF IInv, TypeOK, RingIntegrity
  <2>3. \A c \in CondVar, u \in Thread :
          waitset_lock'[c] = u <=>
            \/ pc'[u] \in {"signal", "signalled"} /\ Signalling(u)' = c
            \/ pc'[u] \in {"unlock", "sleep"} /\ cv'[u] = c
    BY DEF TidyUp, To, IInv, TypeOK, RingIntegrity, Signalling
  <2> QED BY <2>1, <2>2, <2>3 DEF RingIntegrity
<1>6. WakeupInv'
  BY DEF TidyUp, To, IInv, TypeOK, WakeupInv, Helper, sleepVars
<1> QED BY <1>1, <1>2, <1>3, <1>4, <1>5, <1>6 DEF IInv

\* cv_wait locks the mutex again.
LEMMA RelockStep ==
  ASSUME IInv, NEW t \in Thread, Relock(t)
  PROVE  IInv'
<1>1. TypeOK'
  BY DEF Relock, MutexLock, To, IInv, TypeOK, sleepVars
<1>2. CallInv'
  BY DEF Relock, To, IInv, TypeOK, CallInv
<1>3. MutualExclusion'
  BY LockAssumption
     DEF Relock, MutexLock, To, IInv, TypeOK, MutualExclusion, Inside,
         UnderMutex
<1>4. CvAssertion'
  BY DEF Relock, To, IInv, TypeOK, CvAssertion, Linked, sleepVars
<1>5. RingIntegrity'
  BY DEF Relock, To, IInv, TypeOK, RingIntegrity, Linked, Signalling
<1>6. WakeupInv'
  BY DEF Relock, To, IInv, TypeOK, WakeupInv, Helper
<1> QED BY <1>1, <1>2, <1>3, <1>4, <1>5, <1>6 DEF IInv

-----------------------------------------------------------------------------
\* The kernel as it boots satisfies the invariant.
LEMMA InitLemma == Init => IInv
<1> SUFFICES ASSUME Init PROVE IInv
  OBVIOUS
<1>1. TypeOK
  BY DEF Init, TypeOK, Goals
<1>2. CallInv /\ CvAssertion /\ WakeupInv
  BY DEF Init, CallInv, CvAssertion, WakeupInv, SemWaiter, Linked
<1>3. MutualExclusion
  BY LockAssumption DEF Init, MutualExclusion, Inside, UnderMutex
<1>4. RingIntegrity
  <2>1. \A c \in CondVar : Range(waitset[c]) = {} /\ IsInjective(waitset[c])
    BY DEF Init, Range, IsInjective
  <2> QED BY <2>1, LockAssumption DEF Init, RingIntegrity, Linked
<1> QED BY <1>1, <1>2, <1>3, <1>4 DEF IInv

\* Every step keeps the invariant.
LEMMA StepLemma == IInv /\ [Next]_vars => IInv'
<1> SUFFICES ASSUME IInv, [Next]_vars PROVE IInv'
  OBVIOUS
<1>1. CASE UNCHANGED vars
  BY <1>1 DEF vars, IInv, TypeOK, CallInv, MutualExclusion, CvAssertion,
              RingIntegrity, WakeupInv, Inside, UnderMutex, Linked, Signalling,
              SemWaiter, Helper, waiterVars, sleepVars
<1>2. CASE Quiet
  BY <1>1, <1>2 DEF Quiet
<1>3. ASSUME NEW t \in Thread, CallStep(t) \/ KernelUnlock(t) PROVE IInv'
  <2>1. CASE KernelLock(t)
    BY <2>1, KernelLockStep
  <2>2. CASE KernelUnlock(t)
    BY <2>2, ReleaseStep DEF KernelUnlock, Leaves
  <2>3. CASE KernelSleep(t)
    BY <2>3, ReleaseStep DEF KernelSleep, Leaves
  <2>4. ASSUME NEW w \in WChan, NEW timeout \in BOOLEAN, KernelWait(t, w, timeout)
        PROVE  IInv'
    BY <2>4, ReleaseStep DEF KernelWait, Leaves
  <2>5. ASSUME NEW w \in WChan, NEW how \in {"signal", "broadcast"},
               KernelSignal(t, w, how)
        PROVE  IInv'
    BY <2>5, KernelSignalStep DEF Signals
  <2> QED BY <1>3, <2>1, <2>2, <2>3, <2>4, <2>5 DEF CallStep
<1>4. ASSUME NEW t \in Thread, OwnStep(t) PROVE IInv'
  BY <1>4, WaitForSemStep, AfterReleaseStep, SignalOneStep, SignalNobodyStep,
     SignalUnlockStep, MutexUnlockStep, SleepReleasingStep, AcquireStep DEF OwnStep
<1>5. ASSUME NEW t \in Thread, LockStep(t) \/ Timeout(t) PROVE IInv'
  BY <1>5, SignalSemStep, EnqueueStep, TidyUpStep, RelockStep, TimeoutStep
     DEF LockStep
<1> QED BY <1>1, <1>2, <1>3, <1>4, <1>5 DEF Next

\* What kernel_lock, cv_wait and cv_signal keep up together.
THEOREM LockInvariant == Spec => []IInv
<1> QED BY InitLemma, StepLemma, PTL DEF Spec

\* kernel_sem never leaves {0, 1}, and every field keeps its type.
THEOREM LockTypes == Spec => []TypeOK
<1>1. IInv => TypeOK
  BY DEF IInv
<1> QED BY <1>1, LockInvariant, PTL

\* kernel_lock and kernel_wait_wchan let one thread at a time into the kernel,
\* however many barge in or are woken too late.
THEOREM LockExcludes == Spec => []MutualExclusion
<1>1. IInv => MutualExclusion
  BY DEF IInv
<1> QED BY <1>1, LockInvariant, PTL

\* The assertion of cv_wait, kernel_cc.c:143, holds.
THEOREM CvAssertionHolds == Spec => []CvAssertion
<1>1. IInv => CvAssertion
  BY DEF IInv
<1> QED BY <1>1, LockInvariant, PTL

\* cv_signal and cv_wait keep every waiter in the ring of its CondVar until it
\* is removed, once, and no longer: no ring holds the stack of a thread that
\* has returned.
THEOREM RingsHold == Spec => []RingIntegrity
<1>1. IInv => RingIntegrity
  BY DEF IInv
<1> QED BY <1>1, LockInvariant, PTL

\* kernel_unlock, kernel_wait_wchan and kernel_sleep release the kernel to
\* somebody, if anybody sleeps in kernel_lock.
THEOREM NoWakeupLost == Spec => []NoLostWakeup
<1>1. ASSUME IInv PROVE NoLostWakeup
  <2> SUFFICES ASSUME NEW t \in Thread, asleep[t], cv[t] = kernel_sem_cv,
                      kernel_sem # 0
               PROVE  \E u \in Thread : Helper(u)
    BY DEF NoLostWakeup, Helper
  <2> QED BY <1>1 DEF IInv, WakeupInv, SemWaiter
<1> QED BY <1>1, LockInvariant, PTL

-----------------------------------------------------------------------------
(* The refinement of KernelMonitor.                                        *)

\* What the monitor sees of thread t.
Channel(t) == IF Place(t) = "asleep" \/ CallOf(t) # "none" THEN cv[t] ELSE NULL
Patient(t) == Place(t) # "asleep" \/ ~timed[t]
Ret(t)     == IF pc[t] \in {"sleep", "asleep", "relock"} /\ cv[t] \in WChan
              THEN signalled[t] ELSE ret[t]

\* The monitor sees nothing of a step about u.
Same(u) ==
  /\ Place(u)' = Place(u) /\ CallOf(u)' = CallOf(u)
  /\ Channel(u)' = Channel(u) /\ Patient(u)' = Patient(u) /\ Ret(u)' = Ret(u)

\* What the monitor sees of a thread depends on the fields of that thread.
LEMMA FrameLemma ==
  ASSUME NEW u \in Thread,
         pc'[u] = pc[u], goal'[u] = goal[u], cv'[u] = cv[u],
         asleep'[u] = asleep[u], timed'[u] = timed[u],
         signalled'[u] = signalled[u], ret'[u] = ret[u]
  PROVE  Same(u)
BY DEF Same, Place, CallOf, Channel, Patient, Ret

\* A step that changes nothing the monitor sees of any thread.
LEMMA StutterLemma ==
  ASSUME \A u \in Thread : Same(u)
  PROVE  UNCHANGED Monitor!vars
BY DEF Same, Monitor!vars, Channel, Patient, Ret

\* To take kernel_sem is to enter the monitor, which is empty then.
LEMMA AcquireRefines ==
  ASSUME IInv, NEW t \in Thread, Acquire(t)
  PROVE  Monitor!Enter(t)
<1>1. /\ Place(t) \in {"user", "back"} /\ Place(t)' = "kernel"
      /\ CallOf(t) = "none" /\ CallOf(t)' = "none"
      /\ Ret(t)' = Ret(t)
  BY DEF Acquire, To, IInv, TypeOK, Place, CallOf, Inside, Ret
<1>2. \A u \in Thread : u # t => Same(u)
  <2> SUFFICES ASSUME NEW u \in Thread, u # t PROVE Same(u)
    OBVIOUS
  <2> QED BY FrameLemma DEF Acquire, To, IInv, TypeOK, waiterVars, sleepVars
<1>3. \A u \in Thread : Place(u) # "kernel"
  BY DEF Acquire, SemTaken, IInv, TypeOK, MutualExclusion, Place, Inside,
         UnderMutex
<1> QED BY <1>1, <1>2, <1>3 DEF Monitor!Enter, Same, Channel, Patient, Ret

\* A thread in kernel_mutex is still outside the monitor.
LEMMA KernelLockRefines ==
  ASSUME IInv, NEW t \in Thread, KernelLock(t)
  PROVE  UNCHANGED Monitor!vars
<1>1. Same(t)
  BY DEF KernelLock, Same, To, IInv, TypeOK, CallInv, Place, CallOf, Inside,
         Channel, Patient, Ret
<1>2. \A u \in Thread : u # t => Same(u)
  <2> SUFFICES ASSUME NEW u \in Thread, u # t PROVE Same(u)
    OBVIOUS
  <2> QED BY FrameLemma DEF KernelLock, To, IInv, TypeOK, waiterVars, sleepVars
<1> QED BY <1>1, <1>2, StutterLemma

\* A wait for kernel_sem is not seen: the thread is outside as before.
LEMMA WaitForSemRefines ==
  ASSUME IInv, NEW t \in Thread, WaitForSem(t)
  PROVE  UNCHANGED Monitor!vars
<1>1. Same(t)
  BY LockAssumption
     DEF WaitForSem, Same, To, IInv, TypeOK, Place, CallOf, Inside, Channel,
         Patient, Ret
<1>2. \A u \in Thread : u # t => Same(u)
  <2> SUFFICES ASSUME NEW u \in Thread, u # t PROVE Same(u)
    OBVIOUS
  <2> QED BY FrameLemma DEF WaitForSem, To, IInv, TypeOK, waiterVars, sleepVars
<1> QED BY <1>1, <1>2, StutterLemma

\* kernel_sem is free again, but kernel_mutex keeps the others out.
LEMMA ReleaseRefines ==
  ASSUME IInv, NEW t \in Thread, NEW what \in Leaves, NEW w,
         NEW timeout \in BOOLEAN,
         IF what = "wait" THEN w \in WChan ELSE w = NULL, Release(t, what, w, timeout)
  PROVE  UNCHANGED Monitor!vars
<1>1. Same(t)
  BY DEF Release, Same, To, IInv, TypeOK, Place, CallOf, Inside, Channel,
         Patient, Ret
<1>2. \A u \in Thread : u # t => Same(u)
  <2> SUFFICES ASSUME NEW u \in Thread, u # t PROVE Same(u)
    OBVIOUS
  <2> QED BY FrameLemma DEF Release, To, IInv, TypeOK, waiterVars, sleepVars
<1> QED BY <1>1, <1>2, StutterLemma

\* The second half of kernel_wait_wchan is not seen.
LEMMA AfterReleaseWaitRefines ==
  ASSUME IInv, NEW t \in Thread, AfterRelease(t), goal[t] = "wait"
  PROVE  UNCHANGED Monitor!vars
<1>1. Same(t)
  BY DEF AfterRelease, Same, To, IInv, TypeOK, CallInv, Place, CallOf,
         Channel, Patient, Ret
<1>2. \A u \in Thread : u # t => Same(u)
  <2> SUFFICES ASSUME NEW u \in Thread, u # t PROVE Same(u)
    OBVIOUS
  <2> QED BY FrameLemma
       DEF AfterRelease, To, IInv, TypeOK, waiterVars, sleepVars
<1> QED BY <1>1, <1>2, StutterLemma

\* A signal to kernel_sem_cv is not seen.
LEMMA SignalSemRefines ==
  ASSUME IInv, NEW t \in Thread, SignalSem(t)
  PROVE  UNCHANGED Monitor!vars
<1>1. Same(t)
  BY DEF SignalSem, Same, To, IInv, TypeOK, CallInv, Place, CallOf, Channel,
         Patient, Ret, Leaves
<1>2. \A u \in Thread : u # t => Same(u)
  <2> SUFFICES ASSUME NEW u \in Thread, u # t PROVE Same(u)
    OBVIOUS
  <2> QED BY FrameLemma DEF SignalSem, To, IInv, TypeOK, waiterVars, sleepVars
<1> QED BY <1>1, <1>2, StutterLemma

\* The unlock of the ring is not seen.
LEMMA SignalUnlockRefines ==
  ASSUME IInv, NEW t \in Thread, SignalUnlock(t)
  PROVE  UNCHANGED Monitor!vars
<1>1. Same(t)
  BY DEF SignalUnlock, Same, To, IInv, TypeOK, Place, CallOf, Inside,
         Channel, Patient, Ret
<1>2. \A u \in Thread : u # t => Same(u)
  <2> SUFFICES ASSUME NEW u \in Thread, u # t PROVE Same(u)
    OBVIOUS
  <2> QED BY FrameLemma
       DEF SignalUnlock, To, IInv, TypeOK, waiterVars, sleepVars
<1> QED BY <1>1, <1>2, StutterLemma

\* To be linked is not seen yet: the mutex is still held.
LEMMA EnqueueRefines ==
  ASSUME IInv, NEW t \in Thread, Enqueue(t)
  PROVE  UNCHANGED Monitor!vars
<1>1. Same(t)
  BY DEF Enqueue, Same, To, IInv, TypeOK, Place, CallOf, Inside, Channel,
         Patient, Ret
<1>2. \A u \in Thread : u # t => Same(u)
  <2> SUFFICES ASSUME NEW u \in Thread, u # t PROVE Same(u)
    OBVIOUS
  <2> QED BY FrameLemma DEF Enqueue, To, IInv, TypeOK, waiterVars, sleepVars
<1> QED BY <1>1, <1>2, StutterLemma

\* A thread falls asleep in kernel_lock: the monitor does not see it.
LEMMA MutexUnlockSemRefines ==
  ASSUME IInv, NEW t \in Thread, MutexUnlock(t), cv[t] = kernel_sem_cv
  PROVE  UNCHANGED Monitor!vars
<1>1. Same(t)
  BY LockAssumption
     DEF MutexUnlock, Same, To, IInv, TypeOK, Place, CallOf, Inside, Channel,
         Patient, Ret
<1>2. \A u \in Thread : u # t => Same(u)
  <2> SUFFICES ASSUME NEW u \in Thread, u # t PROVE Same(u)
    OBVIOUS
  <2> QED BY FrameLemma DEF MutexUnlock, To, IInv, TypeOK, waiterVars, sleepVars
<1> QED BY <1>1, <1>2, StutterLemma

\* The monitor has seen the thread fall asleep already.
LEMMA SleepReleasingRefines ==
  ASSUME IInv, NEW t \in Thread, SleepReleasing(t)
  PROVE  UNCHANGED Monitor!vars
<1>0. /\ pc[t] = "sleep" /\ pc'[t] = "asleep" /\ asleep'[t] = TRUE
      /\ cv[t] \in CondVar
      /\ goal'[t] = goal[t] /\ cv'[t] = cv[t] /\ timed'[t] = timed[t]
      /\ signalled'[t] = signalled[t] /\ ret'[t] = ret[t]
  BY DEF SleepReleasing, To, IInv, TypeOK, CallInv, waiterVars
<1>1. Same(t)
  BY <1>0 DEF Same, Place, CallOf, Channel, Patient, Ret
<1>2. \A u \in Thread : u # t => Same(u)
  <2> SUFFICES ASSUME NEW u \in Thread, u # t PROVE Same(u)
    OBVIOUS
  <2> QED BY FrameLemma
       DEF SleepReleasing, To, IInv, TypeOK, waiterVars, sleepVars
<1> QED BY <1>1, <1>2, StutterLemma

\* There is no timeout in kernel_lock.
LEMMA TimeoutSemRefines ==
  ASSUME IInv, NEW t \in Thread, Timeout(t), cv[t] = kernel_sem_cv
  PROVE  UNCHANGED Monitor!vars
<1>1. Same(t)
  BY LockAssumption
     DEF Timeout, Same, To, IInv, TypeOK, Place, CallOf, Channel, Patient,
         Ret
<1>2. \A u \in Thread : u # t => Same(u)
  <2> SUFFICES ASSUME NEW u \in Thread, u # t PROVE Same(u)
    OBVIOUS
  <2> QED BY FrameLemma DEF Timeout, To, IInv, TypeOK, waiterVars, sleepVars
<1> QED BY <1>1, <1>2, StutterLemma

\* What cv_wait does after the sleep is not seen.
LEMMA TidyUpRefines ==
  ASSUME IInv, NEW t \in Thread, TidyUp(t)
  PROVE  UNCHANGED Monitor!vars
<1>0. /\ pc[t] = "asleep" /\ pc'[t] = "relock" /\ ~asleep[t]
      /\ goal'[t] = goal[t] /\ cv'[t] = cv[t] /\ timed'[t] = timed[t]
      /\ signalled'[t] = signalled[t] /\ ret'[t] = ret[t]
  BY DEF TidyUp, To, IInv, TypeOK, waiterVars, sleepVars
<1>1. Same(t)
  BY <1>0 DEF Same, Place, CallOf, Channel, Patient, Ret
<1>2. \A u \in Thread : u # t => Same(u)
  <2> SUFFICES ASSUME NEW u \in Thread, u # t PROVE Same(u)
    OBVIOUS
  <2> QED BY FrameLemma DEF TidyUp, To, IInv, TypeOK, waiterVars, sleepVars
<1> QED BY <1>1, <1>2, StutterLemma

\* A thread that is back from its wait is still outside.
LEMMA RelockRefines ==
  ASSUME IInv, NEW t \in Thread, Relock(t)
  PROVE  UNCHANGED Monitor!vars
<1>1. Same(t)
  BY DEF Relock, Same, To, IInv, TypeOK, Place, CallOf, Inside, Channel,
         Patient, Ret
<1>2. \A u \in Thread : u # t => Same(u)
  <2> SUFFICES ASSUME NEW u \in Thread, u # t PROVE Same(u)
    OBVIOUS
  <2> QED BY FrameLemma DEF Relock, To, IInv, TypeOK, waiterVars, sleepVars
<1> QED BY <1>1, <1>2, StutterLemma

\* kernel_unlock and kernel_sleep end.
LEMMA AfterReleaseRefines ==
  ASSUME IInv, NEW t \in Thread, AfterRelease(t), goal[t] # "wait"
  PROVE  \E to \in {"user", "gone"} : Monitor!Leave(t, to)
<1>0. /\ pc[t] = "after"
      /\ \/ goal[t] = "leave" /\ To(t, "user")
         \/ goal[t] = "exit" /\ To(t, "gone")
      /\ UNCHANGED <<waiterVars, sleepVars, goal, cv, ret>>
  BY DEF AfterRelease, IInv, CallInv, Leaves
<1>1. /\ Place(t) = "kernel" /\ Place(t)' \in {"user", "gone"}
      /\ CallOf(t) = "none" /\ CallOf(t)' = "none"
      /\ Ret(t)' = Ret(t)
  BY <1>0 DEF To, IInv, TypeOK, Place, CallOf, Inside, Ret
<1>2. \A u \in Thread : u # t => Same(u)
  <2> SUFFICES ASSUME NEW u \in Thread, u # t PROVE Same(u)
    OBVIOUS
  <2> QED BY <1>0, FrameLemma DEF To, IInv, TypeOK, waiterVars, sleepVars
<1> QED BY <1>1, <1>2 DEF Monitor!Leave, Same, Channel, Patient, Ret

\* A wait falls asleep for the monitor when others can enter.
LEMMA MutexUnlockRefines ==
  ASSUME IInv, NEW t \in Thread, MutexUnlock(t), cv[t] \in WChan
  PROVE  \E forever \in BOOLEAN : Monitor!Wait(t, cv[t], forever)
<1>0. /\ pc[t] = "unlock" /\ pc'[t] = "sleep"
      /\ UNCHANGED <<signalled, cv, timed>>
  BY DEF MutexUnlock, To, IInv, TypeOK, waiterVars, sleepVars
<1>00. signalled[t] = FALSE
  BY <1>0 DEF IInv, TypeOK, CallInv, CvAssertion, Linked
<1>1. /\ Place(t) = "kernel" /\ Place(t)' = "asleep"
      /\ CallOf(t) = "none" /\ CallOf(t)' = "none"
      /\ Ret(t)' = FALSE /\ cv' = cv /\ timed' = timed
  BY <1>0, <1>00 DEF Place, CallOf, Inside, Ret
<1>2. \A u \in Thread : u # t => Same(u)
  <2> SUFFICES ASSUME NEW u \in Thread, u # t PROVE Same(u)
    OBVIOUS
  <2> QED BY FrameLemma DEF MutexUnlock, To, IInv, TypeOK, waiterVars, sleepVars
<1>3. CASE timed[t] = TRUE
  <2>1. Monitor!Wait(t, cv[t], FALSE)
    BY <1>1, <1>2, <1>3 DEF Monitor!Wait, Same, Channel, Patient, Ret
  <2> QED BY <2>1
<1>4. CASE timed[t] = FALSE
  <2>1. Monitor!Wait(t, cv[t], TRUE)
    BY <1>1, <1>2, <1>4 DEF Monitor!Wait, Same, Channel, Patient, Ret
  <2> QED BY <2>1
<1> QED BY <1>3, <1>4 DEF IInv, TypeOK

\* A timeout is one of the monitor, unless a signal came first.
LEMMA TimeoutRefines ==
  ASSUME IInv, NEW t \in Thread, Timeout(t), cv[t] \in WChan
  PROVE  Monitor!Timeout(t)
<1>0. /\ pc[t] = "asleep" /\ asleep[t] /\ ~asleep'[t] /\ timed[t]
      /\ goal[t] = "wait"
      /\ UNCHANGED <<pc, goal, cv, signalled, ret>>
  BY DEF Timeout, IInv, TypeOK, CallInv, CvAssertion, waiterVars
<1>1. /\ Place(t) = "asleep" /\ Place(t)' = "back"
      /\ CallOf(t) = "none" /\ CallOf(t)' = "none"
      /\ Ret(t)' = Ret(t) /\ timed[t]
  BY <1>0 DEF Place, CallOf, Inside, Ret
<1>2. \A u \in Thread : u # t => Same(u)
  <2> SUFFICES ASSUME NEW u \in Thread, u # t PROVE Same(u)
    OBVIOUS
  <2> QED BY FrameLemma DEF Timeout, To, IInv, TypeOK, waiterVars, sleepVars
<1> QED BY <1>1, <1>2 DEF Monitor!Timeout, Same, Channel, Patient, Ret

\* A signal or a broadcast begins.
LEMMA KernelSignalRefines ==
  ASSUME IInv, NEW t \in Thread, NEW w \in WChan, NEW how \in Signals, KernelSignal(t, w, how)
  PROVE  Monitor!Call(t, w, how)
<1>1. /\ Place(t) = "kernel" /\ Place(t)' = "kernel"
      /\ CallOf(t) = "none" /\ CallOf(t)' = how
      /\ Ret(t)' = Ret(t) /\ cv'[t] = w
  BY DEF KernelSignal, To, IInv, TypeOK, Place, CallOf, Inside, Ret, Signals
<1>2. \A u \in Thread : u # t => Same(u)
  <2> SUFFICES ASSUME NEW u \in Thread, u # t PROVE Same(u)
    OBVIOUS
  <2> QED BY FrameLemma
       DEF KernelSignal, To, IInv, TypeOK, waiterVars, sleepVars
<1> QED BY <1>1, <1>2 DEF Monitor!Call, Signals, Same, Channel, Patient, Ret

\* What one turn of cv_signal does to the signaller and to the waiter it
\* removes, and to nobody else.
LEMMA SignalOneEffect ==
  ASSUME IInv, NEW t \in Thread, SignalOne(t)
  PROVE  \E w \in Thread :
           /\ w # t /\ pc[w] = "asleep" /\ cv[w] = Signalling(t)
           /\ signalled[w] = FALSE
           /\ pc[t] = "signal"
           /\ pc'[t] = IF asleep[w] /\ goal[t] # "broadcast" THEN "signalled"
                                                             ELSE "signal"
           /\ \A u \in Thread : u # t => pc'[u] = pc[u]
           /\ signalled' = [signalled EXCEPT ![w] = asleep[w]]
           /\ asleep' = [asleep EXCEPT ![w] = FALSE]
           /\ timed' = [timed EXCEPT ![w] = @ /\ ~asleep[w]]
           /\ UNCHANGED <<goal, cv, ret>>
<1> DEFINE c == Signalling(t)
           w == Head(waitset[c])
<1>1. /\ pc[t] = "signal" /\ c \in CondVar
      /\ waitset[c] \in Seq(Thread) /\ waitset[c] # <<>>
  BY DEF SignalOne, IInv, TypeOK, CallInv, Signalling, CondVar, Signals
<1>2. w \in Thread /\ w \in Range(waitset[c])
  BY <1>1, PopLemma
<1>3. Linked(w) /\ cv[w] = c
  BY <1>1, <1>2 DEF IInv, RingIntegrity
<1>4. waitset_lock[c] = t
  BY <1>1 DEF IInv, RingIntegrity
<1>5. pc[w] = "asleep"
  BY <1>1, <1>2, <1>3, <1>4 DEF IInv, RingIntegrity, Linked
<1>6. signalled[w] = FALSE
  BY <1>2, <1>3 DEF IInv, TypeOK, CvAssertion
<1> HIDE DEF w
<1>7. /\ pc'[t] = IF asleep[w] /\ goal[t] # "broadcast" THEN "signalled" ELSE "signal"
      /\ \A u \in Thread : u # t => pc'[u] = pc[u]
  BY DEF SignalOne, Served, To, IInv, TypeOK, w
<1>8. /\ signalled' = [signalled EXCEPT ![w] = asleep[w]]
      /\ asleep' = [asleep EXCEPT ![w] = FALSE]
      /\ timed' = [timed EXCEPT ![w] = @ /\ ~asleep[w]]
      /\ UNCHANGED <<goal, cv, ret>>
  BY DEF SignalOne, w
<1> QED BY <1>1, <1>2, <1>3, <1>5, <1>6, <1>7, <1>8

LEMMA SignalOneRefines ==
  ASSUME IInv, NEW t \in Thread, SignalOne(t)
  PROVE  (\E u \in Thread : Monitor!Wake(t, u)) \/ UNCHANGED Monitor!vars
<1> PICK w \in Thread :
           /\ w # t /\ pc[w] = "asleep" /\ cv[w] = Signalling(t)
           /\ signalled[w] = FALSE
           /\ pc[t] = "signal"
           /\ pc'[t] = IF asleep[w] /\ goal[t] # "broadcast" THEN "signalled"
                                                             ELSE "signal"
           /\ \A u \in Thread : u # t => pc'[u] = pc[u]
           /\ signalled' = [signalled EXCEPT ![w] = asleep[w]]
           /\ asleep' = [asleep EXCEPT ![w] = FALSE]
           /\ timed' = [timed EXCEPT ![w] = @ /\ ~asleep[w]]
           /\ UNCHANGED <<goal, cv, ret>>
  BY SignalOneEffect
<1>1. /\ asleep'[w] = FALSE /\ signalled'[w] = asleep[w]
      /\ timed'[w] = (timed[w] /\ ~asleep[w])
      /\ pc'[w] = "asleep" /\ asleep[w] \in BOOLEAN /\ timed[w] \in BOOLEAN
  BY DEF IInv, TypeOK
<1>2. \A u \in Thread : u # t /\ u # w => Same(u)
  <2> SUFFICES ASSUME NEW u \in Thread, u # t, u # w PROVE Same(u)
    OBVIOUS
  <2> QED BY FrameLemma DEF IInv, TypeOK
<1>3. Place(t) = "kernel" /\ Place(t)' = "kernel" /\ Ret(t)' = Ret(t)
  BY DEF IInv, Place, Ret
<1>4. CASE goal[t] \in Signals /\ asleep[w]
  <2>1. /\ CallOf(t) = goal[t]
        /\ CallOf(t)' = IF goal[t] = "signal" THEN "none" ELSE goal[t]
        /\ cv'[t] = cv[t] /\ cv[w] = cv[t] /\ cv[w] \in WChan /\ cv[t] \in WChan
    BY <1>4 DEF CallOf, Signals, Signalling, IInv, CallInv
  <2>2. goal[w] = "wait"
    BY <2>1 DEF IInv, CallInv
  <2>3. /\ Place(w) = "asleep" /\ Place(w)' = "back"
        /\ CallOf(w) = "none" /\ CallOf(w)' = "none"
        /\ Ret(w)' = TRUE
    BY <1>1, <1>4, <2>1, <2>2 DEF Place, CallOf, Inside, Ret
  <2>4. /\ Channel(t) = cv[t] /\ Channel(w) = cv[t] /\ Channel(w)' = NULL
        /\ Channel(t)' = IF goal[t] = "signal" THEN NULL ELSE cv[t]
    BY <1>3, <1>4, <2>1, <2>3 DEF Channel, Signals
  <2>5. Patient(w)' = TRUE /\ Patient(t) = TRUE /\ Patient(t)' = TRUE
    BY <1>3, <2>3 DEF Patient
  <2>6. goal[t] # "none"
    BY <1>4 DEF Signals
  <2>7. /\ [u \in Thread |-> Place(u)]' = [[u \in Thread |-> Place(u)] EXCEPT ![w] = "back"]
        /\ [u \in Thread |-> Ret(u)]' = [[u \in Thread |-> Ret(u)] EXCEPT ![w] = TRUE]
        /\ [u \in Thread |-> Patient(u)]' = [[u \in Thread |-> Patient(u)] EXCEPT ![w] = TRUE]
    BY <1>2, <1>3, <2>3, <2>5 DEF Same
  <2>8. CASE goal[t] = "signal"
    <3>1. /\ [u \in Thread |-> CallOf(u)]' = [[u \in Thread |-> CallOf(u)] EXCEPT ![t] = "none"]
          /\ [u \in Thread |-> Channel(u)]'
               = [[u \in Thread |-> Channel(u)] EXCEPT ![w] = NULL, ![t] = NULL]
      BY <1>2, <2>1, <2>3, <2>4, <2>8 DEF Same
    <3> QED BY <2>1, <2>3, <2>4, <2>6, <2>7, <2>8, <3>1
            DEF Monitor!Wake, Monitor!Sleepers, Channel, Patient, Ret
  <2>9. CASE goal[t] # "signal"
    <3>1. /\ [u \in Thread |-> CallOf(u)]' = [u \in Thread |-> CallOf(u)]
          /\ [u \in Thread |-> Channel(u)]' = [[u \in Thread |-> Channel(u)] EXCEPT ![w] = NULL]
      BY <1>2, <2>1, <2>3, <2>4, <2>9 DEF Same
    <3> QED BY <2>1, <2>3, <2>4, <2>6, <2>7, <2>9, <3>1
            DEF Monitor!Wake, Monitor!Sleepers, Channel, Patient, Ret
  <2> QED BY <2>8, <2>9
<1>5. CASE goal[t] \notin Signals
  <2>1. cv[w] = kernel_sem_cv /\ kernel_sem_cv \notin WChan
    BY <1>5, LockAssumption DEF Signalling, Signals
  <2>2. Same(w)
    BY <1>1, <2>1 DEF Same, Place, CallOf, Channel, Patient, Ret
  <2>3. CallOf(t) = "none" /\ CallOf(t)' = "none"
    BY <1>5 DEF CallOf, Signals
  <2>4. Same(t)
    BY <1>3, <2>3 DEF Same, Channel, Patient
  <2> QED BY <1>2, <2>2, <2>4, StutterLemma
<1>6. CASE goal[t] \in Signals /\ ~asleep[w]
  <2>1. Same(w)
    BY <1>1, <1>6 DEF Same, Place, CallOf, Inside, Channel, Patient, Ret
  <2>2. Same(t)
    BY <1>3, <1>6 DEF Same, CallOf, Channel, Patient
  <2> QED BY <1>2, <2>1, <2>2, StutterLemma
<1> QED BY <1>4, <1>5, <1>6

\* When a ring is empty nobody sleeps on its CondVar.
LEMMA SignalNobodyRefines ==
  ASSUME IInv, NEW t \in Thread, SignalNobody(t)
  PROVE  Monitor!Finish(t) \/ UNCHANGED Monitor!vars
<1>1. \A u \in Thread : u # t => Same(u)
  <2> SUFFICES ASSUME NEW u \in Thread, u # t PROVE Same(u)
    OBVIOUS
  <2> QED BY FrameLemma
       DEF SignalNobody, To, IInv, TypeOK, waiterVars, sleepVars
<1>2. /\ Place(t) = "kernel" /\ Place(t)' = "kernel" /\ Ret(t)' = Ret(t)
      /\ CallOf(t)' = "none"
  BY DEF SignalNobody, To, IInv, TypeOK, CallInv, Place, CallOf, Inside, Ret,
         Leaves, Signals
<1>3. CASE goal[t] \in Signals
  <2>1. /\ CallOf(t) = goal[t] /\ Channel(t) = cv[t]
        /\ cv[t] \in CondVar /\ waitset[cv[t]] = <<>>
    BY <1>3
       DEF SignalNobody, Signalling, CallOf, Channel, Signals, IInv, CallInv,

                CondVar
  <2>2. Range(waitset[cv[t]]) = {}
    BY <2>1 DEF Range
  <2>3. ASSUME NEW u \in Thread, Place(u) = "asleep", Channel(u) = cv[t] PROVE FALSE
    <3>1. cv[u] = cv[t] /\ pc[u] \in {"sleep", "asleep"}
          /\ (pc[u] = "asleep" => asleep[u])
      BY <2>3 DEF Place, Channel
    <3>2. Linked(u)
      BY <3>1 DEF IInv, CvAssertion, CallInv, Linked
    <3> QED BY <2>1, <2>2, <3>1, <3>2 DEF IInv, RingIntegrity
  <2>4. Monitor!Finish(t)
    BY <1>1, <1>2, <1>3, <2>1, <2>3
       DEF Monitor!Finish, Monitor!Sleepers, Same, Channel, Patient, Ret, Signals
  <2> QED BY <2>4
<1>4. CASE goal[t] \notin Signals
  <2>1. Same(t)
    BY <1>2, <1>4 DEF SignalNobody, Same, CallOf, Channel, Patient, Signals
  <2> QED BY <1>1, <2>1, StutterLemma
<1> QED BY <1>3, <1>4

-----------------------------------------------------------------------------
\* At boot every thread is outside the monitor.
LEMMA InitRefines == Init => Monitor!Init
BY DEF Init, Monitor!Init, Place, CallOf, Inside

\* Every step is a step of the monitor or is not seen there.
LEMMA NextRefines == IInv /\ [Next]_vars => [Monitor!Next]_(Monitor!vars)
<1> SUFFICES ASSUME IInv, [Next]_vars PROVE Monitor!Next \/ UNCHANGED Monitor!vars
  OBVIOUS
<1>0. CASE UNCHANGED vars
  <2>1. ASSUME NEW u \in Thread PROVE Same(u)
    BY <1>0, FrameLemma DEF vars, waiterVars, sleepVars
  <2> QED BY <2>1, StutterLemma
<1>1. CASE Quiet
  <2>1. \A u \in Thread : Same(u)
    BY <1>1, FrameLemma DEF Quiet, vars, waiterVars, sleepVars
  <2> QED BY <2>1, StutterLemma
<1>2. ASSUME NEW t \in Thread, CallStep(t) \/ KernelUnlock(t)
      PROVE  Monitor!Next \/ UNCHANGED Monitor!vars
  <2>1. CASE KernelLock(t)
    BY <2>1, KernelLockRefines
  <2>2. CASE KernelUnlock(t)
    BY <2>2, ReleaseRefines DEF KernelUnlock, Leaves
  <2>3. CASE KernelSleep(t)
    BY <2>3, ReleaseRefines DEF KernelSleep, Leaves
  <2>4. ASSUME NEW w \in WChan, NEW timeout \in BOOLEAN, KernelWait(t, w, timeout)
        PROVE  UNCHANGED Monitor!vars
    BY <2>4, ReleaseRefines DEF KernelWait, Leaves
  <2>5. ASSUME NEW w \in WChan, NEW how \in {"signal", "broadcast"},
               KernelSignal(t, w, how)
        PROVE  Monitor!Next
    BY <2>5, KernelSignalRefines DEF Signals, Monitor!Next, Monitor!Calls
  <2> QED BY <1>2, <2>1, <2>2, <2>3, <2>4, <2>5 DEF CallStep
<1>3. ASSUME NEW t \in Thread, OwnStep(t) \/ LockStep(t) \/ Timeout(t)
      PROVE  Monitor!Next \/ UNCHANGED Monitor!vars
  <2>1. CASE WaitForSem(t) \/ SignalUnlock(t) \/ SleepReleasing(t) \/ LockStep(t)
    BY <2>1, WaitForSemRefines, SignalUnlockRefines, SleepReleasingRefines,
       SignalSemRefines, EnqueueRefines, TidyUpRefines, RelockRefines DEF LockStep
  <2>2. CASE AfterRelease(t)
    BY <2>2, AfterReleaseRefines, AfterReleaseWaitRefines DEF Monitor!Next
  <2>3. CASE SignalOne(t)
    BY <2>3, SignalOneRefines DEF Monitor!Next
  <2>4. CASE SignalNobody(t)
    BY <2>4, SignalNobodyRefines DEF Monitor!Next
  <2>5. CASE MutexUnlock(t)
    <3>1. cv[t] \in WChan \/ cv[t] = kernel_sem_cv
      BY <2>5 DEF MutexUnlock, IInv, CallInv, CondVar
    <3>2. CASE cv[t] \in WChan
      <4>1. \E forever \in BOOLEAN : Monitor!Wait(t, cv[t], forever)
        BY <2>5, <3>2, MutexUnlockRefines
      <4>2. \E w \in WChan : \E forever \in BOOLEAN : Monitor!Wait(t, w, forever)
        BY <3>2, <4>1
      <4> QED BY <4>2 DEF Monitor!Next
    <3>3. CASE cv[t] = kernel_sem_cv
      BY <2>5, <3>3, MutexUnlockSemRefines
    <3> QED BY <3>1, <3>2, <3>3
  <2>6. CASE Acquire(t)
    BY <2>6, AcquireRefines DEF Monitor!Next
  <2>7. CASE Timeout(t)
    <3>1. cv[t] \in WChan \/ cv[t] = kernel_sem_cv
      BY <2>7 DEF Timeout, IInv, CallInv, CvAssertion, CondVar
    <3> QED BY <2>7, <3>1, TimeoutRefines, TimeoutSemRefines DEF Monitor!Next
  <2> QED BY <1>3, <2>1, <2>2, <2>3, <2>4, <2>5, <2>6, <2>7 DEF OwnStep
<1> QED BY <1>0, <1>1, <1>2, <1>3 DEF Next

\* kernel_lock, kernel_unlock, kernel_wait_wchan, kernel_sleep, kernel_signal and
\* kernel_broadcast implement the monitor: a wait is atomic, a signal wakes one
\* sleeper if there is one, a broadcast all, and a wait returns 1 if and only if
\* it was signalled.
THEOREM Refinement == Spec => RefinesMonitor
<1> QED BY InitRefines, NextRefines, LockInvariant, PTL
        DEF Spec, RefinesMonitor, Monitor!Spec

-----------------------------------------------------------------------------
(* The processes, in the specification that is checked with TLC.           *)

Unshared == Pr!ProcessAssumption /\ SharesChildren = FALSE

LEMMA IsProcess == KernelSpec => Pr!Spec
<1>1. KernelInit => Pr!Init
  BY DEF KernelInit
<1>2. [KernelNext]_kernelVars => [Pr!Next]_(Pr!vars)
  BY DEF KernelNext, kernelVars, processVars, Pr!vars, Pr!family, Pr!ptcb
<1> QED
  BY <1>1, <1>2, PTL DEF KernelSpec, Pr!Spec

LEMMA NotShared == Unshared => Pr!Assumptions
BY DEF Unshared, Pr!Assumptions

\* kernel_proc.c:55-107, kernel_threads.c:165-212: the free list of PCBs and the
\* lists of children and of exited children.
THEOREM KernelFamily ==
  ASSUME Unshared
  PROVE  KernelSpec => []Family
<1>1. Pr!Spec => []Pr!Family
  BY NotShared, Pr!FamilyHolds
<1> QED
  BY <1>1, IsProcess, PTL DEF Family

\* kernel_threads.c: thread_count, refcount and the life of a PTCB.
THEOREM KernelThreads ==
  ASSUME Unshared
  PROVE  KernelSpec => []ThreadsCounted
<1>1. Pr!Spec => []Pr!ThreadsCounted
  BY NotShared, Pr!ThreadsAreCounted
<1> QED
  BY <1>1, IsProcess, PTL DEF ThreadsCounted

\* kernel_threads.c:99, kernel_proc.c:287-311: no joiner and no parent sleeps
\* beside what it waits for.
THEOREM KernelExits ==
  ASSUME Unshared
  PROVE  KernelSpec => []NoMissedExit
<1>1. Pr!Spec => []Pr!NoMissedExit
  BY NotShared, Pr!NoExitMissed
<1> QED
  BY <1>1, IsProcess, PTL DEF NoMissedExit

\* kernel_proc.c, kernel_threads.c: the processes implement ProcessTree.
THEOREM KernelTree ==
  ASSUME Unshared
  PROVE  KernelSpec => RefinesTree
<1>1. Pr!Spec => Pr!RefinesTree
  BY NotShared, Pr!TreeRefinement
<1> QED
  BY <1>1, IsProcess DEF RefinesTree


-----------------------------------------------------------------------------
(***************************************************************************)
(* BarrierSync of tinyoslib.c and the table of symposium.c, each a system  *)
(* of its own: these constants and variables are not those of the kernel.  *)
(***************************************************************************)

CONSTANTS Party, n, MaxRounds, EpochSize, N, bites

VARIABLES
  bar_count, bar_epoch, step, my_epoch, met,     \* of Barrier
  plate, seat, bitten, host                      \* of Symposium, which has state

Ba == INSTANCE Barrier
Sy == INSTANCE Symposium WITH state <- plate

\* Who is at the barrier and has not been let go, and who has.
AtBarrier(t) == step[t] # "out" /\ my_epoch[t] = bar_epoch
Stale(t) == step[t] # "out" /\ my_epoch[t] # bar_epoch

\* All are in one round; those who have been let go have yet to count it.
Round(r) == \A t \in Party : met[t] = IF Stale(t) THEN r - 1 ELSE r

\* BarrierSync: count is the number of those who wait in this epoch, nobody who
\* sleeps is of an earlier one, and nobody wakes but those of an earlier one.
BarrierInv ==
  /\ Ba!TypeOK
  /\ bar_count = Cardinality({t \in Party : AtBarrier(t)})
  /\ \A t \in Party : step[t] = "wait" => AtBarrier(t)
  /\ \A t \in Party : step[t] = "awake" => Stale(t)
  /\ \E r \in 0 .. MaxRounds : Round(r)

\* BARRIER_INIT establishes it.
LEMMA BarrierInit == Ba!BarrierAssumption /\ Ba!Init => BarrierInv
<1> SUFFICES ASSUME Ba!BarrierAssumption, Ba!Init
             PROVE  BarrierInv
  OBVIOUS
<1>1. Ba!TypeOK
  BY DEF Ba!BarrierAssumption, Ba!Init, Ba!TypeOK, Ba!IsFiniteSet, IsFiniteSet
<1>2. {t \in Party : AtBarrier(t)} = {}
  BY DEF Ba!Init, AtBarrier
<1>3. bar_count = Cardinality({t \in Party : AtBarrier(t)})
  BY <1>2, FS_EmptySet DEF Ba!Init
<1>4. 0 \in 0 .. MaxRounds /\ Round(0)
  BY DEF Ba!Init, Round, Stale, Ba!BarrierAssumption, Ba!IsFiniteSet, IsFiniteSet
<1> QED BY <1>1, <1>3, <1>4 DEF BarrierInv, Ba!Init

\* Each stretch of BarrierSync with mx keeps it (tinyoslib.c:172-191).
LEMMA BarrierNext ==
  ASSUME Ba!BarrierAssumption, n = Cardinality(Party), BarrierInv, [Ba!Next]_Ba!barrierVars
  PROVE  BarrierInv'
<1> DEFINE W == {t \in Party : AtBarrier(t)}
<1>1. /\ Ba!TypeOK /\ IsFiniteSet(Party) /\ IsFiniteSet(W) /\ W \subseteq Party
      /\ n \in Nat \ {0} /\ EpochSize \in Nat \ {0, 1} /\ MaxRounds \in Nat
      /\ Cardinality(W) = bar_count
  BY FS_Subset DEF BarrierInv, Ba!BarrierAssumption, Ba!IsFiniteSet, IsFiniteSet
<1>2. PICK r \in 0 .. MaxRounds : Round(r)
  BY DEF BarrierInv
<1>3. ASSUME NEW t \in Party, Ba!Last(t)
      PROVE  BarrierInv'
  <2>1. t \notin W /\ bar_count + 1 = n
    BY <1>3 DEF Ba!Last, Ba!Complete, AtBarrier
  <2>2. W = Party \ {t}
    <3>1. IsFiniteSet(Party \ {t}) /\ Cardinality(Party \ {t}) = n - 1
      BY <1>1, FS_RemoveElement
    <3>2. W \in SUBSET (Party \ {t})
      BY <2>1, <1>1
    <3>3. Cardinality(Party \ {t}) = Cardinality(W)
      BY <3>1, <2>1, <1>1 DEF Ba!TypeOK
    <3> HIDE DEF W
    <3> QED BY <3>1, <3>2, <3>3, FS_Subset
  <2>3. \A u \in Party : u # t => step[u] = "wait" /\ my_epoch[u] = bar_epoch /\ met[u] = r
    BY <2>2, <1>1, <1>2 DEF AtBarrier, Stale, Round, BarrierInv, Ba!TypeOK
  <2>4. met[t] = r /\ r < MaxRounds
    BY <1>2, <1>3 DEF Ba!Last, Round, Stale
  <2>5. bar_epoch' \in 0 .. EpochSize - 1 /\ bar_epoch' # bar_epoch
    <3>1. bar_epoch' = (bar_epoch + 1) % EpochSize /\ bar_epoch \in 0 .. EpochSize - 1
      BY <1>1, <1>3 DEF Ba!Last, Ba!TypeOK
    <3>2. bar_epoch + 1 < EpochSize => (bar_epoch + 1) % EpochSize = bar_epoch + 1
      BY <3>1, <1>1
    <3>3. bar_epoch + 1 = EpochSize => (bar_epoch + 1) % EpochSize = 0
      BY <3>1, <1>1
    <3> QED BY <3>1, <3>2, <3>3, <1>1
  <2>6. /\ step'[t] = "out" /\ met'[t] = r + 1
        /\ \A u \in Party : u # t => step'[u] = "awake" /\ met'[u] = r
        /\ \A u \in Party : my_epoch'[u] = my_epoch[u]
        /\ step' \in [Party -> {"out", "wait", "awake"}]
    BY <1>1, <1>3, <2>3, <2>4 DEF Ba!Last, Ba!Broadcast, Ba!TypeOK
  <2>7. \A u \in Party : u # t => Stale(u)'
    BY <2>3, <2>5, <2>6 DEF Stale
  <2>8. ~Stale(t)' /\ ~AtBarrier(t)'
    BY <2>6 DEF Stale, AtBarrier
  <2>9. r + 1 \in 0 .. MaxRounds /\ Round(r + 1)'
    <3>1. r + 1 \in 0 .. MaxRounds
      BY <2>4, <1>1
    <3>2. ASSUME NEW u \in Party
          PROVE  met'[u] = IF Stale(u)' THEN (r + 1) - 1 ELSE r + 1
      BY <2>6, <2>7, <2>8
    <3> QED BY <3>1, <3>2 DEF Round
  <2>10. W' = {}
    BY <2>7, <2>8 DEF Stale, AtBarrier
  <2>11. bar_count' = Cardinality(W')
    BY <2>10, <1>3, FS_EmptySet DEF Ba!Last
  <2>12. Ba!TypeOK'
    <3>1. met' \in [Party -> 0 .. MaxRounds]
      BY <1>1, <1>3, <2>4 DEF Ba!Last, Ba!TypeOK
    <3> QED BY <3>1, <2>5, <2>6, <1>1, <1>3 DEF Ba!Last, Ba!TypeOK
  <2>13. \A u \in Party : /\ step'[u] = "wait" => AtBarrier(u)'
                          /\ step'[u] = "awake" => Stale(u)'
    BY <2>6, <2>7
  <2> QED BY <2>9, <2>11, <2>12, <2>13 DEF BarrierInv
<1>4. ASSUME NEW t \in Party, Ba!Arrive(t)
      PROVE  BarrierInv'
  <2>1. t \notin W /\ bar_count + 1 # n /\ met[t] = r
    BY <1>2, <1>4 DEF Ba!Arrive, Ba!Complete, AtBarrier, Round, Stale
  <2>2. /\ step'[t] = "wait" /\ my_epoch'[t] = bar_epoch
        /\ \A u \in Party : u # t => step'[u] = step[u] /\ my_epoch'[u] = my_epoch[u]
        /\ bar_epoch' = bar_epoch /\ met' = met /\ bar_count' = bar_count + 1
    BY <1>1, <1>4 DEF Ba!Arrive, Ba!TypeOK
  <2>3. W' = W \cup {t}
    BY <2>2 DEF AtBarrier
  <2>4. bar_count' = Cardinality(W')
    BY <2>1, <2>2, <2>3, <1>1, FS_AddElement
  <2>5. \A u \in Party : /\ Stale(u)' <=> Stale(u)
                         /\ u # t => (AtBarrier(u)' <=> AtBarrier(u))
    BY <2>2, <1>4 DEF Stale, AtBarrier, Ba!Arrive
  <2>6. Round(r)'
    BY <2>2, <2>5, <1>2 DEF Round
  <2>7. Ba!TypeOK'
    <3>1. bar_count' \in 0 .. n - 1
      BY <2>1, <2>2, <1>1 DEF Ba!TypeOK
    <3> QED BY <3>1, <1>1, <1>4 DEF Ba!Arrive, Ba!TypeOK
  <2>8. \A u \in Party : /\ step'[u] = "wait" => AtBarrier(u)'
                         /\ step'[u] = "awake" => Stale(u)'
    BY <2>2, <2>5 DEF BarrierInv, AtBarrier
  <2> QED BY <2>4, <2>6, <2>7, <2>8 DEF BarrierInv
<1>5. ASSUME NEW t \in Party, Ba!Wakes(t)
      PROVE  BarrierInv'
  <2>1. Stale(t) /\ Ba!Passed(t) /\ step[t] = "awake"
    BY <1>5 DEF Ba!Wakes, BarrierInv, Stale, Ba!Passed
  <2>2. /\ step'[t] = "out" /\ met'[t] = met[t] + 1
        /\ \A u \in Party : u # t => step'[u] = step[u] /\ met'[u] = met[u]
        /\ bar_count' = bar_count /\ bar_epoch' = bar_epoch /\ my_epoch' = my_epoch
    BY <1>1, <1>5, <2>1 DEF Ba!Wakes, Ba!TypeOK
  <2>3. \A u \in Party : /\ u # t => (Stale(u)' <=> Stale(u)) /\ (AtBarrier(u)' <=> AtBarrier(u))
                         /\ ~AtBarrier(t) /\ ~AtBarrier(t)' /\ ~Stale(t)'
    BY <2>1, <2>2 DEF Stale, AtBarrier
  <2>4. W' = W
    BY <2>3
  <2>5. met[t] = r - 1 /\ met[t] + 1 = r
    BY <2>1, <1>2 DEF Round
  <2>6. Round(r)'
    BY <2>1, <2>2, <2>3, <2>5, <1>2 DEF Round
  <2>7. Ba!TypeOK'
    BY <2>1, <2>5, <1>1, <1>5 DEF Ba!Wakes, Ba!TypeOK
  <2>8. \A u \in Party : /\ step'[u] = "wait" => AtBarrier(u)'
                         /\ step'[u] = "awake" => Stale(u)'
    BY <2>2, <2>3 DEF BarrierInv
  <2> QED BY <2>2, <2>4, <2>6, <2>7, <2>8, <1>1 DEF BarrierInv
<1>6. CASE UNCHANGED Ba!barrierVars
  <2>1. W' = W /\ Round(r)'
    BY <1>2, <1>6 DEF Ba!barrierVars, AtBarrier, Round, Stale
  <2> QED BY <2>1, <1>1, <1>6 DEF BarrierInv, Ba!barrierVars, Ba!TypeOK, AtBarrier, Stale
<1> QED BY <1>3, <1>4, <1>5, <1>6 DEF Ba!Next, Ba!Idle

\* Who is a round ahead of another has found the barrier complete, and the other is
\* on the way out.
LEMMA BarrierMeets ==
  ASSUME Ba!BarrierAssumption, BarrierInv
  PROVE  Ba!Meets
<1>1. PICK r \in 0 .. MaxRounds : Round(r)
  BY DEF BarrierInv
<1> SUFFICES ASSUME NEW t \in Party, NEW u \in Party, met[t] > met[u]
             PROVE  /\ met[t] = met[u] + 1
                    /\ step[u] # "out" /\ my_epoch[u] # bar_epoch
  BY DEF Ba!Meets
<1>2. /\ met[t] = IF Stale(t) THEN r - 1 ELSE r
      /\ met[u] = IF Stale(u) THEN r - 1 ELSE r
  BY <1>1 DEF Round
<1>3. Stale(u) /\ ~Stale(t)
  BY <1>2
<1> QED BY <1>2, <1>3 DEF Stale

\* For any number of threads that meet at a barrier of their number, whatever the
\* width of epoch: nobody passes BarrierSync before all have come, and who is behind
\* has been let go already (tinyoslib.c:172-191).
THEOREM BarrierSafe ==
  ASSUME Ba!BarrierAssumption, n = Cardinality(Party)
  PROVE  Ba!Spec => [](Ba!TypeOK /\ Ba!Meets)
<1>1. Ba!Init => BarrierInv
  BY BarrierInit
<1>2. BarrierInv /\ [Ba!Next]_Ba!barrierVars => BarrierInv'
  BY BarrierNext
<1>3. BarrierInv => Ba!TypeOK /\ Ba!Meets
  BY BarrierMeets DEF BarrierInv
<1> QED BY <1>1, <1>2, <1>3, PTL DEF Ba!Spec

\* What the table says of a philosopher, by where he is.
StateOf(s) ==
  IF s = "think" THEN "THINKING"
  ELSE IF s = "wait" THEN "HUNGRY"
  ELSE IF s \in {"awake", "eat"} THEN "EATING"
  ELSE "NOTHERE"

\* The philosophers whose process or thread has ended.
Exits == {i \in Sy!Phil : seat[i] = "exit"}

\* The tables.
Plates == [Sy!Phil -> {"NOTHERE", "THINKING", "HUNGRY", "EATING"}]

\* Of a table: neighbours do not eat together ...
Apart(s) ==
  \A i \in Sy!Phil : s[i] = "EATING" /\ N > 1 =>
    s[Sy!LEFT(i)] # "EATING" /\ s[Sy!RIGHT(i)] # "EATING"

\* ... and the hungry have a cause.
Cause(s, i) == s[Sy!LEFT(i)] = "EATING" \/ s[Sy!RIGHT(i)] = "EATING"

\* The host waits for as many children as have exited, and then frees the table.
HostCounts == IF host = -1 THEN Exits = Sy!Phil ELSE host <= Cardinality(Exits)

\* The table says where everybody is; neighbours do not eat together; the hungry
\* have a neighbour who eats; the host has counted only those who are gone.
SymposiumInv ==
  /\ Sy!TypeOK
  /\ \A i \in Sy!Phil : plate[i] = StateOf(seat[i])
  /\ \A i \in Sy!Phil : seat[i] \in {"wait", "awake", "eat"} => bitten[i] < bites
  /\ Apart(plate) /\ \A i \in Sy!Phil : plate[i] = "HUNGRY" => Cause(plate, i)
  /\ HostCounts

\* The table is round.
LEMMA TableLemma ==
  ASSUME N \in Nat \ {0}, NEW i \in Sy!Phil
  PROVE  /\ Sy!LEFT(i) \in Sy!Phil /\ Sy!RIGHT(i) \in Sy!Phil
         /\ Sy!LEFT(Sy!RIGHT(i)) = i /\ Sy!RIGHT(Sy!LEFT(i)) = i
         /\ N > 1 => Sy!LEFT(i) # i /\ Sy!RIGHT(i) # i
         /\ N = 1 => Sy!LEFT(i) = i /\ Sy!RIGHT(i) = i
<1>1. \A k \in 0 .. N - 1 : k % N = k
  OBVIOUS
<1>2. \A k \in 0 .. N - 1 : (k + N) % N = k
  OBVIOUS
<1>3. ASSUME NEW j \in Sy!Phil
      PROVE  /\ Sy!LEFT(j) = IF j = N - 1 THEN 0 ELSE j + 1
             /\ Sy!RIGHT(j) = IF j = 0 THEN N - 1 ELSE j - 1
             /\ Sy!LEFT(j) \in Sy!Phil /\ Sy!RIGHT(j) \in Sy!Phil
  <2>1. j \in Int /\ 0 <= j /\ j <= N - 1
    BY DEF Sy!Phil
  <2>2. Sy!LEFT(j) = IF j = N - 1 THEN 0 ELSE j + 1
    <3>1. CASE j = N - 1
      <4>1. j + 1 = 0 + N /\ 0 \in 0 .. N - 1
        BY <3>1
      <4> QED BY <4>1, <3>1, <1>2 DEF Sy!LEFT
    <3>2. CASE j # N - 1
      <4>1. j + 1 \in 0 .. N - 1
        BY <3>2, <2>1
      <4> QED BY <4>1, <3>2, <1>1 DEF Sy!LEFT
    <3> QED BY <3>1, <3>2
  <2>3. Sy!RIGHT(j) = IF j = 0 THEN N - 1 ELSE j - 1
    <3>1. CASE j = 0
      <4>1. j + N - 1 = N - 1 /\ N - 1 \in 0 .. N - 1
        BY <3>1
      <4> QED BY <4>1, <3>1, <1>1 DEF Sy!RIGHT
    <3>2. CASE j # 0
      <4>1. j + N - 1 = (j - 1) + N /\ j - 1 \in 0 .. N - 1
        BY <3>2, <2>1
      <4> QED BY <4>1, <3>2, <1>2 DEF Sy!RIGHT
    <3> QED BY <3>1, <3>2
  <2> QED BY <2>1, <2>2, <2>3 DEF Sy!Phil
<1>4. i \in Int /\ 0 <= i /\ i <= N - 1
  BY DEF Sy!Phil
<1>5. /\ Sy!LEFT(i) = (IF i = N - 1 THEN 0 ELSE i + 1) /\ Sy!LEFT(i) \in Sy!Phil
      /\ Sy!RIGHT(i) = (IF i = 0 THEN N - 1 ELSE i - 1) /\ Sy!RIGHT(i) \in Sy!Phil
  BY <1>3
<1>6. Sy!LEFT(Sy!RIGHT(i)) = i
  <2>1. Sy!LEFT(Sy!RIGHT(i)) = IF Sy!RIGHT(i) = N - 1 THEN 0 ELSE Sy!RIGHT(i) + 1
    BY <1>3, <1>5
  <2> QED BY <2>1, <1>4, <1>5
<1>7. Sy!RIGHT(Sy!LEFT(i)) = i
  <2>1. Sy!RIGHT(Sy!LEFT(i)) = IF Sy!LEFT(i) = 0 THEN N - 1 ELSE Sy!LEFT(i) - 1
    BY <1>3, <1>5
  <2> QED BY <2>1, <1>4, <1>5
<1> QED BY <1>4, <1>5, <1>6, <1>7

\* trytoeat (symposium.c:76): who tries to eat does so, or has a neighbour who eats.
LEMMA TryLemma ==
  ASSUME N \in Nat \ {0}, NEW s \in Plates, Apart(s), NEW i \in Sy!Phil,
         NEW t, t = Sy!trytoeat(s, i)
  PROVE  /\ t \in Plates /\ Apart(t)
         /\ \A j \in Sy!Phil : j # i => t[j] = s[j]
         /\ t[i] = s[i] \/ (s[i] = "HUNGRY" /\ t[i] = "EATING")
         /\ t[i] = "HUNGRY" => Cause(t, i)
<1>1. \A j \in Sy!Phil : /\ Sy!LEFT(j) \in Sy!Phil /\ Sy!RIGHT(j) \in Sy!Phil
                         /\ Sy!LEFT(Sy!RIGHT(j)) = j /\ Sy!RIGHT(Sy!LEFT(j)) = j
                         /\ N > 1 => Sy!LEFT(j) # j /\ Sy!RIGHT(j) # j
                         /\ N = 1 => Sy!LEFT(j) = j /\ Sy!RIGHT(j) = j
  BY TableLemma
<1>2. CASE Sy!CanEat(s, i)
  <2>1. /\ t \in Plates /\ t[i] = "EATING" /\ s[i] = "HUNGRY"
        /\ \A j \in Sy!Phil : j # i => t[j] = s[j]
    BY <1>2 DEF Sy!trytoeat, Plates, Sy!CanEat
  <2>2. N > 1 => t[Sy!LEFT(i)] # "EATING" /\ t[Sy!RIGHT(i)] # "EATING"
    BY <1>1, <1>2, <2>1 DEF Sy!CanEat
  <2>3. ASSUME NEW j \in Sy!Phil, t[j] = "EATING", N > 1
        PROVE  t[Sy!LEFT(j)] # "EATING" /\ t[Sy!RIGHT(j)] # "EATING"
    <3>1. CASE j = i
      BY <3>1, <2>2, <2>3
    <3>2. CASE j # i
      <4>1. Sy!LEFT(j) # i /\ Sy!RIGHT(j) # i
        BY <1>1, <2>2, <2>3
      <4>2. s[Sy!LEFT(j)] # "EATING" /\ s[Sy!RIGHT(j)] # "EATING"
        BY <3>2, <2>1, <2>3 DEF Apart
      <4> QED BY <4>1, <4>2, <1>1, <2>1
    <3> QED BY <3>1, <3>2
  <2> QED BY <2>1, <2>3 DEF Apart
<1>3. CASE ~Sy!CanEat(s, i)
  <2>1. t = s
    BY <1>3 DEF Sy!trytoeat
  <2>2. s[i] = "HUNGRY" => Cause(s, i)
    BY <1>3 DEF Sy!CanEat, Cause
  <2> QED BY <2>1, <2>2
<1> QED BY <1>2, <1>3

\* The philosophers are N.
LEMMA PhilLemma ==
  ASSUME Sy!SymposiumAssumption
  PROVE  /\ N \in Nat \ {0} /\ IsFiniteSet(Sy!Phil) /\ Cardinality(Sy!Phil) = N
         /\ IsFiniteSet(Exits) /\ Cardinality(Exits) \in Nat /\ Exits \subseteq Sy!Phil
         /\ Cardinality(Exits) = N => Exits = Sy!Phil
<1>1. N \in Nat \ {0} /\ IsFiniteSet(Sy!Phil) /\ Cardinality(Sy!Phil) = N
  BY FS_Interval DEF Sy!SymposiumAssumption, Sy!Phil
<1>2. Exits \in SUBSET Sy!Phil
  BY DEF Exits
<1> HIDE DEF Exits
<1> QED BY <1>1, <1>2, FS_Subset, FS_CardinalityType

\* Who has gone stays away.
LEMMA GoneLemma ==
  ASSUME Sy!SymposiumAssumption, Sy!TypeOK, HostCounts, host' = host,
         \A i \in Sy!Phil : seat[i] = "exit" => seat'[i] = "exit"
  PROVE  HostCounts'
<1>1. /\ IsFiniteSet(Sy!Phil) /\ Exits \subseteq Exits' /\ Exits' \in SUBSET Sy!Phil
      /\ host \in Int
  BY PhilLemma DEF Exits, Sy!TypeOK
<1>2. IsFiniteSet(Exits') /\ Cardinality(Exits') \in Nat /\ Cardinality(Exits) \in Nat
      /\ Cardinality(Exits) <= Cardinality(Exits')
  <2>1. Exits' \in SUBSET Sy!Phil /\ Exits \in SUBSET Sy!Phil /\ Exits \in SUBSET Exits'
    BY <1>1 DEF Exits
  <2> DEFINE a == Exits
             b == Exits'
  <2> HIDE DEF a, b
  <2>2. b \in SUBSET Sy!Phil /\ a \in SUBSET Sy!Phil /\ a \in SUBSET b
    BY <2>1 DEF a, b
  <2>3. IsFiniteSet(b) /\ Cardinality(b) \in Nat /\ Cardinality(a) \in Nat
        /\ Cardinality(a) <= Cardinality(b)
    BY <2>2, <1>1, FS_Subset, FS_CardinalityType
  <2> QED BY <2>3 DEF a, b
<1> QED BY <1>1, <1>2 DEF HostCounts

\* SymposiumTable_init, and before anybody is there.
LEMMA SymposiumInit == Sy!SymposiumAssumption /\ Sy!Init => SymposiumInv
<1> SUFFICES ASSUME Sy!SymposiumAssumption, Sy!Init
             PROVE  SymposiumInv
  OBVIOUS
<1>1. N \in Nat \ {0} /\ bites \in Nat
  BY DEF Sy!SymposiumAssumption
<1>2. \A i \in Sy!Phil : Sy!LEFT(i) \in Sy!Phil /\ Sy!RIGHT(i) \in Sy!Phil
  BY <1>1, TableLemma
<1>3. Sy!TypeOK
  BY <1>1 DEF Sy!Init, Sy!TypeOK
<1>4. Apart(plate)
  BY <1>2 DEF Sy!Init, Apart
<1>5. HostCounts
  BY PhilLemma DEF Sy!Init, HostCounts
<1> QED BY <1>3, <1>4, <1>5 DEF SymposiumInv, Sy!Init, StateOf

\* A step of one philosopher that leaves the others where they were.
LEMMA QuietLemma ==
  ASSUME Sy!SymposiumAssumption, SymposiumInv, NEW i \in Sy!Phil,
         NEW x \in {"NOTHERE", "THINKING"}, NEW z \in {"arrive", "think", "exit"},
         plate[i] \in {"NOTHERE", "THINKING"}, seat[i] # "exit",
         plate' = [plate EXCEPT ![i] = x], seat' = [seat EXCEPT ![i] = z],
         x = StateOf(z), UNCHANGED <<bitten, host>>
  PROVE  SymposiumInv'
<1>1. Sy!TypeOK /\ plate \in Plates /\ N \in Nat \ {0}
  BY DEF SymposiumInv, Sy!SymposiumAssumption, Sy!TypeOK, Plates
<1>2. /\ plate'[i] = x /\ seat'[i] = z
      /\ \A j \in Sy!Phil : j # i => plate'[j] = plate[j] /\ seat'[j] = seat[j]
  BY <1>1 DEF Sy!TypeOK
<1>3. Sy!TypeOK'
  BY <1>1 DEF Sy!TypeOK
<1>4. \A j \in Sy!Phil : /\ Sy!LEFT(j) \in Sy!Phil /\ Sy!RIGHT(j) \in Sy!Phil
                         /\ plate'[j] = "EATING" <=> plate[j] = "EATING"
                         /\ plate'[j] = "HUNGRY" <=> plate[j] = "HUNGRY"
  BY <1>1, <1>2, TableLemma
<1>5. Apart(plate)' /\ \A j \in Sy!Phil : plate'[j] = "HUNGRY" => Cause(plate, j)'
  BY <1>4 DEF SymposiumInv, Apart, Cause
<1>6. HostCounts'
  BY <1>1, <1>2, GoneLemma DEF SymposiumInv
<1>7. \A j \in Sy!Phil : /\ plate'[j] = StateOf(seat'[j])
                         /\ seat'[j] \in {"wait", "awake", "eat"} => bitten'[j] < bites
  BY <1>2 DEF SymposiumInv
<1> QED BY <1>3, <1>5, <1>6, <1>7 DEF SymposiumInv

\* The hungry one tries to eat (symposium.c:107-108).
LEMMA HungryLemma ==
  ASSUME Sy!SymposiumAssumption, SymposiumInv, NEW i \in Sy!Phil, Sy!Hungry(i)
  PROVE  SymposiumInv'
<1> DEFINE s == [plate EXCEPT ![i] = "HUNGRY"]
<1>1. Sy!TypeOK /\ plate \in Plates /\ N \in Nat \ {0}
  BY DEF SymposiumInv, Sy!SymposiumAssumption, Sy!TypeOK, Plates
<1>2. plate[i] = "THINKING" /\ bitten[i] < bites
  BY DEF Sy!Hungry, SymposiumInv, StateOf
<1>3. s \in Plates /\ s[i] = "HUNGRY" /\ \A j \in Sy!Phil : j # i => s[j] = plate[j]
  BY <1>1 DEF Plates
<1>4. plate' = Sy!trytoeat(s, i)
  BY DEF Sy!Hungry
<1>5. \A j \in Sy!Phil : Sy!LEFT(j) \in Sy!Phil /\ Sy!RIGHT(j) \in Sy!Phil
  BY <1>1, TableLemma
<1> HIDE DEF s
<1>6. \A j \in Sy!Phil : s[j] = "EATING" <=> plate[j] = "EATING"
  BY <1>2, <1>3
<1>7. Apart(s)
  BY <1>5, <1>6 DEF SymposiumInv, Apart
<1>8. /\ plate' \in Plates /\ Apart(plate')
      /\ \A j \in Sy!Phil : j # i => plate'[j] = s[j]
      /\ plate'[i] = s[i] \/ (s[i] = "HUNGRY" /\ plate'[i] = "EATING")
      /\ plate'[i] = "HUNGRY" => Cause(plate', i)
  BY <1>1, <1>3, <1>4, <1>7, TryLemma
<1>9. ASSUME NEW j \in Sy!Phil, plate'[j] = "HUNGRY"
      PROVE  Cause(plate', j)
  <2>1. CASE j = i
    BY <2>1, <1>8, <1>9
  <2>2. CASE j # i
    <3>1. Cause(plate, j)
      BY <2>2, <1>3, <1>8, <1>9 DEF SymposiumInv
    <3>2. \A k \in Sy!Phil : plate[k] = "EATING" => plate'[k] = "EATING"
      BY <1>2, <1>3, <1>8
    <3> QED BY <3>1, <3>2, <1>5 DEF Cause
  <2> QED BY <2>1, <2>2
<1>10. /\ seat'[i] = (IF plate'[i] = "HUNGRY" THEN "wait" ELSE "eat") /\ seat[i] = "think"
       /\ \A j \in Sy!Phil : j # i => seat'[j] = seat[j]
       /\ seat' \in [Sy!Phil -> {"none", "arrive", "think", "wait", "awake", "eat", "exit"}]
       /\ bitten' = bitten /\ host' = host
  BY <1>1 DEF Sy!Hungry, Sy!TypeOK
<1>11. Sy!TypeOK'
  BY <1>1, <1>8, <1>10 DEF Sy!TypeOK, Plates
<1>12. ASSUME NEW j \in Sy!Phil
       PROVE  /\ plate'[j] = StateOf(seat'[j])
              /\ seat'[j] \in {"wait", "awake", "eat"} => bitten'[j] < bites
  <2>1. CASE j = i
    BY <2>1, <1>2, <1>3, <1>8, <1>10 DEF StateOf
  <2>2. CASE j # i
    BY <2>2, <1>3, <1>8, <1>10 DEF SymposiumInv
  <2> QED BY <2>1, <2>2
<1>13. HostCounts'
  BY <1>1, <1>10, GoneLemma DEF SymposiumInv
<1> QED BY <1>8, <1>9, <1>11, <1>12, <1>13 DEF SymposiumInv

\* Who was woken finds himself eating, as the assertion of symposium.c:113 says.
LEMMA AwakesLemma ==
  ASSUME Sy!SymposiumAssumption, SymposiumInv, NEW i \in Sy!Phil, Sy!Awakes(i)
  PROVE  SymposiumInv'
<1>1. Sy!TypeOK /\ plate[i] = "EATING"
  BY DEF SymposiumInv, Sy!Awakes, StateOf
<1>2. /\ seat'[i] = "eat" /\ seat[i] = "awake" /\ UNCHANGED <<plate, bitten, host>>
      /\ \A j \in Sy!Phil : j # i => seat'[j] = seat[j]
      /\ seat' \in [Sy!Phil -> {"none", "arrive", "think", "wait", "awake", "eat", "exit"}]
  BY <1>1 DEF Sy!Awakes, Sy!TypeOK
<1>3. Sy!TypeOK'
  BY <1>1, <1>2 DEF Sy!TypeOK
<1>4. Apart(plate)' /\ \A j \in Sy!Phil : plate'[j] = "HUNGRY" => Cause(plate, j)'
  BY <1>2 DEF SymposiumInv, Apart, Cause
<1>5. ASSUME NEW j \in Sy!Phil
      PROVE  /\ plate'[j] = StateOf(seat'[j])
             /\ seat'[j] \in {"wait", "awake", "eat"} => bitten'[j] < bites
  BY <1>1, <1>2 DEF SymposiumInv, StateOf
<1>6. HostCounts'
  BY <1>1, <1>2, GoneLemma DEF SymposiumInv
<1> QED BY <1>3, <1>4, <1>5, <1>6 DEF SymposiumInv

\* After eating, and a try for the left and for the right neighbour
\* (symposium.c:119-122): whoever stays hungry still has a cause.
LEMMA ThinkLemma ==
  ASSUME Sy!SymposiumAssumption, SymposiumInv, NEW i \in Sy!Phil, Sy!Think(i)
  PROVE  SymposiumInv'
<1> DEFINE s == [plate EXCEPT ![i] = "THINKING"]
           l == Sy!LEFT(i)
           r == Sy!RIGHT(i)
           t == Sy!trytoeat(s, l)
           u == Sy!trytoeat(t, r)
           moved == [seat EXCEPT ![i] = "think"]
<1>1. Sy!TypeOK /\ plate \in Plates /\ N \in Nat \ {0}
  BY DEF SymposiumInv, Sy!SymposiumAssumption, Sy!TypeOK, Plates
<1>2. \A j \in Sy!Phil : /\ Sy!LEFT(j) \in Sy!Phil /\ Sy!RIGHT(j) \in Sy!Phil
                         /\ Sy!LEFT(Sy!RIGHT(j)) = j /\ Sy!RIGHT(Sy!LEFT(j)) = j
  BY <1>1, TableLemma
<1>3. /\ s \in Plates /\ s[i] = "THINKING" /\ \A j \in Sy!Phil : j # i => s[j] = plate[j]
      /\ moved[i] = "think" /\ \A j \in Sy!Phil : j # i => moved[j] = seat[j]
  BY <1>1 DEF Plates, Sy!TypeOK
<1>4. plate' = u /\ plate[i] = "EATING" /\ bitten[i] < bites
  BY DEF Sy!Think, Sy!AfterEating, SymposiumInv, StateOf
<1>5. l \in Sy!Phil /\ r \in Sy!Phil
  BY <1>2
<1>6. seat' = Sy!Signalled(plate', moved) /\ host' = host /\ bitten' = [bitten EXCEPT ![i] = @ + 1]
      /\ seat[i] = "eat"
  BY DEF Sy!Think
<1> HIDE DEF s, moved, l, r
<1>7. Apart(s)
  BY <1>2, <1>3 DEF SymposiumInv, Apart
<1> HIDE DEF t
<1>8. /\ t \in Plates /\ Apart(t)
      /\ \A j \in Sy!Phil : j # l => t[j] = s[j]
      /\ t[l] = s[l] \/ (s[l] = "HUNGRY" /\ t[l] = "EATING")
      /\ t[l] = "HUNGRY" => Cause(t, l)
  BY <1>1, <1>3, <1>5, <1>7, TryLemma DEF t
<1> HIDE DEF u
<1>9. /\ u \in Plates /\ Apart(u)
      /\ \A j \in Sy!Phil : j # r => u[j] = t[j]
      /\ u[r] = t[r] \/ (t[r] = "HUNGRY" /\ u[r] = "EATING")
      /\ u[r] = "HUNGRY" => Cause(u, r)
  BY <1>1, <1>5, <1>8, TryLemma DEF u
<1>10. \A j \in Sy!Phil : /\ s[j] = "EATING" => t[j] = "EATING"
                          /\ t[j] = "EATING" => u[j] = "EATING"
                          /\ u[j] = s[j] \/ (s[j] = "HUNGRY" /\ u[j] = "EATING")
                          /\ u[j] = "HUNGRY" => t[j] = "HUNGRY" /\ s[j] = "HUNGRY"
  <2> SUFFICES ASSUME NEW j \in Sy!Phil
               PROVE  /\ s[j] = "EATING" => t[j] = "EATING"
                      /\ t[j] = "EATING" => u[j] = "EATING"
                      /\ u[j] = s[j] \/ (s[j] = "HUNGRY" /\ u[j] = "EATING")
                      /\ u[j] = "HUNGRY" => t[j] = "HUNGRY" /\ s[j] = "HUNGRY"
    OBVIOUS
  <2>1. t[j] = s[j] \/ (s[j] = "HUNGRY" /\ t[j] = "EATING")
    BY <1>8
  <2>2. u[j] = t[j] \/ (t[j] = "HUNGRY" /\ u[j] = "EATING")
    BY <1>9
  <2> QED BY <2>1, <2>2
<1>11. ASSUME NEW j \in Sy!Phil, u[j] = "HUNGRY"
       PROVE  Cause(u, j)
  <2>1. t[j] = "HUNGRY" /\ s[j] = "HUNGRY" /\ j # i /\ plate[j] = "HUNGRY"
    BY <1>3, <1>10, <1>11
  <2>2. CASE j = l
    BY <2>1, <2>2, <1>2, <1>8, <1>10 DEF Cause
  <2>3. CASE j = r
    BY <2>3, <1>9, <1>11
  <2>4. CASE j # l /\ j # r
    <3>1. Sy!LEFT(j) # i /\ Sy!RIGHT(j) # i
      BY <2>4, <1>2 DEF l, r
    <3>2. Cause(plate, j)
      BY <2>1 DEF SymposiumInv
    <3> QED BY <3>1, <3>2, <1>2, <1>3, <1>10 DEF Cause
  <2> QED BY <2>2, <2>3, <2>4
<1>12. ASSUME NEW j \in Sy!Phil
       PROVE  seat'[j] = IF moved[j] = "wait" /\ u[j] = "EATING" /\ plate[j] # "EATING"
                         THEN "awake" ELSE moved[j]
  BY <1>4, <1>6 DEF Sy!Signalled
<1>13. ASSUME NEW j \in Sy!Phil
       PROVE  /\ seat'[j] \in {"none", "arrive", "think", "wait", "awake", "eat", "exit"}
              /\ seat[j] = "exit" => seat'[j] = "exit"
              /\ u[j] = StateOf(seat'[j])
              /\ seat'[j] \in {"wait", "awake", "eat"} => j # i /\ bitten[j] < bites
  <2>1. CASE j = i
    <3>1. seat'[j] = "think" /\ u[j] = "THINKING"
      BY <2>1, <1>3, <1>10, <1>12
    <3> QED BY <3>1, <2>1, <1>6 DEF StateOf
  <2>2. CASE j # i
    <3>1. /\ moved[j] = seat[j] /\ s[j] = plate[j] /\ plate[j] = StateOf(seat[j])
          /\ seat[j] \in {"wait", "awake", "eat"} => bitten[j] < bites
          /\ seat[j] \in {"none", "arrive", "think", "wait", "awake", "eat", "exit"}
      BY <2>2, <1>1, <1>3 DEF SymposiumInv, Sy!TypeOK
    <3>2. CASE seat[j] = "wait"
      <4>1. plate[j] = "HUNGRY"
        BY <3>1, <3>2 DEF StateOf
      <4>2. u[j] = "HUNGRY" \/ u[j] = "EATING"
        BY <4>1, <3>1, <1>10
      <4>3. seat'[j] = IF u[j] = "EATING" THEN "awake" ELSE "wait"
        BY <4>1, <4>2, <3>1, <3>2, <1>12
      <4> QED BY <4>2, <4>3, <3>1, <3>2, <2>2 DEF StateOf
    <3>3. CASE seat[j] # "wait"
      <4>1. plate[j] # "HUNGRY"
        BY <3>1, <3>3 DEF StateOf
      <4>2. u[j] = plate[j] /\ seat'[j] = seat[j]
        BY <4>1, <3>1, <3>3, <1>10, <1>12
      <4> QED BY <4>2, <3>1, <2>2
    <3> QED BY <3>2, <3>3
  <2> QED BY <2>1, <2>2
<1>14. Sy!TypeOK'
  <2>1. bitten' \in [Sy!Phil -> 0 .. bites]
    BY <1>1, <1>4, <1>6 DEF Sy!TypeOK, Sy!SymposiumAssumption
  <2>2. seat' \in [Sy!Phil -> {"none", "arrive", "think", "wait", "awake", "eat", "exit"}]
    <3>1. seat' = [j \in Sy!Phil |-> seat'[j]]
      BY <1>6 DEF Sy!Signalled
    <3> QED BY <3>1, <1>13
  <2> QED BY <2>1, <2>2, <1>1, <1>4, <1>6, <1>9 DEF Sy!TypeOK, Plates
<1>15. HostCounts'
  BY <1>1, <1>6, <1>13, GoneLemma DEF SymposiumInv
<1>16. \A j \in Sy!Phil : seat'[j] \in {"wait", "awake", "eat"} => bitten'[j] < bites
  BY <1>1, <1>6, <1>13 DEF Sy!TypeOK
<1> QED BY <1>4, <1>9, <1>11, <1>13, <1>14, <1>15, <1>16 DEF SymposiumInv

\* Every step of the philosophers and of the host keeps the invariant.
LEMMA SymposiumNext ==
  ASSUME Sy!SymposiumAssumption, SymposiumInv, [Sy!Next]_Sy!symposiumVars
  PROVE  SymposiumInv'
<1>1. Sy!TypeOK /\ \A i \in Sy!Phil : plate[i] = StateOf(seat[i])
  BY DEF SymposiumInv
<1>2. ASSUME NEW i \in Sy!Phil, Sy!Begin(i)
      PROVE  SymposiumInv'
  <2>1. seat[i] = "none" /\ plate[i] = "NOTHERE" /\ UNCHANGED <<plate, bitten, host>>
    BY <1>1, <1>2 DEF Sy!Begin, StateOf
  <2>2. PICK z \in {"arrive", "exit"} : seat' = [seat EXCEPT ![i] = z]
    BY <1>2 DEF Sy!Begin
  <2>3. plate' = [plate EXCEPT ![i] = "NOTHERE"]
    BY <2>1, <1>1 DEF Sy!TypeOK
  <2>4. StateOf(z) = "NOTHERE"
    BY DEF StateOf
  <2> QED BY <2>1, <2>2, <2>3, <2>4, QuietLemma
<1>3. ASSUME NEW i \in Sy!Phil, Sy!Arrive(i)
      PROVE  SymposiumInv'
  <2>1. plate[i] = "NOTHERE" /\ StateOf("think") = "THINKING"
    BY <1>1, <1>3 DEF Sy!Arrive, StateOf
  <2> QED BY <2>1, <1>3, QuietLemma DEF Sy!Arrive
<1>4. ASSUME NEW i \in Sy!Phil, Sy!Leave(i)
      PROVE  SymposiumInv'
  <2>1. plate[i] = "THINKING" /\ StateOf("exit") = "NOTHERE"
    BY <1>1, <1>4 DEF Sy!Leave, StateOf
  <2> QED BY <2>1, <1>4, QuietLemma DEF Sy!Leave
<1>5. ASSUME UNCHANGED <<plate, seat, bitten>>, Sy!TypeOK', HostCounts'
      PROVE  SymposiumInv'
  BY <1>5 DEF SymposiumInv, Apart, Cause
<1>6. CASE Sy!Join
  <2>1. /\ host \in 0 .. N - 1 /\ host < Cardinality(Exits) /\ host' = host + 1
        /\ UNCHANGED <<plate, seat, bitten>>
    BY <1>6 DEF Sy!Join, Sy!Joined, Exits, Sy!Cardinality, Cardinality
  <2>2. N \in Nat /\ Cardinality(Exits) \in Nat
    BY PhilLemma
  <2>3. Sy!TypeOK'
    BY <1>1, <2>1, <2>2 DEF Sy!TypeOK
  <2>4. Exits' = Exits
    BY <2>1 DEF Exits
  <2>5. HostCounts'
    BY <2>1, <2>2, <2>4 DEF HostCounts
  <2> QED BY <2>1, <2>3, <2>5, <1>5
<1>7. CASE Sy!Destroy
  <2>1. host = N /\ host' = -1 /\ UNCHANGED <<plate, seat, bitten>>
    BY <1>7 DEF Sy!Destroy
  <2>2. N \in Nat /\ Cardinality(Exits) \in Nat /\ (Cardinality(Exits) = N => Exits = Sy!Phil)
    BY PhilLemma
  <2>3. N <= Cardinality(Exits) /\ Cardinality(Exits) <= N
    <3>1. Exits \in SUBSET Sy!Phil
      BY DEF Exits
    <3> DEFINE g == Exits
    <3> HIDE DEF g
    <3>2. Cardinality(g) <= N
      BY <3>1, PhilLemma, FS_Subset DEF g
    <3> QED BY <3>2, <2>1, <2>2 DEF SymposiumInv, HostCounts, g
  <2>4. Sy!TypeOK'
    BY <1>1, <2>1, <2>2 DEF Sy!TypeOK
  <2>5. Exits' = Sy!Phil
    BY <2>1, <2>2, <2>3 DEF Exits
  <2>6. HostCounts'
    BY <2>1, <2>5 DEF HostCounts
  <2> QED BY <2>1, <2>4, <2>6, <1>5
<1>8. CASE UNCHANGED Sy!symposiumVars
  <2>1. Sy!TypeOK' /\ HostCounts'
    BY <1>1, <1>8 DEF Sy!symposiumVars, Sy!TypeOK, HostCounts, Exits, SymposiumInv
  <2> QED BY <2>1, <1>5, <1>8 DEF Sy!symposiumVars
<1> QED BY <1>2, <1>3, <1>4, <1>6, <1>7, <1>8, HungryLemma, AwakesLemma, ThinkLemma
        DEF Sy!Next, Sy!Step, Sy!Over

\* For any number of philosophers and bites: neighbours do not eat at once, whoever
\* passes the wait of symposium.c:109-112 is eating, whoever waits there has a neighbour
\* who eats and will try for him, and the table is freed after all have gone.
THEOREM SymposiumSafe ==
  ASSUME Sy!SymposiumAssumption
  PROVE  Sy!Spec => [](Sy!TypeOK /\ Sy!Forks /\ Sy!HungryHasCause /\ Sy!FreedLast)
<1>1. Sy!Init => SymposiumInv
  BY SymposiumInit
<1>2. SymposiumInv /\ [Sy!Next]_Sy!symposiumVars => SymposiumInv'
  BY SymposiumNext
<1>3. ASSUME SymposiumInv
      PROVE  Sy!TypeOK /\ Sy!Forks /\ Sy!HungryHasCause /\ Sy!FreedLast
  <2>1. Sy!Forks
    BY <1>3 DEF SymposiumInv, Sy!Forks, Apart, StateOf
  <2>2. Sy!HungryHasCause
    BY <1>3 DEF SymposiumInv, Sy!HungryHasCause, Cause, StateOf
  <2>3. Sy!FreedLast
    BY <1>3 DEF SymposiumInv, HostCounts, Exits, Sy!FreedLast
  <2> QED BY <2>1, <2>2, <2>3, <1>3 DEF SymposiumInv
<1> QED BY <1>1, <1>2, <1>3, PTL DEF Sy!Spec

=============================================================================
