---------------------------- MODULE SchedProofs ----------------------------
(***************************************************************************)
(* Proofs about the scheduler, for any number of threads, cores and        *)
(* priorities: type correctness, the queue invariant, the integrity of     *)
(* contexts and the assertions of the code.                                *)
(***************************************************************************)
EXTENDS Sched, QueueLemmas, FiniteSetTheorems

-----------------------------------------------------------------------------
(* The inductive invariant.  The properties refer to one another: a thread *)
(* is appended to a queue only if it is in none (QueueInvariant), which    *)
(* takes that nobody else is using its context (ContextIntegrity), which   *)
(* takes what each core knows of its two threads at each pc (CoreInv).     *)

\* What a core knows of its current and its previous thread.
CoreInv ==
  \A c \in Core :
    /\ CURTHREAD(c) \in Thread \cup {c}
    /\ pc[c] \in {"boot", "done"} => CURTHREAD(c) = c
    /\ pc[c] = "asleep" => CURTHREAD(c) \in Thread
    /\ pc[c] \in {"boot", "run", "release", "done"} =>
         state[CURTHREAD(c)] = "RUNNING"
    /\ pc[c] \in {"asleep", "expire"} =>
         state[CURTHREAD(c)] \in {"READY", "STOPPED", "EXITED"}
    /\ pc[c] \in {"count", "enter"} =>
         state[CURTHREAD(c)] \in {"RUNNING", "READY", "STOPPED", "EXITED"}
    /\ pc[c] = "switch" =>
         /\ previous_thread[c] \in Thread \cup {c}
         /\ state[previous_thread[c]] \in {"READY", "STOPPED", "EXITED"}
         /\ state[CURTHREAD(c)] = "READY"

\* Which phase goes with a state, and who may be in it.
StateInv ==
  \A t \in TCB :
    /\ state[t] \in {"FREE", "INIT"} => phase[t] = "CTX_CLEAN"
    /\ state[t] \in {"RUNNING", "EXITED"} => phase[t] = "CTX_DIRTY"
    /\ state[t] = "INIT" => t = newborn
    /\ t \in Core => state[t] \in {"RUNNING", "READY"}

SpawnInv ==
  /\ newborn = NULL <=> spawner = NULL
  /\ newborn # NULL => state[newborn] = "INIT"
  /\ active_threads_spinlock # NULL => active_threads_spinlock = spawner

LockInv == \A c \in Core : sched_spinlock = c <=> pc[c] \in {"expire", "release"}

\* Each queue holds every thread once, and only threads of its priority.
QueueShape ==
  \A p \in Priorities : /\ IsInjective(SCHED[p])
                        /\ \A t \in Range(SCHED[p]) : Priority[t] = p

TimeoutInv ==
  /\ IsInjective(TIMEOUT_LIST)
  /\ \A t \in TCB : wakeup_time[t] # NO_TIMEOUT <=> t \in Range(TIMEOUT_LIST)
  /\ \A t \in Range(TIMEOUT_LIST) : state[t] = "STOPPED"

Sorted ==
  \A i, j \in DOMAIN TIMEOUT_LIST :
    i <= j => wakeup_time[TIMEOUT_LIST[i]] <= wakeup_time[TIMEOUT_LIST[j]]

IInv ==
  /\ TypeOK
  /\ QueueInvariant
  /\ QueueShape
  /\ ContextIntegrity
  /\ TimeoutInv
  /\ Sorted
  /\ CoreInv
  /\ StateInv
  /\ SpawnInv
  /\ LockInv

-----------------------------------------------------------------------------
(* Lemmas about the operators of Sched.                                    *)

\* Every case of the switch of yield, fall-through included, stays within
\* the priorities.
LEMMA AdjustedPriorityType ==
  ASSUME NEW prio \in Priorities, NEW why, NEW last
  PROVE  AdjustedPriority(prio, why, last) \in Priorities
BY SchedAssumption
   DEF Priorities, TopPriority, AdjustedPriority, QuantumAdjusted, IoAdjusted,
       MutexAdjusted

\* sched_queue_select finds a queue that is not empty, if there is one.
LEMMA BestLemma ==
  ASSUME Nonempty # {}
  PROVE  Best \in Priorities /\ SCHED[Best] # <<>>
<1>1. Nonempty \in SUBSET (0 .. MAX_PRIORITIES - 1) /\ MAX_PRIORITIES - 1 \in Nat
  BY SchedAssumption DEF Nonempty, Priorities
<1>2. \E p \in Nonempty : \A q \in Nonempty : q <= p
  BY <1>1, GreatestNat
<1>3. Best \in Nonempty
  BY <1>2 DEF Best
<1> QED BY <1>3 DEF Nonempty

\* sched_register_timeout finds the place of a new entry.
LEMMA TimeoutPositionLemma ==
  ASSUME TypeOK, NEW when \in Nat
  PROVE  /\ TimeoutPosition(when) \in 1 .. Len(TIMEOUT_LIST) + 1
         /\ TimeoutPosition(when) <= Len(TIMEOUT_LIST) =>
              when < wakeup_time[TIMEOUT_LIST[TimeoutPosition(when)]]
         /\ \A j \in 1 .. TimeoutPosition(when) - 1 :
              wakeup_time[TIMEOUT_LIST[j]] <= when
<1> DEFINE n == Len(TIMEOUT_LIST)
           T == {i \in 1 .. n + 1 :
                   i <= n => when < wakeup_time[TIMEOUT_LIST[i]]}
<1>1. /\ n \in Nat
      /\ \A i \in 1 .. n : wakeup_time[TIMEOUT_LIST[i]] \in Int
  <2>1. TIMEOUT_LIST \in Seq(Thread)
    BY DEF TypeOK
  <2>2. \A i \in 1 .. n : TIMEOUT_LIST[i] \in TCB
    BY <2>1 DEF TCB
  <2>3. \A t \in TCB : wakeup_time[t] \in Int
    BY DEF TypeOK, NO_TIMEOUT
  <2> QED BY <2>1, <2>2, <2>3
<1> HIDE DEF n
<1>2. T \in SUBSET Nat /\ n + 1 \in T
  BY <1>1
<1>3. PICK m \in T : \A k \in T : m <= k
  BY <1>2, LeastNat
<1>4. \A j \in 1 .. m - 1 : wakeup_time[TIMEOUT_LIST[j]] <= when
  BY <1>1, <1>3
<1>5. \E i \in 1 .. n + 1 :
         /\ i <= n => when < wakeup_time[TIMEOUT_LIST[i]]
         /\ \A j \in 1 .. i - 1 : wakeup_time[TIMEOUT_LIST[j]] <= when
  BY <1>3, <1>4
<1> QED BY <1>5 DEF TimeoutPosition, n

\* The boost keeps the queues well formed: it lifts every queue below the
\* top by one, and nothing else.
LEMMA BoostLemma ==
  ASSUME TypeOK, QueueShape
  PROVE  /\ Boosted(SCHED) \in [Priorities -> Seq(Thread)]
         /\ \A p \in Priorities : IsInjective(Boosted(SCHED)[p])
         /\ \A p \in Priorities : \A t :
              t \in Range(Boosted(SCHED)[p]) <=>
                \/ p > 0 /\ t \in Range(SCHED[p - 1])
                \/ p = TopPriority /\ t \in Range(SCHED[p])
<1> DEFINE lifted(p) == IF p = 0 THEN <<>> ELSE Reverse(SCHED[p - 1])
<1>1. \A p \in Priorities : SCHED[p] \in Seq(Thread) /\ IsInjective(SCHED[p])
  BY DEF TypeOK, QueueShape
<1>2. \A p \in Priorities : p > 0 => p - 1 \in Priorities /\ p - 1 # p
  BY SchedAssumption DEF Priorities
<1>3. \A p \in Priorities : p \in Nat
  BY DEF Priorities
<1>4. ASSUME NEW p \in Priorities
      PROVE  /\ lifted(p) \in Seq(Thread)
             /\ IsInjective(lifted(p))
             /\ \A t : t \in Range(lifted(p)) <=> p > 0 /\ t \in Range(SCHED[p - 1])
  <2>1. CASE p = 0
    <3>1. <<>> \in Seq(Thread) /\ Len(<<>>) = 0
      OBVIOUS
    <3>2. IsInjective(<<>>) /\ \A t : t \notin Range(<<>>)
      BY DEF IsInjective, Range
    <3> QED BY <2>1, <3>1, <3>2
  <2>2. CASE p # 0
    <3>1. p > 0 /\ p - 1 \in Priorities
      BY <2>2, <1>2, <1>3
    <3> QED BY <3>1, <2>2, <1>1, ReverseLemma
  <2> QED BY <2>1, <2>2
<1>5. \A p \in Priorities : Boosted(SCHED)[p] =
        IF p = TopPriority THEN lifted(p) \o SCHED[p] ELSE lifted(p)
  BY DEF Boosted
<1>6. Boosted(SCHED) = [p \in Priorities |->
        IF p = TopPriority THEN lifted(p) \o SCHED[p] ELSE lifted(p)]
  BY DEF Boosted
<1> HIDE DEF lifted
<1>7. ASSUME NEW p \in Priorities
      PROVE  /\ Boosted(SCHED)[p] \in Seq(Thread)
             /\ IsInjective(Boosted(SCHED)[p])
             /\ \A t : t \in Range(Boosted(SCHED)[p]) <=>
                  \/ p > 0 /\ t \in Range(SCHED[p - 1])
                  \/ p = TopPriority /\ t \in Range(SCHED[p])
  <2>1. CASE p # TopPriority
    BY <2>1, <1>4, <1>5
  <2>2. CASE p = TopPriority
    <3>1. Range(lifted(p)) \cap Range(SCHED[p]) = {}
      <4> SUFFICES ASSUME NEW t \in Range(lifted(p)), t \in Range(SCHED[p])
                   PROVE  FALSE
        OBVIOUS
      <4>1. p > 0 /\ t \in Range(SCHED[p - 1])
        BY <1>4
      <4>2. Priority[t] = p /\ Priority[t] = p - 1
        BY <4>1, <1>2 DEF QueueShape
      <4> QED BY <4>2, <1>3
    <3>2. Boosted(SCHED)[p] = lifted(p) \o SCHED[p]
      BY <2>2, <1>5
    <3> QED BY <3>1, <3>2, <2>2, <1>1, <1>4, ConcatLemma
  <2> QED BY <2>1, <2>2
<1> QED BY <1>6, <1>7

-----------------------------------------------------------------------------
(* Lemmas about the changes that several actions share.                    *)

\* The lists hold normal threads.
LEMMA ListedThreads ==
  ASSUME TypeOK
  PROVE  /\ \A p \in Priorities : \A t \in Range(SCHED[p]) : t \in Thread /\ t \in TCB
         /\ \A t \in Range(TIMEOUT_LIST) : t \in Thread /\ t \in TCB
<1>1. \A p \in Priorities : SCHED[p] \in Seq(Thread)
  BY DEF TypeOK
<1>2. TIMEOUT_LIST \in Seq(Thread)
  BY DEF TypeOK
<1>3. ASSUME NEW s \in Seq(Thread), NEW t \in Range(s) PROVE t \in Thread
  BY Positions
<1> QED BY <1>1, <1>2, <1>3 DEF TCB

\* sched_queue_add of a thread that is in no queue: the queues stay well
\* formed, and the thread is in the queue of its priority.
LEMMA QueueAddLemma ==
  ASSUME TypeOK, QueueShape, NEW t \in Thread, ~Queued(t), SchedQueueAdd(t)
  PROVE  /\ SCHED' \in [Priorities -> Seq(Thread)]
         /\ \A p \in Priorities : IsInjective(SCHED'[p])
         /\ \A p \in Priorities : \A u :
              u \in Range(SCHED'[p]) <=>
                u \in Range(SCHED[p]) \/ (u = t /\ p = Priority[t])
<1>1. /\ SCHED \in [Priorities -> Seq(Thread)]
      /\ t \in TCB /\ Priority[t] \in Priorities
  BY DEF TypeOK, TCB
<1>2. t \notin Range(SCHED[Priority[t]])
  BY <1>1 DEF Queued
<1>3. /\ SCHED'[Priority[t]] = Append(SCHED[Priority[t]], t)
      /\ \A p \in Priorities : p # Priority[t] => SCHED'[p] = SCHED[p]
  BY <1>1 DEF SchedQueueAdd
<1>4. /\ Append(SCHED[Priority[t]], t) \in Seq(Thread)
      /\ Range(Append(SCHED[Priority[t]], t)) = Range(SCHED[Priority[t]]) \cup {t}
      /\ IsInjective(Append(SCHED[Priority[t]], t))
  BY <1>1, <1>2, AppendLemma DEF QueueShape
<1>5. SCHED' \in [Priorities -> Seq(Thread)]
  BY <1>1, <1>4 DEF SchedQueueAdd
<1> QED BY <1>1, <1>3, <1>4, <1>5 DEF QueueShape

\* A thread that is not READY is in no queue; one whose context is clean is
\* not the current thread of any core, unless it has just been selected.
LEMMA NotCurrent ==
  ASSUME ContextIntegrity, CoreInv, NEW t \in TCB,
         phase[t] = "CTX_CLEAN", state[t] # "READY", NEW c \in Core
  PROVE  CURTHREAD(c) # t
<1>1. CASE pc[c] = "switch"
  BY <1>1 DEF CoreInv
<1>2. CASE pc[c] # "switch"
  BY <1>2 DEF ContextIntegrity, Occupies
<1> QED BY <1>1, <1>2

\* sched_make_ready takes the thread out of the timeout list.
LEMMA UnlinkLemma ==
  ASSUME TypeOK, TimeoutInv, Sorted, NEW t \in Thread, MakeReady(t)
  PROVE  /\ TIMEOUT_LIST' \in Seq(Thread)
         /\ wakeup_time' \in [TCB -> Nat \cup {NO_TIMEOUT}]
         /\ \A u \in TCB : wakeup_time'[u] = IF u = t THEN NO_TIMEOUT
                                                     ELSE wakeup_time[u]
         /\ \A u : u \in Range(TIMEOUT_LIST') <=>
                     u \in Range(TIMEOUT_LIST) /\ u # t
         /\ IsInjective(TIMEOUT_LIST')
         /\ Sorted'
<1>0. /\ t \in TCB /\ TIMEOUT_LIST \in Seq(Thread) /\ IsInjective(TIMEOUT_LIST)
      /\ wakeup_time \in [TCB -> Nat \cup {NO_TIMEOUT}]
  BY DEF TypeOK, TCB, TimeoutInv
<1>1. CASE wakeup_time[t] = NO_TIMEOUT
  <2>1. UNCHANGED <<wakeup_time, TIMEOUT_LIST>>
    BY <1>1 DEF MakeReady
  <2>2. t \notin Range(TIMEOUT_LIST)
    BY <1>0, <1>1 DEF TimeoutInv
  <2> QED BY <2>1, <2>2, <1>0, <1>1 DEF Sorted
<1>2. CASE wakeup_time[t] # NO_TIMEOUT
  <2> DEFINE i == TimeoutIndex(t)
  <2>1. t \in Range(TIMEOUT_LIST)
    BY <1>0, <1>2 DEF TimeoutInv
  <2>2. i \in 1 .. Len(TIMEOUT_LIST) /\ TIMEOUT_LIST[i] = t
    <3>1. DOMAIN TIMEOUT_LIST = 1 .. Len(TIMEOUT_LIST)
      BY <1>0
    <3>2. \E k \in DOMAIN TIMEOUT_LIST : TIMEOUT_LIST[k] = t
      BY <2>1 DEF Range
    <3>3. i \in DOMAIN TIMEOUT_LIST /\ TIMEOUT_LIST[i] = t
      BY <3>2 DEF TimeoutIndex
    <3> QED BY <3>1, <3>3
  <2>3. /\ TIMEOUT_LIST' = RemoveAt(TIMEOUT_LIST, i)
        /\ wakeup_time' = [wakeup_time EXCEPT ![t] = NO_TIMEOUT]
    BY <1>2 DEF MakeReady
  <2> HIDE DEF i
  <2> DEFINE r == RemoveAt(TIMEOUT_LIST, i)
             n == Len(TIMEOUT_LIST)
  <2>4. /\ r \in Seq(Thread) /\ Len(r) = n - 1 /\ n \in Nat
        /\ \A j \in 1 .. n - 1 :
             r[j] = IF j < i THEN TIMEOUT_LIST[j] ELSE TIMEOUT_LIST[j + 1]
        /\ Range(r) \subseteq Range(TIMEOUT_LIST)
        /\ Range(TIMEOUT_LIST) \subseteq Range(r) \cup {TIMEOUT_LIST[i]}
        /\ IsInjective(r) /\ TIMEOUT_LIST[i] \notin Range(r)
    BY <1>0, <2>2, RemoveAtLemma
  <2> HIDE DEF r
  <2>5. \A u : u \in Range(r) <=> u \in Range(TIMEOUT_LIST) /\ u # t
    BY <2>2, <2>4
  <2>6. \A u \in TCB : wakeup_time'[u] = IF u = t THEN NO_TIMEOUT
                                                  ELSE wakeup_time[u]
    BY <1>0, <2>3
  <2>7. \A j \in 1 .. n : TIMEOUT_LIST[j] \in TCB
    BY <1>0 DEF TCB
  <2>8. \A j \in 1 .. n - 1 : r[j] \in TCB /\ r[j] # t
    <3>1. \A j \in 1 .. n - 1 : r[j] \in Range(r)
      BY <2>4, Positions
    <3> QED BY <3>1, <2>4, <2>2, <2>7
  <2>9. Sorted'
    <3> SUFFICES ASSUME NEW j \in 1 .. n - 1, NEW k \in 1 .. n - 1, j <= k
                 PROVE  wakeup_time'[r[j]] <= wakeup_time'[r[k]]
      <4>1. DOMAIN r = 1 .. n - 1
        BY <2>4
      <4> QED BY <4>1, <2>3 DEF Sorted, r
    <3>1. wakeup_time'[r[j]] = wakeup_time[r[j]] /\ wakeup_time'[r[k]] = wakeup_time[r[k]]
      BY <2>6, <2>8
    <3>2. \A a, b \in 1 .. n :
            a <= b => wakeup_time[TIMEOUT_LIST[a]] <= wakeup_time[TIMEOUT_LIST[b]]
      <4>1. DOMAIN TIMEOUT_LIST = 1 .. n
        BY <1>0
      <4> QED BY <4>1 DEF Sorted
    <3>3. PICK a \in 1 .. n : r[j] = TIMEOUT_LIST[a] /\ a = IF j < i THEN j ELSE j + 1
      BY <2>4
    <3>4. PICK b \in 1 .. n : r[k] = TIMEOUT_LIST[b] /\ b = IF k < i THEN k ELSE k + 1
      BY <2>4
    <3>5. a <= b
      BY <3>3, <3>4, <2>2
    <3> QED BY <3>1, <3>2, <3>3, <3>4, <3>5
  <2>10. wakeup_time' \in [TCB -> Nat \cup {NO_TIMEOUT}]
    BY <1>0, <2>3
  <2> QED BY <2>3, <2>4, <2>5, <2>6, <2>9, <2>10 DEF r
<1> QED BY <1>1, <1>2

\* sched_make_ready of a sleeping or new thread keeps every part of the
\* invariant that speaks of threads, queues and cores.
LEMMA MakeReadyLemma ==
  ASSUME IInv, NEW t \in Thread, state[t] \in {"STOPPED", "INIT"}, MakeReady(t),
         UNCHANGED <<phase, Priority, coreVars>>
  PROVE  /\ state' = [state EXCEPT ![t] = "READY"]
         /\ wakeup_time' \in [TCB -> Nat \cup {NO_TIMEOUT}]
         /\ TIMEOUT_LIST' \in Seq(Thread)
         /\ SCHED' \in [Priorities -> Seq(Thread)]
         /\ QueueInvariant' /\ QueueShape' /\ ContextIntegrity'
         /\ TimeoutInv' /\ Sorted' /\ CoreInv'
<1>0. /\ t \in TCB
      /\ state \in [TCB -> {"FREE", "INIT", "READY", "RUNNING", "STOPPED", "EXITED"}]
      /\ phase \in [TCB -> {"CTX_CLEAN", "CTX_DIRTY"}]
      /\ SCHED \in [Priorities -> Seq(Thread)]
      /\ Priority[t] \in Priorities
  BY DEF IInv, TypeOK, TCB
<1>1. /\ state' = [state EXCEPT ![t] = "READY"]
      /\ \A u \in TCB : state'[u] = IF u = t THEN "READY" ELSE state[u]
  BY <1>0 DEF MakeReady
<1>2. ~Queued(t)
  BY DEF IInv, QueueInvariant
<1>3. /\ SCHED' \in [Priorities -> Seq(Thread)]
      /\ \A p \in Priorities : IsInjective(SCHED'[p])
      /\ \A p \in Priorities : \A u :
           u \in Range(SCHED'[p]) <=>
             \/ u \in Range(SCHED[p])
             \/ u = t /\ p = Priority[t] /\ phase[t] = "CTX_CLEAN"
  <2>1. CASE phase[t] = "CTX_CLEAN"
    <3>1. SchedQueueAdd(t)
      BY <2>1 DEF MakeReady
    <3> QED BY <3>1, <2>1, <1>2, QueueAddLemma DEF IInv
  <2>2. CASE phase[t] # "CTX_CLEAN"
    <3>1. SCHED' = SCHED
      BY <2>2 DEF MakeReady
    <3> QED BY <3>1, <2>2, <1>0 DEF IInv, QueueShape
  <2> QED BY <2>1, <2>2
<1>4. /\ TIMEOUT_LIST' \in Seq(Thread)
      /\ wakeup_time' \in [TCB -> Nat \cup {NO_TIMEOUT}]
      /\ \A u \in TCB : wakeup_time'[u] = IF u = t THEN NO_TIMEOUT
                                                  ELSE wakeup_time[u]
      /\ \A u : u \in Range(TIMEOUT_LIST') <=>
                  u \in Range(TIMEOUT_LIST) /\ u # t
      /\ IsInjective(TIMEOUT_LIST')
      /\ Sorted'
  BY UnlinkLemma DEF IInv
<1>5. QueueInvariant'
  <2> SUFFICES ASSUME NEW u \in Thread
               PROVE  Queued(u)' <=> /\ state'[u] = "READY"
                                     /\ phase[u] = "CTX_CLEAN"
                                     /\ \A c \in Core : current_thread[c] # u
    BY DEF QueueInvariant, coreVars, CURTHREAD
  <2>1. Queued(u)' <=> Queued(u) \/ (u = t /\ phase[t] = "CTX_CLEAN")
    BY <1>0, <1>3 DEF Queued
  <2>2. CASE u # t
    <3>1. state'[u] = state[u]
      BY <2>2, <1>1 DEF TCB
    <3> QED BY <2>1, <2>2, <3>1 DEF IInv, QueueInvariant, CURTHREAD
  <2>3. CASE u = t
    <3>1. phase[t] = "CTX_CLEAN" => \A c \in Core : current_thread[c] # t
      BY <1>0, NotCurrent DEF IInv, CURTHREAD
    <3> QED BY <2>1, <2>3, <3>1, <1>0, <1>1, <1>2
  <2> QED BY <2>2, <2>3
<1>6. QueueShape'
  BY <1>3 DEF IInv, QueueShape
<1>7. ContextIntegrity'
  <2>1. \A c \in Core, u \in TCB : Occupies(c, u)' = Occupies(c, u)
    BY DEF coreVars, Occupies, CURTHREAD
  <2>2. ASSUME NEW c \in Core, pc[c] = "switch"
        PROVE  state'[current_thread[c]] = "READY"
    <3>1. current_thread[c] \in TCB /\ state[current_thread[c]] = "READY"
      BY <2>2 DEF IInv, CoreInv, TypeOK, CURTHREAD
    <3> QED BY <3>1, <1>1
  <2> QED BY <2>1, <2>2 DEF IInv, ContextIntegrity, coreVars, CURTHREAD
<1>8. TimeoutInv'
  <2>1. \A u \in Range(TIMEOUT_LIST') : u \in TCB
    BY <1>4, Positions DEF TCB
  <2> QED BY <2>1, <1>1, <1>4 DEF IInv, TimeoutInv
<1>9. CoreInv'
  <2>1. ASSUME NEW u \in TCB
        PROVE  /\ state[u] = "RUNNING" => state'[u] = "RUNNING"
               /\ state[u] = "READY" => state'[u] = "READY"
               /\ state[u] = "STOPPED" => state'[u] \in {"STOPPED", "READY"}
               /\ state[u] = "EXITED" => state'[u] = "EXITED"
    BY <1>0, <1>1
  <2>2. \A c \in Core :
          /\ current_thread[c] \in TCB
          /\ pc[c] = "switch" => previous_thread[c] \in TCB
    BY DEF IInv, TypeOK, CoreInv, TCB
  <2> QED BY <2>1, <2>2 DEF IInv, CoreInv, coreVars, CURTHREAD
<1> QED BY <1>1, <1>3, <1>4, <1>5, <1>6, <1>7, <1>8, <1>9

-----------------------------------------------------------------------------
(* The initial states, and the actions one by one.                         *)

\* initialize_scheduler and the first Exec establish the invariant.
LEMMA InitLemma == Init => IInv
<1> SUFFICES ASSUME Init PROVE IInv
  OBVIOUS
<1>1. /\ InitThread \in Thread /\ Thread \cap Core = {} /\ NULL \notin TCB
      /\ TopPriority \in Priorities /\ 0 \in Priorities
  BY SchedAssumption DEF TCB, TopPriority, Priorities
<1>2. /\ <<InitThread>> \in Seq(Thread) /\ Len(<<InitThread>>) = 1
      /\ <<>> \in Seq(Thread) /\ Range(<<>>) = {} /\ IsInjective(<<>>)
      /\ Range(<<InitThread>>) = {InitThread} /\ IsInjective(<<InitThread>>)
  BY <1>1 DEF Range, IsInjective
<1>3. \A p \in Priorities :
         SCHED[p] = IF p = TopPriority THEN <<InitThread>> ELSE <<>>
  BY DEF Init
<1>4. TypeOK
  <2>1. SCHED \in [Priorities -> Seq(Thread)] /\ TIMEOUT_LIST \in Seq(Thread)
    BY <1>2 DEF Init
  <2>2. numofYields \in 0 .. YieldsCap /\ readYields \in [Core -> 0 .. YieldsCap]
    BY SchedAssumption DEF Init, YieldsCap
  <2>3. /\ current_thread \in [Core -> TCB]
        /\ previous_thread \in [Core -> TCB \cup {NULL}]
    BY DEF Init, TCB
  <2>4. cause \in [Core -> Causes]
    BY DEF Init, Causes
  <2> QED BY <1>1, <2>1, <2>2, <2>3, <2>4 DEF TypeOK, Init, NO_TIMEOUT
<1>5. QueueInvariant
  <2>1. \A t : Queued(t) <=> t = InitThread
    BY <1>1, <1>2, <1>3 DEF Queued
  <2> QED BY <2>1, <1>1 DEF Init, QueueInvariant, TCB, CURTHREAD
<1>6. QueueShape
  BY <1>1, <1>2, <1>3 DEF QueueShape, Init, TCB
<1>7. ContextIntegrity
  BY <1>1 DEF ContextIntegrity, Init, Occupies, CURTHREAD, TCB
<1>8. TimeoutInv /\ Sorted
  BY <1>2 DEF TimeoutInv, Sorted, Init, NO_TIMEOUT
<1>9. CoreInv /\ StateInv /\ SpawnInv /\ LockInv
  BY <1>1, SchedAssumption
     DEF CoreInv, StateInv, SpawnInv, LockInv, Init, TCB, CURTHREAD
<1> QED BY <1>4, <1>5, <1>6, <1>7, <1>8, <1>9 DEF IInv

\* Nobody else has to do with the current thread of a core that is not
\* switching contexts.
LEMMA OwnThread ==
  ASSUME IInv, NEW c \in Core, pc[c] # "switch"
  PROVE  /\ CURTHREAD(c) \in TCB
         /\ phase[CURTHREAD(c)] = "CTX_DIRTY"
         /\ \A d \in Core : d # c =>
              /\ CURTHREAD(d) # CURTHREAD(c)
              /\ pc[d] = "switch" => previous_thread[d] # CURTHREAD(c)
<1>1. CURTHREAD(c) \in TCB
  BY DEF IInv, TypeOK, CURTHREAD
<1>2. Occupies(c, CURTHREAD(c))
  BY DEF Occupies
<1> QED BY <1>1, <1>2 DEF IInv, ContextIntegrity, Occupies

\* A core that goes from one point of its code to another, neither of them in
\* the middle of a context switch, occupies the same context.
LEMMA MovedLemma ==
  ASSUME IInv, NEW c \in Core, NEW to, to # "switch", pc[c] # "switch",
         Moved(c, to), UNCHANGED <<phase, current_thread, previous_thread>>,
         \A t \in TCB : t # CURTHREAD(c) => state'[t] = state[t]
  PROVE  ContextIntegrity'
<1>1. \A d \in Core : pc'[d] = IF d = c THEN to ELSE pc[d]
  BY DEF Moved, IInv, TypeOK
<1>2. \A d \in Core, t \in TCB : Occupies(d, t)' = Occupies(d, t)
  BY <1>1 DEF Occupies, CURTHREAD
<1>3. ASSUME NEW d \in Core, pc'[d] = "switch"
      PROVE  state'[current_thread[d]] = state[current_thread[d]]
  BY <1>1, <1>3, OwnThread DEF IInv, TypeOK, CURTHREAD
<1> QED BY <1>1, <1>2, <1>3 DEF IInv, ContextIntegrity, CURTHREAD

\* A change of the state of the current thread of a core, which is in no
\* queue, leaves the queue invariant true.
LEMMA OwnStateLemma ==
  ASSUME IInv, NEW c \in Core, pc[c] # "switch",
         UNCHANGED <<phase, current_thread>>,
         \A t \in Thread : Queued(t)' <=> Queued(t),
         \A t \in TCB : t # CURTHREAD(c) => state'[t] = state[t]
  PROVE  QueueInvariant'
<1> SUFFICES ASSUME NEW t \in Thread
             PROVE  Queued(t) <=> /\ state'[t] = "READY"
                                  /\ phase[t] = "CTX_CLEAN"
                                  /\ \A d \in Core : current_thread[d] # t
  BY DEF QueueInvariant, CURTHREAD
<1>1. CASE t = CURTHREAD(c)
  BY <1>1 DEF IInv, QueueInvariant, CURTHREAD
<1>2. CASE t # CURTHREAD(c)
  BY <1>2 DEF IInv, QueueInvariant, CURTHREAD, TCB
<1> QED BY <1>1, <1>2

\* What speaks of threads and queues only is kept by a step that changes
\* neither.
LEMMA QuietLemma ==
  ASSUME IInv,
         UNCHANGED <<state, phase, Priority, wakeup_time, queueVars, current_thread>>
  PROVE  QueueInvariant' /\ QueueShape' /\ TimeoutInv' /\ Sorted'
BY DEF IInv, QueueInvariant, QueueShape, TimeoutInv, Sorted, queueVars, Queued,
       CURTHREAD

\* yield, called by the current thread, by the ALARM or after a sleep, and the
\* load of the counter.
LEMMA CallYieldStep ==
  ASSUME IInv, NEW c \in Core, NEW why \in Causes,
         pc[c] \in {"run", "boot", "asleep"}, CallYield(c, why)
  PROVE  IInv'
<1> USE DEF CallYield
<1>1. TypeOK'
  BY DEF IInv, TypeOK, tcbVars, queueVars, spawnVars, Moved
<1>2. QueueInvariant' /\ QueueShape' /\ TimeoutInv' /\ Sorted'
  BY QuietLemma DEF tcbVars
<1>3. ContextIntegrity'
  BY MovedLemma DEF tcbVars
<1>4. \A d \in Core : pc'[d] = IF d = c THEN "count" ELSE pc[d]
  BY DEF Moved, IInv, TypeOK
<1>5. CoreInv'
  BY <1>4 DEF IInv, CoreInv, CURTHREAD, tcbVars
<1>6. StateInv' /\ SpawnInv' /\ LockInv'
  BY <1>4 DEF IInv, StateInv, SpawnInv, LockInv, tcbVars, spawnVars
<1> QED BY <1>1, <1>2, <1>3, <1>5, <1>6 DEF IInv

\* Every form of the call of yield.
LEMMA YieldStep ==
  ASSUME IInv, NEW c \in Core, Yield(c)
  PROVE  IInv'
<1>1. CASE Preempt(c)
  BY <1>1, CallYieldStep DEF Preempt, Causes
<1>2. CASE \E why \in YieldCauses : YieldCore(c, why)
  BY <1>2, CallYieldStep, SchedAssumption DEF YieldCore
<1>3. CASE IdleYield(c)
  BY <1>3, CallYieldStep DEF IdleYield, Causes
<1>4. CASE SleepYield(c)
  <2>1. cause[c] \in Causes
    BY DEF IInv, TypeOK
  <2> QED BY <2>1, <1>4, CallYieldStep DEF SleepYield
<1> QED BY <1>1, <1>2, <1>3, <1>4 DEF Yield

\* The store of the counter.
LEMMA CountYieldStep ==
  ASSUME IInv, NEW c \in Core, CountYield(c)
  PROVE  IInv'
<1> USE DEF CountYield
<1>1. TypeOK'
  <2>1. YieldsCap \in Nat
    BY SchedAssumption DEF YieldsCap
  <2>2. readYields[c] \in 0 .. YieldsCap
    BY DEF IInv, TypeOK
  <2>3. numofYields' \in 0 .. YieldsCap
    BY <2>1, <2>2
  <2>4. readYields' \in [Core -> 0 .. YieldsCap]
    BY <2>1 DEF IInv, TypeOK
  <2> QED BY <2>3, <2>4 DEF IInv, TypeOK, tcbVars, queueVars, spawnVars, Moved
<1>2. QueueInvariant' /\ QueueShape' /\ TimeoutInv' /\ Sorted'
  BY QuietLemma DEF tcbVars
<1>3. ContextIntegrity'
  BY MovedLemma DEF tcbVars
<1>4. \A d \in Core : pc'[d] = IF d = c THEN "enter" ELSE pc[d]
  BY DEF Moved, IInv, TypeOK
<1>5. CoreInv'
  BY <1>4 DEF IInv, CoreInv, CURTHREAD, tcbVars
<1>6. StateInv' /\ SpawnInv' /\ LockInv'
  BY <1>4 DEF IInv, StateInv, SpawnInv, LockInv, tcbVars, spawnVars
<1> QED BY <1>1, <1>2, <1>3, <1>5, <1>6 DEF IInv

\* release_TCB, and the unlock of gain.
LEMMA ReleaseTCBStep ==
  ASSUME IInv, NEW c \in Core, ReleaseTCB(c)
  PROVE  IInv'
<1> USE DEF ReleaseTCB
<1>1. TypeOK'
  BY DEF IInv, TypeOK, tcbVars, queueVars, yieldVars, Moved
<1>2. QueueInvariant' /\ QueueShape' /\ TimeoutInv' /\ Sorted'
  BY QuietLemma DEF tcbVars
<1>3. ContextIntegrity'
  BY MovedLemma DEF tcbVars
<1>4. \A d \in Core : pc'[d] = IF d = c THEN "run" ELSE pc[d]
  BY DEF Moved, IInv, TypeOK
<1>5. CoreInv'
  BY <1>4 DEF IInv, CoreInv, CURTHREAD, tcbVars
<1>6. StateInv' /\ SpawnInv'
  BY DEF IInv, StateInv, SpawnInv, tcbVars
<1>7. LockInv'
  <2>1. NULL \notin Core
    BY SchedAssumption
  <2>2. sched_spinlock = c
    BY DEF IInv, LockInv
  <2> QED BY <1>4, <2>1, <2>2 DEF IInv, LockInv
<1> QED BY <1>1, <1>2, <1>3, <1>5, <1>6, <1>7 DEF IInv

\* The idle thread leaves the scheduler.
LEMMA IdleReturnStep ==
  ASSUME IInv, NEW c \in Core, IdleReturn(c)
  PROVE  IInv'
<1> USE DEF IdleReturn
<1>1. TypeOK'
  BY DEF IInv, TypeOK, tcbVars, queueVars, spawnVars, yieldVars, Moved
<1>2. QueueInvariant' /\ QueueShape' /\ TimeoutInv' /\ Sorted'
  BY QuietLemma DEF tcbVars
<1>3. ContextIntegrity'
  BY MovedLemma DEF tcbVars
<1>4. \A d \in Core : pc'[d] = IF d = c THEN "done" ELSE pc[d]
  BY DEF Moved, IInv, TypeOK
<1>5. CoreInv'
  BY <1>4 DEF IInv, CoreInv, CURTHREAD, tcbVars
<1>6. StateInv' /\ SpawnInv' /\ LockInv'
  BY <1>4 DEF IInv, StateInv, SpawnInv, LockInv, tcbVars, spawnVars
<1> QED BY <1>1, <1>2, <1>3, <1>5, <1>6 DEF IInv

\* spawn_thread of a fresh TCB.
LEMMA SpawnThreadStep ==
  ASSUME IInv, NEW c \in Core, NEW t \in Thread, SpawnThread(c, t)
  PROVE  IInv'
<1> USE DEF SpawnThread
<1>0. /\ t \in TCB /\ NULL \notin TCB /\ t # NULL
      /\ TopPriority \in Priorities
      /\ CURTHREAD(c) \in Thread /\ CURTHREAD(c) # NULL
  BY SchedAssumption DEF TCB, TopPriority, Priorities
<1>1. TypeOK'
  BY <1>0 DEF IInv, TypeOK, queueVars, coreVars, yieldVars, NO_TIMEOUT
<1>2. /\ state[t] = "FREE"
      /\ \A u \in TCB : state'[u] = IF u = t THEN "INIT" ELSE state[u]
  BY <1>0 DEF InUse, IInv, TypeOK
<1>3. UNCHANGED phase
  <2>1. phase[t] = "CTX_CLEAN" /\ phase \in [TCB -> {"CTX_CLEAN", "CTX_DIRTY"}]
    BY <1>0, <1>2 DEF IInv, StateInv, TypeOK
  <2> QED BY <2>1
<1>4. UNCHANGED wakeup_time
  <2>1. t \notin Range(TIMEOUT_LIST)
    BY <1>2 DEF IInv, TimeoutInv
  <2>2. wakeup_time[t] = NO_TIMEOUT /\ wakeup_time \in [TCB -> Nat \cup {NO_TIMEOUT}]
    BY <2>1, <1>0 DEF IInv, TimeoutInv, TypeOK
  <2> QED BY <2>2
<1>5. ~Queued(t)
  BY <1>2 DEF IInv, QueueInvariant
<1>6. QueueInvariant'
  <2> SUFFICES ASSUME NEW u \in Thread
               PROVE  Queued(u) <=> /\ state'[u] = "READY"
                                    /\ phase[u] = "CTX_CLEAN"
                                    /\ \A d \in Core : current_thread[d] # u
    BY <1>3 DEF QueueInvariant, Queued, queueVars, coreVars, CURTHREAD
  <2>1. u \in TCB
    BY DEF TCB
  <2> QED BY <2>1, <1>2, <1>5 DEF IInv, QueueInvariant, CURTHREAD
<1>7. QueueShape'
  <2>1. \A p \in Priorities : t \notin Range(SCHED[p])
    BY <1>5 DEF Queued
  <2>2. \A p \in Priorities : \A u \in Range(SCHED[p]) : u \in TCB
    BY ListedThreads DEF IInv
  <2>3. \A u \in TCB : u # t => Priority'[u] = Priority[u]
    BY DEF IInv, TypeOK
  <2> QED BY <2>1, <2>2, <2>3 DEF IInv, QueueShape, queueVars
<1>8. ContextIntegrity'
  <2>1. \A d \in Core, u \in TCB : Occupies(d, u)' = Occupies(d, u)
    BY DEF Occupies, CURTHREAD, coreVars
  <2>2. ASSUME NEW d \in Core, pc[d] = "switch"
        PROVE  state'[current_thread[d]] = "READY"
    <3>1. current_thread[d] \in TCB /\ state[current_thread[d]] = "READY"
      BY <2>2 DEF IInv, CoreInv, TypeOK, CURTHREAD
    <3> QED BY <3>1, <1>2
  <2> QED BY <2>1, <2>2, <1>3 DEF IInv, ContextIntegrity, coreVars, CURTHREAD
<1>9. TimeoutInv' /\ Sorted'
  <2>1. \A u \in Range(TIMEOUT_LIST) : u \in TCB
    BY ListedThreads DEF IInv
  <2> QED BY <2>1, <1>2, <1>4 DEF IInv, TimeoutInv, Sorted, queueVars
<1>10. CoreInv'
  <2>1. \A u \in TCB : state[u] # "FREE" => state'[u] = state[u]
    BY <1>2
  <2>2. \A d \in Core :
          /\ current_thread[d] \in TCB
          /\ pc[d] = "switch" => previous_thread[d] \in TCB
    BY DEF IInv, TypeOK, CoreInv, TCB
  <2> QED BY <2>1, <2>2 DEF IInv, CoreInv, coreVars, CURTHREAD, TypeOK
<1>11. SpawnInv' /\ LockInv'
  BY <1>0, <1>2 DEF IInv, SpawnInv, LockInv, coreVars
<1>12. StateInv'
  <2>1. newborn = NULL /\ newborn' = t /\ t \notin Core
    BY SchedAssumption DEF IInv, SpawnInv
  <2>2. \A u \in TCB : state[u] # "INIT"
    BY <2>1, <1>0 DEF IInv, StateInv
  <2>3. phase[t] = "CTX_CLEAN"
    BY <1>0, <1>2 DEF IInv, StateInv
  <2> QED BY <2>1, <2>2, <2>3, <1>0, <1>2, <1>3 DEF IInv, StateInv
<1> QED BY <1>1, <1>6, <1>7, <1>8, <1>9, <1>10, <1>11, <1>12 DEF IInv

\* The count of spawn_thread.
LEMMA SpawnCountStep ==
  ASSUME IInv, NEW c \in Core, SpawnCount(c)
  PROVE  IInv'
<1> USE DEF SpawnCount
<1>1. TypeOK'
  BY DEF IInv, TypeOK, tcbVars, queueVars, coreVars, yieldVars
<1>2. QueueInvariant' /\ QueueShape' /\ TimeoutInv' /\ Sorted'
  BY QuietLemma DEF tcbVars, coreVars
<1>3. ContextIntegrity' /\ CoreInv'
  BY DEF IInv, ContextIntegrity, CoreInv, Occupies, CURTHREAD, tcbVars, coreVars
<1>4. StateInv' /\ SpawnInv' /\ LockInv'
  BY DEF IInv, StateInv, SpawnInv, LockInv, tcbVars, coreVars
<1> QED BY <1>1, <1>2, <1>3, <1>4 DEF IInv

\* wakeup, by the creator of a thread, by whoever signals a sleeper, or by the
\* expiry of its timeout: a call of sched_make_ready that leaves phases,
\* priorities and cores alone.
LEMMA WokenLemma ==
  ASSUME IInv, NEW t \in Thread, MakeReady(t),
         UNCHANGED <<phase, Priority, last_cause, curr_cause, coreVars,
                     yieldVars, sched_spinlock, curtime, clock,
                     active_threads, active_threads_spinlock>>,
         \/ state[t] = "STOPPED" /\ UNCHANGED <<spawner, newborn>>
         \/ /\ t = newborn /\ active_threads_spinlock = NULL
            /\ spawner' = NULL /\ newborn' = NULL
  PROVE  IInv'
<1>0. state[t] \in {"STOPPED", "INIT"} /\ t \in TCB /\ t # NULL /\ t \notin Core
  BY SchedAssumption DEF IInv, SpawnInv, TCB
<1>1. /\ state' = [state EXCEPT ![t] = "READY"]
      /\ wakeup_time' \in [TCB -> Nat \cup {NO_TIMEOUT}]
      /\ TIMEOUT_LIST' \in Seq(Thread)
      /\ SCHED' \in [Priorities -> Seq(Thread)]
      /\ QueueInvariant' /\ QueueShape' /\ ContextIntegrity'
      /\ TimeoutInv' /\ Sorted' /\ CoreInv'
  BY <1>0, MakeReadyLemma
<1>2. \A u \in TCB : state'[u] = IF u = t THEN "READY" ELSE state[u]
  BY <1>0, <1>1 DEF IInv, TypeOK
<1>3. TypeOK'
  <2>1. state' \in [TCB -> {"FREE", "INIT", "READY", "RUNNING", "STOPPED", "EXITED"}]
    BY <1>0, <1>1 DEF IInv, TypeOK
  <2>2. spawner' \in Thread \cup {NULL} /\ newborn' \in Thread \cup {NULL}
    BY DEF IInv, TypeOK
  <2> QED BY <1>1, <2>1, <2>2 DEF IInv, TypeOK, coreVars, yieldVars
<1>4. StateInv'
  <2> SUFFICES ASSUME NEW u \in TCB
               PROVE  /\ state'[u] \in {"FREE", "INIT"} => phase[u] = "CTX_CLEAN"
                      /\ state'[u] \in {"RUNNING", "EXITED"} => phase[u] = "CTX_DIRTY"
                      /\ state'[u] = "INIT" => u = newborn'
                      /\ u \in Core => state'[u] \in {"RUNNING", "READY"}
    BY DEF StateInv
  <2>1. CASE u = t
    BY <2>1, <1>0, <1>2
  <2>2. CASE u # t
    BY <2>2, <1>2 DEF IInv, StateInv
  <2> QED BY <2>1, <2>2
<1>5. SpawnInv'
  <2>1. CASE state[t] = "STOPPED" /\ UNCHANGED <<spawner, newborn>>
    <3>1. newborn # NULL => newborn \in TCB /\ state[newborn] = "INIT"
      BY DEF IInv, SpawnInv, TypeOK, TCB
    <3> QED BY <2>1, <3>1, <1>2 DEF IInv, SpawnInv
  <2>2. CASE spawner' = NULL /\ newborn' = NULL /\ active_threads_spinlock = NULL
    BY <2>2 DEF SpawnInv
  <2> QED BY <2>1, <2>2
<1>6. LockInv'
  BY DEF IInv, LockInv, coreVars
<1> QED BY <1>1, <1>3, <1>4, <1>5, <1>6 DEF IInv

\* wakeup of the new thread by its creator, wakeup of a sleeper, and the
\* expiry of a timeout.
LEMMA WakeupStep ==
  ASSUME IInv, NEW c \in Core,
         \/ WakeupNewborn(c)
         \/ \E t \in Thread : Wakeup(c, t)
         \/ WakeupExpired(c)
  PROVE  IInv'
<1>1. CASE WakeupNewborn(c)
  <2>1. NULL \notin TCB /\ CURTHREAD(c) \in TCB
    BY SchedAssumption DEF IInv, TypeOK, CURTHREAD, TCB
  <2>2. newborn \in Thread /\ MakeReady(newborn)
    BY <1>1, <2>1 DEF WakeupNewborn, IInv, SpawnInv, TypeOK
  <2> QED BY <1>1, <2>2, WokenLemma DEF WakeupNewborn
<1>2. CASE \E t \in Thread : Wakeup(c, t)
  BY <1>2, WokenLemma DEF Wakeup, spawnVars
<1>3. CASE WakeupExpired(c)
  <2>1. TIMEOUT_LIST \in Seq(Thread) /\ TIMEOUT_LIST # <<>>
    BY <1>3 DEF WakeupExpired, Expired, IInv, TypeOK
  <2>2. Head(TIMEOUT_LIST) \in Thread /\ Head(TIMEOUT_LIST) \in Range(TIMEOUT_LIST)
    BY <2>1, PopLemma
  <2>3. state[Head(TIMEOUT_LIST)] = "STOPPED"
    BY <2>2 DEF IInv, TimeoutInv
  <2> QED BY <1>3, <2>2, <2>3, WokenLemma DEF WakeupExpired, spawnVars
<1> QED BY <1>1, <1>2, <1>3

\* sched_register_timeout links a thread that is in no list, and keeps the
\* timeout list in the order of the wakeup times.
LEMMA RegisterTimeoutLemma ==
  ASSUME TypeOK, TimeoutInv, Sorted, NEW t \in Thread,
         wakeup_time[t] = NO_TIMEOUT,
         NEW timeout \in Nat \cup {NO_TIMEOUT}, RegisterTimeout(t, timeout)
  PROVE  /\ TIMEOUT_LIST' \in Seq(Thread)
         /\ wakeup_time' \in [TCB -> Nat \cup {NO_TIMEOUT}]
         /\ IsInjective(TIMEOUT_LIST')
         /\ \A u \in TCB : wakeup_time'[u] # NO_TIMEOUT <=> u \in Range(TIMEOUT_LIST')
         /\ \A u \in Range(TIMEOUT_LIST') : u \in Range(TIMEOUT_LIST) \/ u = t
         /\ Sorted'
<1>0. /\ t \in TCB /\ TIMEOUT_LIST \in Seq(Thread) /\ IsInjective(TIMEOUT_LIST)
      /\ wakeup_time \in [TCB -> Nat \cup {NO_TIMEOUT}]
      /\ clock \in Nat
  BY DEF TypeOK, TCB, TimeoutInv
<1>1. CASE timeout = NO_TIMEOUT
  BY <1>0, <1>1 DEF RegisterTimeout, TimeoutInv, Sorted
<1>2. CASE timeout # NO_TIMEOUT
  <2> DEFINE when == clock + timeout
             i == TimeoutPosition(when)
             n == Len(TIMEOUT_LIST)
             r == InsertAt(TIMEOUT_LIST, i, t)
  <2>1. /\ when \in Nat
        /\ TIMEOUT_LIST' = r
        /\ wakeup_time' = [wakeup_time EXCEPT ![t] = when]
    BY <1>0, <1>2 DEF RegisterTimeout
  <2> HIDE DEF when
  <2>2. /\ i \in 1 .. n + 1
        /\ i <= n => when < wakeup_time[TIMEOUT_LIST[i]]
        /\ \A j \in 1 .. i - 1 : wakeup_time[TIMEOUT_LIST[j]] <= when
    BY <2>1, TimeoutPositionLemma
  <2>3. t \notin Range(TIMEOUT_LIST)
    BY <1>0 DEF TimeoutInv
  <2> HIDE DEF i
  <2>4. /\ r \in Seq(Thread) /\ Len(r) = n + 1 /\ n \in Nat
        /\ \A j \in 1 .. n + 1 : r[j] =
             IF j < i THEN TIMEOUT_LIST[j]
             ELSE IF j = i THEN t ELSE TIMEOUT_LIST[j - 1]
        /\ Range(r) = Range(TIMEOUT_LIST) \cup {t}
        /\ IsInjective(r)
    BY <1>0, <2>2, <2>3, InsertAtLemma
  <2> HIDE DEF r
  <2>5. /\ wakeup_time' \in [TCB -> Nat \cup {NO_TIMEOUT}]
        /\ \A u \in TCB : wakeup_time'[u] = IF u = t THEN when ELSE wakeup_time[u]
    BY <1>0, <2>1
  <2>6. when # NO_TIMEOUT
    BY <2>1 DEF NO_TIMEOUT
  <2>7. \A u \in TCB : wakeup_time'[u] # NO_TIMEOUT <=> u \in Range(r)
    BY <2>4, <2>5, <2>6 DEF TimeoutInv
  <2>8. \A j \in 1 .. n : /\ TIMEOUT_LIST[j] \in TCB /\ TIMEOUT_LIST[j] # t
                          /\ wakeup_time[TIMEOUT_LIST[j]] \in Int
    <3>1. \A j \in 1 .. n : TIMEOUT_LIST[j] \in Range(TIMEOUT_LIST)
      BY <1>0, Positions
    <3>2. \A j \in 1 .. n : TIMEOUT_LIST[j] \in TCB
      BY <1>0 DEF TCB
    <3> QED BY <3>1, <3>2, <2>3, <1>0 DEF NO_TIMEOUT
  <2>9. \A a, b \in 1 .. n :
          a <= b => wakeup_time[TIMEOUT_LIST[a]] <= wakeup_time[TIMEOUT_LIST[b]]
    <3>1. DOMAIN TIMEOUT_LIST = 1 .. n
      BY <1>0
    <3> QED BY <3>1 DEF Sorted
  <2>10. Sorted'
    <3> SUFFICES ASSUME NEW j \in 1 .. n + 1, NEW k \in 1 .. n + 1, j <= k
                 PROVE  wakeup_time'[r[j]] <= wakeup_time'[r[k]]
      <4>1. DOMAIN r = 1 .. n + 1
        BY <2>4
      <4> QED BY <4>1, <2>1 DEF Sorted
    <3> DEFINE w(m) == IF m < i THEN wakeup_time[TIMEOUT_LIST[m]]
                       ELSE IF m = i THEN when ELSE wakeup_time[TIMEOUT_LIST[m - 1]]
    <3>1. \A m \in 1 .. n + 1 : wakeup_time'[r[m]] = w(m)
      <4> SUFFICES ASSUME NEW m \in 1 .. n + 1 PROVE wakeup_time'[r[m]] = w(m)
        OBVIOUS
      <4>1. CASE m < i
        BY <4>1, <2>2, <2>4, <2>5, <2>8
      <4>2. CASE m = i
        BY <4>2, <1>0, <2>4, <2>5
      <4>3. CASE m > i
        <5>1. m - 1 \in 1 .. n /\ r[m] = TIMEOUT_LIST[m - 1]
          BY <4>3, <2>2, <2>4
        <5> QED BY <4>3, <5>1, <2>2, <2>5, <2>8
      <4> QED BY <4>1, <4>2, <4>3, <2>2
    <3>2. \A m \in i .. n : when < wakeup_time[TIMEOUT_LIST[m]]
      <4> SUFFICES ASSUME NEW m \in i .. n PROVE when < wakeup_time[TIMEOUT_LIST[m]]
        OBVIOUS
      <4>1. i \in 1 .. n /\ m \in 1 .. n /\ i <= m
        BY <2>2, <2>4
      <4>2. wakeup_time[TIMEOUT_LIST[i]] <= wakeup_time[TIMEOUT_LIST[m]]
        BY <4>1, <2>9
      <4> QED BY <4>1, <4>2, <2>1, <2>2, <2>8
    <3>3. w(j) <= w(k)
      <4>1. CASE k < i
        BY <4>1, <2>2, <2>4, <2>9
      <4>2. CASE j < i /\ k = i
        BY <4>2, <2>2
      <4>3. CASE j < i /\ k > i
        <5>1. j \in 1 .. n /\ k - 1 \in 1 .. n /\ j <= k - 1
          BY <4>3, <2>2, <2>4
        <5> QED BY <4>3, <5>1, <2>9, <2>2
      <4>4. CASE j = i /\ k = i
        BY <4>4, <2>1
      <4>5. CASE j = i /\ k > i
        <5>1. k - 1 \in i .. n /\ k - 1 \in 1 .. n
          BY <4>5, <2>2, <2>4
        <5> QED BY <4>5, <5>1, <3>2, <2>1, <2>8
      <4>6. CASE j > i
        <5>1. j - 1 \in 1 .. n /\ k - 1 \in 1 .. n /\ j - 1 <= k - 1 /\ k > i
          BY <4>6, <2>2, <2>4
        <5> QED BY <4>6, <5>1, <2>9, <2>2
      <4> QED BY <4>1, <4>2, <4>3, <4>4, <4>5, <4>6, <2>2
    <3> QED BY <3>1, <3>3
  <2> QED BY <2>1, <2>4, <2>5, <2>7, <2>10 DEF r
<1> QED BY <1>1, <1>2

\* sleep_releasing with STOPPED, up to the unlock.
LEMMA SleepStep ==
  ASSUME IInv, NEW c \in Core, NEW why \in SleepCauses,
         NEW timeout \in Timeouts \cup {NO_TIMEOUT}, Sleep(c, why, timeout)
  PROVE  IInv'
<1> USE DEF Sleep
<1> DEFINE cur == CURTHREAD(c)
<1>0. /\ cur \in Thread /\ cur \in TCB /\ cur \notin Core
      /\ timeout \in Nat \cup {NO_TIMEOUT} /\ why \in Causes
      /\ pc[c] = "run"
  BY SchedAssumption DEF TCB
<1>1. /\ state[cur] = "RUNNING" /\ phase[cur] = "CTX_DIRTY"
      /\ \A d \in Core : d # c =>
           /\ CURTHREAD(d) # cur
           /\ pc[d] = "switch" => previous_thread[d] # cur
  BY <1>0, OwnThread DEF IInv, CoreInv
<1>2. \A u \in TCB : state'[u] = IF u = cur THEN "STOPPED" ELSE state[u]
  BY <1>0 DEF IInv, TypeOK
<1>3. cur \notin Range(TIMEOUT_LIST) /\ wakeup_time[cur] = NO_TIMEOUT
  BY <1>0, <1>1 DEF IInv, TimeoutInv
<1>4. /\ TIMEOUT_LIST' \in Seq(Thread)
      /\ wakeup_time' \in [TCB -> Nat \cup {NO_TIMEOUT}]
      /\ IsInjective(TIMEOUT_LIST')
      /\ \A u \in TCB : wakeup_time'[u] # NO_TIMEOUT <=> u \in Range(TIMEOUT_LIST')
      /\ \A u \in Range(TIMEOUT_LIST') : u \in Range(TIMEOUT_LIST) \/ u = cur
      /\ Sorted'
  BY <1>0, <1>3, RegisterTimeoutLemma DEF IInv
<1>5. TypeOK'
  BY <1>0, <1>4 DEF IInv, TypeOK, spawnVars, yieldVars, Moved
<1>6. QueueInvariant'
  <2>1. \A t \in Thread : Queued(t)' <=> Queued(t)
    BY DEF Queued
  <2> QED BY <2>1, <1>0, <1>2, OwnStateLemma
<1>7. QueueShape'
  BY DEF IInv, QueueShape
<1>8. ContextIntegrity'
  BY <1>0, <1>2, MovedLemma
<1>9. TimeoutInv'
  BY <1>0, <1>2, <1>4, ListedThreads DEF IInv, TimeoutInv
<1>10. \A d \in Core : pc'[d] = IF d = c THEN "asleep" ELSE pc[d]
  BY DEF Moved, IInv, TypeOK
<1>11. CoreInv'
  <2> SUFFICES ASSUME NEW d \in Core PROVE CoreInv!(d)'
    BY DEF CoreInv
  <2>1. current_thread[d] \in TCB /\ (pc[d] = "switch" => previous_thread[d] \in TCB)
    BY DEF IInv, TypeOK, CoreInv, TCB
  <2>2. CASE d = c
    BY <2>2, <1>0, <1>2, <1>10 DEF CURTHREAD
  <2>3. CASE d # c
    BY <2>1, <2>3, <1>1, <1>2, <1>10 DEF IInv, CoreInv, CURTHREAD
  <2> QED BY <2>2, <2>3
<1>12. StateInv'
  BY <1>0, <1>1, <1>2 DEF IInv, StateInv, spawnVars
<1>13. SpawnInv'
  <2>1. newborn # NULL => newborn \in TCB /\ state[newborn] = "INIT"
    BY DEF IInv, SpawnInv, TypeOK, TCB
  <2> QED BY <2>1, <1>1, <1>2 DEF IInv, SpawnInv, spawnVars
<1>14. LockInv'
  BY <1>0, <1>10 DEF IInv, LockInv
<1> QED BY <1>4, <1>5, <1>6, <1>7, <1>8, <1>9, <1>11, <1>12, <1>13, <1>14 DEF IInv

\* sleep_releasing with EXITED, up to the unlock.
LEMMA ExitStep ==
  ASSUME IInv, NEW c \in Core, Exit(c)
  PROVE  IInv'
<1> USE DEF Exit
<1> DEFINE cur == CURTHREAD(c)
<1>0. /\ cur \in Thread /\ cur \in TCB /\ cur \notin Core
      /\ pc[c] = "run"
  BY SchedAssumption DEF TCB
<1>1. /\ state[cur] = "RUNNING" /\ phase[cur] = "CTX_DIRTY"
      /\ \A d \in Core : d # c =>
           /\ CURTHREAD(d) # cur
           /\ pc[d] = "switch" => previous_thread[d] # cur
  BY <1>0, OwnThread DEF IInv, CoreInv
<1>2. \A u \in TCB : state'[u] = IF u = cur THEN "EXITED" ELSE state[u]
  BY <1>0 DEF IInv, TypeOK
<1>3. cur \notin Range(TIMEOUT_LIST)
  BY <1>1 DEF IInv, TimeoutInv
<1>5. TypeOK'
  BY <1>0 DEF IInv, TypeOK, queueVars, spawnVars, yieldVars, Moved, Causes
<1>6. QueueInvariant'
  <2>1. \A t \in Thread : Queued(t)' <=> Queued(t)
    BY DEF Queued, queueVars
  <2> QED BY <2>1, <1>0, <1>2, OwnStateLemma
<1>7. QueueShape' /\ Sorted'
  BY DEF IInv, QueueShape, Sorted, queueVars
<1>8. ContextIntegrity'
  BY <1>0, <1>2, MovedLemma
<1>9. TimeoutInv'
  BY <1>0, <1>2, <1>3, ListedThreads DEF IInv, TimeoutInv, queueVars
<1>10. \A d \in Core : pc'[d] = IF d = c THEN "asleep" ELSE pc[d]
  BY DEF Moved, IInv, TypeOK
<1>11. CoreInv'
  <2> SUFFICES ASSUME NEW d \in Core PROVE CoreInv!(d)'
    BY DEF CoreInv
  <2>1. current_thread[d] \in TCB /\ (pc[d] = "switch" => previous_thread[d] \in TCB)
    BY DEF IInv, TypeOK, CoreInv, TCB
  <2>2. CASE d = c
    BY <2>2, <1>0, <1>2, <1>10 DEF CURTHREAD
  <2>3. CASE d # c
    BY <2>1, <2>3, <1>1, <1>2, <1>10 DEF IInv, CoreInv, CURTHREAD
  <2> QED BY <2>2, <2>3
<1>12. StateInv'
  BY <1>0, <1>1, <1>2 DEF IInv, StateInv, spawnVars
<1>13. SpawnInv'
  <2>1. newborn # NULL => newborn \in TCB /\ state[newborn] = "INIT"
    BY DEF IInv, SpawnInv, TypeOK, TCB
  <2> QED BY <2>1, <1>1, <1>2 DEF IInv, SpawnInv, spawnVars
<1>14. LockInv'
  BY <1>0, <1>10 DEF IInv, LockInv
<1> QED BY <1>5, <1>6, <1>7, <1>8, <1>9, <1>11, <1>12, <1>13, <1>14 DEF IInv

\* yield under sched_spinlock, up to the expired timeouts: the boost moves
\* queued threads and their priorities together, and the current thread,
\* whose own priority is adjusted, is in no queue.
LEMMA YieldLockedStep ==
  ASSUME IInv, NEW c \in Core, YieldLocked(c)
  PROVE  IInv'
<1> DEFINE cur == CURTHREAD(c)
<1>0. /\ pc[c] = "enter" /\ sched_spinlock = NULL /\ sched_spinlock' = c
      /\ UNCHANGED <<phase, wakeup_time, TIMEOUT_LIST, current_thread, previous_thread>>
      /\ Moved(c, "expire")
      /\ SCHED' = IF BoostDue THEN Boosted(SCHED) ELSE SCHED
      /\ Priority' = [t \in TCB |->
           IF t = cur
           THEN AdjustedPriority(Priority[t], cause[c], last_cause[t])
           ELSE IF BoostDue /\ Lifted(t) THEN Priority[t] + 1 ELSE Priority[t]]
      /\ state' = [state EXCEPT ![cur] = IF @ = "RUNNING" THEN "READY" ELSE @]
  BY DEF YieldLocked
<1>1. /\ cur \in TCB
      /\ state[cur] \in {"RUNNING", "READY", "STOPPED", "EXITED"}
      /\ phase[cur] = "CTX_DIRTY"
      /\ \A d \in Core : d # c =>
           /\ CURTHREAD(d) # cur
           /\ pc[d] = "switch" => previous_thread[d] # cur
  BY <1>0, OwnThread DEF IInv, CoreInv
<1>2. \A u \in TCB : state'[u] = IF u = cur /\ state[u] = "RUNNING" THEN "READY"
                                 ELSE state[u]
  BY <1>0, <1>1 DEF IInv, TypeOK
<1>3. \A p \in Priorities : cur \notin Range(SCHED[p])
  <2>1. ASSUME NEW p \in Priorities, cur \in Range(SCHED[p]) PROVE FALSE
    <3>1. cur \in Thread /\ Queued(cur)
      BY <2>1, ListedThreads DEF IInv, Queued
    <3> QED BY <3>1 DEF IInv, QueueInvariant
  <2> QED BY <2>1
<1>4. /\ MAX_PRIORITIES \in Nat \ {0} /\ \A p \in Priorities : p \in Nat /\ p <= TopPriority
      /\ \A p \in Priorities : p # TopPriority => p + 1 \in Priorities
      /\ \A p \in Priorities : p > 0 => p - 1 \in Priorities \ {TopPriority}
      /\ TopPriority \in Priorities
  BY SchedAssumption DEF Priorities, TopPriority
<1>5. \A p \in Priorities : \A t : t \in Range(SCHED[p]) =>
         /\ t \in TCB /\ Priority[t] = p
         /\ Lifted(t) <=> p # TopPriority
  BY ListedThreads DEF IInv, QueueShape, Lifted
<1>6. SCHED' \in [Priorities -> Seq(Thread)] /\ QueueShape'
      /\ \A t \in Thread : Queued(t)' <=> Queued(t)
  <2>1. CASE BoostDue
    <3>1. /\ SCHED' \in [Priorities -> Seq(Thread)]
          /\ \A p \in Priorities : IsInjective(SCHED'[p])
          /\ \A p \in Priorities : \A t :
               t \in Range(SCHED'[p]) <=>
                 \/ p > 0 /\ t \in Range(SCHED[p - 1])
                 \/ p = TopPriority /\ t \in Range(SCHED[p])
      BY <1>0, <2>1, BoostLemma DEF IInv
    <3>2. ASSUME NEW t \in Thread PROVE Queued(t)' <=> Queued(t)
      <4>1. ASSUME NEW p \in Priorities, t \in Range(SCHED[p]) PROVE Queued(t)'
        <5>1. CASE p = TopPriority
          BY <5>1, <4>1, <3>1 DEF Queued
        <5>2. CASE p # TopPriority
          <6>1. p + 1 \in Priorities /\ p + 1 > 0 /\ (p + 1) - 1 = p
            BY <5>2, <1>4
          <6>2. t \in Range(SCHED'[p + 1])
            BY <6>1, <4>1, <3>1
          <6> QED BY <6>1, <6>2 DEF Queued
        <5> QED BY <5>1, <5>2
      <4>2. ASSUME NEW p \in Priorities, t \in Range(SCHED'[p]) PROVE Queued(t)
        BY <4>2, <3>1, <1>4 DEF Queued
      <4> QED BY <4>1, <4>2 DEF Queued
    <3>3. ASSUME NEW p \in Priorities, NEW t \in Range(SCHED'[p])
          PROVE  Priority'[t] = p
      <4>1. CASE p > 0 /\ t \in Range(SCHED[p - 1])
        <5>1. t \in TCB /\ t # cur /\ Priority[t] = p - 1 /\ Lifted(t)
          BY <4>1, <1>3, <1>4, <1>5
        <5>2. Priority'[t] = (p - 1) + 1
          BY <5>1, <1>0, <2>1
        <5> QED BY <5>2, <1>4
      <4>2. CASE p = TopPriority /\ t \in Range(SCHED[p])
        <5>1. t \in TCB /\ t # cur /\ Priority[t] = p /\ ~Lifted(t)
          BY <4>2, <1>3, <1>5
        <5> QED BY <5>1, <1>0
      <4> QED BY <3>1, <4>1, <4>2
    <3> QED BY <3>1, <3>2, <3>3 DEF QueueShape
  <2>2. CASE ~BoostDue
    <3>1. SCHED' = SCHED
      BY <1>0, <2>2
    <3>2. \A p \in Priorities : \A t \in Range(SCHED[p]) : Priority'[t] = Priority[t]
      BY <1>0, <1>3, <1>5, <2>2
    <3> QED BY <3>1, <3>2 DEF IInv, TypeOK, QueueShape, Queued
  <2> QED BY <2>1, <2>2
<1>7. TypeOK'
  <2>1. Priority' \in [TCB -> Priorities]
    <3> SUFFICES ASSUME NEW t \in TCB PROVE Priority'[t] \in Priorities
      BY <1>0
    <3>1. Priority[t] \in Priorities
      BY DEF IInv, TypeOK
    <3>2. CASE t = cur
      BY <3>1, <3>2, <1>0, AdjustedPriorityType
    <3>3. CASE t # cur /\ Lifted(t)
      <4>1. Priority[t] # TopPriority
        BY <3>3, <1>5 DEF Lifted
      <4> QED BY <3>1, <3>3, <4>1, <1>0, <1>4
    <3>4. CASE t # cur /\ ~Lifted(t)
      BY <3>1, <3>4, <1>0
    <3> QED BY <3>2, <3>3, <3>4
  <2>2. state' \in [TCB -> {"FREE", "INIT", "READY", "RUNNING", "STOPPED", "EXITED"}]
    BY <1>0, <1>1 DEF IInv, TypeOK
  <2>3. numofYields' \in 0 .. YieldsCap
    BY SchedAssumption DEF YieldLocked, IInv, TypeOK, YieldsCap
  <2>4. /\ last_cause' \in [TCB -> {"SCHED_MUTEX", "OTHER"}]
        /\ curr_cause' \in [TCB -> {"SCHED_MUTEX", "OTHER"}]
    BY <1>1 DEF YieldLocked, IInv, TypeOK, Recorded
  <2>5. /\ pc' \in [Core -> {"boot", "run", "asleep", "count", "enter", "expire",
                             "switch", "release", "done"}]
        /\ curtime' \in Nat
    BY <1>0 DEF YieldLocked, Moved, IInv, TypeOK
  <2>6. UNCHANGED <<phase, wakeup_time, TIMEOUT_LIST, spawnVars, current_thread,
                    previous_thread, cause, readYields, clock>>
    BY DEF YieldLocked
  <2> QED BY <2>1, <2>2, <2>3, <2>4, <2>5, <2>6, <1>0, <1>6
          DEF IInv, TypeOK, spawnVars
<1>8. QueueInvariant'
  BY <1>0, <1>1, <1>2, <1>6, OwnStateLemma
<1>9. ContextIntegrity'
  BY <1>0, <1>2, MovedLemma
<1>10. TimeoutInv' /\ Sorted'
  BY <1>0, <1>2, ListedThreads DEF IInv, TimeoutInv, Sorted
<1>11. \A d \in Core : pc'[d] = IF d = c THEN "expire" ELSE pc[d]
  BY <1>0 DEF Moved, IInv, TypeOK
<1>12. CoreInv'
  <2> SUFFICES ASSUME NEW d \in Core PROVE CoreInv!(d)'
    BY DEF CoreInv
  <2>1. current_thread[d] \in TCB /\ (pc[d] = "switch" => previous_thread[d] \in TCB)
    BY DEF IInv, TypeOK, CoreInv, TCB
  <2>2. CASE d = c
    BY <2>2, <1>0, <1>1, <1>2, <1>11 DEF IInv, CoreInv, CURTHREAD
  <2>3. CASE d # c
    BY <2>1, <2>3, <1>0, <1>1, <1>2, <1>11 DEF IInv, CoreInv, CURTHREAD
  <2> QED BY <2>2, <2>3
<1>13. StateInv' /\ SpawnInv'
  <2>1. UNCHANGED <<spawner, newborn, active_threads_spinlock>>
    BY DEF YieldLocked, spawnVars
  <2>2. newborn # NULL => newborn \in TCB /\ state[newborn] = "INIT"
    BY DEF IInv, SpawnInv, TypeOK, TCB
  <2> QED BY <2>1, <2>2, <1>0, <1>2 DEF IInv, StateInv, SpawnInv
<1>14. LockInv'
  <2>1. NULL \notin Core
    BY SchedAssumption
  <2> QED BY <2>1, <1>0, <1>11 DEF IInv, LockInv
<1> QED BY <1>6, <1>7, <1>8, <1>9, <1>10, <1>12, <1>13, <1>14 DEF IInv

\* sched_queue_select returns a thread that can run: one that stays on its
\* core, or one whose context nobody is using; and takes it out of its queue.
LEMMA SelectedLemma ==
  ASSUME IInv, NEW c \in Core, Select(c)
  PROVE  /\ Selected(c) \in Thread \cup {c}
         /\ state[Selected(c)] = "READY"
         /\ Selected(c) # CURTHREAD(c) =>
              /\ phase[Selected(c)] = "CTX_CLEAN"
              /\ \A d \in Core : CURTHREAD(d) # Selected(c)
         /\ SCHED' \in [Priorities -> Seq(Thread)]
         /\ QueueShape'
         /\ \A u \in Thread : Queued(u)' <=> Queued(u) /\ u # Selected(c)
<1> DEFINE cur == CURTHREAD(c)
<1>0. /\ pc[c] = "expire"
      /\ SCHED' = IF Nonempty # {} THEN [SCHED EXCEPT ![Best] = Tail(@)] ELSE SCHED
      /\ UNCHANGED Priority
  BY DEF Select, tcbVars
<1>1. /\ cur \in TCB
      /\ state[cur] \in {"READY", "STOPPED", "EXITED"}
      /\ phase[cur] = "CTX_DIRTY"
      /\ cur \in Thread \cup {c}
      /\ c \in TCB /\ c \notin Thread
  BY <1>0, OwnThread, SchedAssumption DEF IInv, CoreInv, TCB
<1>2. CASE Nonempty # {}
  <2> DEFINE t == Head(SCHED[Best])
             s == SCHED[Best]
  <2>1. /\ Best \in Priorities /\ s # <<>> /\ s \in Seq(Thread)
        /\ IsInjective(s) /\ \A u \in Range(s) : Priority[u] = Best
    BY <1>2, BestLemma DEF IInv, TypeOK, QueueShape
  <2>2. /\ t \in Thread /\ t \in Range(s)
        /\ Tail(s) \in Seq(Thread) /\ IsInjective(Tail(s))
        /\ \A u : u \in Range(Tail(s)) <=> u \in Range(s) /\ u # t
    BY <2>1, PopLemma
  <2>3. Selected(c) = t
    BY <1>2 DEF Selected
  <2>4. /\ SCHED' \in [Priorities -> Seq(Thread)]
        /\ SCHED'[Best] = Tail(s)
        /\ \A p \in Priorities : p # Best => SCHED'[p] = SCHED[p]
    BY <1>0, <1>2, <2>1, <2>2 DEF IInv, TypeOK
  <2>5. \A p \in Priorities : t \in Range(SCHED[p]) => p = Best
    BY <2>1, <2>2 DEF IInv, QueueShape
  <2> HIDE DEF s, t
  <2>6. QueueShape'
    BY <1>0, <2>1, <2>2, <2>4 DEF IInv, QueueShape, s
  <2>7. \A u \in Thread : Queued(u)' <=> Queued(u) /\ u # t
    BY <2>1, <2>2, <2>4, <2>5 DEF Queued, s
  <2>8. Queued(t)
    BY <2>1, <2>2 DEF Queued, s
  <2> QED BY <2>2, <2>3, <2>4, <2>6, <2>7, <2>8 DEF IInv, QueueInvariant
<1>3. CASE Nonempty = {}
  <2>1. SCHED' = SCHED /\ \A u \in Thread : ~Queued(u)
    <3>1. \A p \in Priorities : SCHED[p] = <<>>
      BY <1>3 DEF Nonempty
    <3>2. \A u : u \notin Range(<<>>)
      BY DEF Range
    <3> QED BY <1>0, <1>3, <3>1, <3>2 DEF Queued
  <2>2. /\ SCHED' \in [Priorities -> Seq(Thread)] /\ QueueShape'
        /\ \A u \in Thread : Queued(u)' <=> Queued(u) /\ u # Selected(c)
    BY <1>0, <2>1 DEF IInv, TypeOK, QueueShape, Queued
  <2>3. CASE state[cur] = "READY"
    BY <1>1, <1>3, <2>2, <2>3 DEF Selected
  <2>4. CASE state[cur] # "READY"
    <3>1. Selected(c) = c
      BY <1>3, <2>4 DEF Selected
    <3>2. cur # c /\ cur \in Thread
      BY <1>1, <2>4 DEF IInv, StateInv
    <3>3. \A d \in Core : CURTHREAD(d) # c
      BY <1>1, <3>2 DEF IInv, CoreInv
    <3>4. ASSUME NEW d \in Core PROVE ~Occupies(d, c)
      <4>1. CASE pc[d] = "switch"
        BY <4>1, <1>0, <1>1 DEF IInv, CoreInv, Occupies
      <4>2. CASE pc[d] # "switch"
        BY <4>2, <3>3 DEF Occupies
      <4> QED BY <4>1, <4>2
    <3>5. phase[c] = "CTX_CLEAN"
      BY <1>1, <3>4 DEF IInv, ContextIntegrity, TypeOK
    <3>6. state[c] = "READY"
      BY <1>1, <3>5 DEF IInv, StateInv
    <3> QED BY <3>1, <3>3, <3>5, <3>6, <2>2
  <2> QED BY <2>3, <2>4
<1> QED BY <1>2, <1>3

\* The rest of yield, up to the swap of contexts.
LEMMA SelectStep ==
  ASSUME IInv, NEW c \in Core, Select(c)
  PROVE  IInv'
<1> DEFINE cur == CURTHREAD(c)
           sel == Selected(c)
<1>0. /\ pc[c] = "expire"
      /\ previous_thread' = [previous_thread EXCEPT ![c] = cur]
      /\ current_thread' = [current_thread EXCEPT ![c] = sel]
      /\ sched_spinlock' = NULL
      /\ Moved(c, "switch")
      /\ UNCHANGED <<tcbVars, TIMEOUT_LIST, spawnVars>>
  BY DEF Select
<1>1. /\ cur \in TCB /\ cur \in Thread \cup {c}
      /\ state[cur] \in {"READY", "STOPPED", "EXITED"}
      /\ phase[cur] = "CTX_DIRTY"
      /\ \A d \in Core : d # c => CURTHREAD(d) # cur
  BY <1>0, OwnThread DEF IInv, CoreInv
<1>2. /\ sel \in Thread \cup {c} /\ sel \in TCB
      /\ state[sel] = "READY"
      /\ sel # cur => /\ phase[sel] = "CTX_CLEAN"
                      /\ \A d \in Core : CURTHREAD(d) # sel
      /\ SCHED' \in [Priorities -> Seq(Thread)]
      /\ QueueShape'
      /\ \A u \in Thread : Queued(u)' <=> Queued(u) /\ u # sel
  BY SelectedLemma DEF TCB
<1> HIDE DEF sel
<1>3. /\ \A d \in Core : pc'[d] = IF d = c THEN "switch" ELSE pc[d]
      /\ \A d \in Core : current_thread'[d] = IF d = c THEN sel ELSE current_thread[d]
      /\ \A d \in Core : previous_thread'[d] = IF d = c THEN cur ELSE previous_thread[d]
  BY <1>0 DEF Moved, IInv, TypeOK
<1>4. TypeOK'
  BY <1>0, <1>1, <1>2 DEF Select, IInv, TypeOK, Moved, Causes, tcbVars, spawnVars, yieldVars
<1>5. QueueInvariant'
  <2> SUFFICES ASSUME NEW u \in Thread
               PROVE  Queued(u)' <=> /\ state[u] = "READY"
                                     /\ phase[u] = "CTX_CLEAN"
                                     /\ \A d \in Core : current_thread'[d] # u
    BY <1>0 DEF QueueInvariant, CURTHREAD, tcbVars
  <2>1. CASE u = sel
    BY <2>1, <1>2, <1>3
  <2>2. CASE u # sel /\ u = cur
    BY <2>2, <1>1, <1>2 DEF IInv, QueueInvariant
  <2>3. CASE u # sel /\ u # cur
    BY <2>3, <1>2, <1>3 DEF IInv, QueueInvariant, CURTHREAD
  <2> QED BY <2>1, <2>2, <2>3
<1>6. ContextIntegrity'
  <2>1. \A d \in Core, u \in TCB : Occupies(d, u)' <=> Occupies(d, u)
    BY <1>0, <1>3 DEF Occupies, CURTHREAD
  <2>2. \A a, b \in Core : current_thread'[a] = current_thread'[b] => a = b
    BY <1>1, <1>2, <1>3 DEF IInv, ContextIntegrity, CURTHREAD
  <2>3. ASSUME NEW d \in Core, pc'[d] = "switch", current_thread'[d] # previous_thread'[d]
        PROVE  phase[current_thread'[d]] = "CTX_CLEAN" /\ state[current_thread'[d]] = "READY"
    <3>1. CASE d = c
      BY <3>1, <2>3, <1>2, <1>3
    <3>2. CASE d # c
      BY <3>2, <2>3, <1>3 DEF IInv, ContextIntegrity, CURTHREAD
    <3> QED BY <3>1, <3>2
  <2> QED BY <2>1, <2>2, <2>3, <1>0 DEF IInv, ContextIntegrity, CURTHREAD, tcbVars
<1>7. TimeoutInv' /\ Sorted'
  BY <1>0 DEF IInv, TimeoutInv, Sorted, tcbVars
<1>8. CoreInv'
  <2> SUFFICES ASSUME NEW d \in Core PROVE CoreInv!(d)'
    BY DEF CoreInv
  <2>1. CASE d = c
    BY <2>1, <1>0, <1>1, <1>2, <1>3 DEF CURTHREAD, tcbVars
  <2>2. CASE d # c
    BY <2>2, <1>0, <1>3 DEF IInv, CoreInv, CURTHREAD, tcbVars
  <2> QED BY <2>1, <2>2
<1>9. StateInv' /\ SpawnInv'
  BY <1>0 DEF IInv, StateInv, SpawnInv, tcbVars, spawnVars
<1>10. LockInv'
  <2>1. NULL \notin Core
    BY SchedAssumption
  <2>2. sched_spinlock = c
    BY <1>0 DEF IInv, LockInv
  <2> QED BY <1>0, <1>3, <2>1, <2>2 DEF IInv, LockInv
<1> QED BY <1>2, <1>4, <1>5, <1>6, <1>7, <1>8, <1>9, <1>10 DEF IInv

\* gain: the new thread owns the context of the core, and the one it has left
\* is requeued, put to rest or released.  No other core has to do with either.
LEMMA GainStep ==
  ASSUME IInv, NEW c \in Core, Gain(c)
  PROVE  IInv'
<1> DEFINE cur  == CURTHREAD(c)
           prev == previous_thread[c]
           left == IF cur = prev THEN "RUNNING" ELSE state[prev]
<1>0. /\ pc[c] = "switch" /\ sched_spinlock = NULL
      /\ state' = [t \in TCB |->
           IF t = cur THEN "RUNNING"
           ELSE IF t = prev /\ left = "EXITED" THEN "FREE" ELSE state[t]]
      /\ phase' = [t \in TCB |->
           IF t = cur THEN "CTX_DIRTY"
           ELSE IF t = prev THEN "CTX_CLEAN" ELSE phase[t]]
      /\ IF left = "READY" /\ prev \in Thread THEN SchedQueueAdd(prev)
                                              ELSE UNCHANGED SCHED
      /\ sched_spinlock' = IF left = "EXITED" THEN c ELSE NULL
      /\ Moved(c, IF left = "EXITED" THEN "release" ELSE "run")
      /\ previous_thread' = [previous_thread EXCEPT ![c] = NULL]
      /\ UNCHANGED <<Priority, last_cause, curr_cause, wakeup_time, TIMEOUT_LIST,
                     spawnVars, current_thread, cause, yieldVars, curtime, clock>>
  BY DEF Gain, Requeued, Reaped
<1>1. /\ cur \in TCB /\ cur \in Thread \cup {c} /\ state[cur] = "READY"
      /\ prev \in TCB /\ prev \in Thread \cup {c}
      /\ state[prev] \in {"READY", "STOPPED", "EXITED"}
      /\ cur # prev => phase[cur] = "CTX_CLEAN"
      /\ c \notin Thread /\ c \in TCB /\ NULL \notin TCB
  BY <1>0, SchedAssumption DEF IInv, CoreInv, ContextIntegrity, TypeOK, TCB, CURTHREAD
<1>2. /\ Occupies(c, prev) /\ \A u : Occupies(c, u) => u = prev
      /\ phase[prev] = "CTX_DIRTY"
  BY <1>0, <1>1 DEF Occupies, IInv, ContextIntegrity
<1>3. ASSUME NEW d \in Core, d # c
      PROVE  /\ ~Occupies(d, cur) /\ ~Occupies(d, prev)
             /\ CURTHREAD(d) # cur /\ CURTHREAD(d) # prev
             /\ pc[d] = "switch" => previous_thread[d] \notin {cur, prev}
  <2>1. ~Occupies(d, prev)
    BY <1>1, <1>2, <1>3 DEF IInv, ContextIntegrity
  <2>2. ~Occupies(d, cur)
    BY <1>1, <1>3, <2>1 DEF IInv, ContextIntegrity
  <2>3. CURTHREAD(d) # cur
    BY <1>3 DEF IInv, ContextIntegrity
  <2>4. CURTHREAD(d) # prev
    <3>1. CASE pc[d] = "switch"
      BY <3>1, <2>1, <1>2 DEF IInv, ContextIntegrity, Occupies
    <3>2. CASE pc[d] # "switch"
      BY <3>2, <2>1 DEF Occupies
    <3> QED BY <3>1, <3>2
  <2> QED BY <2>1, <2>2, <2>3, <2>4 DEF Occupies
<1> HIDE DEF cur, prev
<1>4. /\ \A u \in TCB : state'[u] =
           IF u = cur THEN "RUNNING"
           ELSE IF u = prev /\ state[prev] = "EXITED" THEN "FREE" ELSE state[u]
      /\ \A u \in TCB : phase'[u] =
           IF u = cur THEN "CTX_DIRTY" ELSE IF u = prev THEN "CTX_CLEAN" ELSE phase[u]
  BY <1>0
<1>5. \A d \in Core : pc'[d] = IF d = c THEN IF left = "EXITED" THEN "release" ELSE "run"
                               ELSE pc[d]
  BY <1>0 DEF Moved, IInv, TypeOK
<1>6. prev \in Thread => ~Queued(prev)
  BY <1>2 DEF IInv, QueueInvariant
<1>7. /\ SCHED' \in [Priorities -> Seq(Thread)] /\ QueueShape'
      /\ \A u \in Thread : Queued(u)' <=>
           Queued(u) \/ (u = prev /\ left = "READY")
  <2>1. CASE left = "READY" /\ prev \in Thread
    <3>1. /\ SCHED' \in [Priorities -> Seq(Thread)]
          /\ \A p \in Priorities : IsInjective(SCHED'[p])
          /\ \A p \in Priorities : \A u :
               u \in Range(SCHED'[p]) <=>
                 u \in Range(SCHED[p]) \/ (u = prev /\ p = Priority[prev])
      BY <2>1, <1>0, <1>6, QueueAddLemma DEF IInv
    <3>2. Priority[prev] \in Priorities
      BY <1>1 DEF IInv, TypeOK
    <3> QED BY <3>1, <3>2, <2>1, <1>0 DEF IInv, QueueShape, Queued
  <2>2. CASE ~(left = "READY" /\ prev \in Thread)
    <3>1. UNCHANGED <<SCHED, Priority>>
      BY <2>2, <1>0
    <3> QED BY <3>1, <2>2 DEF IInv, TypeOK, QueueShape, Queued
  <2> QED BY <2>1, <2>2
<1>8. TypeOK'
  <2>1. /\ state' \in [TCB -> {"FREE", "INIT", "READY", "RUNNING", "STOPPED", "EXITED"}]
        /\ phase' \in [TCB -> {"CTX_CLEAN", "CTX_DIRTY"}]
    BY <1>0, <1>4 DEF IInv, TypeOK
  <2>2. /\ sched_spinlock' \in Core \cup {NULL}
        /\ previous_thread' \in [Core -> TCB \cup {NULL}]
        /\ pc' \in [Core -> {"boot", "run", "asleep", "count", "enter", "expire",
                             "switch", "release", "done"}]
    BY <1>0 DEF IInv, TypeOK, Moved
  <2> QED BY <1>0, <1>7, <2>1, <2>2 DEF IInv, TypeOK, spawnVars, yieldVars
<1>9. QueueInvariant'
  <2> SUFFICES ASSUME NEW u \in Thread
               PROVE  Queued(u)' <=> /\ state'[u] = "READY"
                                     /\ phase'[u] = "CTX_CLEAN"
                                     /\ \A d \in Core : CURTHREAD(d) # u
    BY <1>0 DEF QueueInvariant, CURTHREAD
  <2>0. u \in TCB
    BY DEF TCB
  <2>1. CASE u = cur
    <3>1. ~Queued(u)
      BY <2>1 DEF IInv, QueueInvariant, cur
    <3> QED BY <2>0, <2>1, <3>1, <1>4, <1>7
  <2>2. CASE u # cur /\ u = prev
    <3>1. \A d \in Core : CURTHREAD(d) # u
      BY <2>2, <1>3 DEF cur
    <3>2. left = state[u]
      BY <2>2
    <3> QED BY <2>0, <2>2, <3>1, <3>2, <1>1, <1>4, <1>6, <1>7
  <2>3. CASE u # cur /\ u # prev
    <3>1. state'[u] = state[u] /\ phase'[u] = phase[u]
      BY <2>0, <2>3, <1>4
    <3> QED BY <2>3, <3>1, <1>7 DEF IInv, QueueInvariant
  <2> QED BY <2>1, <2>2, <2>3
<1>10. ContextIntegrity'
  <2>1. /\ \A u \in TCB : Occupies(c, u)' <=> u = cur
        /\ \A d \in Core, u \in TCB : d # c => (Occupies(d, u)' <=> Occupies(d, u))
    BY <1>0, <1>5 DEF Occupies, CURTHREAD, IInv, TypeOK, cur
  <2>2. \A u \in TCB, a, b \in Core : Occupies(a, u)' /\ Occupies(b, u)' => a = b
    BY <2>1, <1>3 DEF IInv, ContextIntegrity
  <2>3. ASSUME NEW u \in TCB
        PROVE  phase'[u] = "CTX_DIRTY" <=> \E d \in Core : Occupies(d, u)'
    <3>1. CASE u = cur
      BY <3>1, <2>1, <1>4
    <3>2. CASE u # cur /\ u = prev
      BY <3>2, <2>1, <1>3, <1>4
    <3>3. CASE u # cur /\ u # prev
      BY <3>3, <2>1, <1>2, <1>4 DEF IInv, ContextIntegrity
    <3> QED BY <3>1, <3>2, <3>3
  <2>4. ASSUME NEW d \in Core, pc'[d] = "switch", current_thread[d] # previous_thread'[d]
        PROVE  phase'[current_thread[d]] = "CTX_CLEAN" /\ state'[current_thread[d]] = "READY"
    <3>1. d # c /\ pc[d] = "switch" /\ previous_thread'[d] = previous_thread[d]
      BY <2>4, <1>0, <1>5 DEF IInv, TypeOK
    <3>2. current_thread[d] \in TCB /\ current_thread[d] \notin {cur, prev}
      BY <3>1, <1>3 DEF IInv, TypeOK, CURTHREAD
    <3>3. phase[current_thread[d]] = "CTX_CLEAN" /\ state[current_thread[d]] = "READY"
      BY <2>4, <3>1 DEF IInv, ContextIntegrity, CURTHREAD
    <3> QED BY <3>2, <3>3, <1>4
  <2>5. current_thread' = current_thread
    BY <1>0
  <2> QED BY <2>2, <2>3, <2>4, <2>5 DEF IInv, ContextIntegrity, CURTHREAD
<1>11. TimeoutInv' /\ Sorted'
  BY <1>0, <1>1, <1>4, ListedThreads DEF IInv, TimeoutInv, Sorted
<1>12. CoreInv'
  <2> SUFFICES ASSUME NEW d \in Core PROVE CoreInv!(d)'
    BY DEF CoreInv
  <2>1. CASE d = c
    BY <2>1, <1>0, <1>1, <1>4, <1>5 DEF CURTHREAD, cur
  <2>2. CASE d # c
    <3>1. /\ current_thread[d] \in TCB /\ current_thread[d] \notin {cur, prev}
          /\ pc[d] = "switch" => /\ previous_thread[d] \in TCB
                                 /\ previous_thread[d] \notin {cur, prev}
      BY <2>2, <1>3 DEF IInv, TypeOK, CoreInv, CURTHREAD, TCB
    <3>2. previous_thread'[d] = previous_thread[d] /\ pc'[d] = pc[d]
      BY <2>2, <1>0, <1>5 DEF IInv, TypeOK
    <3> QED BY <3>1, <3>2, <1>0, <1>4 DEF IInv, CoreInv, CURTHREAD
  <2> QED BY <2>1, <2>2
<1>13. StateInv'
  <2> SUFFICES ASSUME NEW u \in TCB
               PROVE  /\ state'[u] \in {"FREE", "INIT"} => phase'[u] = "CTX_CLEAN"
                      /\ state'[u] \in {"RUNNING", "EXITED"} => phase'[u] = "CTX_DIRTY"
                      /\ state'[u] = "INIT" => u = newborn
                      /\ u \in Core => state'[u] \in {"RUNNING", "READY"}
    BY <1>0 DEF StateInv, spawnVars
  <2>1. CASE u = cur
    BY <2>1, <1>4
  <2>2. CASE u # cur /\ u = prev
    BY <2>2, <1>1, <1>4 DEF IInv, StateInv
  <2>3. CASE u # cur /\ u # prev
    BY <2>3, <1>4 DEF IInv, StateInv
  <2> QED BY <2>1, <2>2, <2>3
<1>14. SpawnInv'
  <2>1. newborn # NULL => newborn \in TCB /\ state[newborn] = "INIT"
    BY DEF IInv, SpawnInv, TypeOK, TCB
  <2> QED BY <2>1, <1>0, <1>1, <1>4 DEF IInv, SpawnInv, spawnVars
<1>15. LockInv'
  BY <1>0, <1>1, <1>5 DEF IInv, LockInv, TCB
<1> QED BY <1>7, <1>8, <1>9, <1>10, <1>11, <1>12, <1>13, <1>14, <1>15 DEF IInv

\* What no action changes stays as it is: the clock ticks, the system is down,
\* or nothing happens.
LEMMA IdleStep ==
  ASSUME IInv, Tick \/ Shutdown \/ UNCHANGED vars
  PROVE  IInv'
<1>1. UNCHANGED <<tcbVars, queueVars, spawnVars, coreVars, yieldVars,
                  sched_spinlock, curtime>>
      /\ clock' \in Nat
  BY DEF Tick, Shutdown, vars, IInv, TypeOK
<1>2. TypeOK'
  BY <1>1 DEF IInv, TypeOK, tcbVars, queueVars, spawnVars, coreVars, yieldVars
<1>3. QueueInvariant' /\ QueueShape' /\ TimeoutInv' /\ Sorted'
  BY <1>1, QuietLemma DEF tcbVars, coreVars
<1>4. ContextIntegrity' /\ CoreInv'
  BY <1>1 DEF IInv, ContextIntegrity, CoreInv, Occupies, CURTHREAD, tcbVars, coreVars
<1>5. StateInv' /\ SpawnInv' /\ LockInv'
  BY <1>1 DEF IInv, StateInv, SpawnInv, LockInv, tcbVars, spawnVars, coreVars
<1> QED BY <1>2, <1>3, <1>4, <1>5 DEF IInv

-----------------------------------------------------------------------------
(* The theorems.                                                           *)

\* Every step of the scheduler keeps the invariant.
LEMMA StepLemma == IInv /\ [Next]_vars => IInv'
<1> SUFFICES ASSUME IInv, [Next]_vars PROVE IInv'
  OBVIOUS
<1>1. CASE Tick \/ Shutdown \/ UNCHANGED vars
  BY <1>1, IdleStep
<1>2. ASSUME NEW c \in Core, Yield(c) \/ ThreadStep(c) \/ SchedStep(c) \/ IdleReturn(c)
      PROVE  IInv'
  <2>1. CASE Yield(c)
    BY <2>1, YieldStep
  <2>2. CASE \E t \in Thread : SpawnThread(c, t)
    BY <2>2, SpawnThreadStep
  <2>3. CASE \E t \in Thread : Wakeup(c, t)
    BY <2>3, WakeupStep
  <2>4. CASE SpawnCount(c)
    BY <2>4, SpawnCountStep
  <2>5. CASE WakeupNewborn(c)
    BY <2>5, WakeupStep
  <2>6. CASE \E why \in SleepCauses, d \in Timeouts \cup {NO_TIMEOUT} : Sleep(c, why, d)
    BY <2>6, SleepStep
  <2>7. CASE Exit(c)
    BY <2>7, ExitStep
  <2>8. CASE CountYield(c)
    BY <2>8, CountYieldStep
  <2>9. CASE YieldLocked(c)
    BY <2>9, YieldLockedStep
  <2>10. CASE WakeupExpired(c)
    BY <2>10, WakeupStep
  <2>11. CASE Select(c)
    BY <2>11, SelectStep
  <2>12. CASE Gain(c)
    BY <2>12, GainStep
  <2>13. CASE ReleaseTCB(c)
    BY <2>13, ReleaseTCBStep
  <2>14. CASE IdleReturn(c)
    BY <2>14, IdleReturnStep
  <2> QED BY <1>2, <2>1, <2>2, <2>3, <2>4, <2>5, <2>6, <2>7, <2>8, <2>9, <2>10,
             <2>11, <2>12, <2>13, <2>14 DEF ThreadStep, SchedStep
<1> QED BY <1>1, <1>2 DEF Next

\* The invariant that yield, gain, sched_make_ready and their callers keep up
\* together.
THEOREM Invariant == Spec => []IInv
<1> QED BY InitLemma, StepLemma, PTL DEF Spec

\* Types: the priorities that the switch of yield computes index SCHED, and
\* the fields of TCBs and CCBs have the values of their enumerations.
THEOREM TypeCorrectness == Spec => []TypeOK
<1>1. IInv => TypeOK
  BY DEF IInv
<1> QED BY <1>1, Invariant, PTL

\* sched_queue_add, sched_queue_select and gain keep the queue invariant of
\* kernel_sched.h, in its exact form, with any number of threads and cores.
THEOREM QueueCorrectness == Spec => []QueueInvariant
<1>1. IInv => QueueInvariant
  BY DEF IInv
<1> QED BY <1>1, Invariant, PTL

\* The sched_node of a thread is in one list at a time, once, and a queued
\* thread is in the queue of its priority, the boost of yield notwithstanding.
THEOREM ListCorrectness == Spec => []LinkedOnce
<1>1. ASSUME IInv PROVE LinkedOnce
  <2>1. ASSUME NEW p \in Priorities, NEW q \in Priorities,
               NEW i \in DOMAIN SCHED[p], NEW j \in DOMAIN SCHED[q],
               SCHED[p][i] = SCHED[q][j]
        PROVE  p = q /\ i = j
    <3>1. SCHED[p][i] \in Range(SCHED[p]) /\ SCHED[q][j] \in Range(SCHED[q])
      BY DEF Range
    <3>2. p = q
      BY <1>1, <2>1, <3>1 DEF IInv, QueueShape
    <3> QED BY <1>1, <2>1, <3>2 DEF IInv, QueueShape, IsInjective
  <2>2. \A i, j \in DOMAIN TIMEOUT_LIST : TIMEOUT_LIST[i] = TIMEOUT_LIST[j] => i = j
    BY <1>1 DEF IInv, TimeoutInv, IsInjective
  <2>3. \A t \in Range(TIMEOUT_LIST) : ~Queued(t)
    BY <1>1, ListedThreads DEF IInv, TimeoutInv, QueueInvariant
  <2>4. \A p \in Priorities : \A t \in Range(SCHED[p]) : Priority[t] = p
    BY <1>1 DEF IInv, QueueShape
  <2> QED BY <2>1, <2>2, <2>3, <2>4 DEF LinkedOnce
<1> QED BY <1>1, Invariant, PTL

\* yield swaps only to a context that no core is using.
THEOREM ContextCorrectness == Spec => []ContextIntegrity
<1>1. IInv => ContextIntegrity
  BY DEF IInv
<1> QED BY <1>1, Invariant, PTL

\* The assertions of sched_make_ready and of gain never fail.
THEOREM AssertionsHold == Spec => []SchedAssertions
<1>1. ASSUME IInv PROVE SchedAssertions
  BY <1>1 DEF IInv, TimeoutInv, Sorted, CoreInv, SchedAssertions
<1> QED BY <1>1, Invariant, PTL

\* A step that keeps the threads that are READY, and the sleepers, as
\* WakeupSticks asks.
Sticks ==
  \A t \in TCB :
    /\ state[t] = "READY" => state'[t] \in {"READY", "RUNNING"}
    /\ wakeup_time[t] # NO_TIMEOUT =>
         wakeup_time'[t] \in {wakeup_time[t], NO_TIMEOUT}

\* sched_make_ready sticks, whoever calls it.
LEMMA MakeReadySticks ==
  ASSUME IInv, NEW t \in Thread, MakeReady(t)
  PROVE  Sticks
<1>1. state' = [state EXCEPT ![t] = "READY"]
  BY DEF MakeReady
<1>2. \A u \in TCB : wakeup_time'[u] \in {wakeup_time[u], NO_TIMEOUT}
  BY UnlinkLemma DEF IInv
<1> QED BY <1>1, <1>2 DEF IInv, TypeOK, Sticks

\* No step of a core takes a wakeup back.
LEMMA CoreSticks ==
  ASSUME IInv, NEW c \in Core,
         Yield(c) \/ ThreadStep(c) \/ SchedStep(c) \/ IdleReturn(c)
  PROVE  Sticks
<1>0. CURTHREAD(c) \in TCB
  BY DEF IInv, TypeOK, CURTHREAD
<1>1. CASE UNCHANGED tcbVars
  BY <1>1 DEF tcbVars, Sticks
<1>2. ASSUME NEW t \in Thread, SpawnThread(c, t) PROVE Sticks
  BY <1>2 DEF SpawnThread, InUse, IInv, TypeOK, Sticks
<1>3. CASE \E t \in Thread : Wakeup(c, t)
  BY <1>3, MakeReadySticks DEF Wakeup
<1>4. CASE WakeupNewborn(c)
  <2>1. newborn \in Thread
    BY <1>0, <1>4, SchedAssumption DEF WakeupNewborn, IInv, SpawnInv, TypeOK, TCB
  <2> QED BY <2>1, <1>4, MakeReadySticks DEF WakeupNewborn
<1>5. CASE WakeupExpired(c)
  <2>1. TIMEOUT_LIST \in Seq(Thread) /\ TIMEOUT_LIST # <<>>
    BY <1>5 DEF WakeupExpired, Expired, IInv, TypeOK
  <2> QED BY <2>1, <1>5, PopLemma, MakeReadySticks DEF WakeupExpired
<1>6. ASSUME NEW why \in SleepCauses, NEW d \in Timeouts \cup {NO_TIMEOUT},
             Sleep(c, why, d)
      PROVE  Sticks
  <2>1. state[CURTHREAD(c)] = "RUNNING" /\ CURTHREAD(c) \notin Range(TIMEOUT_LIST)
    BY <1>6 DEF Sleep, IInv, CoreInv, TimeoutInv
  <2>2. wakeup_time[CURTHREAD(c)] = NO_TIMEOUT
    BY <1>0, <2>1 DEF IInv, TimeoutInv
  <2>3. \A u \in TCB : u # CURTHREAD(c) => wakeup_time'[u] = wakeup_time[u]
    BY <1>6 DEF Sleep, RegisterTimeout, IInv, TypeOK
  <2>4. \A u \in TCB : u # CURTHREAD(c) => state'[u] = state[u]
    BY <1>6 DEF Sleep, IInv, TypeOK
  <2> QED BY <2>1, <2>2, <2>3, <2>4 DEF Sticks
<1>7. CASE Exit(c)
  BY <1>7 DEF Exit, IInv, TypeOK, CoreInv, Sticks
<1>8. CASE YieldLocked(c)
  BY <1>8 DEF YieldLocked, IInv, TypeOK, Sticks
<1>9. CASE Gain(c)
  BY <1>9 DEF Gain, Reaped, IInv, TypeOK, Sticks
<1>10. CASE Yield(c) \/ SpawnCount(c) \/ CountYield(c) \/ Select(c) \/ ReleaseTCB(c)
            \/ IdleReturn(c)
  <2>1. UNCHANGED tcbVars
    BY <1>10 DEF Yield, Preempt, YieldCore, IdleYield, SleepYield, CallYield,
                 SpawnCount, CountYield, Select, ReleaseTCB, IdleReturn
  <2> QED BY <2>1, <1>1
<1> QED BY <1>2, <1>3, <1>4, <1>5, <1>6, <1>7, <1>8, <1>9, <1>10
        DEF ThreadStep, SchedStep

\* A wakeup, once given, is never lost: between the unlock of sleep_releasing
\* and the swap of yield no path through the scheduler makes a READY thread
\* anything but RUNNING, or puts a timed sleeper off.
THEOREM WakeupsStick == Spec => WakeupSticks
<1>1. IInv /\ [Next]_vars => [Sticks]_vars
  <2> SUFFICES ASSUME IInv, Next PROVE Sticks \/ UNCHANGED vars
    OBVIOUS
  <2>1. CASE Tick
    BY <2>1 DEF Tick, tcbVars, Sticks
  <2>2. CASE Shutdown
    BY <2>2 DEF Shutdown
  <2> QED BY <2>1, <2>2, CoreSticks DEF Next
<1>2. []IInv /\ [][Next]_vars => [][Sticks]_vars
  BY <1>1, PTL
<1> QED BY <1>2, Invariant, PTL DEF Spec, WakeupSticks, Sticks

-----------------------------------------------------------------------------
(* The count of threads.                                                   *)

UsedThreads == {t \in Thread : InUse(t)}
Releasing   == {c \in Core : pc[c] = "release"}
Uncounted   == IF active_threads_spinlock # NULL THEN 1 ELSE 0

Count ==
  active_threads + Uncounted - Cardinality(Releasing) = Cardinality(UsedThreads)

DoneInv == (\E c \in Core : pc[c] = "done") => UsedThreads = {}

\* A thread that spawns another neither sleeps nor exits before it is done.
SpawnerInv == spawner # NULL => state[spawner] \in {"READY", "RUNNING"}

AInv == Count /\ DoneInv /\ SpawnerInv

LEMMA CountedSets ==
  ASSUME TypeOK
  PROVE  /\ IsFiniteSet(UsedThreads) /\ IsFiniteSet(Releasing)
         /\ Cardinality(UsedThreads) \in Nat /\ Cardinality(Releasing) \in Nat
         /\ Cardinality(UsedThreads) = 0 <=> UsedThreads = {}
         /\ active_threads \in Int /\ Uncounted \in {0, 1}
<1>1. UsedThreads \subseteq Thread /\ Releasing \subseteq Core
  BY DEF UsedThreads, Releasing
<1>2. IsFiniteSet(UsedThreads) /\ IsFiniteSet(Releasing)
  BY <1>1, FS_Subset, SchedAssumption
<1> QED
  BY <1>2, FS_CardinalityType, FS_EmptySet DEF TypeOK, Uncounted

LEMMA CountInit == Init => AInv
<1> SUFFICES ASSUME Init PROVE AInv
  OBVIOUS
<1>1. UsedThreads = {InitThread}
  BY SchedAssumption DEF Init, UsedThreads, InUse, TCB
<1>2. Releasing = {}
  BY DEF Init, Releasing
<1>3. Cardinality({InitThread}) = 1 /\ Cardinality({}) = 0
  BY FS_Singleton, FS_EmptySet
<1> QED
  BY <1>1, <1>2, <1>3 DEF Init, AInv, Count, Uncounted, DoneInv, SpawnerInv

\* Steps that neither create nor release a thread.
LEMMA CountFrame ==
  ASSUME IInv, AInv, UsedThreads' = UsedThreads, Releasing' = Releasing,
         UNCHANGED <<active_threads, active_threads_spinlock>>,
         \A c \in Core : pc'[c] = "done" => pc[c] = "done",
         spawner' \in {spawner, NULL},
         spawner # NULL => state'[spawner] \in {"READY", "RUNNING"}
  PROVE  AInv'
BY DEF AInv, Count, Uncounted, DoneInv, SpawnerInv

\* sched_make_ready, of a thread that exists.
LEMMA MakeReadyCounts ==
  ASSUME IInv, AInv, NEW t \in Thread, InUse(t), MakeReady(t),
         UNCHANGED <<pc, active_threads, active_threads_spinlock>>,
         spawner' \in {spawner, NULL}
  PROVE  AInv'
<1>1. state' = [state EXCEPT ![t] = "READY"]
  BY DEF MakeReady
<1>2. UsedThreads' = UsedThreads
  BY <1>1 DEF IInv, TypeOK, UsedThreads, InUse, TCB
<1>3. Releasing' = Releasing
  BY DEF Releasing
<1>4. spawner # NULL => state'[spawner] \in {"READY", "RUNNING"}
  BY <1>1 DEF IInv, TypeOK, AInv, SpawnerInv, TCB
<1> QED
  BY <1>2, <1>3, <1>4, CountFrame

LEMMA SpawnThreadCounts ==
  ASSUME IInv, AInv, NEW c \in Core, NEW t \in Thread, SpawnThread(c, t)
  PROVE  AInv'
<1>0. CURTHREAD(c) \in Thread /\ state[CURTHREAD(c)] = "RUNNING" /\ t \in TCB
  BY DEF SpawnThread, IInv, CoreInv, TCB
<1>1. state' = [state EXCEPT ![t] = "INIT"] /\ state[t] = "FREE"
  BY DEF SpawnThread, InUse
<1>2. t \notin UsedThreads /\ UsedThreads' = UsedThreads \cup {t}
  BY <1>0, <1>1 DEF IInv, TypeOK, UsedThreads, InUse, TCB
<1>3. Cardinality(UsedThreads') = Cardinality(UsedThreads) + 1
  BY <1>2, CountedSets, FS_AddElement DEF IInv
<1>4. Releasing' = Releasing /\ UNCHANGED <<pc, active_threads>>
  BY DEF SpawnThread, Releasing, coreVars
<1>5. Uncounted = 0 /\ Uncounted' = 1
  BY <1>0, SchedAssumption DEF SpawnThread, Uncounted, TCB
<1>6. Count'
  <2>1. active_threads + 0 - Cardinality(Releasing) = Cardinality(UsedThreads)
    BY <1>5 DEF AInv, Count
  <2> QED
    BY <1>3, <1>4, <1>5, <2>1, CountedSets DEF Count, IInv
<1>7. DoneInv'
  <2>1. CURTHREAD(c) \in UsedThreads
    BY <1>0 DEF UsedThreads, InUse
  <2> QED
    BY <1>4, <2>1 DEF AInv, DoneInv
<1>8. SpawnerInv'
  <2>1. spawner' = CURTHREAD(c) /\ CURTHREAD(c) # t
    BY <1>0, <1>1 DEF SpawnThread
  <2>2. state'[CURTHREAD(c)] = state[CURTHREAD(c)]
    BY <1>0, <1>1, <2>1 DEF IInv, TypeOK, TCB
  <2> QED
    BY <1>0, <2>1, <2>2 DEF SpawnerInv
<1> QED
  BY <1>6, <1>7, <1>8 DEF AInv

LEMMA SpawnCountCounts ==
  ASSUME IInv, AInv, NEW c \in Core, SpawnCount(c)
  PROVE  AInv'
<1>0. active_threads_spinlock # NULL
  BY SchedAssumption DEF SpawnCount, IInv, CoreInv, TypeOK, TCB
<1>1. UsedThreads' = UsedThreads /\ Releasing' = Releasing
  BY DEF SpawnCount, UsedThreads, InUse, Releasing, tcbVars, coreVars
<1>2. Uncounted = 1 /\ Uncounted' = 0 /\ active_threads' = active_threads + 1
  BY <1>0 DEF SpawnCount, Uncounted
<1>3. Count'
  <2>1. active_threads + 1 - Cardinality(Releasing) = Cardinality(UsedThreads)
    BY <1>2 DEF AInv, Count
  <2> QED
    BY <1>1, <1>2, <2>1, CountedSets DEF Count, IInv
<1>4. DoneInv' /\ SpawnerInv'
  BY <1>1 DEF SpawnCount, AInv, DoneInv, SpawnerInv, tcbVars, coreVars
<1> QED
  BY <1>3, <1>4 DEF AInv

\* gain frees the TCB of an EXITED thread, which is not an idle one.
LEMMA GainCounts ==
  ASSUME IInv, AInv, NEW c \in Core, Gain(c)
  PROVE  AInv'
<1> DEFINE cur  == CURTHREAD(c)
           prev == previous_thread[c]
           left == IF cur = prev THEN "RUNNING" ELSE state[prev]
<1>0. /\ cur \in TCB /\ prev \in TCB /\ pc[c] = "switch" /\ state[cur] = "READY"
      /\ \A t \in Core : state[t] \in {"RUNNING", "READY"}
  BY DEF Gain, IInv, CoreInv, StateInv, TCB
<1>1. /\ \A t \in TCB : state'[t] = IF t = cur THEN "RUNNING"
                                    ELSE IF t = prev /\ Reaped(left) THEN "FREE" ELSE state[t]
      /\ pc' = [pc EXCEPT ![c] = IF Reaped(left) THEN "release" ELSE "run"]
      /\ UNCHANGED <<active_threads, active_threads_spinlock, spawner>>
  BY DEF Gain, Moved, spawnVars
<1>2. SpawnerInv'
  BY <1>0, <1>1 DEF Reaped, AInv, SpawnerInv, IInv, TypeOK, TCB
<1>3. CASE ~Reaped(left)
  <2>1. UsedThreads' = UsedThreads
    BY <1>0, <1>1, <1>3 DEF UsedThreads, InUse, TCB
  <2>2. /\ Releasing' = Releasing
        /\ \A d \in Core : pc'[d] = "done" => pc[d] = "done"
    BY <1>0, <1>1, <1>3 DEF IInv, TypeOK, Releasing
  <2> QED
    BY <1>1, <1>2, <2>1, <2>2 DEF AInv, Count, Uncounted, DoneInv
<1>4. CASE Reaped(left)
  <2>1. cur # prev /\ state[prev] = "EXITED" /\ prev \in Thread
    BY <1>0, <1>4 DEF Reaped, TCB
  <2>2. prev \in UsedThreads /\ UsedThreads' = UsedThreads \ {prev}
    BY <1>0, <1>1, <1>4, <2>1 DEF UsedThreads, InUse, TCB
  <2>3. c \notin Releasing /\ Releasing' = Releasing \cup {c}
    BY <1>0, <1>1, <1>4 DEF IInv, TypeOK, Releasing
  <2>4. Cardinality(UsedThreads') = Cardinality(UsedThreads) - 1
    BY <2>2, CountedSets, FS_RemoveElement DEF IInv
  <2>5. Cardinality(Releasing') = Cardinality(Releasing) + 1
    BY <2>3, CountedSets, FS_AddElement DEF IInv
  <2>6. Uncounted' = Uncounted
    BY <1>1 DEF Uncounted
  <2>7. Count'
    BY <1>1, <2>4, <2>5, <2>6, CountedSets DEF AInv, Count, IInv
  <2>8. DoneInv'
    BY <1>1, <1>4, <2>2 DEF AInv, DoneInv, IInv, TypeOK
  <2> QED
    BY <1>2, <2>7, <2>8 DEF AInv
<1> QED
  BY <1>3, <1>4

LEMMA ReleaseTCBCounts ==
  ASSUME IInv, AInv, NEW c \in Core, ReleaseTCB(c)
  PROVE  AInv'
<1>1. /\ pc[c] = "release" /\ pc' = [pc EXCEPT ![c] = "run"]
      /\ active_threads' = active_threads - 1
      /\ UNCHANGED <<state, spawner, active_threads_spinlock>>
  BY DEF ReleaseTCB, Moved, tcbVars
<1>2. c \in Releasing /\ Releasing' = Releasing \ {c}
  BY <1>1 DEF IInv, TypeOK, Releasing
<1>3. Cardinality(Releasing') = Cardinality(Releasing) - 1
  BY <1>2, CountedSets, FS_RemoveElement DEF IInv
<1>4. UsedThreads' = UsedThreads /\ Uncounted' = Uncounted
  BY <1>1 DEF UsedThreads, InUse, Uncounted
<1>5. Count'
  BY <1>1, <1>3, <1>4, CountedSets DEF AInv, Count, IInv
<1>6. DoneInv' /\ SpawnerInv'
  BY <1>1, <1>4 DEF AInv, DoneInv, SpawnerInv, IInv, TypeOK
<1> QED
  BY <1>5, <1>6 DEF AInv

\* An idle thread that finds active_threads 0 leaves no thread behind: one whose
\* creation is not counted yet has a creator, who is.
LEMMA IdleReturnCounts ==
  ASSUME IInv, AInv, NEW c \in Core, IdleReturn(c)
  PROVE  AInv'
<1>1. /\ active_threads = 0 /\ pc[c] = "run" /\ pc' = [pc EXCEPT ![c] = "done"]
      /\ UNCHANGED <<state, spawner, active_threads, active_threads_spinlock>>
  BY DEF IdleReturn, Moved, tcbVars, spawnVars
<1>2. UsedThreads' = UsedThreads /\ Uncounted' = Uncounted /\ Releasing' = Releasing
  BY <1>1 DEF UsedThreads, InUse, Uncounted, IInv, TypeOK, Releasing
<1>3. Uncounted = 0
  <2> SUFFICES ASSUME active_threads_spinlock # NULL PROVE FALSE
    BY DEF Uncounted
  <2>1. /\ spawner \in Thread /\ newborn \in Thread
        /\ state[newborn] = "INIT" /\ state[spawner] \in {"READY", "RUNNING"}
    BY DEF IInv, TypeOK, SpawnInv, AInv, SpawnerInv
  <2>2. {spawner, newborn} \subseteq UsedThreads
    BY <2>1 DEF UsedThreads, InUse
  <2>3. Cardinality({spawner, newborn}) = 2
    <3>1. {spawner, newborn} = {newborn} \cup {spawner} /\ spawner \notin {newborn}
      BY <2>1
    <3>2. IsFiniteSet({newborn}) /\ Cardinality({newborn}) = 1
      BY FS_Singleton
    <3>3. Cardinality({newborn} \cup {spawner}) = Cardinality({newborn}) + 1
      BY <3>1, <3>2, FS_AddElement
    <3> QED
      BY <3>1, <3>2, <3>3
  <2>4. Cardinality(UsedThreads) >= 2
    BY <2>2, <2>3, CountedSets, FS_Subset DEF IInv
  <2> QED
    BY <1>1, <2>4, CountedSets DEF AInv, Count, Uncounted, IInv
<1>4. UsedThreads = {}
  BY <1>1, <1>3, CountedSets DEF AInv, Count, IInv
<1> QED
  BY <1>1, <1>2, <1>4 DEF AInv, Count, DoneInv, SpawnerInv

LEMMA CoreCounts ==
  ASSUME IInv, AInv, NEW c \in Core,
         Yield(c) \/ ThreadStep(c) \/ SchedStep(c) \/ IdleReturn(c)
  PROVE  AInv'
<1>0. CURTHREAD(c) \in TCB
  BY DEF IInv, TypeOK, CURTHREAD
<1>1. CASE \E t \in Thread : Wakeup(c, t)
  BY <1>1, MakeReadyCounts DEF Wakeup, InUse, spawnVars, coreVars
<1>2. CASE WakeupNewborn(c)
  <2>1. newborn \in Thread /\ InUse(newborn)
    BY <1>0, <1>2, SchedAssumption DEF WakeupNewborn, IInv, SpawnInv, TypeOK, TCB, InUse
  <2> QED
    BY <1>2, <2>1, MakeReadyCounts DEF WakeupNewborn, coreVars
<1>3. CASE WakeupExpired(c)
  <2>1. TIMEOUT_LIST \in Seq(Thread) /\ TIMEOUT_LIST # <<>>
    BY <1>3 DEF WakeupExpired, Expired, IInv, TypeOK
  <2>2. /\ Head(TIMEOUT_LIST) \in Range(TIMEOUT_LIST) /\ Head(TIMEOUT_LIST) \in Thread
        /\ InUse(Head(TIMEOUT_LIST))
    BY <2>1, PopLemma DEF IInv, TimeoutInv, InUse
  <2> QED
    BY <1>3, <2>2, MakeReadyCounts DEF WakeupExpired, spawnVars, coreVars
<1>4. ASSUME NEW why \in SleepCauses, NEW d \in Timeouts \cup {NO_TIMEOUT}, Sleep(c, why, d)
      PROVE  AInv'
  <2>1. /\ state' = [state EXCEPT ![CURTHREAD(c)] = "STOPPED"]
        /\ CURTHREAD(c) # spawner /\ InUse(CURTHREAD(c))
        /\ pc[c] = "run" /\ pc' = [pc EXCEPT ![c] = "asleep"]
        /\ UNCHANGED <<active_threads, active_threads_spinlock, spawner>>
    BY <1>4 DEF Sleep, IInv, CoreInv, InUse, Moved, spawnVars
  <2>2. UsedThreads' = UsedThreads /\ (spawner # NULL => state'[spawner] = state[spawner])
    BY <1>0, <2>1 DEF IInv, TypeOK, UsedThreads, InUse, TCB
  <2>3. Releasing' = Releasing /\ \A e \in Core : pc'[e] = "done" => pc[e] = "done"
    BY <2>1 DEF IInv, TypeOK, Releasing
  <2> QED
    BY <2>1, <2>2, <2>3, CountFrame DEF AInv, SpawnerInv
<1>5. CASE Exit(c)
  <2>1. /\ state' = [state EXCEPT ![CURTHREAD(c)] = "EXITED"]
        /\ spawner = NULL /\ InUse(CURTHREAD(c))
        /\ pc[c] = "run" /\ pc' = [pc EXCEPT ![c] = "asleep"]
        /\ UNCHANGED <<active_threads, active_threads_spinlock, spawner>>
    BY <1>5 DEF Exit, IInv, CoreInv, InUse, Moved, spawnVars
  <2>2. UsedThreads' = UsedThreads
    BY <1>0, <2>1 DEF IInv, TypeOK, UsedThreads, InUse, TCB
  <2>3. Releasing' = Releasing /\ \A e \in Core : pc'[e] = "done" => pc[e] = "done"
    BY <2>1 DEF IInv, TypeOK, Releasing
  <2> QED
    BY <2>1, <2>2, <2>3, CountFrame
<1>6. CASE YieldLocked(c)
  <2>1. /\ state' = [state EXCEPT ![CURTHREAD(c)] = IF @ = "RUNNING" THEN "READY" ELSE @]
        /\ pc[c] = "enter" /\ pc' = [pc EXCEPT ![c] = "expire"]
        /\ UNCHANGED <<active_threads, active_threads_spinlock, spawner>>
    BY <1>6 DEF YieldLocked, Moved, spawnVars
  <2>2. /\ UsedThreads' = UsedThreads
        /\ spawner # NULL => state'[spawner] \in {"READY", "RUNNING"}
    BY <1>0, <2>1 DEF IInv, TypeOK, UsedThreads, InUse, TCB, AInv, SpawnerInv
  <2>3. Releasing' = Releasing /\ \A e \in Core : pc'[e] = "done" => pc[e] = "done"
    BY <2>1 DEF IInv, TypeOK, Releasing
  <2> QED
    BY <2>1, <2>2, <2>3, CountFrame
<1>7. CASE Yield(c) \/ CountYield(c) \/ Select(c)
  <2>1. UNCHANGED <<state, active_threads, active_threads_spinlock, spawner>>
    BY <1>7 DEF Yield, Preempt, YieldCore, IdleYield, SleepYield, CallYield, CountYield,
                Select, tcbVars, spawnVars
  <2>2. /\ pc[c] \in {"boot", "run", "asleep", "count", "expire"}
        /\ \E to \in {"count", "enter", "switch"} : pc' = [pc EXCEPT ![c] = to]
    BY <1>7 DEF Yield, Preempt, YieldCore, IdleYield, SleepYield, CallYield, CountYield,
                Select, Moved
  <2>3. Releasing' = Releasing /\ \A e \in Core : pc'[e] = "done" => pc[e] = "done"
    BY <2>2 DEF IInv, TypeOK, Releasing
  <2>4. UsedThreads' = UsedThreads
    BY <2>1 DEF UsedThreads, InUse
  <2> QED
    BY <2>1, <2>3, <2>4, CountFrame DEF AInv, SpawnerInv
<1> QED
  BY <1>1, <1>2, <1>3, <1>4, <1>5, <1>6, <1>7, SpawnThreadCounts, SpawnCountCounts,
     GainCounts, ReleaseTCBCounts, IdleReturnCounts
     DEF ThreadStep, SchedStep

\* spawn_thread and release_TCB count every thread once, whatever falls between the
\* memory and the count; so run_scheduler returns only when no thread is left.
THEOREM ThreadsAreActive == Spec => []ActiveThreads
<1>1. IInv /\ AInv /\ [Next]_vars => AInv'
  <2> SUFFICES ASSUME IInv, AInv, [Next]_vars PROVE AInv'
    OBVIOUS
  <2>1. CASE Tick \/ UNCHANGED vars
    BY <2>1 DEF Tick, vars, tcbVars, spawnVars, coreVars, AInv, Count, Uncounted, DoneInv,
                SpawnerInv, UsedThreads, InUse, Releasing
  <2> QED
    BY <2>1, CoreCounts DEF Next, Shutdown
<1>2. AInv => ActiveThreads
  BY DEF AInv, Count, Uncounted, DoneInv, UsedThreads, Releasing, ActiveThreads
<1> QED
  BY <1>1, <1>2, CountInit, Invariant, PTL DEF Spec

=============================================================================
