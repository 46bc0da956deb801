---------------------------- MODULE ProcessProofs ----------------------------
(***************************************************************************)
(* Proofs about Process, for any MAX_PROC and any finite set of threads,   *)
(* when no two threads of a process wait for the same child.               *)
(***************************************************************************)
EXTENDS Process, FiniteSetTheorems, TLAPS

-----------------------------------------------------------------------------
(* The inductive invariant.                                                *)

Waiting == {"wait", "collect"}

\* What each place in the code says of a thread's process and target.
PlaceInv ==
  \A t \in Thread :
    /\ pc[t] = "none" <=> owner_pcb[t] = NULL
    /\ pc[t] = "join" => target[t] \in Thread
    /\ pc[t] = "wait" => target[t] \in Pid \cup {NOPROC}
    /\ pc[t] = "collect" => target[t] = NOPROC

Awake(t) ==
  /\ \A p \in Pid : t \notin child_exit[p]
  /\ \A u \in Thread : t \notin exit_cv[u]

\* The thread in the kernel is awake, and sleepers are where their calls sleep.
SleepInv ==
  /\ \A t \in Thread : kernel = t =>
       Awake(t) /\ pc[t] \in {"join", "wait", "collect"}
  /\ \A t, u \in Thread : t \in exit_cv[u] => pc[t] = "join" /\ target[t] = u
  /\ \A t \in Thread, p \in Pid :
       t \in child_exit[p] => pc[t] \in Waiting /\ owner_pcb[t] = p

\* A thread that waits for one child waits for one of its own, and alone.
WaitInv ==
  /\ \A t \in Thread : pc[t] = "wait" /\ target[t] # NOPROC =>
       pstate[target[t]] # "FREE" /\ parent[target[t]] = owner_pcb[t]
  /\ \A t, u \in Thread :
       t # u /\ pc[t] \in Waiting /\ pc[u] \in Waiting
             /\ owner_pcb[t] = owner_pcb[u] =>
         \/ target[t] = NOPROC /\ target[u] = NOPROC
         \/ NOPROC \notin {target[t], target[u]} /\ target[t] # target[u]

\* From every process in use the parents lead to init: no set of them is closed.
Descendants == {p \in Pid : pstate[p] # "FREE" /\ p # INIT}

RootInv ==
  \A S \in SUBSET Descendants : S # {} => \E p \in S : parent[p] \notin S

\* init goes last.
InitInv ==
  /\ pstate[INIT] # "FREE"
  /\ pstate[INIT] = "ZOMBIE" => Descendants = {}

IInv ==
  /\ TypeOK /\ FreeList /\ Lists /\ Threads /\ PTCBLifetime /\ NoMissedExit
  /\ PlaceInv /\ SleepInv /\ WaitInv /\ RootInv /\ InitInv

Assumptions == ProcessAssumption /\ SharesChildren = FALSE

-----------------------------------------------------------------------------
(* Facts about the constants and the invariant.                            *)

LEMMA Constants ==
  ASSUME Assumptions
  PROVE  /\ INIT \in Pid /\ NULL \notin Pid /\ NOPROC \notin Pid
         /\ NULL \notin Thread /\ NULL # NOPROC
         /\ IsFiniteSet(Thread) /\ IsFiniteSet(Pid)
<1>1. IsFiniteSet(Pid)
  BY FS_Interval DEF Assumptions, ProcessAssumption, Pid
<1> QED
  BY <1>1 DEF Assumptions, ProcessAssumption, Pid, INIT, NOPROC

LEMMA FreeFinite ==
  ASSUME Assumptions
  PROVE  IsFiniteSet(Free) /\ Cardinality(Free) \in Nat
BY Constants, FS_Subset, FS_CardinalityType DEF Free

LEMMA FiniteThreads ==
  ASSUME Assumptions, NEW T \in SUBSET Thread
  PROVE  /\ IsFiniteSet(T) /\ Cardinality(T) \in Nat
         /\ Cardinality(T) = 0 <=> T = {}
BY Constants, FS_Subset, FS_CardinalityType, FS_EmptySet

LEMMA FiniteJoiners ==
  ASSUME Assumptions, NEW u \in Thread
  PROVE  /\ IsFiniteSet(Joiners(u)) /\ Cardinality(Joiners(u)) \in Nat
         /\ Cardinality(Joiners(u)) = 0 <=> Joiners(u) = {}
<1>1. Joiners(u) \in SUBSET Thread
  BY DEF Joiners
<1> QED
  BY <1>1, FiniteThreads

\* A thread outside the kernel is awake and belongs to a living process.
LEMMA UserLemma ==
  ASSUME Assumptions, IInv, NEW t \in Thread, pc[t] = "user"
  PROVE  /\ Awake(t) /\ kernel # t
         /\ owner_pcb[t] \in Pid /\ pstate[owner_pcb[t]] = "ALIVE"
         /\ allocated[t] /\ ~exited[t]
<1>1. Awake(t) /\ kernel # t
  BY DEF IInv, SleepInv, Awake, Waiting
<1>2. owner_pcb[t] \in Pid /\ t \in ThreadsOf(owner_pcb[t])
  BY DEF IInv, PlaceInv, TypeOK, ThreadsOf
<1> QED
  BY <1>1, <1>2 DEF IInv, Threads

\* And so does one in a call.
LEMMA OwnerLemma ==
  ASSUME Assumptions, IInv, NEW t \in Thread, pc[t] # "none"
  PROVE  /\ owner_pcb[t] \in Pid /\ pstate[owner_pcb[t]] = "ALIVE"
         /\ t \in ThreadsOf(owner_pcb[t]) /\ allocated[t] /\ ~exited[t]
<1>1. owner_pcb[t] \in Pid /\ t \in ThreadsOf(owner_pcb[t])
  BY DEF IInv, PlaceInv, TypeOK, ThreadsOf
<1> QED
  BY <1>1 DEF IInv, Threads

-----------------------------------------------------------------------------
(* The free list.                                                          *)

LEMMA FreeHead ==
  ASSUME Assumptions, IInv, pcb_freelist # NULL
  PROVE  pcb_freelist \in Pid /\ pstate[pcb_freelist] = "FREE"
<1>n. PICK n \in Nat : n = Cardinality(Free)
  BY FreeFinite
<1>1. PICK list \in [1 .. n -> Free] : Links(list, n)
  BY <1>n DEF IInv, FreeList
<1> QED
  BY <1>1 DEF Links, Free

\* acquire_PCB takes the first PCB of the list.
LEMMA PopLemma ==
  ASSUME Assumptions, TypeOK, FreeList, pcb_freelist # NULL,
         NEW q, pcb_freelist' = parent[pcb_freelist],
         pstate' = [pstate EXCEPT ![pcb_freelist] = "ALIVE"],
         parent' = [parent EXCEPT ![pcb_freelist] = q]
  PROVE  FreeList' /\ pcb_freelist \in Free
<1>n. PICK n \in Nat : n = Cardinality(Free)
  BY FreeFinite
<1>1. PICK list \in [1 .. n -> Free] :
        /\ Links(list, n)
        /\ \A i, j \in 1 .. n : list[i] = list[j] => i = j
        /\ \A p \in Free : \E i \in 1 .. n : list[i] = p
  BY <1>n DEF FreeList
<1>3. n # 0 /\ pcb_freelist = list[1] /\ list[1] \in Free /\ list[1] \in Pid
  BY <1>1 DEF Links, Free
<1>4. Free' = Free \ {list[1]}
  BY <1>3 DEF Free, TypeOK
<1>5. Cardinality(Free') = n - 1
  BY <1>n, <1>3, <1>4, FreeFinite, FS_RemoveElement
<1> DEFINE rest == [i \in 1 .. n - 1 |-> list[i + 1]]
<1>6. rest \in [1 .. n - 1 -> Free']
  BY <1>1, <1>3, <1>4
<1>7. Links(rest, n - 1)'
  <2>1. pcb_freelist' = IF n - 1 = 0 THEN NULL ELSE rest[1]
    BY <1>1, <1>3 DEF Links
  <2>2. ASSUME NEW i \in 1 .. n - 1
        PROVE  parent'[rest[i]] = IF i = n - 1 THEN NULL ELSE rest[i + 1]
    <3>1. rest[i] = list[i + 1] /\ list[i + 1] # list[1] /\ i + 1 \in 1 .. n
      BY <1>1
    <3>2. parent'[rest[i]] = parent[list[i + 1]]
      BY <1>3, <1>6, <3>1, <1>1 DEF TypeOK, Free
    <3> QED
      BY <1>1, <3>1, <3>2 DEF Links
  <2> QED
    BY <2>1, <2>2 DEF Links
<1>8. \A i, j \in 1 .. n - 1 : rest[i] = rest[j] => i = j
  BY <1>1
<1>9. \A p \in Free' : \E i \in 1 .. n - 1 : rest[i] = p
  <2> SUFFICES ASSUME NEW p \in Free' PROVE \E i \in 1 .. n - 1 : rest[i] = p
    OBVIOUS
  <2>1. PICK j \in 1 .. n : list[j] = p
    BY <1>1, <1>4
  <2>2. j - 1 \in 1 .. n - 1
    BY <1>4, <2>1
  <2> QED
    BY <2>1, <2>2
<1> HIDE DEF rest
<1>10. FreeList'
  BY <1>5, <1>6, <1>7, <1>8, <1>9 DEF FreeList
<1> QED
  BY <1>3, <1>10

\* release_PCB puts one before it.
LEMMA PushLemma ==
  ASSUME Assumptions, TypeOK, FreeList, NEW c \in Pid, pstate[c] # "FREE", release_PCB(c)
  PROVE  FreeList'
<1>n. PICK n \in Nat : n = Cardinality(Free)
  BY FreeFinite
<1>1. PICK list \in [1 .. n -> Free] :
        /\ Links(list, n)
        /\ \A i, j \in 1 .. n : list[i] = list[j] => i = j
        /\ \A p \in Free : \E i \in 1 .. n : list[i] = p
  BY <1>n DEF FreeList
<1>3. c \notin Free /\ Free' = Free \cup {c}
  BY DEF Free, TypeOK, release_PCB
<1>4. Cardinality(Free') = n + 1
  BY <1>n, <1>3, FreeFinite, FS_AddElement
<1> DEFINE longer == [i \in 1 .. n + 1 |-> IF i = 1 THEN c ELSE list[i - 1]]
<1>5. /\ longer[1] = c
      /\ \A i \in 2 .. n + 1 : longer[i] = list[i - 1] /\ i - 1 \in 1 .. n
  OBVIOUS
<1>6. longer \in [1 .. n + 1 -> Free']
  BY <1>1, <1>3
<1>7. Links(longer, n + 1)'
  <2>1. pcb_freelist' = longer[1]
    BY <1>5 DEF release_PCB
  <2>2. ASSUME NEW i \in 1 .. n + 1
        PROVE  parent'[longer[i]] = IF i = n + 1 THEN NULL ELSE longer[i + 1]
    <3>1. CASE i = 1
      <4>1. parent'[c] = IF n = 0 THEN NULL ELSE list[1]
        BY <1>1 DEF release_PCB, TypeOK, Links
      <4> QED
        BY <1>5, <3>1, <4>1
    <3>2. CASE i # 1
      <4>1. parent'[list[i - 1]] = parent[list[i - 1]]
        BY <1>1, <1>3, <3>2 DEF release_PCB, TypeOK, Free
      <4> QED
        BY <1>1, <1>5, <3>2, <4>1 DEF Links
    <3> QED
      BY <3>1, <3>2
  <2> QED
    BY <2>1, <2>2 DEF Links
<1>8. \A i, j \in 1 .. n + 1 : longer[i] = longer[j] => i = j
  BY <1>1, <1>3
<1>9. \A p \in Free' : \E i \in 1 .. n + 1 : longer[i] = p
  <2> SUFFICES ASSUME NEW p \in Free' PROVE \E i \in 1 .. n + 1 : longer[i] = p
    OBVIOUS
  <2>1. CASE p = c
    BY <1>5, <2>1
  <2>2. CASE p # c
    <3>1. PICK j \in 1 .. n : list[j] = p
      BY <1>1, <1>3, <2>2
    <3>2. j + 1 \in 1 .. n + 1 /\ longer[j + 1] = list[j]
      BY <1>5
    <3> QED
      BY <3>1, <3>2
  <2> QED
    BY <2>1, <2>2
<1> HIDE DEF longer
<1> QED
  BY <1>4, <1>6, <1>7, <1>8, <1>9 DEF FreeList

\* Steps that leave the FREE PCBs alone.
LEMMA FreeFrame ==
  ASSUME Assumptions, TypeOK, FreeList, pcb_freelist' = pcb_freelist, Free' = Free,
         \A p \in Free : parent'[p] = parent[p]
  PROVE  FreeList'
<1>n. PICK n \in Nat : n = Cardinality(Free)
  BY FreeFinite
<1>1. PICK list \in [1 .. n -> Free] :
        /\ Links(list, n)
        /\ \A i, j \in 1 .. n : list[i] = list[j] => i = j
        /\ \A p \in Free : \E i \in 1 .. n : list[i] = p
  BY <1>n DEF FreeList
<1>2. Links(list, n)'
  BY <1>1 DEF Links
<1> QED
  BY <1>n, <1>1, <1>2 DEF FreeList

-----------------------------------------------------------------------------
(* The initial states.                                                     *)

LEMMA InitLemma ==
  ASSUME Assumptions, Init
  PROVE  IInv
<1> USE Constants
<1>1. TypeOK
  BY DEF Init, TypeOK, Pid, INIT, Assumptions, ProcessAssumption
<1>2. FreeList
  <2>1. Free = 2 .. MAX_PROC - 1
    BY DEF Init, Free, Pid, INIT, Assumptions, ProcessAssumption
  <2> DEFINE n == MAX_PROC - 2
             list == [i \in 1 .. n |-> i + 1]
  <2>2. n \in Nat /\ Cardinality(Free) = n
    BY <2>1, FS_Interval DEF Assumptions, ProcessAssumption
  <2>3. list \in [1 .. n -> Free]
    BY <2>1, <2>2 DEF Assumptions, ProcessAssumption
  <2>4. Links(list, n)
    BY <2>2 DEF Links, Init, Pid, INIT, Assumptions, ProcessAssumption
  <2>5. \A p \in Free : p - 1 \in 1 .. n /\ list[p - 1] = p
    BY <2>1 DEF Assumptions, ProcessAssumption
  <2> QED
    BY <2>2, <2>3, <2>4, <2>5 DEF FreeList
<1>3. Lists /\ RootInv /\ InitInv
  BY DEF Init, Lists, RootInv, InitInv, Descendants
<1>4. Threads
  <2>1. PICK main \in Thread :
          /\ allocated = [u \in Thread |-> u = main]
          /\ owner_pcb = [t \in Thread |-> IF t = main THEN INIT ELSE NULL]
          /\ pc = [t \in Thread |-> IF t = main THEN "user" ELSE "none"]
    BY DEF Init
  <2>2. \A p \in Pid : ThreadsOf(p) = IF p = INIT THEN {main} ELSE {}
    BY <2>1 DEF ThreadsOf
  <2>3. Cardinality({main}) = 1 /\ Cardinality({}) = 0
    BY FS_Singleton, FS_EmptySet
  <2> QED
    BY <2>1, <2>2, <2>3 DEF Init, Threads
<1>5. PTCBLifetime
  <2>1. PICK main \in Thread :
          /\ PTCB_List = [p \in Pid |-> IF p = INIT THEN {main} ELSE {}]
          /\ allocated = [u \in Thread |-> u = main]
          /\ owner_pcb = [t \in Thread |-> IF t = main THEN INIT ELSE NULL]
    BY DEF Init
  <2>2. \A u \in Thread : Joiners(u) = {} /\ refcount[u] = 0
    BY DEF Init, Joiners
  <2> QED
    BY <2>1, <2>2, FS_EmptySet DEF PTCBLifetime
<1>6. NoMissedExit /\ PlaceInv /\ SleepInv /\ WaitInv
  BY DEF Init, NoMissedExit, PlaceInv, SleepInv, WaitInv, Waiting
<1> QED
  BY <1>1, <1>2, <1>3, <1>4, <1>5, <1>6 DEF IInv

-----------------------------------------------------------------------------
(* What a step leaves alone.                                               *)

LEMMA FamilyFrame ==
  ASSUME Assumptions, IInv, UNCHANGED family
  PROVE  FreeList' /\ Lists' /\ RootInv' /\ InitInv'
<1>1. FreeList'
  BY FreeFrame DEF IInv, family, Free
<1>2. Lists' /\ RootInv' /\ InitInv'
  BY DEF IInv, family, Lists, RootInv, InitInv, Descendants
<1> QED
  BY <1>1, <1>2

\* The steps of a call in which no thread begins or ends.
LEMMA ThreadsFrame ==
  ASSUME IInv, UNCHANGED <<pstate, threadCounter, owner_pcb, allocated, exited>>,
         \A t \in Thread : pc'[t] = "none" <=> pc[t] = "none"
  PROVE  Threads'
BY DEF IInv, Threads, ThreadsOf

LEMMA PTCBFrame ==
  ASSUME IInv, UNCHANGED <<PTCB_List, owner_pcb, allocated, exited, refcount>>,
         \A u \in Thread : Joiners(u)' = Joiners(u)
  PROVE  PTCBLifetime'
BY DEF IInv, PTCBLifetime

-----------------------------------------------------------------------------
(* The steps of a call that waits.                                         *)

LEMMA WakeupKeeps ==
  ASSUME Assumptions, IInv, NEW t \in Thread, Wakeup(t)
  PROVE  IInv'
<1> USE Constants DEF Wakeup
<1>1. FreeList' /\ Lists' /\ RootInv' /\ InitInv'
  BY FamilyFrame
<1>2. Threads' /\ PTCBLifetime'
  BY ThreadsFrame, PTCBFrame DEF family, ptcb, Joiners
<1>3. TypeOK' /\ NoMissedExit' /\ PlaceInv' /\ WaitInv'
  BY DEF IInv, TypeOK, NoMissedExit, PlaceInv, WaitInv, family, ptcb
<1>4. SleepInv'
  BY DEF IInv, SleepInv, Awake
<1> QED
  BY <1>1, <1>2, <1>3, <1>4 DEF IInv

LEMMA ThreadJoinKeeps ==
  ASSUME Assumptions, IInv, NEW t \in Thread, NEW u \in Thread, ThreadJoin(t, u)
  PROVE  IInv'
<1> USE Constants DEF ThreadJoin, Calls, Enter, To, Joined
<1>1. FreeList' /\ Lists' /\ RootInv' /\ InitInv'
  BY FamilyFrame
<1>2. TypeOK'
  BY DEF IInv, TypeOK, family
<1>3. Threads'
  BY ThreadsFrame DEF family, IInv, TypeOK
<1>4. PTCBLifetime'
  <2>1. /\ t \notin Joiners(u) /\ Joiners(u)' = Joiners(u) \cup {t}
        /\ \A v \in Thread \ {u} : Joiners(v)' = Joiners(v)
    BY DEF Joiners, IInv, TypeOK
  <2>2. Cardinality(Joiners(u)') = Cardinality(Joiners(u)) + 1
    BY <2>1, FiniteThreads, FS_AddElement DEF Joiners
  <2>3. refcount'[u] = refcount[u] + 1 /\ \A v \in Thread \ {u} : refcount'[v] = refcount[v]
    BY DEF IInv, TypeOK
  <2>4. u \in PTCB_List[owner_pcb[t]] /\ UNCHANGED <<PTCB_List, owner_pcb, allocated, exited>>
    OBVIOUS
  <2>5. PTCBLifetime
    BY DEF IInv
  <2> HIDE DEF ThreadJoin
  <2>6. ASSUME NEW v \in Thread
        PROVE  /\ allocated[v] => refcount'[v] = Cardinality(Joiners(v)')
               /\ \A s \in Joiners(v)' : v \in PTCB_List[owner_pcb[s]]
    BY <2>1, <2>2, <2>3, <2>4, <2>5 DEF PTCBLifetime
  <2> QED
    BY <2>4, <2>5, <2>6 DEF PTCBLifetime
<1>5. NoMissedExit' /\ PlaceInv'
  BY UserLemma DEF IInv, TypeOK, NoMissedExit, PlaceInv, Awake, family
<1>6. SleepInv'
  BY UserLemma DEF IInv, TypeOK, SleepInv, Awake, Waiting
<1>7. WaitInv'
  BY DEF IInv, TypeOK, WaitInv, Waiting, family
<1> QED
  BY <1>1, <1>2, <1>3, <1>4, <1>5, <1>6, <1>7 DEF IInv

LEMMA JoinWaitKeeps ==
  ASSUME Assumptions, IInv, NEW t \in Thread, JoinWait(t)
  PROVE  IInv'
<1> USE Constants DEF JoinWait
<1>1. FreeList' /\ Lists' /\ RootInv' /\ InitInv'
  BY FamilyFrame
<1>2. TypeOK' /\ Threads' /\ PTCBLifetime'
  BY ThreadsFrame, PTCBFrame DEF IInv, TypeOK, family, ptcb, Joiners
<1>3. NoMissedExit' /\ PlaceInv' /\ SleepInv' /\ WaitInv'
  BY DEF IInv, TypeOK, NoMissedExit, PlaceInv, SleepInv, WaitInv, Awake, family, ptcb
<1> QED
  BY <1>1, <1>2, <1>3 DEF IInv

LEMMA JoinEndKeeps ==
  ASSUME Assumptions, IInv, NEW t \in Thread, JoinEnd(t)
  PROVE  IInv'
<1> USE Constants
<1>u. PICK u \in Thread : u = target[t]
  BY DEF JoinEnd, IInv, PlaceInv
<1> DEFINE free == ~detached[u] /\ LastJoiner(u)
<1>1. target[t] = u /\ pc[t] = "join" /\ kernel = t /\ t \in Joiners(u)
  BY <1>u DEF JoinEnd, Joiners
<1>0. /\ detached[u] \/ exited[u]
      /\ refcount' = [refcount EXCEPT ![u] = @ - 1]
      /\ allocated' = [allocated EXCEPT ![u] = ~free]
      /\ PTCB_List' = [p \in Pid |-> IF free THEN PTCB_List[p] \ {u} ELSE PTCB_List[p]]
      /\ kernel' = NULL
      /\ pc' = [pc EXCEPT ![t] = "user"]
      /\ target' = [target EXCEPT ![t] = NULL]
      /\ UNCHANGED <<family, threadCounter, child_exit, exited, detached, exit_cv, owner_pcb>>
  BY <1>u DEF JoinEnd, Return, To
<1>f. free \in BOOLEAN
  OBVIOUS
<1>2. FreeList' /\ Lists' /\ RootInv' /\ InitInv'
  BY <1>0, FamilyFrame
<1>3. /\ Joiners(u)' = Joiners(u) \ {t}
      /\ \A v \in Thread \ {u} : Joiners(v)' = Joiners(v)
  BY <1>0, <1>1 DEF Joiners, IInv, TypeOK
<1>4. Cardinality(Joiners(u)') = Cardinality(Joiners(u)) - 1
  BY <1>1, <1>3, FiniteJoiners, FS_RemoveElement
<1>5. /\ u \in PTCB_List[owner_pcb[t]] /\ owner_pcb[t] \in Pid /\ allocated[u]
      /\ refcount[u] = Cardinality(Joiners(u)) /\ refcount[u] \in Nat \ {0}
  <2>1. u \in PTCB_List[owner_pcb[t]] /\ owner_pcb[t] \in Pid
    BY <1>1, OwnerLemma DEF IInv, PTCBLifetime
  <2>2. allocated[u] /\ refcount[u] = Cardinality(Joiners(u))
    BY <2>1 DEF IInv, PTCBLifetime
  <2> QED
    BY <1>1, <2>1, <2>2, FiniteJoiners
<1>6. free => exited[u] /\ pc[u] = "none" /\ Joiners(u)' = {}
  <2>1. free => exited[u] /\ pc[u] = "none"
    BY <1>0, <1>1, OwnerLemma DEF IInv, TypeOK
  <2>2. free => Cardinality(Joiners(u)') = 0
    BY <1>4, <1>5 DEF LastJoiner
  <2>3. Joiners(u)' \subseteq Thread
    BY DEF Joiners
  <2> QED
    BY <2>1, <2>2, <2>3, FiniteThreads
<1> HIDE DEF free
<1>7. TypeOK'
  <2>1. allocated' \in [Thread -> BOOLEAN] /\ PTCB_List' \in [Pid -> SUBSET Thread]
    BY <1>0, <1>f DEF IInv, TypeOK
  <2>2. refcount' \in [Thread -> Nat]
    <3>1. refcount \in [Thread -> Nat] /\ refcount[u] - 1 \in Nat
      BY <1>5 DEF IInv, TypeOK
    <3> QED
      BY <1>0, <3>1
  <2> QED
    BY <1>0, <2>1, <2>2 DEF IInv, TypeOK, family
<1>8. Threads'
  <2>1. \A v \in Thread : pc[v] # "none" => allocated'[v] = allocated[v]
    BY <1>0, <1>6, <1>5 DEF IInv, TypeOK
  <2>2. \A v \in Thread : pc'[v] = "none" <=> pc[v] = "none"
    BY <1>0, <1>1 DEF IInv, TypeOK
  <2>3. \A p \in Pid : ThreadsOf(p)' = ThreadsOf(p)
    BY <1>0 DEF ThreadsOf
  <2> QED
    BY <1>0, <2>1, <2>2, <2>3 DEF IInv, Threads, family
<1>9. PTCBLifetime'
  <2>1. ASSUME NEW v \in Thread, v # u
        PROVE  /\ allocated'[v] = allocated[v] /\ refcount'[v] = refcount[v]
               /\ \A p \in Pid : v \in PTCB_List'[p] <=> v \in PTCB_List[p]
    BY <1>0, <2>1 DEF IInv, TypeOK
  <2>2. /\ allocated'[u] = ~free /\ refcount'[u] = refcount[u] - 1
        /\ \A p \in Pid : u \in PTCB_List'[p] <=> ~free /\ u \in PTCB_List[p]
    BY <1>0, <1>f DEF IInv, TypeOK
  <2>3. ASSUME NEW v \in Thread, v # u
        PROVE  /\ allocated'[v] <=> \E p \in Pid : v \in PTCB_List'[p]
               /\ allocated'[v] => refcount'[v] = Cardinality(Joiners(v)')
               /\ \A s \in Joiners(v)' : v \in PTCB_List'[owner_pcb[s]]
               /\ \A p \in Pid : v \in PTCB_List'[p] /\ ~exited[v] => owner_pcb[v] = p
    <3>1. \A s \in Joiners(v) : owner_pcb[s] \in Pid
      BY OwnerLemma DEF Joiners
    <3> QED
      BY <1>0, <1>3, <2>1, <2>3, <3>1 DEF IInv, PTCBLifetime
  <2>4. /\ allocated'[u] <=> \E p \in Pid : u \in PTCB_List'[p]
        /\ allocated'[u] => refcount'[u] = Cardinality(Joiners(u)')
        /\ \A s \in Joiners(u)' : u \in PTCB_List'[owner_pcb[s]]
        /\ \A p \in Pid : u \in PTCB_List'[p] /\ ~exited[u] => owner_pcb[u] = p
    <3>1. \A s \in Joiners(u) : owner_pcb[s] \in Pid
      BY OwnerLemma DEF Joiners
    <3> QED
      BY <1>0, <1>1, <1>3, <1>4, <1>5, <1>6, <2>2, <3>1 DEF IInv, PTCBLifetime
  <2> QED
    BY <1>0, <2>3, <2>4 DEF PTCBLifetime
<1>10. NoMissedExit' /\ PlaceInv'
  BY <1>0, <1>1 DEF IInv, TypeOK, NoMissedExit, PlaceInv, SleepInv, Awake, family
<1>11. SleepInv'
  BY <1>0, <1>1 DEF IInv, TypeOK, SleepInv, Awake, Waiting
<1>12. WaitInv'
  BY <1>0, <1>1 DEF IInv, TypeOK, WaitInv, Waiting, family
<1> QED
  BY <1>2, <1>7, <1>8, <1>9, <1>10, <1>11, <1>12 DEF IInv

LEMMA ThreadDetachKeeps ==
  ASSUME Assumptions, IInv, NEW t \in Thread, NEW u \in Thread, ThreadDetach(t, u)
  PROVE  IInv'
<1> USE Constants DEF ThreadDetach, DetachBroadcast
<1>1. FreeList' /\ Lists' /\ RootInv' /\ InitInv'
  BY FamilyFrame
<1>2. TypeOK' /\ Threads' /\ PTCBLifetime'
  BY ThreadsFrame, PTCBFrame DEF IInv, TypeOK, family, Joiners
<1>3. NoMissedExit' /\ PlaceInv' /\ SleepInv' /\ WaitInv'
  BY DEF IInv, TypeOK, NoMissedExit, PlaceInv, SleepInv, WaitInv, Awake, Calls, family
<1> QED
  BY <1>1, <1>2, <1>3 DEF IInv

\* The call waits for a child of its own, and for none that another waits for.
LEMMA WaitChildKeeps ==
  ASSUME Assumptions, IInv, NEW t \in Thread, NEW c \in Pid \cup {NOPROC},
         WaitsApart(t, c), WaitChild(t, c)
  PROVE  IInv'
<1> USE Constants DEF WaitChild, Calls, Enter, To
<1>1. FreeList' /\ Lists' /\ RootInv' /\ InitInv'
  BY FamilyFrame
<1>2. TypeOK' /\ Threads' /\ PTCBLifetime'
  BY ThreadsFrame, PTCBFrame DEF IInv, TypeOK, family, ptcb, Joiners
<1>3. NoMissedExit' /\ PlaceInv' /\ SleepInv'
  BY UserLemma DEF IInv, TypeOK, NoMissedExit, PlaceInv, SleepInv, Awake, Waiting, family, ptcb
<1>4. WaitInv'
  <2>1. \A u \in Thread \ {t} : pc'[u] = pc[u] /\ target'[u] = target[u]
    BY DEF IInv, TypeOK
  <2>2. pc'[t] = "wait" /\ target'[t] = c /\ pc[t] = "user"
    BY DEF IInv, TypeOK
  <2>3. c # NOPROC => pstate[c] # "FREE" /\ parent[c] = owner_pcb[t]
    OBVIOUS
  <2>4. \A u \in Thread \ {t} : pc[u] \in Waiting /\ owner_pcb[u] = owner_pcb[t] =>
          IF c = NOPROC THEN target[u] = NOPROC ELSE target[u] \notin {c, NOPROC}
    BY DEF WaitsApart, Waiting, Assumptions
  <2> QED
    BY <2>1, <2>2, <2>3, <2>4 DEF IInv, WaitInv, family
<1> QED
  BY <1>1, <1>2, <1>3, <1>4 DEF IInv

\* init, when it exits, waits for any child.
LEMMA ExitWaitsKeeps ==
  ASSUME Assumptions, IInv, NEW t \in Thread, WaitsApart(t, NOPROC), Exit(t),
         owner_pcb[t] = INIT
  PROVE  IInv'
<1>0. /\ kernel = NULL /\ pc[t] = "user" /\ kernel' = t
      /\ pc' = [pc EXCEPT ![t] = "collect"]
      /\ target' = [target EXCEPT ![t] = NOPROC]
      /\ UNCHANGED <<family, threadCounter, PTCB_List, child_exit, ptcb, exit_cv, owner_pcb>>
  BY DEF Exit, Calls, Enter, To
<1> USE Constants
<1>1. FreeList' /\ Lists' /\ RootInv' /\ InitInv'
  BY <1>0, FamilyFrame
<1>2. TypeOK' /\ Threads' /\ PTCBLifetime'
  BY <1>0, ThreadsFrame, PTCBFrame DEF IInv, TypeOK, family, ptcb, Joiners
<1>3. NoMissedExit' /\ PlaceInv' /\ SleepInv'
  BY <1>0, UserLemma
     DEF IInv, TypeOK, NoMissedExit, PlaceInv, SleepInv, Awake, Waiting, family, ptcb
<1>4. WaitInv'
  <2>1. \A u \in Thread \ {t} : pc'[u] = pc[u] /\ target'[u] = target[u]
    BY <1>0 DEF IInv, TypeOK
  <2>2. pc'[t] = "collect" /\ target'[t] = NOPROC
    BY <1>0 DEF IInv, TypeOK
  <2>3. \A u \in Thread \ {t} : pc[u] \in Waiting /\ owner_pcb[u] = owner_pcb[t] =>
          target[u] = NOPROC
    BY DEF WaitsApart, Waiting, Assumptions
  <2> QED
    BY <1>0, <2>1, <2>2, <2>3 DEF IInv, WaitInv, family
<1> QED
  BY <1>1, <1>2, <1>3, <1>4 DEF IInv

LEMMA ChildWaitKeeps ==
  ASSUME Assumptions, IInv, NEW t \in Thread, ChildWait(t)
  PROVE  IInv'
<1> USE Constants DEF ChildWait
<1>1. FreeList' /\ Lists' /\ RootInv' /\ InitInv'
  BY FamilyFrame
<1>2. TypeOK' /\ Threads' /\ PTCBLifetime'
  BY ThreadsFrame, PTCBFrame DEF IInv, TypeOK, family, ptcb, Joiners
<1>3. owner_pcb[t] \in Pid
  BY OwnerLemma
<1>4. NoMissedExit'
  <2>1. child_exit' = [child_exit EXCEPT ![owner_pcb[t]] = @ \cup {t}]
    OBVIOUS
  <2>2. IF target[t] = NOPROC
        THEN children_list[owner_pcb[t]] # {} /\ exited_list[owner_pcb[t]] = {}
        ELSE pstate[target[t]] = "ALIVE" /\ parent[target[t]] = owner_pcb[t]
    BY DEF Blocked, IInv, PlaceInv, WaitInv
  <2> QED
    BY <1>3, <2>1, <2>2 DEF IInv, TypeOK, NoMissedExit, family, ptcb
<1>5. PlaceInv' /\ SleepInv' /\ WaitInv'
  BY <1>3 DEF IInv, TypeOK, PlaceInv, SleepInv, WaitInv, Awake, Waiting, family
<1> QED
  BY <1>1, <1>2, <1>4, <1>5 DEF IInv

LEMMA NoChildKeeps ==
  ASSUME Assumptions, IInv, NEW t \in Thread, NoChild(t)
  PROVE  IInv'
<1> USE Constants DEF NoChild, Return, To
<1>1. FreeList' /\ Lists' /\ RootInv' /\ InitInv'
  BY FamilyFrame
<1>2. TypeOK' /\ Threads' /\ PTCBLifetime'
  BY ThreadsFrame, PTCBFrame DEF IInv, TypeOK, family, ptcb, Joiners
<1>3. NoMissedExit' /\ PlaceInv' /\ SleepInv'
  BY DEF IInv, TypeOK, NoMissedExit, PlaceInv, SleepInv, Awake, Waiting, family, ptcb
<1>4. WaitInv'
  BY DEF IInv, TypeOK, WaitInv, Waiting, family
<1> QED
  BY <1>1, <1>2, <1>3, <1>4 DEF IInv

\* The child that a wait collects is a zombie of the caller, and nobody else waits
\* for it.
LEMMA ZombieLemma ==
  ASSUME Assumptions, IInv, NEW t \in Thread, NEW c \in Pid, ChildEnd(t, c)
  PROVE  /\ pstate[c] = "ZOMBIE" /\ parent[c] = owner_pcb[t] /\ c # INIT
         /\ owner_pcb[t] \in Pid /\ c \in exited_list[owner_pcb[t]]
         /\ \A s \in Thread \ {t} : pc[s] = "wait" => target[s] # c
<1> USE Constants
<1>1. kernel = t /\ pc[t] \in Waiting /\ ~Blocked(t)
  BY DEF ChildEnd, Waiting
<1>2. owner_pcb[t] \in Pid
  BY <1>1, OwnerLemma DEF Waiting
<1>3. pstate[c] = "ZOMBIE" /\ parent[c] = owner_pcb[t]
  <2>1. CASE target[t] = NOPROC
    BY <1>2, <2>1 DEF ChildEnd, IInv, Lists
  <2>2. CASE target[t] # NOPROC
    <3>1. c = target[t] /\ pc[t] = "wait" /\ pstate[c] # "ALIVE"
      BY <1>1, <2>2 DEF ChildEnd, Blocked, IInv, PlaceInv, Waiting
    <3> QED
      BY <2>2, <3>1 DEF IInv, WaitInv, TypeOK
  <2> QED
    BY <2>1, <2>2
<1>4. c # INIT /\ c \in exited_list[owner_pcb[t]]
  BY <1>2, <1>3 DEF IInv, Lists
<1>5. ASSUME NEW s \in Thread \ {t}, pc[s] = "wait", target[s] = c
      PROVE  FALSE
  <2>1. owner_pcb[s] = owner_pcb[t]
    BY <1>3, <1>5 DEF IInv, WaitInv
  <2>2. target[t] # NOPROC /\ target[t] # c
    BY <1>1, <1>5, <2>1 DEF IInv, WaitInv, Waiting
  <2> QED
    BY <2>2 DEF ChildEnd
<1> QED
  BY <1>2, <1>3, <1>4, <1>5

LEMMA ChildEndKeeps ==
  ASSUME Assumptions, IInv, NEW t \in Thread, NEW c \in Pid, ChildEnd(t, c)
  PROVE  IInv'
<1> USE Constants
<1>p. PICK p \in Pid : p = owner_pcb[t]
  BY ZombieLemma
<1>1. /\ pstate[c] = "ZOMBIE" /\ parent[c] = p /\ c # INIT /\ c \in exited_list[p]
      /\ \A s \in Thread \ {t} : pc[s] = "wait" => target[s] # c
      /\ owner_pcb[t] = p /\ kernel = t /\ pc[t] \in Waiting
  BY <1>p, ZombieLemma DEF ChildEnd, Waiting
<1>2. /\ children_list' = [q \in Pid |-> children_list[q] \ {c}]
      /\ exited_list' = [q \in Pid |-> exited_list[q] \ {c}]
      /\ pstate' = [pstate EXCEPT ![c] = "FREE"]
      /\ parent' = [parent EXCEPT ![c] = pcb_freelist]
      /\ pcb_freelist' = c
      /\ UNCHANGED <<threadCounter, PTCB_List, child_exit, ptcb, exit_cv, owner_pcb>>
  BY DEF ChildEnd, cleanup_zombie, release_PCB, Unlisted
<1>3. \/ /\ pc[t] = "wait" /\ kernel' = NULL /\ pc' = [pc EXCEPT ![t] = "user"]
         /\ target' = [target EXCEPT ![t] = NULL]
      \/ /\ pc[t] = "collect" /\ UNCHANGED <<kernel, pc, target>>
  BY <1>1 DEF ChildEnd, Return, To, Waiting
<1>4. FreeList'
  <2>1. release_PCB(c)
    BY DEF ChildEnd, cleanup_zombie
  <2> QED
    BY <1>1, <2>1, PushLemma DEF IInv
<1>5. TypeOK'
  BY <1>2, <1>3 DEF IInv, TypeOK, ptcb
<1>6. Lists'
  BY <1>1, <1>2 DEF IInv, TypeOK, Lists
<1>7. Threads'
  <2>1. \A q \in Pid : ThreadsOf(q)' = ThreadsOf(q)
    BY <1>2 DEF ThreadsOf
  <2>2. \A q \in Pid : pstate'[q] = "ALIVE" <=> pstate[q] = "ALIVE"
    BY <1>1, <1>2 DEF IInv, TypeOK
  <2>3. \A s \in Thread : pc'[s] # "none" => pc[s] # "none"
    BY <1>3 DEF IInv, TypeOK
  <2>4. UNCHANGED <<threadCounter, allocated, exited>>
    BY <1>2 DEF ptcb
  <2> QED
    BY <2>1, <2>2, <2>3, <2>4 DEF IInv, Threads
<1>8. PTCBLifetime'
  BY <1>1, <1>2, <1>3, PTCBFrame DEF IInv, TypeOK, Joiners, ptcb, Waiting
<1>9. NoMissedExit'
  <2>1. \A u \in Thread : exit_cv'[u] # {} => ~exited'[u] /\ ~detached'[u]
    BY <1>2 DEF IInv, NoMissedExit, ptcb
  <2>2. ASSUME NEW q \in Pid, NEW s \in Thread, s \in child_exit[q]
        PROVE  /\ s # t /\ target'[s] = target[s]
               /\ IF target[s] = NOPROC
                  THEN children_list[q] # {} /\ exited_list[q] = {}
                  ELSE pstate[target[s]] = "ALIVE" /\ parent[target[s]] = q
               /\ target[s] # NOPROC => target[s] \in Pid
    <3>1. s # t
      BY <1>1, <2>2 DEF IInv, SleepInv, Awake
    <3>2. target'[s] = target[s]
      BY <1>3, <3>1 DEF IInv, TypeOK
    <3>3. target[s] # NOPROC => target[s] \in Pid
      BY <2>2 DEF IInv, SleepInv, PlaceInv, Waiting
    <3> QED
      BY <2>2, <3>1, <3>2, <3>3 DEF IInv, NoMissedExit
  <2>3. ASSUME NEW q \in Pid, NEW s \in Thread, s \in child_exit[q]
        PROVE  IF target'[s] = NOPROC
               THEN children_list'[q] # {} /\ exited_list'[q] = {}
               ELSE pstate'[target'[s]] = "ALIVE" /\ parent'[target'[s]] = q
    <3>1. CASE target[s] = NOPROC
      <4>1. q # p
        BY <1>1, <2>2, <2>3, <3>1
      <4>2. c \notin children_list[q]
        BY <1>1, <4>1 DEF IInv, Lists
      <4> QED
        BY <1>2, <2>2, <2>3, <3>1, <4>2 DEF IInv, TypeOK
    <3>2. CASE target[s] # NOPROC
      BY <1>1, <1>2, <2>2, <2>3, <3>2 DEF IInv, TypeOK
    <3> QED
      BY <3>1, <3>2
  <2> QED
    BY <1>2, <2>1, <2>3 DEF NoMissedExit, IInv, TypeOK
<1>10. PlaceInv' /\ SleepInv'
  BY <1>1, <1>2, <1>3 DEF IInv, TypeOK, PlaceInv, SleepInv, Awake, Waiting
<1>11. WaitInv'
  <2>1. ASSUME NEW s \in Thread, pc'[s] = "wait"
        PROVE  s # t /\ pc[s] = "wait" /\ target'[s] = target[s]
    BY <1>1, <1>3, <2>1 DEF IInv, TypeOK, Waiting
  <2>2. ASSUME NEW s \in Thread, pc'[s] = "wait", target'[s] # NOPROC
        PROVE  pstate'[target'[s]] # "FREE" /\ parent'[target'[s]] = owner_pcb'[s]
    <3>1. target[s] # NOPROC /\ target[s] # c /\ target[s] \in Pid
      BY <1>1, <2>1, <2>2 DEF IInv, PlaceInv
    <3> QED
      BY <1>2, <2>1, <2>2, <3>1 DEF IInv, TypeOK, WaitInv
  <2>3. ASSUME NEW s \in Thread, pc'[s] \in Waiting
        PROVE  pc[s] \in Waiting /\ target'[s] = target[s]
    BY <1>1, <1>3, <2>3 DEF IInv, TypeOK, Waiting
  <2> QED
    BY <1>2, <2>2, <2>3 DEF IInv, WaitInv
<1>12. RootInv' /\ InitInv'
  <2>1. Descendants' = Descendants \ {c}
    BY <1>2 DEF IInv, TypeOK, Descendants
  <2>2. \A d \in Descendants' : parent'[d] = parent[d]
    BY <1>2, <2>1 DEF IInv, TypeOK, Descendants
  <2>3. RootInv'
    BY <2>1, <2>2 DEF IInv, RootInv
  <2> QED
    BY <1>1, <1>2, <2>1, <2>3 DEF IInv, TypeOK, InitInv
<1> QED
  BY <1>4, <1>5, <1>6, <1>7, <1>8, <1>9, <1>10, <1>11, <1>12 DEF IInv

-----------------------------------------------------------------------------
(* New threads and processes.                                              *)

\* Nobody knows of a thread before it is created.
LEMMA FreshLemma ==
  ASSUME Assumptions, IInv, NEW u \in Thread, ~allocated[u], pc[u] = "none"
  PROVE  /\ owner_pcb[u] = NULL /\ Joiners(u) = {} /\ kernel # u
         /\ \A p \in Pid : u \notin PTCB_List[p]
         /\ Awake(u) /\ exit_cv[u] = {}
<1>1. \A p \in Pid : u \notin PTCB_List[p]
  BY DEF IInv, PTCBLifetime
<1>2. Joiners(u) = {}
  BY <1>1, OwnerLemma DEF IInv, PTCBLifetime, Joiners
<1>3. exit_cv[u] = {}
  BY <1>2 DEF IInv, SleepInv, TypeOK, Joiners
<1> QED
  BY <1>1, <1>2, <1>3 DEF IInv, PlaceInv, SleepInv, Awake, Waiting

LEMMA NewThreadKeeps ==
  ASSUME Assumptions, IInv, NEW u \in Thread, NEW p \in Pid, NewThread(u, p),
         UNCHANGED <<child_exit, kernel, target>>,
         \A q \in Pid : pstate'[q] = "ALIVE" <=> (pstate[q] = "ALIVE" \/ q = p)
  PROVE  /\ threadCounter' \in [Pid -> Nat] /\ PTCB_List' \in [Pid -> SUBSET Thread]
         /\ allocated' \in [Thread -> BOOLEAN] /\ exited' \in [Thread -> BOOLEAN]
         /\ detached' \in [Thread -> BOOLEAN] /\ refcount' \in [Thread -> Nat]
         /\ exit_cv' \in [Thread -> SUBSET Thread]
         /\ owner_pcb' \in [Thread -> Pid \cup {NULL}]
         /\ pc' \in [Thread -> {"none", "user", "join", "wait", "collect"}]
         /\ Threads' /\ PTCBLifetime' /\ PlaceInv' /\ SleepInv'
         /\ \A v \in Thread : exit_cv'[v] # {} => ~exited'[v] /\ ~detached'[v]
<1> USE Constants
<1>1. /\ owner_pcb[u] = NULL /\ Joiners(u) = {} /\ kernel # u
      /\ \A q \in Pid : u \notin PTCB_List[q]
      /\ Awake(u) /\ exit_cv[u] = {} /\ pc[u] = "none"
  BY FreshLemma DEF NewThread
<1>2. /\ allocated' = [allocated EXCEPT ![u] = TRUE]
      /\ exited' = [exited EXCEPT ![u] = FALSE]
      /\ detached' = [detached EXCEPT ![u] = FALSE]
      /\ refcount' = [refcount EXCEPT ![u] = 0]
      /\ exit_cv' = [exit_cv EXCEPT ![u] = {}]
      /\ owner_pcb' = [owner_pcb EXCEPT ![u] = p]
      /\ PTCB_List' = [PTCB_List EXCEPT ![p] = @ \cup {u}]
      /\ threadCounter' = [threadCounter EXCEPT ![p] = @ + 1]
      /\ pc' = [pc EXCEPT ![u] = "user"]
  BY DEF NewThread, To
<1>3. /\ threadCounter' \in [Pid -> Nat] /\ PTCB_List' \in [Pid -> SUBSET Thread]
      /\ allocated' \in [Thread -> BOOLEAN] /\ exited' \in [Thread -> BOOLEAN]
      /\ detached' \in [Thread -> BOOLEAN] /\ refcount' \in [Thread -> Nat]
      /\ exit_cv' \in [Thread -> SUBSET Thread]
      /\ owner_pcb' \in [Thread -> Pid \cup {NULL}]
      /\ pc' \in [Thread -> {"none", "user", "join", "wait", "collect"}]
  BY <1>2 DEF IInv, TypeOK
<1>4. Threads'
  <2>1. /\ u \notin ThreadsOf(p) /\ ThreadsOf(p)' = ThreadsOf(p) \cup {u}
        /\ \A q \in Pid \ {p} : ThreadsOf(q)' = ThreadsOf(q)
    BY <1>1, <1>2 DEF IInv, TypeOK, ThreadsOf
  <2>2. IsFiniteSet(ThreadsOf(p))
    BY FiniteThreads DEF ThreadsOf
  <2>3. Cardinality(ThreadsOf(p)') = Cardinality(ThreadsOf(p)) + 1
    BY <2>1, <2>2, FS_AddElement
  <2>4. \A q \in Pid : threadCounter'[q] = Cardinality(ThreadsOf(q)')
    <3>1. threadCounter'[p] = threadCounter[p] + 1
      BY <1>2 DEF IInv, TypeOK
    <3>2. \A q \in Pid \ {p} : threadCounter'[q] = threadCounter[q]
      BY <1>2 DEF IInv, TypeOK
    <3>3. \A q \in Pid : threadCounter[q] = Cardinality(ThreadsOf(q))
      BY DEF IInv, Threads
    <3> QED
      BY <2>1, <2>3, <3>1, <3>2, <3>3
  <2>5. \A q \in Pid : pstate'[q] = "ALIVE" <=> ThreadsOf(q)' # {}
    BY <2>1 DEF IInv, Threads
  <2>6. \A t \in Thread : pc'[t] # "none" => allocated'[t] /\ ~exited'[t]
    BY <1>2 DEF IInv, TypeOK, Threads
  <2> QED
    BY <2>4, <2>5, <2>6 DEF Threads
<1>5. PTCBLifetime'
  <2>1. \A v \in Thread : Joiners(v)' = Joiners(v)
    BY <1>1, <1>2 DEF IInv, TypeOK, Joiners
  <2>2. ASSUME NEW v \in Thread, v # u
        PROVE  /\ allocated'[v] = allocated[v] /\ exited'[v] = exited[v]
               /\ refcount'[v] = refcount[v] /\ owner_pcb'[v] = owner_pcb[v]
               /\ \A q \in Pid : v \in PTCB_List'[q] <=> v \in PTCB_List[q]
    BY <1>2, <2>2 DEF IInv, TypeOK
  <2>3. \A v, s \in Thread : s \in Joiners(v) =>
          v # u /\ s # u /\ owner_pcb[s] \in Pid
    BY <1>1, OwnerLemma DEF Joiners
  <2>4. /\ allocated'[u] /\ refcount'[u] = 0 /\ owner_pcb'[u] = p
        /\ \A q \in Pid : u \in PTCB_List'[q] <=> q = p
    BY <1>1, <1>2 DEF IInv, TypeOK
  <2>5. PTCBLifetime /\ \A v \in Thread : Joiners(v) \subseteq Thread
    BY DEF IInv, Joiners
  <2>6. ASSUME NEW v \in Thread
        PROVE  /\ allocated'[v] <=> \E q \in Pid : v \in PTCB_List'[q]
               /\ allocated'[v] => refcount'[v] = Cardinality(Joiners(v))
               /\ \A s \in Joiners(v) : v \in PTCB_List'[owner_pcb'[s]]
               /\ \A q \in Pid : v \in PTCB_List'[q] /\ ~exited'[v] => owner_pcb'[v] = q
    <3>1. CASE v = u
      BY <1>1, <2>4, <3>1, FS_EmptySet
    <3>2. CASE v # u
      BY <2>2, <2>3, <2>5, <3>2 DEF PTCBLifetime
    <3> QED
      BY <3>1, <3>2
  <2> QED
    BY <2>1, <2>6 DEF PTCBLifetime
<1>6. PlaceInv' /\ SleepInv'
  BY <1>1, <1>2 DEF IInv, TypeOK, PlaceInv, SleepInv, Awake, Waiting
<1>7. \A v \in Thread : exit_cv'[v] # {} => ~exited'[v] /\ ~detached'[v]
  BY <1>2 DEF IInv, TypeOK, NoMissedExit
<1> QED
  BY <1>3, <1>4, <1>5, <1>6, <1>7

LEMMA CreateThreadKeeps ==
  ASSUME Assumptions, IInv, NEW t \in Thread, NEW u \in Thread, CreateThread(t, u)
  PROVE  IInv'
<1> USE Constants
<1>1. owner_pcb[t] \in Pid /\ pstate[owner_pcb[t]] = "ALIVE" /\ NewThread(u, owner_pcb[t])
  BY UserLemma DEF CreateThread, Calls
<1>2. UNCHANGED <<family, child_exit, kernel, target>>
  BY DEF CreateThread
<1>3. FreeList' /\ Lists' /\ RootInv' /\ InitInv'
  BY <1>2, FamilyFrame
<1>4. /\ Threads' /\ PTCBLifetime' /\ PlaceInv' /\ SleepInv' /\ TypeOK'
      /\ \A v \in Thread : exit_cv'[v] # {} => ~exited'[v] /\ ~detached'[v]
  BY <1>1, <1>2, NewThreadKeeps DEF IInv, TypeOK, family
<1>5. NoMissedExit'
  BY <1>2, <1>4 DEF IInv, NoMissedExit, family
<1>6. WaitInv'
  BY <1>1, <1>2 DEF IInv, TypeOK, WaitInv, Waiting, NewThread, To, family
<1> QED
  BY <1>3, <1>4, <1>5, <1>6 DEF IInv

\* The new process is a leaf of the tree, below its creator.
LEMMA ExecKeeps ==
  ASSUME Assumptions, IInv, NEW t \in Thread, NEW u \in Thread, Exec(t, u)
  PROVE  IInv'
<1> USE Constants
<1>c. PICK curproc \in Pid : curproc = owner_pcb[t] /\ pstate[curproc] = "ALIVE"
  BY UserLemma DEF Exec, Calls
<1>n. PICK newproc \in Pid : newproc = pcb_freelist /\ pstate[newproc] = "FREE"
  BY FreeHead DEF Exec
<1>1. /\ NewThread(u, newproc)
      /\ pcb_freelist' = parent[newproc]
      /\ pstate' = [pstate EXCEPT ![newproc] = "ALIVE"]
      /\ parent' = [parent EXCEPT ![newproc] = curproc]
      /\ children_list' = [children_list EXCEPT ![curproc] = @ \cup {newproc}]
      /\ UNCHANGED <<exited_list, child_exit, kernel, target>>
  BY <1>c, <1>n DEF Exec
<1>2. /\ newproc # curproc /\ newproc # INIT
      /\ pstate[INIT] # "FREE"
      /\ children_list[newproc] = {}
  BY <1>c, <1>n DEF IInv, InitInv, Lists
<1>3. FreeList'
  BY <1>n, <1>1, PopLemma DEF IInv
<1>4. /\ pstate'[newproc] = "ALIVE" /\ parent'[newproc] = curproc
      /\ \A q \in Pid \ {newproc} : pstate'[q] = pstate[q] /\ parent'[q] = parent[q]
  BY <1>1 DEF IInv, TypeOK
<1>5. /\ threadCounter' \in [Pid -> Nat] /\ PTCB_List' \in [Pid -> SUBSET Thread]
      /\ allocated' \in [Thread -> BOOLEAN] /\ exited' \in [Thread -> BOOLEAN]
      /\ detached' \in [Thread -> BOOLEAN] /\ refcount' \in [Thread -> Nat]
      /\ exit_cv' \in [Thread -> SUBSET Thread]
      /\ owner_pcb' \in [Thread -> Pid \cup {NULL}]
      /\ pc' \in [Thread -> {"none", "user", "join", "wait", "collect"}]
      /\ Threads' /\ PTCBLifetime' /\ PlaceInv' /\ SleepInv'
      /\ \A v \in Thread : exit_cv'[v] # {} => ~exited'[v] /\ ~detached'[v]
  <2>1. \A q \in Pid : pstate'[q] = "ALIVE" <=> (pstate[q] = "ALIVE" \/ q = newproc)
    BY <1>4
  <2> QED
    BY <1>1, <2>1, NewThreadKeeps
<1>6. TypeOK'
  BY <1>1, <1>5 DEF IInv, TypeOK
<1>7. Lists'
  <2>1. ASSUME NEW q \in Pid
        PROVE  children_list'[q] = {c \in Pid : pstate'[c] # "FREE" /\ parent'[c] = q}
    <3>1. children_list'[q] = IF q = curproc THEN children_list[q] \cup {newproc}
                                             ELSE children_list[q]
      BY <1>1 DEF IInv, TypeOK
    <3>2. children_list[q] = {c \in Pid : pstate[c] # "FREE" /\ parent[c] = q}
      BY DEF IInv, Lists
    <3> QED
      BY <1>n, <1>4, <3>1, <3>2
  <2>2. ASSUME NEW q \in Pid
        PROVE  exited_list'[q] = {c \in children_list'[q] : pstate'[c] = "ZOMBIE"}
    <3>1. children_list'[q] = IF q = curproc THEN children_list[q] \cup {newproc}
                                             ELSE children_list[q]
      BY <1>1 DEF IInv, TypeOK
    <3>2. /\ exited_list'[q] = exited_list[q] /\ children_list[q] \subseteq Pid
          /\ exited_list[q] = {c \in children_list[q] : pstate[c] = "ZOMBIE"}
      BY <1>1 DEF IInv, Lists
    <3> QED
      BY <1>n, <1>4, <3>1, <3>2
  <2>3. ASSUME NEW q \in Pid, pstate'[q] # "ALIVE"
        PROVE  children_list'[q] = {}
    BY <1>c, <1>1, <1>4, <2>3 DEF IInv, TypeOK, Lists
  <2>4. ASSUME NEW q \in Pid, pstate'[q] # "FREE"
        PROVE  parent'[q] = NULL <=> q = INIT
    BY <1>2, <1>4, <2>4 DEF IInv, Lists
  <2> QED
    BY <2>1, <2>2, <2>3, <2>4 DEF Lists
<1>8. NoMissedExit'
  <2>1. ASSUME NEW q \in Pid, NEW s \in Thread, s \in child_exit[q]
        PROVE  IF target[s] = NOPROC
               THEN children_list'[q] # {} /\ exited_list'[q] = {}
               ELSE pstate'[target[s]] = "ALIVE" /\ parent'[target[s]] = q
    <3>1. IF target[s] = NOPROC
          THEN children_list[q] # {} /\ exited_list[q] = {}
          ELSE pstate[target[s]] = "ALIVE" /\ parent[target[s]] = q
      BY <2>1 DEF IInv, NoMissedExit
    <3>2. CASE target[s] = NOPROC
      BY <1>1, <3>1, <3>2 DEF IInv, TypeOK
    <3>3. CASE target[s] # NOPROC
      <4>1. target[s] \in Pid
        BY <2>1, <3>3 DEF IInv, SleepInv, PlaceInv, Waiting
      <4> QED
        BY <1>n, <1>4, <3>1, <3>3, <4>1
    <3> QED
      BY <3>2, <3>3
  <2> QED
    BY <1>1, <1>5, <2>1 DEF NoMissedExit, IInv, TypeOK
<1>9. WaitInv'
  <2>1. ASSUME NEW s \in Thread, pc'[s] \in Waiting
        PROVE  pc'[s] = pc[s] /\ owner_pcb'[s] = owner_pcb[s] /\ target'[s] = target[s]
    BY <1>1, <2>1 DEF IInv, TypeOK, NewThread, To, Waiting
  <2>2. ASSUME NEW s \in Thread, pc'[s] = "wait", target'[s] # NOPROC
        PROVE  pstate'[target'[s]] # "FREE" /\ parent'[target'[s]] = owner_pcb'[s]
    <3>1. pc[s] = "wait" /\ target'[s] = target[s] /\ owner_pcb'[s] = owner_pcb[s]
      BY <2>1, <2>2 DEF Waiting
    <3>2. target[s] \in Pid /\ pstate[target[s]] # "FREE" /\ parent[target[s]] = owner_pcb[s]
      BY <2>2, <3>1 DEF IInv, PlaceInv, WaitInv
    <3> QED
      BY <1>n, <1>4, <3>1, <3>2
  <2> QED
    BY <2>1, <2>2 DEF IInv, WaitInv, Waiting
<1>10. RootInv'
  <2>1. Descendants' = Descendants \cup {newproc}
    BY <1>2, <1>4 DEF Descendants
  <2> SUFFICES ASSUME NEW S \in SUBSET Descendants', S # {}
               PROVE  \E p \in S : parent'[p] \notin S
    BY DEF RootInv
  <2>2. CASE S = {newproc}
    BY <1>2, <1>4, <2>2
  <2>3. CASE S # {newproc}
    <3>1. S \ {newproc} \in SUBSET Descendants /\ S \ {newproc} # {}
      BY <2>1, <2>3
    <3>2. PICK p \in S \ {newproc} : parent[p] \notin S \ {newproc}
      BY <3>1 DEF IInv, RootInv
    <3>3. p \in Pid /\ pstate[p] # "FREE"
      BY <3>1 DEF Descendants
    <3>4. parent[p] # newproc
      BY <1>2, <3>3 DEF IInv, Lists
    <3> QED
      BY <1>4, <3>2, <3>3, <3>4
  <2> QED
    BY <2>2, <2>3
<1>11. InitInv'
  <2>1. pstate[INIT] = "ZOMBIE" => curproc \in Descendants
    BY <1>c DEF Descendants
  <2>2. pstate[INIT] # "ZOMBIE"
    BY <2>1 DEF IInv, InitInv
  <2> QED
    BY <1>2, <1>4, <2>2 DEF InitInv
<1> QED
  BY <1>3, <1>5, <1>6, <1>7, <1>8, <1>9, <1>10, <1>11 DEF IInv

-----------------------------------------------------------------------------
(* The end of a thread, and of a process.                                  *)

\* What the end of a thread keeps of the processes, and of those asleep on them.
FamilyKept ==
  /\ pstate' \in [Pid -> {"FREE", "ALIVE", "ZOMBIE"}]
  /\ parent' \in [Pid -> Pid \cup {NULL}]
  /\ children_list' \in [Pid -> SUBSET Pid] /\ exited_list' \in [Pid -> SUBSET Pid]
  /\ child_exit' \in [Pid -> SUBSET Thread]
  /\ FreeList' /\ Lists' /\ RootInv' /\ InitInv'
  /\ \A q \in Pid : child_exit'[q] \subseteq child_exit[q]
  /\ \A q \in Pid : \A s \in child_exit'[q] :
       IF target[s] = NOPROC
       THEN children_list'[q] # {} /\ exited_list'[q] = {}
       ELSE pstate'[target[s]] = "ALIVE" /\ parent'[target[s]] = q

\* Of a process's parent: it is another process, and alive.
LEMMA ParentLemma ==
  ASSUME Assumptions, IInv, NEW p \in Descendants
  PROVE  /\ p \in Pid /\ parent[p] \in Pid \ {p} /\ pstate[parent[p]] = "ALIVE"
         /\ p \in children_list[parent[p]] /\ pstate[INIT] = "ALIVE"
<1> USE Constants
<1>1. p \in Pid /\ p # INIT /\ pstate[p] # "FREE"
  BY DEF Descendants
<1>2. parent[p] \in Pid
  BY <1>1 DEF IInv, TypeOK, Lists
<1>3. parent[p] # p
  <2>1. {p} \in SUBSET Descendants /\ {p} # {}
    OBVIOUS
  <2> QED
    BY <2>1 DEF IInv, RootInv
<1>4. p \in children_list[parent[p]]
  BY <1>1, <1>2 DEF IInv, Lists
<1>5. pstate[parent[p]] = "ALIVE"
  BY <1>2, <1>4 DEF IInv, Lists
<1>6. pstate[INIT] = "ALIVE"
  BY DEF IInv, TypeOK, InitInv
<1> QED
  BY <1>1, <1>2, <1>3, <1>4, <1>5, <1>6

\* With no child of init there is no process but init.
LEMMA ChildlessLemma ==
  ASSUME Assumptions, IInv, children_list[INIT] = {}
  PROVE  Descendants = {}
<1>1. SUFFICES ASSUME Descendants # {} PROVE FALSE
  OBVIOUS
<1>2. PICK d \in Descendants : parent[d] \notin Descendants
  BY <1>1 DEF IInv, RootInv
<1>3. d \in Pid /\ parent[d] \in Pid /\ pstate[parent[d]] = "ALIVE"
      /\ d \in children_list[parent[d]]
  BY ParentLemma
<1>4. parent[d] = INIT
  BY <1>2, <1>3 DEF Descendants
<1> QED
  BY <1>3, <1>4

LEMMA InitEnds ==
  ASSUME Assumptions, IInv, children_list[INIT] = {}, child_exit[INIT] = {},
         pstate[INIT] = "ALIVE", pstate' = [pstate EXCEPT ![INIT] = "ZOMBIE"],
         UNCHANGED <<parent, children_list, exited_list, pcb_freelist, child_exit>>
  PROVE  FamilyKept
<1> USE Constants
<1>1. Descendants = {} /\ Descendants' = Descendants
  BY ChildlessLemma DEF IInv, TypeOK, Descendants
<1>2. pstate'[INIT] = "ZOMBIE" /\ \A q \in Pid \ {INIT} : pstate'[q] = pstate[q]
  BY DEF IInv, TypeOK
<1>3. FreeList'
  <2>1. Free' = Free
    BY <1>2 DEF Free
  <2> QED
    BY <2>1, FreeFrame DEF IInv
<1>4. Lists'
  <2>1. \A q \in Pid : INIT \notin children_list[q]
    BY DEF IInv, Lists
  <2>2. \A q \in Pid : children_list[q] = {c \in Pid : pstate'[c] # "FREE" /\ parent[c] = q}
    BY <1>2, <2>1 DEF IInv, Lists
  <2>3. \A q \in Pid : exited_list[q] = {c \in children_list[q] : pstate'[c] = "ZOMBIE"}
    BY <1>2, <2>1, <2>2 DEF IInv, Lists
  <2>4. \A q \in Pid : /\ pstate'[q] # "ALIVE" => children_list[q] = {}
                       /\ pstate'[q] # "FREE" => (parent[q] = NULL <=> q = INIT)
    BY <1>2 DEF IInv, Lists
  <2> QED
    BY <2>2, <2>3, <2>4 DEF Lists
<1>5. RootInv' /\ InitInv'
  BY <1>1, <1>2 DEF RootInv, InitInv
<1>6. ASSUME NEW q \in Pid, NEW s \in child_exit[q]
      PROVE  IF target[s] = NOPROC
             THEN children_list[q] # {} /\ exited_list[q] = {}
             ELSE pstate'[target[s]] = "ALIVE" /\ parent[target[s]] = q
  <2>1. s \in Thread
    BY DEF IInv, TypeOK
  <2>2. target[s] # NOPROC => target[s] \in Pid
    BY <2>1 DEF IInv, SleepInv, PlaceInv, Waiting
  <2>3. IF target[s] = NOPROC
        THEN children_list[q] # {} /\ exited_list[q] = {}
        ELSE pstate[target[s]] = "ALIVE" /\ parent[target[s]] = q
    BY DEF IInv, NoMissedExit
  <2>4. target[s] # INIT
    BY <2>3 DEF IInv, Lists
  <2> QED
    BY <1>2, <2>2, <2>3, <2>4
<1> QED
  BY <1>3, <1>4, <1>5, <1>6 DEF FamilyKept, IInv, TypeOK

LEMMA ProcessEnds ==
  ASSUME Assumptions, IInv, NEW p \in Pid \ {INIT}, pstate[p] = "ALIVE",
         child_exit[p] = {}, LeaveFamily(p),
         pstate' = [pstate EXCEPT ![p] = "ZOMBIE"], UNCHANGED pcb_freelist
  PROVE  FamilyKept
<1> USE Constants
<1>1. p \in Descendants
  BY DEF Descendants
<1>f. PICK f \in Pid : f = parent[p] /\ f # p /\ pstate[INIT] = "ALIVE"
  BY <1>1, ParentLemma
<1>2. /\ parent' = [c \in Pid |-> IF c \in children_list[p] THEN INIT ELSE parent[c]]
      /\ children_list' = [children_list EXCEPT ![INIT] = @ \cup children_list[p], ![p] = {}]
      /\ exited_list' = [[exited_list EXCEPT ![INIT] = @ \cup exited_list[p], ![p] = {}]
                           EXCEPT ![f] = @ \cup {p}]
      /\ child_exit' = [q \in Pid |-> IF q = f \/ (q = INIT /\ exited_list[p] # {})
                                      THEN {} ELSE child_exit[q]]
  BY <1>f DEF LeaveFamily, Adopted, Told
<1>3. /\ pstate' \in [Pid -> {"FREE", "ALIVE", "ZOMBIE"}]
      /\ parent' \in [Pid -> Pid \cup {NULL}]
      /\ children_list' \in [Pid -> SUBSET Pid] /\ exited_list' \in [Pid -> SUBSET Pid]
      /\ child_exit' \in [Pid -> SUBSET Thread]
  <2>1. children_list[p] \subseteq Pid /\ exited_list[p] \subseteq Pid
    BY DEF IInv, TypeOK
  <2> QED
    BY <1>2, <2>1 DEF IInv, TypeOK
<1>4. /\ pstate'[p] = "ZOMBIE"
      /\ \A q \in Pid \ {p} : pstate'[q] = pstate[q]
  BY DEF IInv, TypeOK
<1>5. ASSUME NEW q \in Pid
      PROVE  /\ parent'[q] = IF q \in children_list[p] THEN INIT ELSE parent[q]
             /\ children_list'[q] = IF q = p THEN {}
                                    ELSE IF q = INIT THEN children_list[q] \cup children_list[p]
                                    ELSE children_list[q]
             /\ exited_list'[q] = (IF q = p THEN {}
                                   ELSE IF q = INIT THEN exited_list[q] \cup exited_list[p]
                                   ELSE exited_list[q]) \cup (IF q = f THEN {p} ELSE {})
  <2>1. children_list'[q] = IF q = p THEN {}
                            ELSE IF q = INIT THEN children_list[q] \cup children_list[p]
                            ELSE children_list[q]
    BY <1>2 DEF IInv, TypeOK
  <2>2. exited_list'[q] = (IF q = p THEN {}
                           ELSE IF q = INIT THEN exited_list[q] \cup exited_list[p]
                           ELSE exited_list[q]) \cup (IF q = f THEN {p} ELSE {})
    BY <1>2, <1>f DEF IInv, TypeOK
  <2> QED
    BY <1>2, <2>1, <2>2
<1>6. ASSUME NEW q \in Pid
      PROVE  /\ children_list[q] = {c \in Pid : pstate[c] # "FREE" /\ parent[c] = q}
             /\ exited_list[q] = {c \in children_list[q] : pstate[c] = "ZOMBIE"}
             /\ pstate[q] # "ALIVE" => children_list[q] = {}
             /\ pstate[q] # "FREE" => (parent[q] = NULL <=> q = INIT)
  BY DEF IInv, Lists
<1>7. FreeList'
  <2>1. Free' = Free
    BY <1>4 DEF Free
  <2>2. \A q \in Free : parent'[q] = parent[q]
    BY <1>5, <1>6 DEF Free
  <2> QED
    BY <2>1, <2>2, FreeFrame DEF IInv
<1>8. Lists'
  <2>1. ASSUME NEW q \in Pid, NEW c \in Pid
        PROVE  /\ c \in children_list[q] <=> pstate[c] # "FREE" /\ parent[c] = q
               /\ c \in exited_list[q] <=> pstate[c] = "ZOMBIE" /\ parent[c] = q
    BY <1>6
  <2>2. ASSUME NEW q \in Pid, NEW c \in Pid
        PROVE  c \in children_list'[q] <=> pstate'[c] # "FREE" /\ parent'[c] = q
    <3>1. pstate'[c] # "FREE" <=> pstate[c] # "FREE"
      BY <1>4
    <3>2. c \in children_list'[q] <=>
            q # p /\ (c \in children_list[q] \/ (q = INIT /\ c \in children_list[p]))
      BY <1>5
    <3>3. c \in children_list[q] <=> pstate[c] # "FREE" /\ parent[c] = q
      BY <2>1
    <3>4. c \in children_list[p] <=> pstate[c] # "FREE" /\ parent[c] = p
      BY <2>1
    <3>5. parent'[c] = IF c \in children_list[p] THEN INIT ELSE parent[c]
      BY <1>5
    <3> QED
      BY <3>1, <3>2, <3>3, <3>4, <3>5
  <2>3. ASSUME NEW q \in Pid, NEW c \in Pid
        PROVE  c \in exited_list'[q] <=> c \in children_list'[q] /\ pstate'[c] = "ZOMBIE"
    <3>1. c \in exited_list'[q] <=>
            \/ q # p /\ (c \in exited_list[q] \/ (q = INIT /\ c \in exited_list[p]))
            \/ q = f /\ c = p
      BY <1>5
    <3>2. CASE c = p
      <4>1. p \notin exited_list[p] /\ p \notin exited_list[q]
        BY <2>1
      <4>2. p \in children_list'[q] <=> q = f
        <5>1. p \notin children_list[p]
          BY <1>f, <2>1
        <5> QED
          BY <1>f, <1>4, <1>5, <2>2, <5>1
      <4> QED
        BY <1>4, <3>1, <3>2, <4>1, <4>2
    <3>3. CASE c # p
      <4>1. pstate'[c] = pstate[c]
        BY <1>4, <3>3
      <4>2. c \in children_list'[q] <=>
              q # p /\ (c \in children_list[q] \/ (q = INIT /\ c \in children_list[p]))
        BY <1>5
      <4> QED
        BY <2>1, <3>1, <3>3, <4>1, <4>2
    <3> QED
      BY <3>2, <3>3
  <2>4. ASSUME NEW q \in Pid
        PROVE  /\ pstate'[q] # "ALIVE" => children_list'[q] = {}
               /\ pstate'[q] # "FREE" => (parent'[q] = NULL <=> q = INIT)
    <3>1. pstate'[q] # "ALIVE" => q = p \/ (q # INIT /\ pstate[q] # "ALIVE")
      BY <1>f, <1>4
    <3>2. pstate'[q] # "ALIVE" => children_list'[q] = {}
      BY <1>5, <1>6, <3>1
    <3>3. INIT \notin children_list[p]
      BY <1>6
    <3>4. pstate'[q] # "FREE" => (parent[q] = NULL <=> q = INIT)
      BY <1>4, <1>6
    <3>5. parent'[q] = IF q \in children_list[p] THEN INIT ELSE parent[q]
      BY <1>5
    <3> QED
      BY <3>2, <3>3, <3>4, <3>5
  <2>5. \A q \in Pid : /\ children_list'[q] = {c \in Pid : pstate'[c] # "FREE" /\ parent'[c] = q}
                       /\ exited_list'[q] = {c \in children_list'[q] : pstate'[c] = "ZOMBIE"}
    <3>1. \A q \in Pid : children_list'[q] \subseteq Pid /\ exited_list'[q] \subseteq Pid
      BY <1>3
    <3> QED
      BY <2>2, <2>3, <3>1
  <2> QED
    BY <2>4, <2>5 DEF Lists
<1>9. RootInv' /\ InitInv'
  <2>1. Descendants' = Descendants
    BY <1>4 DEF Descendants
  <2>2. ASSUME NEW S \in SUBSET Descendants, S # {}
        PROVE  \E d \in S : parent'[d] \notin S
    <3>1. PICK d \in S : parent[d] \notin S
      BY <2>2 DEF IInv, RootInv
    <3>2. d \in Pid /\ INIT \notin S
      BY DEF Descendants
    <3> QED
      BY <1>5, <3>1, <3>2
  <2> QED
    BY <1>f, <1>4, <2>1, <2>2 DEF RootInv, InitInv
<1>10. \A q \in Pid : child_exit'[q] \subseteq child_exit[q]
  BY <1>2
<1>11. ASSUME NEW q \in Pid, NEW s \in child_exit'[q]
       PROVE  IF target[s] = NOPROC
              THEN children_list'[q] # {} /\ exited_list'[q] = {}
              ELSE pstate'[target[s]] = "ALIVE" /\ parent'[target[s]] = q
  <2>1. s \in child_exit[q] /\ s \in Thread /\ q # f /\ q # p
        /\ (q = INIT => exited_list[p] = {})
    BY <1>2, <1>10 DEF IInv, TypeOK
  <2>2. target[s] # NOPROC => target[s] \in Pid
    BY <2>1 DEF IInv, SleepInv, PlaceInv, Waiting
  <2>3. IF target[s] = NOPROC
        THEN children_list[q] # {} /\ exited_list[q] = {}
        ELSE pstate[target[s]] = "ALIVE" /\ parent[target[s]] = q
    BY <2>1 DEF IInv, NoMissedExit
  <2>4. CASE target[s] = NOPROC
    BY <1>5, <2>1, <2>3, <2>4
  <2>5. CASE target[s] # NOPROC
    BY <1>f, <1>4, <1>5, <1>6, <2>1, <2>2, <2>3, <2>5
  <2> QED
    BY <2>4, <2>5
<1> QED
  BY <1>3, <1>7, <1>8, <1>9, <1>10, <1>11 DEF FamilyKept

\* Of a process whose last thread this is, no thread sleeps.
LEMMA LastLemma ==
  ASSUME Assumptions, IInv, NEW t \in Thread, NEW p \in Pid, owner_pcb[t] = p,
         Awake(t), owner_pcb' = [owner_pcb EXCEPT ![t] = NULL]
  PROVE  /\ t \in ThreadsOf(p) /\ ThreadsOf(p)' = ThreadsOf(p) \ {t}
         /\ \A q \in Pid \ {p} : ThreadsOf(q)' = ThreadsOf(q)
         /\ Cardinality(ThreadsOf(p)') = threadCounter[p] - 1 /\ threadCounter[p] - 1 \in Nat
         /\ LastThread(p) <=> ThreadsOf(p)' = {}
         /\ LastThread(p) => child_exit[p] = {}
<1> USE Constants
<1>1. t \in ThreadsOf(p) /\ ThreadsOf(p)' = ThreadsOf(p) \ {t}
      /\ \A q \in Pid \ {p} : ThreadsOf(q)' = ThreadsOf(q)
  BY DEF IInv, TypeOK, ThreadsOf
<1>2. ThreadsOf(p) \in SUBSET Thread /\ ThreadsOf(p)' \in SUBSET Thread
  BY DEF ThreadsOf
<1>3. Cardinality(ThreadsOf(p)') = Cardinality(ThreadsOf(p)) - 1
  BY <1>1, <1>2, FiniteThreads, FS_RemoveElement
<1>4. threadCounter[p] = Cardinality(ThreadsOf(p))
  BY DEF IInv, Threads
<1>5. /\ Cardinality(ThreadsOf(p)') \in Nat
      /\ Cardinality(ThreadsOf(p)') = 0 <=> ThreadsOf(p)' = {}
  BY <1>2, FiniteThreads
<1>6. LastThread(p) <=> ThreadsOf(p)' = {}
  BY <1>3, <1>4, <1>5 DEF LastThread
<1>7. ASSUME LastThread(p), NEW s \in child_exit[p]
      PROVE  FALSE
  <2>1. s \in Thread /\ owner_pcb[s] = p
    BY DEF IInv, TypeOK, SleepInv
  <2>2. s = t
    BY <1>1, <1>6, <1>7, <2>1 DEF ThreadsOf
  <2> QED
    BY <2>2 DEF Awake
<1> QED
  BY <1>1, <1>3, <1>4, <1>5, <1>6, <1>7

LEMMA LeaveKeeps ==
  ASSUME Assumptions, IInv, NEW t \in Thread, Leave(t), pc[t] \in {"user", "collect"},
         Awake(t), kernel \in {NULL, t},
         owner_pcb[t] = INIT => threadCounter[INIT] > 1 \/ children_list[INIT] = {}
  PROVE  IInv'
<1> USE Constants
<1>p. PICK p \in Pid : p = owner_pcb[t] /\ pstate[p] = "ALIVE" /\ allocated[t] /\ ~exited[t]
  BY OwnerLemma
<1>1. /\ exited' = [exited EXCEPT ![t] = TRUE]
      /\ threadCounter' = [threadCounter EXCEPT ![p] = @ - 1]
      /\ exit_cv' = IF refcount[t] # 0 THEN [exit_cv EXCEPT ![t] = {}] ELSE exit_cv
      /\ owner_pcb' = [owner_pcb EXCEPT ![t] = NULL]
      /\ pc' = [pc EXCEPT ![t] = "none"]
      /\ kernel' = NULL
      /\ target' = [target EXCEPT ![t] = NULL]
      /\ UNCHANGED <<PTCB_List, pcb_freelist, allocated, detached, refcount>>
      /\ IF LastThread(p) /\ p # INIT
         THEN LeaveFamily(p)
         ELSE UNCHANGED <<parent, children_list, exited_list, child_exit>>
      /\ pstate' = IF LastThread(p) THEN [pstate EXCEPT ![p] = "ZOMBIE"] ELSE pstate
  BY <1>p DEF Leave, To
<1>2. /\ t \in ThreadsOf(p) /\ ThreadsOf(p)' = ThreadsOf(p) \ {t}
      /\ \A q \in Pid \ {p} : ThreadsOf(q)' = ThreadsOf(q)
      /\ Cardinality(ThreadsOf(p)') = threadCounter[p] - 1 /\ threadCounter[p] - 1 \in Nat
      /\ LastThread(p) <=> ThreadsOf(p)' = {}
      /\ LastThread(p) => child_exit[p] = {}
  <2>1. owner_pcb' = [owner_pcb EXCEPT ![t] = NULL] /\ owner_pcb[t] = p
    BY <1>p, <1>1
  <2> HIDE DEF Leave
  <2> QED
    BY <2>1, LastLemma
<1>3. FamilyKept
  <2>1. CASE LastThread(p) /\ p # INIT
    BY <1>p, <1>1, <1>2, <2>1, ProcessEnds
  <2>2. CASE LastThread(p) /\ p = INIT
    <3>1. children_list[INIT] = {}
      BY <1>p, <2>2 DEF LastThread, IInv, TypeOK
    <3> QED
      BY <1>p, <1>1, <1>2, <2>2, <3>1, InitEnds
  <2>3. CASE ~LastThread(p)
    <3>1. UNCHANGED <<family, child_exit>>
      BY <1>1, <2>3 DEF family
    <3>2. FreeList' /\ Lists' /\ RootInv' /\ InitInv'
      BY <3>1, FamilyFrame
    <3> QED
      BY <3>1, <3>2 DEF FamilyKept, IInv, TypeOK, NoMissedExit, family
  <2> QED
    BY <2>1, <2>2, <2>3
<1>4. exit_cv' = [exit_cv EXCEPT ![t] = {}]
  <2>1. refcount[t] = 0 => exit_cv[t] = {}
    <3>1. refcount[t] = Cardinality(Joiners(t))
      BY <1>p DEF IInv, PTCBLifetime
    <3>2. refcount[t] = 0 => Joiners(t) = {}
      BY <3>1, FiniteJoiners
    <3> QED
      BY <3>2 DEF IInv, TypeOK, SleepInv, Joiners
  <2>2. exit_cv[t] = {} => exit_cv = [exit_cv EXCEPT ![t] = {}]
    BY DEF IInv, TypeOK
  <2> QED
    BY <1>1, <2>1, <2>2
<1>5. TypeOK'
  <2>1. threadCounter' \in [Pid -> Nat]
    BY <1>1, <1>2 DEF IInv, TypeOK
  <2> QED
    BY <1>1, <1>3, <1>4, <2>1 DEF FamilyKept, IInv, TypeOK
<1>6. Threads'
  <2>1. ASSUME NEW q \in Pid
        PROVE  threadCounter'[q] = Cardinality(ThreadsOf(q)')
    <3>1. threadCounter'[p] = threadCounter[p] - 1
      BY <1>1 DEF IInv, TypeOK
    <3>2. q # p => threadCounter'[q] = threadCounter[q]
      BY <1>1 DEF IInv, TypeOK
    <3>3. threadCounter[q] = Cardinality(ThreadsOf(q))
      BY DEF IInv, Threads
    <3> QED
      BY <1>2, <3>1, <3>2, <3>3
  <2>2. ASSUME NEW q \in Pid
        PROVE  pstate'[q] = "ALIVE" <=> ThreadsOf(q)' # {}
    <3>1. q # p => pstate'[q] = pstate[q]
      BY <1>1 DEF IInv, TypeOK
    <3>2. pstate'[p] = IF LastThread(p) THEN "ZOMBIE" ELSE pstate[p]
      BY <1>1 DEF IInv, TypeOK
    <3>3. pstate[q] = "ALIVE" <=> ThreadsOf(q) # {}
      BY DEF IInv, Threads
    <3> QED
      BY <1>p, <1>2, <3>1, <3>2, <3>3
  <2>3. ASSUME NEW s \in Thread, pc'[s] # "none"
        PROVE  allocated'[s] /\ ~exited'[s]
    BY <1>1, <2>3 DEF IInv, TypeOK, Threads
  <2> QED
    BY <2>1, <2>2, <2>3 DEF Threads
<1>7. PTCBLifetime'
  <2>1. \A u \in Thread : Joiners(u)' = Joiners(u)
    BY <1>1 DEF IInv, TypeOK, Joiners
  <2>2. \A s \in Thread \ {t} : owner_pcb'[s] = owner_pcb[s] /\ exited'[s] = exited[s]
    BY <1>1 DEF IInv, TypeOK
  <2>3. exited'[t]
    BY <1>1 DEF IInv, TypeOK
  <2>4. \A u \in Thread : t \notin Joiners(u) /\ Joiners(u) \subseteq Thread
    BY DEF Joiners
  <2> QED
    BY <1>1, <2>1, <2>2, <2>3, <2>4 DEF IInv, PTCBLifetime
<1>8. NoMissedExit'
  <2>1. \A u \in Thread : exit_cv'[u] # {} => ~exited'[u] /\ ~detached'[u]
    BY <1>1, <1>4 DEF IInv, TypeOK, NoMissedExit
  <2>2. ASSUME NEW q \in Pid, NEW s \in child_exit'[q]
        PROVE  target'[s] = target[s]
    BY <1>1, <1>3, <2>2 DEF FamilyKept, Awake, IInv, TypeOK
  <2> QED
    BY <1>3, <2>1, <2>2 DEF FamilyKept, NoMissedExit
<1>9. PlaceInv'
  BY <1>1 DEF IInv, TypeOK, PlaceInv
<1>10. SleepInv'
  <2>1. \A q \in Pid : child_exit'[q] \subseteq child_exit[q]
    BY <1>3 DEF FamilyKept
  <2>2. \A u \in Thread : exit_cv'[u] \subseteq exit_cv[u]
    BY <1>4 DEF IInv, TypeOK
  <2>3. \A s \in Thread \ {t} :
          pc'[s] = pc[s] /\ target'[s] = target[s] /\ owner_pcb'[s] = owner_pcb[s]
    BY <1>1 DEF IInv, TypeOK
  <2>4. kernel' = NULL
    BY <1>1
  <2> QED
    BY <2>1, <2>2, <2>3, <2>4 DEF IInv, SleepInv, Awake
<1>11. WaitInv'
  <2>1. \A s \in Thread \ {t} :
          pc'[s] = pc[s] /\ target'[s] = target[s] /\ owner_pcb'[s] = owner_pcb[s]
    BY <1>1 DEF IInv, TypeOK
  <2>2. pc'[t] = "none"
    BY <1>1 DEF IInv, TypeOK
  <2>3. ASSUME NEW s \in Thread, pc'[s] = "wait", target'[s] # NOPROC
        PROVE  pstate'[target'[s]] # "FREE" /\ parent'[target'[s]] = owner_pcb'[s]
    <3>1. s # t /\ pc[s] = "wait" /\ target'[s] = target[s] /\ owner_pcb'[s] = owner_pcb[s]
      BY <2>1, <2>2, <2>3
    <3>2. /\ target[s] \in Pid /\ pstate[target[s]] # "FREE"
          /\ parent[target[s]] = owner_pcb[s] /\ owner_pcb[s] \in Pid
      BY <2>3, <3>1, OwnerLemma DEF IInv, PlaceInv, WaitInv
    <3>3. pstate'[target[s]] # "FREE"
      BY <1>1, <3>2 DEF IInv, TypeOK
    <3>4. parent'[target[s]] = parent[target[s]]
      <4>1. CASE LastThread(p) /\ p # INIT
        <5>1. owner_pcb[s] # p
          BY <1>2, <3>1, <4>1 DEF ThreadsOf
        <5>2. target[s] \notin children_list[p]
          BY <3>2, <5>1 DEF IInv, Lists
        <5> QED
          BY <1>1, <3>2, <4>1, <5>2 DEF LeaveFamily, Adopted
      <4>2. CASE ~(LastThread(p) /\ p # INIT)
        BY <1>1, <4>2
      <4> QED
        BY <4>1, <4>2
    <3> QED
      BY <3>1, <3>2, <3>3, <3>4
  <2> QED
    BY <2>1, <2>2, <2>3 DEF IInv, WaitInv, Waiting
<1> QED
  BY <1>3, <1>5, <1>6, <1>7, <1>8, <1>9, <1>10, <1>11 DEF FamilyKept, IInv

\* A thread that leaves is awake, and the last of init leaves no child.
Leaves(t) ==
  /\ Leave(t) /\ pc[t] \in {"user", "collect"} /\ Awake(t) /\ kernel \in {NULL, t}
  /\ owner_pcb[t] = INIT => threadCounter[INIT] > 1 \/ children_list[INIT] = {}

LEMMA LeavesLemma ==
  ASSUME Assumptions, IInv, NEW t \in Thread,
         \/ LeavesFamily(t) /\ ThreadExit(t)
         \/ owner_pcb[t] # INIT /\ Exit(t)
         \/ Collected(t)
  PROVE  Leaves(t)
<1>1. CASE LeavesFamily(t) /\ ThreadExit(t)
  BY <1>1, UserLemma DEF Leaves, LeavesFamily, ThreadExit, Calls
<1>2. CASE owner_pcb[t] # INIT /\ Exit(t)
  BY <1>2, UserLemma DEF Leaves, Exit, Calls
<1>3. CASE Collected(t)
  BY <1>3 DEF Leaves, Collected, IInv, SleepInv
<1> QED
  BY <1>1, <1>2, <1>3

\* The steps, each under the guards that Next puts before it.
LEMMA NextCases ==
  ASSUME Assumptions, IInv, [Next]_vars
  PROVE  \/ UNCHANGED vars
         \/ \E t, u \in Thread : CreateThread(t, u) \/ ThreadJoin(t, u) \/ ThreadDetach(t, u)
         \/ \E t, u \in Thread : Exec(t, u)
         \/ \E t \in Thread : \/ Wakeup(t) \/ JoinWait(t) \/ JoinEnd(t)
                              \/ ChildWait(t) \/ NoChild(t)
         \/ \E t \in Thread, c \in Pid \cup {NOPROC} : WaitsApart(t, c) /\ WaitChild(t, c)
         \/ \E t \in Thread : WaitsApart(t, NOPROC) /\ Exit(t) /\ owner_pcb[t] = INIT
         \/ \E t \in Thread, c \in Pid : ChildEnd(t, c)
         \/ \E t \in Thread : Leaves(t)
<1>1. CASE UNCHANGED vars \/ Quiet
  BY <1>1 DEF Quiet
<1>2. CASE \E t, u \in Thread :
             CreateThread(t, u) \/ Exec(t, u) \/ ThreadJoin(t, u) \/ ThreadDetach(t, u)
  BY <1>2
<1>3. ASSUME NEW t \in Thread, Waits(t) \/ Wakeup(t) \/ Inside(t)
      PROVE  \/ Wakeup(t) \/ JoinWait(t) \/ JoinEnd(t) \/ ChildWait(t) \/ NoChild(t)
             \/ \E c \in Pid \cup {NOPROC} : WaitsApart(t, c) /\ WaitChild(t, c)
             \/ \E c \in Pid : ChildEnd(t, c)
             \/ Leaves(t)
  BY <1>3, LeavesLemma DEF Waits, Inside
<1>4. ASSUME NEW t \in Thread, Exits(t)
      PROVE  Leaves(t) \/ (WaitsApart(t, NOPROC) /\ Exit(t) /\ owner_pcb[t] = INIT)
  BY <1>4, LeavesLemma DEF Exits
<1> QED
  BY <1>1, <1>2, <1>3, <1>4 DEF Next

LEMMA StepLemma ==
  ASSUME Assumptions, IInv, [Next]_vars
  PROVE  IInv'
<1>1. CASE UNCHANGED vars
  <2>1. FreeList' /\ Lists' /\ RootInv' /\ InitInv'
    BY <1>1, FamilyFrame DEF vars
  <2>2. Threads' /\ PTCBLifetime'
    BY <1>1, ThreadsFrame, PTCBFrame DEF vars, family, ptcb, Joiners
  <2>3. TypeOK' /\ NoMissedExit'
    BY <1>1 DEF IInv, TypeOK, NoMissedExit, vars, family, ptcb
  <2>4. PlaceInv' /\ SleepInv' /\ WaitInv'
    BY <1>1 DEF IInv, PlaceInv, SleepInv, Awake, WaitInv, vars, family
  <2> QED
    BY <2>1, <2>2, <2>3, <2>4 DEF IInv
<1>2. CASE \E t, u \in Thread : CreateThread(t, u) \/ ThreadJoin(t, u) \/ ThreadDetach(t, u)
  BY <1>2, CreateThreadKeeps, ThreadJoinKeeps, ThreadDetachKeeps
<1>3. CASE \E t, u \in Thread : Exec(t, u)
  BY <1>3, ExecKeeps
<1>4. CASE \E t \in Thread : \/ Wakeup(t) \/ JoinWait(t) \/ JoinEnd(t)
                             \/ ChildWait(t) \/ NoChild(t)
  BY <1>4, WakeupKeeps, JoinWaitKeeps, JoinEndKeeps, ChildWaitKeeps, NoChildKeeps
<1>5. CASE \E t \in Thread, c \in Pid \cup {NOPROC} : WaitsApart(t, c) /\ WaitChild(t, c)
  BY <1>5, WaitChildKeeps
<1>6. CASE \E t \in Thread : WaitsApart(t, NOPROC) /\ Exit(t) /\ owner_pcb[t] = INIT
  BY <1>6, ExitWaitsKeeps
<1>7. CASE \E t \in Thread, c \in Pid : ChildEnd(t, c)
  BY <1>7, ChildEndKeeps
<1>8. CASE \E t \in Thread : Leaves(t)
  BY <1>8, LeaveKeeps DEF Leaves
<1> QED
  BY <1>1, <1>2, <1>3, <1>4, <1>5, <1>6, <1>7, <1>8, NextCases

-----------------------------------------------------------------------------
(* The theorems.                                                           *)

\* Every system call of kernel_proc.c and kernel_threads.c keeps the invariant.
THEOREM ProcessInvariant ==
  ASSUME Assumptions
  PROVE  Spec => []IInv
<1>1. Init => IInv
  BY InitLemma
<1>2. IInv /\ [Next]_vars => IInv'
  BY StepLemma
<1> QED
  BY <1>1, <1>2, PTL DEF Spec

\* acquire_PCB, release_PCB, sys_Exec, sys_Exit and cleanup_zombie keep the free
\* list whole, and the lists of children and zombies true to parent and pstate.
THEOREM FamilyHolds ==
  ASSUME Assumptions
  PROVE  Spec => []Family
<1>1. IInv => Family
  BY DEF IInv, Family
<1> QED
  BY <1>1, ProcessInvariant, PTL

\* thread_count counts the threads of a process, which lives as long as it has any;
\* and ref_count counts the joiners of a PTCB, which sys_ThreadJoin frees after the
\* last of them.
THEOREM ThreadsAreCounted ==
  ASSUME Assumptions
  PROVE  Spec => []ThreadsCounted
<1>1. IInv => ThreadsCounted
  BY DEF IInv, ThreadsCounted
<1> QED
  BY <1>1, ProcessInvariant, PTL

\* sys_ThreadExit, sys_ThreadDetach and sys_Exit wake everyone who waits for what
\* they do: nobody stays asleep on an exit_cv or a child_exit that is due.
THEOREM NoExitMissed ==
  ASSUME Assumptions
  PROVE  Spec => []NoMissedExit
<1>1. IInv => NoMissedExit
  BY DEF IInv
<1> QED
  BY <1>1, ProcessInvariant, PTL

-----------------------------------------------------------------------------
(* The tree of processes.                                                  *)

LEMMA TreeInit ==
  ASSUME Assumptions, Init
  PROVE  Tree!Init
BY Constants DEF Init, Tree!Init

LEMMA ExecBegins ==
  ASSUME Assumptions, IInv, NEW t \in Thread, NEW u \in Thread, Exec(t, u)
  PROVE  Tree!Next
<1> USE Constants
<1>c. PICK curproc \in Pid : curproc = owner_pcb[t] /\ pstate[curproc] = "ALIVE"
  BY UserLemma DEF Exec, Calls
<1>n. PICK newproc \in Pid : newproc = pcb_freelist /\ pstate[newproc] = "FREE"
  BY FreeHead DEF Exec
<1>1. /\ pstate' = [pstate EXCEPT ![newproc] = "ALIVE"]
      /\ parent' = [parent EXCEPT ![newproc] = curproc]
  BY <1>c, <1>n DEF Exec
<1>2. Tree!Begin(curproc, newproc)
  BY <1>c, <1>n, <1>1 DEF Tree!Begin, IInv, TypeOK
<1> QED
  BY <1>2 DEF Tree!Next

LEMMA ChildEndCollects ==
  ASSUME Assumptions, IInv, NEW t \in Thread, NEW c \in Pid, ChildEnd(t, c)
  PROVE  Tree!Next
<1> USE Constants
<1>1. /\ pstate[c] = "ZOMBIE" /\ c # INIT /\ parent[c] \in Pid
      /\ pstate[parent[c]] = "ALIVE"
  BY ZombieLemma, ParentLemma DEF Descendants
<1>2. /\ pstate' = [pstate EXCEPT ![c] = "FREE"]
      /\ parent' = [parent EXCEPT ![c] = pcb_freelist]
  BY DEF ChildEnd, cleanup_zombie, release_PCB
<1>3. Tree!Collect(c)
  BY <1>1, <1>2 DEF Tree!Collect, IInv, TypeOK
<1> QED
  BY <1>3 DEF Tree!Next

LEMMA LeaveEnds ==
  ASSUME Assumptions, IInv, NEW t \in Thread, Leaves(t)
  PROVE  Tree!Next \/ UNCHANGED Tree!vars
<1> USE Constants
<1>p. PICK p \in Pid : p = owner_pcb[t] /\ pstate[p] = "ALIVE"
  BY OwnerLemma DEF Leaves
<1>0. Leave(t)
  BY DEF Leaves
<1>1. /\ IF LastThread(p) /\ p # INIT THEN LeaveFamily(p) ELSE UNCHANGED parent
      /\ pstate' = IF LastThread(p) THEN [pstate EXCEPT ![p] = "ZOMBIE"] ELSE pstate
  BY <1>p, <1>0 DEF Leave
<1>2. CASE LastThread(p)
  <2>1. Tree!Children(p) = children_list[p]
    BY DEF Tree!Children, IInv, Lists
  <2>2. p = INIT => children_list[INIT] = {}
    BY <1>p, <1>2 DEF Leaves, LastThread, IInv, TypeOK
  <2>3. \A c \in Pid : parent'[c] = IF c \in children_list[p] THEN INIT ELSE parent[c]
    BY <1>1, <1>2, <2>2 DEF LeaveFamily, Adopted
  <2>4. \A c \in Pid : pstate'[c] = "FREE" <=> pstate[c] = "FREE"
    BY <1>p, <1>1, <1>2 DEF IInv, TypeOK
  <2>5. \A c \in children_list[p] : pstate[c] # "FREE"
    BY DEF IInv, Lists
  <2>6. Tree!End(p)
    BY <1>p, <1>1, <1>2, <2>1, <2>2, <2>3, <2>4, <2>5 DEF Tree!End
  <2> QED
    BY <2>6 DEF Tree!Next
<1>3. CASE ~LastThread(p)
  BY <1>1, <1>3 DEF Tree!vars
<1> QED
  BY <1>2, <1>3

LEMMA TreeStep ==
  ASSUME Assumptions, IInv, [Next]_vars
  PROVE  [Tree!Next]_(Tree!vars)
<1>1. CASE UNCHANGED <<pstate, parent>>
  BY <1>1 DEF Tree!vars
<1>2. CASE \E t, u \in Thread : CreateThread(t, u) \/ ThreadJoin(t, u) \/ ThreadDetach(t, u)
  BY <1>1, <1>2 DEF CreateThread, ThreadJoin, ThreadDetach, family
<1>3. CASE \E t, u \in Thread : Exec(t, u)
  BY <1>3, ExecBegins
<1>4. CASE \E t \in Thread : \/ Wakeup(t) \/ JoinWait(t) \/ JoinEnd(t)
                             \/ ChildWait(t) \/ NoChild(t)
  BY <1>1, <1>4 DEF Wakeup, JoinWait, JoinEnd, ChildWait, NoChild, family
<1>5. CASE \E t \in Thread, c \in Pid \cup {NOPROC} : WaitsApart(t, c) /\ WaitChild(t, c)
  BY <1>1, <1>5 DEF WaitChild, family
<1>6. CASE \E t \in Thread : WaitsApart(t, NOPROC) /\ Exit(t) /\ owner_pcb[t] = INIT
  BY <1>1, <1>6 DEF Exit, family
<1>7. CASE \E t \in Thread, c \in Pid : ChildEnd(t, c)
  BY <1>7, ChildEndCollects
<1>8. CASE \E t \in Thread : Leaves(t)
  BY <1>8, LeaveEnds
<1>9. CASE UNCHANGED vars
  BY <1>1, <1>9 DEF vars, family
<1> QED
  BY <1>2, <1>3, <1>4, <1>5, <1>6, <1>7, <1>8, <1>9, NextCases

\* sys_Exec, sys_Exit and cleanup_zombie implement the tree of processes that
\* tinyos.h promises: one life at a time, orphans to init, every zombie collected
\* once, by its parent.
THEOREM TreeRefinement ==
  ASSUME Assumptions
  PROVE  Spec => RefinesTree
<1>1. Init => Tree!Init
  BY TreeInit
<1>2. IInv /\ [Next]_vars => [Tree!Next]_(Tree!vars)
  BY TreeStep
<1> QED
  BY <1>1, <1>2, ProcessInvariant, PTL DEF Spec, RefinesTree, Tree!Spec

=============================================================================
