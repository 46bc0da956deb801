------------------------------- MODULE Process -------------------------------
(***************************************************************************)
(* Processes and their threads: kernel_proc.c and kernel_threads.c.        *)
(*                                                                         *)
(* A PCB is a pid; the `parent' of a FREE one links the free list.  A      *)
(* thread is its PTCB, with the TCB while there is one.  The lists of PCBs *)
(* and PTCBs are sets: which exited child WaitChild finds first is left    *)
(* open.  pid 0, the idle process, has no threads and never ends.          *)
(*                                                                         *)
(* System calls run under the kernel lock, as in KernelMonitor: `kernel'   *)
(* is the thread inside.  A call that never waits is one step, the others  *)
(* go on from pc[t]:                                                       *)
(*   "join"      in the loop of sys_ThreadJoin                             *)
(*   "wait"      in sys_WaitChild                                          *)
(*   "collect"   in the loop of sys_Exit, when init exits                  *)
(* and pc[t] is "none" for a thread without a TCB.  Calls that only return *)
(* an error change nothing and are left out.                               *)
(***************************************************************************)
EXTENDS Integers, FiniteSets

CONSTANTS
  MAX_PROC,
  Thread,
  SharesChildren,     \* whether two threads of a process wait for the same child
  NULL

ProcessAssumption ==
  /\ MAX_PROC \in Nat /\ MAX_PROC >= 2
  /\ IsFiniteSet(Thread) /\ SharesChildren \in BOOLEAN
  /\ NULL \notin Thread /\ NULL \notin Int

VARIABLES
  pstate, parent, children_list, exited_list, threadCounter, PTCB_List,
  pcb_freelist,
  child_exit,    \* of each process, the threads asleep on it
  allocated, exited, detached, refcount,
  exit_cv,       \* of each PTCB, the threads asleep on it
  owner_pcb,
  kernel, pc,
  target         \* the thread or the child that a call waits for

family == <<pstate, parent, children_list, exited_list, pcb_freelist>>
ptcb   == <<allocated, exited, detached, refcount>>
vars   == <<family, threadCounter, PTCB_List, child_exit, ptcb,
            exit_cv, owner_pcb, kernel, pc, target>>

Pid    == 1 .. MAX_PROC - 1
INIT   == 1
NOPROC == -1

\* initialize_processes and the boot: init runs on its main thread, and the
\* other PCBs are in the free list, in order.
Init ==
  /\ pstate = [p \in Pid |-> IF p = INIT THEN "ALIVE" ELSE "FREE"]
  /\ parent = [p \in Pid |-> IF p = INIT \/ p + 1 = MAX_PROC THEN NULL ELSE p + 1]
  /\ pcb_freelist = IF MAX_PROC = 2 THEN NULL ELSE 2
  /\ children_list = [p \in Pid |-> {}] /\ exited_list = [p \in Pid |-> {}]
  /\ child_exit = [p \in Pid |-> {}]
  /\ threadCounter = [p \in Pid |-> IF p = INIT THEN 1 ELSE 0]
  /\ exited = [u \in Thread |-> FALSE] /\ detached = [u \in Thread |-> FALSE]
  /\ refcount = [u \in Thread |-> 0] /\ exit_cv = [u \in Thread |-> {}]
  /\ \E main \in Thread :
       /\ PTCB_List = [p \in Pid |-> IF p = INIT THEN {main} ELSE {}]
       /\ allocated = [u \in Thread |-> u = main]
       /\ owner_pcb = [t \in Thread |-> IF t = main THEN INIT ELSE NULL]
       /\ pc = [t \in Thread |-> IF t = main THEN "user" ELSE "none"]
  /\ kernel = NULL
  /\ target = [t \in Thread |-> NULL]

To(t, next) == pc' = [pc EXCEPT ![t] = next]

\* A call that does not wait, by thread t of process owner_pcb[t].
Calls(t) == kernel = NULL /\ pc[t] = "user"

\* A call that may wait enters the kernel.
Enter(t, next, what) ==
  /\ kernel' = t
  /\ To(t, next)
  /\ target' = [target EXCEPT ![t] = what]

\* It returns to its thread, ...
Return(t) ==
  /\ kernel' = NULL
  /\ To(t, "user")
  /\ target' = [target EXCEPT ![t] = NULL]

\* ... or comes back from kernel_wait.
Wakeup(t) ==
  /\ kernel = NULL
  /\ pc[t] \in {"join", "wait", "collect"}
  /\ \A p \in Pid : t \notin child_exit[p]
  /\ \A u \in Thread : t \notin exit_cv[u]
  /\ kernel' = t
  /\ UNCHANGED <<family, threadCounter, PTCB_List, child_exit, ptcb,
                 exit_cv, owner_pcb, pc, target>>

-----------------------------------------------------------------------------
(* New threads and processes.                                              *)

\* A TCB for process p and its PTCB, which takes the place of a freed one.
NewThread(u, p) ==
  /\ ~allocated[u] /\ pc[u] = "none"
  /\ allocated' = [allocated EXCEPT ![u] = TRUE]
  /\ exited' = [exited EXCEPT ![u] = FALSE]
  /\ detached' = [detached EXCEPT ![u] = FALSE]
  /\ refcount' = [refcount EXCEPT ![u] = 0]
  /\ exit_cv' = [exit_cv EXCEPT ![u] = {}]
  /\ owner_pcb' = [owner_pcb EXCEPT ![u] = p]
  /\ PTCB_List' = [PTCB_List EXCEPT ![p] = @ \cup {u}]
  /\ threadCounter' = [threadCounter EXCEPT ![p] = @ + 1]
  /\ To(u, "user")

CreateThread(t, u) ==
  /\ Calls(t)
  /\ NewThread(u, owner_pcb[t])
  /\ UNCHANGED <<family, child_exit, kernel, target>>

\* Exec finds a free PCB: acquire_PCB.
Exec(t, u) ==
  LET newproc == pcb_freelist
      curproc == owner_pcb[t]
  IN
  /\ Calls(t)
  /\ newproc # NULL
  /\ pcb_freelist' = parent[newproc]
  /\ pstate' = [pstate EXCEPT ![newproc] = "ALIVE"]
  /\ parent' = [parent EXCEPT ![newproc] = curproc]
  /\ children_list' = [children_list EXCEPT ![curproc] = @ \cup {newproc}]
  /\ NewThread(u, newproc)
  /\ UNCHANGED <<exited_list, child_exit, kernel, target>>

-----------------------------------------------------------------------------
(* sys_ThreadJoin and sys_ThreadDetach.                                    *)

Joined(u) == [refcount EXCEPT ![u] = @ + 1]

ThreadJoin(t, u) ==
  /\ Calls(t)
  /\ u \in PTCB_List[owner_pcb[t]] /\ ~detached[u] /\ u # t
  /\ refcount' = Joined(u)
  /\ Enter(t, "join", u)
  /\ UNCHANGED <<family, threadCounter, PTCB_List, child_exit,
                 allocated, exited, detached, exit_cv, owner_pcb>>

JoinWait(t) ==
  LET u == target[t]
  IN
  /\ kernel = t /\ pc[t] = "join"
  /\ ~detached[u] /\ ~exited[u]
  /\ exit_cv' = [exit_cv EXCEPT ![u] = @ \cup {t}]
  /\ kernel' = NULL
  /\ UNCHANGED <<family, threadCounter, PTCB_List, child_exit, ptcb,
                 owner_pcb, pc, target>>

\* The last joiner frees the PTCB of a thread that has exited.
LastJoiner_Any(u) == TRUE

LastJoiner(u) == refcount[u] = 1

JoinEnd(t) ==
  LET u == target[t]
      free == ~detached[u] /\ LastJoiner(u)
  IN
  /\ kernel = t /\ pc[t] = "join"
  /\ detached[u] \/ exited[u]
  /\ refcount' = [refcount EXCEPT ![u] = @ - 1]
  /\ allocated' = [allocated EXCEPT ![u] = ~free]
  /\ PTCB_List' = [p \in Pid |-> IF free THEN PTCB_List[p] \ {u} ELSE PTCB_List[p]]
  /\ Return(t)
  /\ UNCHANGED <<family, threadCounter, child_exit, exited, detached,
                 exit_cv, owner_pcb>>

\* kernel_broadcast(&ptcb->exit_cv) in sys_ThreadDetach.
DetachBroadcast_Never(u) == exit_cv[u]

DetachBroadcast(u) == {}

ThreadDetach(t, u) ==
  /\ Calls(t)
  /\ u \in PTCB_List[owner_pcb[t]] /\ ~exited[u]
  /\ detached' = [detached EXCEPT ![u] = TRUE]
  /\ exit_cv' = [exit_cv EXCEPT ![u] = DetachBroadcast(u)]
  /\ UNCHANGED <<family, threadCounter, PTCB_List, child_exit,
                 allocated, exited, refcount, owner_pcb, kernel, pc, target>>

-----------------------------------------------------------------------------
(* sys_WaitChild, which is also the loop of sys_Exit in init.              *)

WaitChild(t, c) ==
  /\ Calls(t)
  /\ IF c = NOPROC THEN children_list[owner_pcb[t]] # {}
                   ELSE pstate[c] # "FREE" /\ parent[c] = owner_pcb[t]
  /\ Enter(t, "wait", c)
  /\ UNCHANGED <<family, threadCounter, PTCB_List, child_exit, ptcb,
                 exit_cv, owner_pcb>>

\* The child, or the children, that thread t waits for are alive.
Blocked(t) ==
  LET p == owner_pcb[t]
  IN  IF target[t] = NOPROC THEN children_list[p] # {} /\ exited_list[p] = {}
                            ELSE pstate[target[t]] = "ALIVE"

ChildWait(t) ==
  /\ kernel = t /\ pc[t] \in {"wait", "collect"}
  /\ Blocked(t)
  /\ child_exit' = [child_exit EXCEPT ![owner_pcb[t]] = @ \cup {t}]
  /\ kernel' = NULL
  /\ UNCHANGED <<family, threadCounter, PTCB_List, ptcb, exit_cv,
                 owner_pcb, pc, target>>

\* cleanup_zombie takes a child off its lists and frees its PCB.
Unlisted_Kept(list, c) == list

Unlisted(list, c) == [p \in Pid |-> list[p] \ {c}]

release_PCB(c) ==
  /\ pstate' = [pstate EXCEPT ![c] = "FREE"]
  /\ parent' = [parent EXCEPT ![c] = pcb_freelist]
  /\ pcb_freelist' = c

cleanup_zombie(c) ==
  /\ children_list' = Unlisted(children_list, c)
  /\ exited_list' = Unlisted(exited_list, c)
  /\ release_PCB(c)

ChildEnd(t, c) ==
  /\ kernel = t /\ pc[t] \in {"wait", "collect"}
  /\ ~Blocked(t)
  /\ IF target[t] = NOPROC THEN c \in exited_list[owner_pcb[t]] ELSE c = target[t]
  /\ cleanup_zombie(c)
  /\ IF pc[t] = "wait" THEN Return(t) ELSE UNCHANGED <<kernel, pc, target>>
  /\ UNCHANGED <<threadCounter, PTCB_List, child_exit, ptcb, exit_cv,
                 owner_pcb>>

\* Another thread has collected the last child.
NoChild(t) ==
  /\ kernel = t /\ pc[t] = "wait"
  /\ target[t] = NOPROC /\ children_list[owner_pcb[t]] = {}
  /\ Return(t)
  /\ UNCHANGED <<family, threadCounter, PTCB_List, child_exit, ptcb,
                 exit_cv, owner_pcb>>

-----------------------------------------------------------------------------
(* sys_ThreadExit and sys_Exit.                                            *)

\* The processes whose child_exit is broadcast at the end of p.
Told_Parent(p) == {parent[p]}

Told(p) == {parent[p]} \cup (IF exited_list[p] # {} THEN {INIT} ELSE {})

\* Its children are left to init.
Adopted_Not(p) == parent

Adopted(p) == [c \in Pid |-> IF c \in children_list[p] THEN INIT ELSE parent[c]]

\* The end of process p, other than init, at the end of its last thread.
LeaveFamily(p) ==
  LET heir == [children_list EXCEPT ![INIT] = @ \cup children_list[p], ![p] = {}]
      left == [exited_list EXCEPT ![INIT] = @ \cup exited_list[p], ![p] = {}]
  IN
  /\ parent' = Adopted(p)
  /\ children_list' = heir
  /\ exited_list' = [left EXCEPT ![parent[p]] = @ \cup {p}]
  /\ child_exit' = [q \in Pid |-> IF q \in Told(p) THEN {} ELSE child_exit[q]]

LastThread(p) == threadCounter[p] - 1 = 0

\* sys_ThreadExit, which does not return.
Leave(t) ==
  LET p == owner_pcb[t]
  IN
  /\ exited' = [exited EXCEPT ![t] = TRUE]
  /\ threadCounter' = [threadCounter EXCEPT ![p] = @ - 1]
  /\ exit_cv' = IF refcount[t] # 0 THEN [exit_cv EXCEPT ![t] = {}] ELSE exit_cv
  /\ IF LastThread(p) /\ p # INIT
     THEN LeaveFamily(p)
     ELSE UNCHANGED <<parent, children_list, exited_list, child_exit>>
  /\ pstate' = IF LastThread(p) THEN [pstate EXCEPT ![p] = "ZOMBIE"] ELSE pstate
  /\ owner_pcb' = [owner_pcb EXCEPT ![t] = NULL]
  /\ To(t, "none")
  /\ kernel' = NULL
  /\ target' = [target EXCEPT ![t] = NULL]
  /\ UNCHANGED <<PTCB_List, pcb_freelist, allocated, detached, refcount>>

ThreadExit(t) ==
  /\ Calls(t)
  /\ Leave(t)

\* init collects its children first.
Exit(t) ==
  LET p == owner_pcb[t]
  IN
  /\ Calls(t)
  /\ IF p = INIT
     THEN /\ Enter(t, "collect", NOPROC)
          /\ UNCHANGED <<family, threadCounter, PTCB_List, child_exit, ptcb,
                         exit_cv, owner_pcb>>
     ELSE Leave(t)

Collected(t) ==
  /\ kernel = t /\ pc[t] = "collect"
  /\ children_list[INIT] = {}
  /\ Leave(t)

-----------------------------------------------------------------------------
\* Nobody in the kernel is awake, and no thread makes another call.
Quiet ==
  /\ kernel = NULL
  /\ \A t \in Thread :
       \/ pc[t] \in {"none", "user"}
       \/ \E p \in Pid : t \in child_exit[p]
       \/ \E u \in Thread : t \in exit_cv[u]
  /\ UNCHANGED vars

\* How programs use these calls.  Two threads do not wait for one child, unless
\* SharesChildren, ...
WaitsApart(t, c) ==
  SharesChildren \/
  \A u \in Thread \ {t} :
    pc[u] \in {"wait", "collect"} /\ owner_pcb[u] = owner_pcb[t] =>
      IF c = NOPROC THEN target[u] = NOPROC ELSE target[u] \notin {c, NOPROC}

\* ... and the last thread of init leaves through Exit.
LeavesFamily(t) == owner_pcb[t] # INIT \/ threadCounter[INIT] > 1

Waits(t) ==
  \E c \in Pid \cup {NOPROC} : WaitsApart(t, c) /\ WaitChild(t, c)

Exits(t) ==
  \/ LeavesFamily(t) /\ ThreadExit(t)
  \/ (owner_pcb[t] = INIT => WaitsApart(t, NOPROC)) /\ Exit(t)

\* What a thread in the kernel does.
Inside(t) ==
  \/ JoinWait(t) \/ JoinEnd(t)
  \/ ChildWait(t) \/ (\E c \in Pid : ChildEnd(t, c)) \/ NoChild(t)
  \/ Collected(t)

Next ==
  \/ \E t, u \in Thread :
       CreateThread(t, u) \/ Exec(t, u) \/ ThreadJoin(t, u) \/ ThreadDetach(t, u)
  \/ \E t \in Thread : Waits(t) \/ Exits(t) \/ Wakeup(t) \/ Inside(t)
  \/ Quiet

Spec == Init /\ [][Next]_vars

\* A thread in the kernel runs on, and one that is awake and finds the kernel
\* free again and again gets in.
Fairness == \A t \in Thread : WF_vars(Inside(t)) /\ SF_vars(Wakeup(t))

-----------------------------------------------------------------------------
TypeOK ==
  /\ pstate \in [Pid -> {"FREE", "ALIVE", "ZOMBIE"}]
  /\ parent \in [Pid -> Pid \cup {NULL}]
  /\ children_list \in [Pid -> SUBSET Pid] /\ exited_list \in [Pid -> SUBSET Pid]
  /\ threadCounter \in [Pid -> Nat]
  /\ PTCB_List \in [Pid -> SUBSET Thread]
  /\ pcb_freelist \in Pid \cup {NULL}
  /\ child_exit \in [Pid -> SUBSET Thread]
  /\ allocated \in [Thread -> BOOLEAN] /\ exited \in [Thread -> BOOLEAN]
  /\ detached \in [Thread -> BOOLEAN] /\ refcount \in [Thread -> Nat]
  /\ exit_cv \in [Thread -> SUBSET Thread]
  /\ owner_pcb \in [Thread -> Pid \cup {NULL}]
  /\ kernel \in Thread \cup {NULL}
  /\ pc \in [Thread -> {"none", "user", "join", "wait", "collect"}]
  /\ target \in [Thread -> Thread \cup Pid \cup {NOPROC, NULL}]

Free == {p \in Pid : pstate[p] = "FREE"}

\* The links from pcb_freelist on, in the order of list.
Links(list, n) ==
  /\ pcb_freelist = IF n = 0 THEN NULL ELSE list[1]
  /\ \A i \in 1 .. n : parent[list[i]] = IF i = n THEN NULL ELSE list[i + 1]

\* The free list visits every FREE PCB once, and ends.
FreeList ==
  LET size == Cardinality(Free)
  IN  \E list \in [1 .. size -> Free] :
        /\ Links(list, size)
        /\ \A i, j \in 1 .. size : list[i] = list[j] => i = j
        /\ \A p \in Free : \E i \in 1 .. size : list[i] = p

\* The lists of a process hold its children and its zombies, whoever they were
\* born to; and only a process that is alive has any.
Lists ==
  \A p \in Pid :
    /\ children_list[p] = {c \in Pid : pstate[c] # "FREE" /\ parent[c] = p}
    /\ exited_list[p] = {c \in children_list[p] : pstate[c] = "ZOMBIE"}
    /\ pstate[p] # "ALIVE" => children_list[p] = {}
    /\ pstate[p] # "FREE" => (parent[p] = NULL <=> p = INIT)

Family == TypeOK /\ FreeList /\ Lists

\* A process is alive while it has threads, and threadCounter counts them.
ThreadsOf(p) == {t \in Thread : owner_pcb[t] = p}

Threads ==
  /\ \A p \in Pid : /\ threadCounter[p] = Cardinality(ThreadsOf(p))
                    /\ pstate[p] = "ALIVE" <=> ThreadsOf(p) # {}
  /\ \A t \in Thread : pc[t] # "none" => allocated[t] /\ ~exited[t]

\* A PTCB lives as long as it is listed, and that is until its thread and all
\* its joiners are done with it; refcount says how many joiners there are.
Joiners(u) == {t \in Thread : pc[t] = "join" /\ target[t] = u}

PTCBLifetime ==
  \A u \in Thread :
    /\ allocated[u] <=> \E p \in Pid : u \in PTCB_List[p]
    /\ allocated[u] => refcount[u] = Cardinality(Joiners(u))
    /\ \A t \in Joiners(u) : u \in PTCB_List[owner_pcb[t]]
    /\ \A p \in Pid : u \in PTCB_List[p] /\ ~exited[u] => owner_pcb[u] = p

ThreadsCounted == Threads /\ PTCBLifetime

\* Nobody sleeps beside what they wait for: a joiner whose thread has exited or
\* was detached, or a parent whose child has exited or is nobody's any more.
NoMissedExit ==
  /\ \A u \in Thread : exit_cv[u] # {} => ~exited[u] /\ ~detached[u]
  /\ \A p \in Pid : \A t \in child_exit[p] :
       IF target[t] = NOPROC
       THEN children_list[p] # {} /\ exited_list[p] = {}
       ELSE pstate[target[t]] = "ALIVE" /\ parent[target[t]] = p

\* A join ends once the thread has exited or was detached; and init, when it
\* exits, collects every zombie that is left to it.
JoinReturns ==
  \A t, u \in Thread :
    pc[t] = "join" /\ target[t] = u /\ (exited[u] \/ detached[u]) ~> pc[t] = "user"

Collecting == \E t \in Thread : pc[t] = "collect"

InitCollects ==
  \A c \in Pid :
    (pstate[c] = "ZOMBIE" /\ parent[c] = INIT /\ Collecting) ~> pstate[c] = "FREE"

-----------------------------------------------------------------------------
(* Refinement: processes form a tree.                                      *)

Tree == INSTANCE ProcessTree WITH
  state  <- pstate,
  parent <- [p \in Pid |-> IF pstate[p] = "FREE" THEN NULL ELSE parent[p]]

\* Exec, the end of a last thread and cleanup_zombie implement the tree.
RefinesTree == Tree!Spec

=============================================================================
