------------------------------- MODULE Symposium -------------------------------
(***************************************************************************)
(* The dining philosophers of symposium.c: a monitor with one condition    *)
(* variable per philosopher, and the host that makes the table, starts the *)
(* philosophers (threads or processes), waits for them and frees it.       *)
(*                                                                         *)
(* What a philosopher does under mx, up to Cond_Wait or Mutex_Unlock, is   *)
(* one step.  seat[i] is where philosopher i is:                           *)
(*                                                                         *)
(*   "none"     not started                                                *)
(*   "arrive"   before the first Mutex_Lock                                *)
(*   "think"    before a bite (or before leaving, when there is none left) *)
(*   "wait"     in Cond_Wait                                               *)
(*   "awake"    signalled, and about to take mx                            *)
(*   "eat"      after the assertion                                        *)
(*   "exit"     gone                                                       *)
(***************************************************************************)
EXTENDS Integers, FiniteSets

CONSTANTS N, bites

SymposiumAssumption == N \in Nat \ {0} /\ bites \in Nat

Phil == 0 .. N - 1

LEFT(i)  == (i + 1) % N
RIGHT(i) == (i + N - 1) % N

VARIABLES
  state,      \* of the table: "NOTHERE", "THINKING", "HUNGRY", "EATING"
  seat,
  bitten,     \* j, how often each has eaten
  host        \* how many philosophers the host has waited for; -1 once freed

symposiumVars == <<state, seat, bitten, host>>

\* SymposiumTable_init
Init ==
  /\ state = [i \in Phil |-> "NOTHERE"]
  /\ seat = [i \in Phil |-> "none"]
  /\ bitten = [i \in Phil |-> 0]
  /\ host = 0

-----------------------------------------------------------------------------
CanEat(s, i) ==
  s[i] = "HUNGRY" /\ s[LEFT(i)] # "EATING" /\ s[RIGHT(i)] # "EATING"

\* trytoeat, of a table
trytoeat(s, i) == IF CanEat(s, i) THEN [s EXCEPT ![i] = "EATING"] ELSE s

\* Its Cond_Signal, for those who were not eating and now are.
Signalled(new, moved) ==
  [i \in Phil |-> IF moved[i] = "wait" /\ new[i] = "EATING" /\ state[i] # "EATING"
                  THEN "awake" ELSE moved[i]]

\* Exec, which fails when the process table is full, and nobody tests it
Begin(i) ==
  /\ seat[i] = "none" /\ \A j \in Phil : j < i => seat[j] # "none"
  /\ \E next \in {"arrive", "exit"} : seat' = [seat EXCEPT ![i] = next]
  /\ UNCHANGED <<state, bitten, host>>

Arrive(i) ==
  /\ seat[i] = "arrive"
  /\ state' = [state EXCEPT ![i] = "THINKING"]
  /\ seat' = [seat EXCEPT ![i] = "think"]
  /\ UNCHANGED <<bitten, host>>

Hungry(i) ==
  /\ seat[i] = "think" /\ bitten[i] < bites
  /\ state' = trytoeat([state EXCEPT ![i] = "HUNGRY"], i)
  /\ seat' = [seat EXCEPT ![i] = IF state'[i] = "HUNGRY" THEN "wait" ELSE "eat"]
  /\ UNCHANGED <<bitten, host>>

\* Cond_Wait returns with mx.
Awakes(i) ==
  /\ seat[i] = "awake"
  /\ seat' = [seat EXCEPT ![i] = IF state[i] = "HUNGRY" THEN "wait" ELSE "eat"]
  /\ UNCHANGED <<state, bitten, host>>

AfterEating_Left(s, i) == trytoeat(s, LEFT(i))

AfterEating(s, i) == trytoeat(trytoeat(s, LEFT(i)), RIGHT(i))

Think(i) ==
  /\ seat[i] = "eat"
  /\ state' = AfterEating([state EXCEPT ![i] = "THINKING"], i)
  /\ seat' = Signalled(state', [seat EXCEPT ![i] = "think"])
  /\ bitten' = [bitten EXCEPT ![i] = @ + 1]
  /\ UNCHANGED host

Leave(i) ==
  /\ seat[i] = "think" /\ bitten[i] = bites
  /\ state' = [state EXCEPT ![i] = "NOTHERE"]
  /\ seat' = [seat EXCEPT ![i] = "exit"]
  /\ UNCHANGED <<bitten, host>>

-----------------------------------------------------------------------------
\* ThreadJoin(thread[i]) waits for the i-th, WaitChild(NOPROC) for anyone.
Joined == Cardinality({i \in Phil : seat[i] = "exit"}) > host

Join ==
  /\ \A i \in Phil : seat[i] # "none"
  /\ host \in 0 .. N - 1 /\ Joined
  /\ host' = host + 1
  /\ UNCHANGED <<state, seat, bitten>>

\* SymposiumTable_destroy
Destroy ==
  /\ host = N
  /\ host' = -1
  /\ UNCHANGED <<state, seat, bitten>>

Over == host = -1 /\ UNCHANGED symposiumVars

Step(i) == Arrive(i) \/ Hungry(i) \/ Awakes(i) \/ Think(i) \/ Leave(i)

Next == (\E i \in Phil : Begin(i) \/ Step(i)) \/ Join \/ Destroy \/ Over

\* The scheduler runs every philosopher, and mx is free again and again: nobody
\* waits with it.
Fairness ==
  /\ \A i \in Phil : WF_symposiumVars(Begin(i)) /\ WF_symposiumVars(Step(i))
  /\ WF_symposiumVars(Join) /\ WF_symposiumVars(Destroy)

Spec == Init /\ [][Next]_symposiumVars /\ Fairness

-----------------------------------------------------------------------------
TypeOK ==
  /\ state \in [Phil -> {"NOTHERE", "THINKING", "HUNGRY", "EATING"}]
  /\ seat \in [Phil -> {"none", "arrive", "think", "wait", "awake", "eat", "exit"}]
  /\ bitten \in [Phil -> 0 .. bites] /\ host \in -1 .. N

\* Neighbours do not eat together, and the assertion of symposium.c:113 holds.
Forks ==
  \A i \in Phil :
    /\ state[i] = "EATING" /\ N > 1 => state[LEFT(i)] # "EATING"
    /\ seat[i] \in {"awake", "eat"} => state[i] = "EATING"

\* Nobody waits for a signal that will not come: a philosopher asleep has a
\* neighbour who eats, and who will try for him (symposium.c:121-122).
HungryHasCause ==
  \A i \in Phil : seat[i] = "wait" =>
    \E j \in {LEFT(i), RIGHT(i)} : state[j] = "EATING"

\* The host frees the table when nobody uses it (symposium.c:192, 228).
FreedLast == host = -1 => \A i \in Phil : seat[i] = "exit"

\* Everybody eats all his bites, and the symposium ends.
Ends == <>(host = -1)

=============================================================================
