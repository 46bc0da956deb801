--------------------------------- MODULE Barrier ---------------------------------
(***************************************************************************)
(* BarrierSync of tinyoslib.c: n threads that meet again and again at one  *)
(* barrier, the way join_threads of validate_api.c uses it.                *)
(*                                                                         *)
(* The function runs with mx, except in Cond_Wait, and each stretch of it  *)
(* is one step.  A thread that has been woken may find that the others are *)
(* at the barrier again: it goes by its own copy of the epoch.             *)
(***************************************************************************)
EXTENDS Integers, FiniteSets

CONSTANTS
  Party,          \* the threads that meet
  n,              \* the argument
  MaxRounds,      \* a bound: how often they meet
  EpochSize       \* epoch is an unsigned integer of a machine word

BarrierAssumption ==
  /\ IsFiniteSet(Party) /\ n \in Nat \ {0}
  /\ MaxRounds \in Nat /\ EpochSize \in Nat \ {0, 1}

VARIABLES
  bar_count, bar_epoch,     \* of the barrier
  step,                     \* "out", "wait" (in Cond_Wait), "awake"
  my_epoch,                 \* the local epoch
  met                       \* how many calls of each thread have returned

barrierVars == <<bar_count, bar_epoch, step, my_epoch, met>>

\* BARRIER_INIT
Init ==
  /\ bar_count = 0 /\ bar_epoch = 0
  /\ step = [t \in Party |-> "out"]
  /\ my_epoch = [t \in Party |-> 0]
  /\ met = [t \in Party |-> 0]

Complete == bar_count + 1 = n

Broadcast == [t \in Party |-> IF step[t] = "wait" THEN "awake" ELSE step[t]]

\* The last one passes without waiting ...
Last(t) ==
  /\ step[t] = "out" /\ met[t] < MaxRounds
  /\ Complete
  /\ bar_epoch' = (bar_epoch + 1) % EpochSize
  /\ bar_count' = 0
  /\ step' = Broadcast
  /\ met' = [met EXCEPT ![t] = @ + 1]
  /\ UNCHANGED my_epoch

\* ... for which the others wait.
Arrive(t) ==
  /\ step[t] = "out" /\ met[t] < MaxRounds
  /\ ~Complete
  /\ bar_count' = bar_count + 1
  /\ my_epoch' = [my_epoch EXCEPT ![t] = bar_epoch]
  /\ step' = [step EXCEPT ![t] = "wait"]
  /\ UNCHANGED <<bar_epoch, met>>

Passed_Counted(t) == bar_count = 0

\* the test of the loop
Passed(t) == my_epoch[t] # bar_epoch

Wakes(t) ==
  /\ step[t] = "awake"
  /\ IF Passed(t)
     THEN step' = [step EXCEPT ![t] = "out"] /\ met' = [met EXCEPT ![t] = @ + 1]
     ELSE step' = [step EXCEPT ![t] = "wait"] /\ UNCHANGED met
  /\ UNCHANGED <<bar_count, bar_epoch, my_epoch>>

Idle == (\A t \in Party : met[t] = MaxRounds) /\ UNCHANGED barrierVars

Next == (\E t \in Party : Last(t) \/ Arrive(t) \/ Wakes(t)) \/ Idle

Fairness == \A t \in Party : WF_barrierVars(Last(t) \/ Arrive(t) \/ Wakes(t))

Spec == Init /\ [][Next]_barrierVars /\ Fairness

-----------------------------------------------------------------------------
TypeOK ==
  /\ bar_count \in 0 .. n - 1 /\ bar_epoch \in 0 .. EpochSize - 1
  /\ step \in [Party -> {"out", "wait", "awake"}]
  /\ my_epoch \in [Party -> 0 .. EpochSize - 1]
  /\ met \in [Party -> 0 .. MaxRounds]

\* A barrier: whoever returns from his k-th call knows that all have made theirs,
\* and the assertion of tinyoslib.c:178 holds.
Meets ==
  \A t, u \in Party :
    met[t] > met[u] => /\ met[t] = met[u] + 1
                       /\ step[u] # "out" /\ my_epoch[u] # bar_epoch

\* Nobody stays at the barrier.
AllPass == <>(\A t \in Party : met[t] = MaxRounds)

=============================================================================
