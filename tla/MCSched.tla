------------------------------ MODULE MCSched ------------------------------
(* Instances of Sched for TLC. *)
EXTENDS Sched

CONSTANTS t1, t2, t3, c1, c2

OneCore      == {c1}
TwoCores     == {c1, c2}
OneThread    == {t1}
TwoThreads   == {t1, t2}
ThreeThreads == {t1, t2, t3}

\* t1 is the init thread and the cores differ in nothing but their names.
SpareThreads == Permutations(ThreeThreads \ {t1}) \cup Permutations(TwoCores)

=============================================================================
