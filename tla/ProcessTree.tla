----------------------------- MODULE ProcessTree -----------------------------
(***************************************************************************)
(* What tinyos.h promises of processes: a tree of them, rooted at init.  A *)
(* process has one life at a time; it ends as a zombie and leaves its      *)
(* children, zombies too, to init; a zombie is collected once, by its      *)
(* parent, and then its pid is free again.                                 *)
(***************************************************************************)
EXTENDS FiniteSets

CONSTANTS
  Pid,
  INIT,      \* the pid of the initial process
  NULL

VARIABLES
  state,     \* of each pid: "FREE", "ALIVE" or "ZOMBIE"
  parent     \* of each pid in use

vars == <<state, parent>>

Init ==
  /\ state = [p \in Pid |-> IF p = INIT THEN "ALIVE" ELSE "FREE"]
  /\ parent = [p \in Pid |-> NULL]

Children(p) == {c \in Pid : state[c] # "FREE" /\ parent[c] = p}

Begin(p, child) ==
  /\ state[p] = "ALIVE" /\ state[child] = "FREE"
  /\ state' = [state EXCEPT ![child] = "ALIVE"]
  /\ parent' = [parent EXCEPT ![child] = p]

\* init ends last of all.
End(p) ==
  /\ state[p] = "ALIVE"
  /\ p = INIT => Children(p) = {}
  /\ state' = [state EXCEPT ![p] = "ZOMBIE"]
  /\ parent' = [c \in Pid |-> IF c \in Children(p) THEN INIT ELSE parent[c]]

Collect(child) ==
  /\ state[child] = "ZOMBIE" /\ child # INIT
  /\ state[parent[child]] = "ALIVE"
  /\ state' = [state EXCEPT ![child] = "FREE"]
  /\ parent' = [parent EXCEPT ![child] = NULL]

Next == \E p \in Pid : End(p) \/ Collect(p) \/ \E child \in Pid : Begin(p, child)

Spec == Init /\ [][Next]_vars

=============================================================================
