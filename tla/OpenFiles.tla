------------------------------ MODULE OpenFiles ------------------------------
(***************************************************************************)
(* What tinyos.h promises of file ids.  A file id of a process names a     *)
(* stream; several of them, of one process or of many, may name the same   *)
(* one.  New streams take the lowest file ids that are free, a child       *)
(* inherits the file ids of its parent, and a stream is closed when no     *)
(* file id names it and no Read or Write uses it: then, and only then.     *)
(***************************************************************************)
EXTENDS Integers, FiniteSets, Sequences

CONSTANTS
  Process, Thread, owner, Fid, Stream,
  NULL

VARIABLES
  file,      \* file[p][fid]: the stream that fid names in process p
  using,     \* the stream that the call of each thread uses
  open       \* the streams that have not been closed

vars == <<file, using, open>>

Named(f, u) ==
  {s \in Stream : \/ \E p \in Process, fid \in Fid : f[p][fid] = s
                  \/ \E t \in Thread : u[t] = s}

Init ==
  /\ file = [p \in Process |-> [fid \in Fid |-> NULL]]
  /\ using = [t \in Thread |-> NULL]
  /\ open = {}

Unused(p) == {fid \in Fid : file[p][fid] = NULL}

\* File ids of p come to name the streams of a sequence, in order.
Open(p, streams) ==
  /\ \A i \in DOMAIN streams : streams[i] \notin open
  /\ \E fid \in [DOMAIN streams -> Unused(p)] :
       /\ \A i \in DOMAIN streams :
            Cardinality({g \in Unused(p) : g < fid[i]}) = i - 1
       /\ file' = [file EXCEPT ![p] =
            [g \in Fid |-> IF \E i \in DOMAIN streams : fid[i] = g
                           THEN streams[CHOOSE i \in DOMAIN streams : fid[i] = g]
                           ELSE @[g]]]
  /\ UNCHANGED using

Close(p, fid) ==
  /\ file' = [file EXCEPT ![p][fid] = NULL]
  /\ UNCHANGED using

Dup2(p, oldfid, newfid) ==
  /\ file[p][oldfid] # NULL
  /\ file' = [file EXCEPT ![p][newfid] = file[p][oldfid]]
  /\ UNCHANGED using

Begin(t, fid) ==
  /\ using[t] = NULL
  /\ using' = [using EXCEPT ![t] = file[owner[t]][fid]]
  /\ UNCHANGED file

End(t) ==
  /\ using' = [using EXCEPT ![t] = NULL]
  /\ UNCHANGED file

Inherit(p, child) ==
  /\ file' = [file EXCEPT ![child] = file[p]]
  /\ UNCHANGED using

CloseAll(p) ==
  /\ file' = [file EXCEPT ![p] = [fid \in Fid |-> NULL]]
  /\ UNCHANGED using

Next ==
  /\ \/ \E p \in Process, s \in Stream :
          Open(p, <<s>>) \/ \E r \in Stream \ {s} : Open(p, <<r, s>>)
     \/ \E p \in Process, fid \in Fid :
          Close(p, fid) \/ \E newfid \in Fid : Dup2(p, fid, newfid)
     \/ \E t \in Thread : End(t) \/ \E fid \in Fid : Begin(t, fid)
     \/ \E p, q \in Process : Inherit(p, q)
     \/ \E p \in Process : CloseAll(p)
  /\ open' = Named(file', using')

Spec == Init /\ [][Next]_vars

=============================================================================
