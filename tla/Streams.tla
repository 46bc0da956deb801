------------------------------- MODULE Streams -------------------------------
(***************************************************************************)
(* Streams and file ids: kernel_streams.c, with what sys_Exec and the end  *)
(* of a process do to the file ids of a process.                           *)
(*                                                                         *)
(* The table FT holds MAX_FILES FCBs.  One that no file id and no call     *)
(* refers to is in FCB_freelist; refcount counts the references to the     *)
(* others, whose streamobj is a stream: the end of a pipe, a device, a     *)
(* socket, a process info.  `open' holds the streams whose Close has not   *)
(* been called.                                                            *)
(*                                                                         *)
(* System calls run under the kernel lock, so each is a step, except Read  *)
(* and Write, which may wait in the stream: fcb[t] is the FCB that the     *)
(* call of thread t holds meanwhile.  Calls that fail before they change   *)
(* anything are left out.                                                  *)
(***************************************************************************)
EXTENDS Integers, FiniteSets, Sequences, SequencesExt

CONSTANTS
  Process, Thread,
  owner,           \* the process of each thread
  InitProcess,     \* the one that boot starts
  MAX_FILEID, MAX_FILES,
  Stream,
  NULL

StreamsAssumption ==
  /\ IsFiniteSet(Process) /\ IsFiniteSet(Thread)
  /\ owner \in [Thread -> Process]
  /\ InitProcess \in Process
  /\ MAX_FILEID \in Nat /\ MAX_FILES \in Nat
  /\ NULL \notin Int /\ NULL \notin Stream

VARIABLES
  alive,
  FIDT,            \* FIDT[p][fid]: an FCB, or NULL
  refcount, streamobj, FCB_freelist,
  fcb,
  open

vars == <<alive, FIDT, refcount, streamobj, FCB_freelist, fcb, open>>

Fid == 0 .. MAX_FILEID - 1
FT  == 1 .. MAX_FILES

\* initialize_files
Init ==
  /\ alive = [p \in Process |-> p = InitProcess]
  /\ FIDT = [p \in Process |-> [fid \in Fid |-> NULL]]
  /\ refcount = [f \in FT |-> 0]
  /\ streamobj = [f \in FT |-> NULL]
  /\ FCB_freelist = [f \in FT |-> f]
  /\ fcb = [t \in Thread |-> NULL]
  /\ open = {}

-----------------------------------------------------------------------------
(* FCBs.                                                                   *)

FreeFids(p) == {fid \in Fid : FIDT[p][fid] = NULL}

\* The i-th of a set of file ids, from the lowest.
Nth(fids, i) == CHOOSE fid \in fids : Cardinality({g \in fids : g < fid}) = i - 1

NthFree_Same(p, i) ==
  CHOOSE fid \in FreeFids(p) : \A g \in FreeFids(p) : fid <= g

NthFree(p, i) == Nth(FreeFids(p), i)

At(s, x) == CHOOSE i \in DOMAIN s : s[i] = x

\* acquire_FCB, num times, gives the first FCBs of the free list.
Acquired(num) == SubSeq(FCB_freelist, 1, num)

\* FCB_reserve, and the stream that its caller puts in each FCB.
FCB_reserve(p, streams) ==
  LET num == Len(streams)
      fid == [i \in 1 .. num |-> NthFree(p, i)]
      fcbs == Acquired(num)
  IN
  /\ num <= Cardinality(FreeFids(p)) /\ num <= Len(FCB_freelist)
  /\ FCB_freelist' = SubSeq(FCB_freelist, num + 1, Len(FCB_freelist))
  /\ FIDT' = [FIDT EXCEPT ![p] =
       [g \in Fid |-> IF g \in Range(fid) THEN fcbs[At(fid, g)] ELSE @[g]]]
  /\ refcount' = [f \in FT |-> IF f \in Range(fcbs) THEN 1 ELSE refcount[f]]
  /\ streamobj' = [f \in FT |-> IF f \in Range(fcbs) THEN streams[At(fcbs, f)]
                                ELSE streamobj[f]]

\* It has found the file ids, takes the FCBs there are, and gives them back
\* from the last to the first.
RolledBack(list) == Reverse(list)

ReserveFails(p, num) ==
  /\ alive[p]
  /\ num <= Cardinality(FreeFids(p)) /\ num > Len(FCB_freelist)
  /\ FCB_freelist' = RolledBack(FCB_freelist)
  /\ refcount' = [f \in FT |-> IF f \in Range(FCB_freelist) THEN 0 ELSE refcount[f]]
  /\ UNCHANGED <<alive, FIDT, streamobj, fcb, open>>

\* The callers of FCB_reserve: a device, a socket, a process info, or a pipe.
Open(p, streams) ==
  /\ alive[p]
  /\ \A i \in DOMAIN streams : streams[i] \notin open
  /\ FCB_reserve(p, streams)
  /\ open' = open \cup {streams[i] : i \in DOMAIN streams}
  /\ UNCHANGED <<alive, fcb>>

\* open_stream reserves, device_open fails, and FCB_unreserve takes the file id
\* and the FCB back, but leaves its reference.
Unreserved_Lost(f) == Tail(FCB_freelist)

Unreserved(f) == Append(Tail(FCB_freelist), f)

OpenFails(p) ==
  /\ alive[p]
  /\ FreeFids(p) # {} /\ FCB_freelist # <<>>
  /\ FCB_freelist' = Unreserved(Head(FCB_freelist))
  /\ refcount' = [refcount EXCEPT ![Head(FCB_freelist)] = 1]
  /\ UNCHANGED <<alive, FIDT, streamobj, fcb, open>>

\* FCB_decref takes away gone[f] references to each FCB.
Dropped(refs, gone) == [f \in FT |-> refs[f] - gone[f]]

\* The FCBs that lose the last one are closed and released, in order.
Drop(last) ==
  /\ FCB_freelist' = FCB_freelist \o last
  /\ open' = open \ {streamobj[last[i]] : i \in DOMAIN last}

\* One reference to f is lost.
LastOne(f) == IF f # NULL /\ refcount[f] = 1 THEN <<f>> ELSE <<>>

One(g) == [f \in FT |-> IF f = g THEN 1 ELSE 0]

None == [f \in FT |-> 0]

-----------------------------------------------------------------------------
(* The calls on a stream.                                                  *)

Incref(f) == [refcount EXCEPT ![f] = @ + 1]

\* sys_Read or sys_Write, up to the call of the stream, ...
Begin(t, fid) ==
  LET f == FIDT[owner[t]][fid]
  IN
  /\ alive[owner[t]] /\ fcb[t] = NULL
  /\ f # NULL
  /\ refcount' = Incref(f)
  /\ fcb' = [fcb EXCEPT ![t] = f]
  /\ UNCHANGED <<alive, FIDT, streamobj, FCB_freelist, open>>

\* ... and from there on.
End(t) ==
  /\ fcb[t] # NULL
  /\ Drop(LastOne(fcb[t]))
  /\ refcount' = Dropped(refcount, One(fcb[t]))
  /\ fcb' = [fcb EXCEPT ![t] = NULL]
  /\ UNCHANGED <<alive, FIDT, streamobj>>

Close(p, fid) ==
  LET f == FIDT[p][fid]
  IN
  /\ alive[p] /\ f # NULL
  /\ FIDT' = [FIDT EXCEPT ![p][fid] = NULL]
  /\ Drop(LastOne(f))
  /\ refcount' = Dropped(refcount, One(f))
  /\ UNCHANGED <<alive, streamobj, fcb>>

\* The file that newfid named is closed first.
Replaced(f) == IF f = NULL THEN None ELSE One(f)

Dup2(p, oldfid, newfid) ==
  LET old == FIDT[p][oldfid]
      new == FIDT[p][newfid]
  IN
  /\ alive[p] /\ old # NULL /\ old # new
  /\ FIDT' = [FIDT EXCEPT ![p][newfid] = old]
  /\ Drop(LastOne(new))
  /\ refcount' = Dropped(Incref(old), Replaced(new))
  /\ UNCHANGED <<alive, streamobj, fcb>>

-----------------------------------------------------------------------------
(* The file ids of a process that begins or ends.                          *)

References(p) == [f \in FT |-> Cardinality({fid \in Fid : FIDT[p][fid] = f})]

\* sys_Exec: the child inherits the file streams.
Exec(p, child) ==
  /\ alive[p] /\ ~alive[child]
  /\ alive' = [alive EXCEPT ![child] = TRUE]
  /\ FIDT' = [FIDT EXCEPT ![child] = FIDT[p]]
  /\ refcount' = [f \in FT |-> refcount[f] + References(p)[f]]
  /\ UNCHANGED <<streamobj, FCB_freelist, fcb, open>>

\* sys_ThreadExit goes through the FIDT of p, and these are the file ids at which
\* an FCB loses its last reference.
LastFids(p) ==
  {fid \in Fid : /\ FIDT[p][fid] # NULL
                 /\ refcount[FIDT[p][fid]] = References(p)[FIDT[p][fid]]
                 /\ \A g \in Fid : g > fid => FIDT[p][g] # FIDT[p][fid]}

LastReferences(p) ==
  [i \in 1 .. Cardinality(LastFids(p)) |-> FIDT[p][Nth(LastFids(p), i)]]

Cleaned(p) == [fid \in Fid |-> NULL]

\* The end of the last thread of p, which is in no other call.
Exit(p) ==
  /\ alive[p] /\ \A t \in Thread : owner[t] = p => fcb[t] = NULL
  /\ alive' = [alive EXCEPT ![p] = FALSE]
  /\ FIDT' = [FIDT EXCEPT ![p] = Cleaned(p)]
  /\ Drop(LastReferences(p))
  /\ refcount' = Dropped(refcount, References(p))
  /\ UNCHANGED <<streamobj, fcb>>

\* The boot has ended: no process is left.
Halted == (\A p \in Process : ~alive[p]) /\ UNCHANGED vars

Next ==
  \/ \E p \in Process, s \in Stream :
       Open(p, <<s>>) \/ \E r \in Stream \ {s} : Open(p, <<r, s>>)
  \/ \E p \in Process :
       OpenFails(p) \/ Exit(p)
       \/ (\E num \in 1 .. 2 : ReserveFails(p, num))
       \/ (\E child \in Process \ {InitProcess} : Exec(p, child))
  \/ \E p \in Process, fid \in Fid :
       Close(p, fid) \/ \E newfid \in Fid : Dup2(p, fid, newfid)
  \/ \E t \in Thread : End(t) \/ \E fid \in Fid : Begin(t, fid)
  \/ Halted

Spec == Init /\ [][Next]_vars

-----------------------------------------------------------------------------
TypeOK ==
  /\ alive \in [Process -> BOOLEAN]
  /\ FIDT \in [Process -> [Fid -> FT \cup {NULL}]]
  /\ refcount \in [FT -> Nat]
  /\ streamobj \in [FT -> Stream \cup {NULL}]
  /\ FCB_freelist \in Seq(FT)
  /\ fcb \in [Thread -> FT \cup {NULL}]
  /\ open \subseteq Stream

\* How many file ids and calls refer to an FCB.
Referring(f) ==
  Cardinality({pf \in Process \X Fid : FIDT[pf[1]][pf[2]] = f})
  + Cardinality({t \in Thread : fcb[t] = f})

\* FCBs are neither lost nor given twice: each is in the free list, once, and
\* nothing refers to it, or it is referred to as often as refcount says.
FCBsCounted ==
  \A f \in FT :
    LET places == Cardinality({i \in DOMAIN FCB_freelist : FCB_freelist[i] = f})
    IN  \/ places = 1 /\ Referring(f) = 0
        \/ places = 0 /\ Referring(f) = refcount[f] /\ refcount[f] > 0

\* The FCBs in use hold different open streams, and every open stream is held.
StreamsHeld ==
  LET used == {f \in FT : Referring(f) > 0}
  IN  /\ {streamobj[f] : f \in used} = open
      /\ \A f, g \in used : streamobj[f] = streamobj[g] => f = g

\* kernel_streams.c: an FCB is free, or counts its references, and its stream is
\* open until the last of them.
FCBAccounting == TypeOK /\ FCBsCounted /\ StreamsHeld

Of(f) == IF f = NULL THEN NULL ELSE streamobj[f]

\* The stream that each file id names, and that each call uses.
Naming == [p \in Process |-> [fid \in Fid |-> Of(FIDT[p][fid])]]
Using  == [t \in Thread |-> Of(fcb[t])]

Files == INSTANCE OpenFiles WITH file <- Naming, using <- Using

\* The table and the reference counts implement the file ids of tinyos.h.
RefinesFiles == Files!Spec

=============================================================================
