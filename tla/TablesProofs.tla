---------------------------- MODULE TablesProofs ----------------------------
(***************************************************************************)
(* Proofs about Streams, for any finite sets of processes and threads, any *)
(* set of streams and tables of any size; and about the information        *)
(* streams, the rings of util.h and the packing of arguments, in the       *)
(* specification that the run `tables' checks.                             *)
(***************************************************************************)
EXTENDS MCTables, QueueLemmas, FiniteSetTheorems

-----------------------------------------------------------------------------
(* The inductive invariant.                                                *)

\* What refers to an FCB.
Fids(f)    == {pf \in Process \X Fid : FIDT[pf[1]][pf[2]] = f}
Callers(f) == {t \in Thread : fcb[t] = f}
InUse(f)   == Fids(f) # {} \/ Callers(f) # {}
Used       == {f \in FT : InUse(f)}
Refs(f)    == Cardinality(Fids(f)) + Cardinality(Callers(f))

\* The free list has each of the other FCBs once.
FreeInv ==
  /\ IsInjective(FCB_freelist)
  /\ \A f \in FT : f \in Range(FCB_freelist) <=> ~InUse(f)

CountInv ==
  \A f \in FT :
    InUse(f) => refcount[f] = Refs(f)

\* The FCBs in use hold the open streams, each its own.
StreamInv ==
  /\ {streamobj[f] : f \in Used} = open
  /\ \A f, g \in Used : streamobj[f] = streamobj[g] => f = g

\* A process that has ended has no file ids: Exec gives its PCB new ones.
DeadInv == \A p \in Process : ~alive[p] => \A fid \in Fid : FIDT[p][fid] = NULL

IInv == TypeOK /\ FreeInv /\ CountInv /\ StreamInv /\ DeadInv

-----------------------------------------------------------------------------
(* Counting.                                                               *)

LEMMA FidLemma ==
  ASSUME StreamsAssumption
  PROVE  /\ Fid \subseteq Int /\ IsFiniteSet(Fid) /\ IsFiniteSet(Process \X Fid)
         /\ NULL \notin FT /\ FT \subseteq Nat
<1>1. Fid \subseteq Int /\ IsFiniteSet(Fid)
  BY FS_Interval DEF StreamsAssumption, Fid
<1>2. IsFiniteSet(Process \X Fid)
  BY <1>1, FS_Product DEF StreamsAssumption
<1> QED
  BY <1>1, <1>2 DEF StreamsAssumption, FT

LEMMA Finite ==
  ASSUME StreamsAssumption, NEW T \in SUBSET Fid
  PROVE  IsFiniteSet(T) /\ Cardinality(T) \in Nat /\ (Cardinality(T) = 0 <=> T = {})
BY FidLemma, FS_Subset, FS_CardinalityType, FS_EmptySet

LEMMA Counting ==
  ASSUME StreamsAssumption,
         NEW T \in SUBSET (Process \X Fid), NEW U \in SUBSET Thread
  PROVE  /\ IsFiniteSet(T) /\ Cardinality(T) \in Nat
         /\ IsFiniteSet(U) /\ Cardinality(U) \in Nat
         /\ Cardinality(T) = 0 <=> T = {}
         /\ Cardinality(U) = 0 <=> U = {}
<1>1. IsFiniteSet(T) /\ IsFiniteSet(U)
  BY FidLemma, FS_Subset DEF StreamsAssumption
<1> QED
  BY <1>1, FS_CardinalityType, FS_EmptySet

LEMMA CountLemma ==
  ASSUME StreamsAssumption, NEW f
  PROVE  /\ Refs(f) \in Nat /\ (InUse(f) <=> Refs(f) > 0)
         /\ Refs(f)' \in Nat /\ (InUse(f)' <=> Refs(f)' > 0)
         /\ Cardinality(Fids(f)) \in Nat /\ Cardinality(Callers(f)) \in Nat
<1>1. /\ Fids(f) \in SUBSET (Process \X Fid) /\ Fids(f)' \in SUBSET (Process \X Fid)
      /\ Callers(f) \in SUBSET Thread /\ Callers(f)' \in SUBSET Thread
  BY DEF Fids, Callers
<1>2. /\ Cardinality(Fids(f)) \in Nat /\ Cardinality(Callers(f)) \in Nat
      /\ Cardinality(Fids(f)) = 0 <=> Fids(f) = {}
      /\ Cardinality(Callers(f)) = 0 <=> Callers(f) = {}
  BY <1>1, Counting
<1>3. /\ Cardinality(Fids(f)') \in Nat /\ Cardinality(Callers(f)') \in Nat
      /\ Cardinality(Fids(f)') = 0 <=> Fids(f)' = {}
      /\ Cardinality(Callers(f)') = 0 <=> Callers(f)' = {}
  BY <1>1, Counting
<1> QED
  BY <1>2, <1>3 DEF Refs, InUse

\* Nth numbers the elements of a finite set, from the lowest.
LEMMA NthLemma ==
  ASSUME NEW S \in SUBSET Int, IsFiniteSet(S)
  PROVE  /\ \A i \in 1 .. Cardinality(S) :
              Nth(S, i) \in S /\ Cardinality({g \in S : g < Nth(S, i)}) = i - 1
         /\ \A x \in S : \E i \in 1 .. Cardinality(S) : x = Nth(S, i)
<1> DEFINE n == Cardinality(S)
           below(x) == {g \in S : g < x}
           rank == [x \in S |-> Cardinality(below(x))]
<1>n. n \in Nat
  BY FS_CardinalityType
<1>1. ASSUME NEW T \in SUBSET S
      PROVE  IsFiniteSet(T) /\ Cardinality(T) \in Nat /\ Cardinality(T) <= n
  BY FS_Subset, FS_CardinalityType
<1>2. \A x \in S : Cardinality(S \ {x}) = n - 1 /\ IsFiniteSet(S \ {x})
  BY FS_RemoveElement
<1>3. ASSUME NEW x \in S PROVE rank[x] \in 0 .. n - 1
  <2>1. below(x) \in SUBSET (S \ {x})
    OBVIOUS
  <2>2. IsFiniteSet(S \ {x}) /\ Cardinality(S \ {x}) = n - 1
    BY <1>2
  <2> HIDE DEF below, n
  <2>3. Cardinality(below(x)) <= Cardinality(S \ {x})
    BY <2>1, <2>2, FS_Subset
  <2>4. Cardinality(below(x)) \in Nat
    BY <1>1 DEF below
  <2> QED
    BY <2>2, <2>3, <2>4, <1>n
<1>4. ASSUME NEW x \in S, NEW y \in S, x < y PROVE rank[x] < rank[y]
  <2>0. x \in Int /\ y \in Int
    OBVIOUS
  <2>1. below(x) \in SUBSET (below(y) \ {x}) /\ x \in below(y)
    <3>1. ASSUME NEW g \in S, g < x PROVE g < y /\ g # x
      <4>1. g \in Int
        OBVIOUS
      <4> QED
        BY <4>1, <3>1, <2>0, <1>4
    <3> QED
      BY <3>1, <1>4
  <2>2. IsFiniteSet(below(y)) /\ Cardinality(below(y)) \in Nat
    BY <1>1
  <2>3. IsFiniteSet(below(y) \ {x}) /\ Cardinality(below(y) \ {x}) = Cardinality(below(y)) - 1
    BY <2>1, <2>2, FS_RemoveElement
  <2>4. Cardinality(below(x)) <= Cardinality(below(y)) - 1
    BY <2>1, <2>3, FS_Subset
  <2> QED
    BY <2>4, <2>2, <1>1
<1>5. rank \in Injection(S, 0 .. n - 1)
  <2>1. rank \in [S -> 0 .. n - 1]
    BY <1>3
  <2>2. ASSUME NEW x \in S, NEW y \in S, rank[x] = rank[y] PROVE x = y
    <3>1. rank[x] \in Int /\ rank[y] \in Int
      BY <2>1
    <3>2. ~(x < y) /\ ~(y < x)
      BY <1>4, <2>2, <3>1
    <3> QED
      BY <3>2
  <2> HIDE DEF rank
  <2> QED
    BY <2>1, <2>2 DEF Injection, IsInjective
<1>6. IsFiniteSet(0 .. n - 1) /\ Cardinality(0 .. n - 1) = n
  BY <1>n, FS_Interval
<1>7. rank \in Surjection(S, 0 .. n - 1)
  BY <1>5, <1>6, FS_Injection
<1>8. ASSUME NEW i \in 1 .. n
      PROVE  \E x \in S : Cardinality(below(x)) = i - 1
  <2>1. i - 1 \in 0 .. n - 1
    BY <1>n
  <2>2. PICK x \in S : rank[x] = i - 1
    BY <2>1, <1>7 DEF Surjection
  <2> QED
    BY <2>2
<1>9. ASSUME NEW i \in 1 .. n
      PROVE  Nth(S, i) \in S /\ Cardinality(below(Nth(S, i))) = i - 1
  BY <1>8 DEF Nth
<1>10. ASSUME NEW x \in S PROVE \E i \in 1 .. n : x = Nth(S, i)
  <2>1. PICK i \in 1 .. n : i - 1 = rank[x]
    <3>1. rank[x] \in 0 .. n - 1 /\ rank[x] + 1 \in 1 .. n
      BY <1>3, <1>n
    <3>2. rank[x] + 1 - 1 = rank[x]
      BY <3>1
    <3> HIDE DEF rank
    <3> QED
      BY <3>1, <3>2
  <2>2. rank[Nth(S, i)] = rank[x] /\ Nth(S, i) \in S
    BY <2>1, <1>9
  <2> HIDE DEF rank
  <2> QED
    BY <2>2, <1>5 DEF Injection, IsInjective
<1> QED
  BY <1>9, <1>10

LEMMA NthDistinct ==
  ASSUME NEW S \in SUBSET Int, IsFiniteSet(S),
         NEW i \in 1 .. Cardinality(S), NEW j \in 1 .. Cardinality(S),
         Nth(S, i) = Nth(S, j)
  PROVE  i = j
<1>1. i - 1 = j - 1
  BY NthLemma
<1> QED
  BY <1>1, FS_CardinalityType

-----------------------------------------------------------------------------
(* What a step does to the number of references.                           *)

\* The file ids of one process change.
Row(row, f) == {fid \in Fid : row[fid] = f}

LEMMA SetRow ==
  ASSUME StreamsAssumption, TypeOK, NEW p \in Process,
         NEW row \in [Fid -> FT \cup {NULL}],
         FIDT' = [FIDT EXCEPT ![p] = row], NEW f
  PROVE  Cardinality(Fids(f)') =
           Cardinality(Fids(f)) - Cardinality(Row(FIDT[p], f)) + Cardinality(Row(row, f))
<1> DEFINE old == Row(FIDT[p], f)
           new == Row(row, f)
           other == {pf \in Process \X Fid : pf[1] # p /\ FIDT[pf[1]][pf[2]] = f}
<1>1. Fids(f) = other \cup ({p} \X old)
  BY DEF Fids, Row
<1>2. Fids(f)' = other \cup ({p} \X new)
  BY DEF Fids, Row, TypeOK
<1>3. other \cap ({p} \X old) = {} /\ other \cap ({p} \X new) = {}
  BY DEF Row
<1>4. /\ IsFiniteSet(old) /\ Cardinality(old) \in Nat
      /\ IsFiniteSet(new) /\ Cardinality(new) \in Nat
  BY Finite DEF Row
<1>5. other \in SUBSET (Process \X Fid)
  OBVIOUS
<1>6. IsFiniteSet(other) /\ Cardinality(other) \in Nat
  BY <1>5, Counting
<1>7. ASSUME NEW T, IsFiniteSet(T), Cardinality(T) \in Nat
      PROVE  IsFiniteSet({p} \X T) /\ Cardinality({p} \X T) = Cardinality(T)
  <2>1. IsFiniteSet({p}) /\ Cardinality({p}) = 1
    BY FS_Singleton
  <2>2. /\ IsFiniteSet({p} \X T)
        /\ Cardinality({p} \X T) = Cardinality({p}) * Cardinality(T)
    BY <2>1, <1>7, FS_Product
  <2> QED
    BY <2>1, <2>2, <1>7
<1> HIDE DEF old, new, other
<1>e. IsFiniteSet({}) /\ Cardinality({}) = 0
  BY FS_EmptySet
<1>u. ASSUME NEW T, IsFiniteSet(T), Cardinality(T) \in Nat, other \cap ({p} \X T) = {}
      PROVE  Cardinality(other \cup ({p} \X T)) = Cardinality(other) + Cardinality(T)
  <2>1. IsFiniteSet({p} \X T) /\ Cardinality({p} \X T) = Cardinality(T)
    BY <1>7, <1>u
  <2>2. Cardinality(other \cup ({p} \X T)) =
          Cardinality(other) + Cardinality({p} \X T) - Cardinality(other \cap ({p} \X T))
    BY <2>1, <1>6, FS_Union
  <2>3. Cardinality(other \cap ({p} \X T)) = 0
    BY <1>u, <1>e
  <2> HIDE DEF other
  <2> QED
    BY <2>1, <2>2, <2>3, <1>u, <1>6
<1>8. Cardinality(Fids(f)) = Cardinality(other) + Cardinality(old)
  BY <1>1, <1>3, <1>4, <1>u
<1>9. Cardinality(Fids(f)') = Cardinality(other) + Cardinality(new)
  BY <1>2, <1>3, <1>4, <1>u
<1>10. Cardinality(Fids(f)') = Cardinality(Fids(f)) - Cardinality(old) + Cardinality(new)
  BY <1>4, <1>6, <1>8, <1>9
<1> QED
  BY <1>10 DEF old, new

\* One file id changes.
LEMMA SetFid ==
  ASSUME StreamsAssumption, TypeOK, NEW p \in Process, NEW fid \in Fid,
         NEW v \in FT \cup {NULL}, v # FIDT[p][fid],
         FIDT' = [FIDT EXCEPT ![p][fid] = v]
  PROVE  \A f : Cardinality(Fids(f)') =
           Cardinality(Fids(f)) - (IF f = FIDT[p][fid] THEN 1 ELSE 0)
                                + (IF f = v THEN 1 ELSE 0)
<1> TAKE f
<1> DEFINE row == [FIDT[p] EXCEPT ![fid] = v]
           old == Row(FIDT[p], f)
           new == Row(row, f)
<1>1. row \in [Fid -> FT \cup {NULL}] /\ FIDT' = [FIDT EXCEPT ![p] = row]
  BY DEF TypeOK
<1>2. Cardinality(Fids(f)') = Cardinality(Fids(f)) - Cardinality(old) + Cardinality(new)
  <2> HIDE DEF row
  <2> QED
    BY <1>1, SetRow
<1>3. /\ IsFiniteSet(old) /\ Cardinality(old) \in Nat
      /\ Cardinality(new) \in Nat /\ Cardinality(Fids(f)) \in Nat
  BY Finite, CountLemma DEF Row
<1>4. CASE f = FIDT[p][fid]
  <2>1. new = old \ {fid} /\ fid \in old
    BY <1>4 DEF TypeOK, Row
  <2>2. Cardinality(new) = Cardinality(old) - 1
    BY <2>1, <1>3, FS_RemoveElement
  <2> QED
    BY <2>2, <1>2, <1>3, <1>4
<1>5. CASE f = v
  <2>1. new = old \cup {fid} /\ fid \notin old
    BY <1>5 DEF TypeOK, Row
  <2>2. Cardinality(new) = Cardinality(old) + 1
    BY <2>1, <1>3, FS_AddElement
  <2> QED
    BY <2>2, <1>2, <1>3, <1>5
<1>6. CASE f # v /\ f # FIDT[p][fid]
  <2>1. new = old
    BY <1>6 DEF TypeOK, Row
  <2> HIDE DEF old, new
  <2> QED
    BY <2>1, <1>2, <1>3, <1>6
<1> QED
  BY <1>4, <1>5, <1>6

\* A call begins or ends.
LEMMA SetCall ==
  ASSUME StreamsAssumption, TypeOK, NEW t \in Thread,
         NEW v \in FT \cup {NULL}, v # fcb[t],
         fcb' = [fcb EXCEPT ![t] = v], NEW f
  PROVE  Cardinality(Callers(f)') =
           Cardinality(Callers(f)) - (IF f = fcb[t] THEN 1 ELSE 0)
                                   + (IF f = v THEN 1 ELSE 0)
<1>1. Callers(f) \in SUBSET Thread
  BY DEF Callers
<1>2. IsFiniteSet(Callers(f)) /\ Cardinality(Callers(f)) \in Nat
  BY <1>1, FS_Subset, FS_CardinalityType DEF StreamsAssumption
<1>3. CASE f = fcb[t]
  <2>1. Callers(f)' = Callers(f) \ {t} /\ t \in Callers(f)
    BY <1>3 DEF Callers, TypeOK
  <2> QED
    BY <2>1, <1>2, <1>3, FS_RemoveElement
<1>4. CASE f = v
  <2>1. Callers(f)' = Callers(f) \cup {t} /\ t \notin Callers(f)
    BY <1>4 DEF Callers, TypeOK
  <2> QED
    BY <2>1, <1>2, <1>4, FS_AddElement
<1>5. CASE f # v /\ f # fcb[t]
  <2>1. Callers(f)' = Callers(f)
    BY <1>5 DEF Callers, TypeOK
  <2> QED
    BY <2>1, <1>2, <1>5
<1> QED
  BY <1>3, <1>4, <1>5

-----------------------------------------------------------------------------
(* The invariant holds initially, and each step keeps it.                  *)

LEMMA InitLemma ==
  ASSUME StreamsAssumption, Init
  PROVE  IInv
<1> USE DEF Init
<1>1. FCB_freelist \in Seq(FT) /\ Range(FCB_freelist) = FT /\ IsInjective(FCB_freelist)
  <2>1. FCB_freelist \in [1 .. MAX_FILES -> FT] /\ MAX_FILES \in Nat
    BY DEF FT, StreamsAssumption
  <2>2. FCB_freelist \in Seq(FT)
    BY <2>1
  <2> QED
    BY <2>2 DEF Range, IsInjective
<1>2. TypeOK
  BY <1>1 DEF TypeOK
<1>3. \A f \in FT : Fids(f) = {} /\ Callers(f) = {} /\ ~InUse(f)
  BY FidLemma DEF Fids, Callers, InUse
<1>4. FreeInv /\ CountInv /\ StreamInv /\ DeadInv
  BY <1>1, <1>3 DEF FreeInv, CountInv, StreamInv, DeadInv, Used
<1> QED
  BY <1>2, <1>4 DEF IInv

\* Nothing is referred to that was not, and nothing ceases to be.
LEMMA KeepLemma ==
  ASSUME UNCHANGED <<FIDT, fcb>>
  PROVE  /\ \A f : Refs(f)' = Refs(f) /\ (InUse(f)' <=> InUse(f))
         /\ Used' = Used
BY DEF Fids, Callers, Refs, InUse, Used

\* References come to FCBs in use and go, and what has lost its last one is in
\* `last', which is dropped.
LEMMA CountStep ==
  ASSUME StreamsAssumption, IInv,
         NEW more, NEW gone, NEW last \in Seq(FT), IsInjective(last),
         \A f \in FT : /\ more[f] \in Nat /\ gone[f] \in Nat
                       /\ more[f] = 0 \/ (gone[f] = 0 /\ InUse(f))
                       /\ Refs(f)' = Refs(f) + more[f] - gone[f]
                       /\ refcount'[f] = refcount[f] + more[f] - gone[f]
                       /\ f \in Range(last) <=> gone[f] > 0 /\ refcount[f] = gone[f],
         refcount' = [f \in FT |-> refcount'[f]],
         streamobj' = streamobj, Drop(last)
  PROVE  /\ refcount' \in [FT -> Nat] /\ FCB_freelist' \in Seq(FT)
         /\ open' \in SUBSET Stream
         /\ FreeInv' /\ CountInv' /\ StreamInv'
<1>1. \A f \in FT : /\ Refs(f) \in Nat /\ (InUse(f) <=> Refs(f) > 0)
                    /\ Refs(f)' \in Nat /\ (InUse(f)' <=> Refs(f)' > 0)
                    /\ refcount[f] \in Nat
                    /\ InUse(f) => refcount[f] = Refs(f)
  BY CountLemma DEF IInv, TypeOK, CountInv
<1>2. \A f \in FT : /\ InUse(f)' => InUse(f)
                    /\ f \in Range(last) <=> InUse(f) /\ ~InUse(f)'
                    /\ refcount'[f] \in Nat
                    /\ InUse(f)' => refcount'[f] = Refs(f)'
  <2>1. SUFFICES ASSUME NEW f \in FT
                 PROVE  /\ InUse(f)' => InUse(f)
                        /\ f \in Range(last) <=> InUse(f) /\ ~InUse(f)'
                        /\ refcount'[f] \in Nat
                        /\ InUse(f)' => refcount'[f] = Refs(f)'
    OBVIOUS
  <2> DEFINE m == more[f]
             g == gone[f]
             r == Refs(f)
             s == Refs(f)'
             c == refcount[f]
             d == refcount'[f]
  <2>2. /\ m \in Nat /\ g \in Nat /\ r \in Nat /\ s \in Nat /\ c \in Nat
        /\ m = 0 \/ (g = 0 /\ r > 0)
        /\ s = r + m - g /\ d = c + m - g
        /\ r > 0 => c = r
    BY <1>1
  <2>3. /\ InUse(f) <=> r > 0
        /\ InUse(f)' <=> s > 0
        /\ f \in Range(last) <=> g > 0 /\ c = g
    BY <1>1
  <2> HIDE DEF m, g, r, s, c, d
  <2>4. /\ s > 0 => r > 0
        /\ g > 0 /\ c = g <=> r > 0 /\ s = 0
        /\ d \in Nat
        /\ s > 0 => d = s
    BY <2>2
  <2>5. s > 0 <=> s # 0
    BY <2>2
  <2>6. /\ InUse(f)' => InUse(f)
        /\ f \in Range(last) <=> InUse(f) /\ ~InUse(f)'
    BY <2>3, <2>4, <2>5, Zenon
  <2> QED
    BY <2>3, <2>4, <2>6, Zenon DEF d, s
<1>3. refcount' \in [FT -> Nat]
  BY <1>2
<1>4. CountInv'
  BY <1>2 DEF CountInv
<1>5. Used' = Used \ Range(last) /\ Range(last) \subseteq Used
  BY <1>2, Positions DEF Used
<1>6. FCB_freelist' \in Seq(FT) /\ FreeInv'
  <2>1. FCB_freelist \in Seq(FT) /\ IsInjective(FCB_freelist)
    BY DEF IInv, TypeOK, FreeInv
  <2>2. Range(FCB_freelist) \cap Range(last) = {}
    BY <1>5 DEF IInv, FreeInv, Used
  <2>3. /\ FCB_freelist' \in Seq(FT) /\ IsInjective(FCB_freelist')
        /\ Range(FCB_freelist') = Range(FCB_freelist) \cup Range(last)
    BY <2>1, <2>2, ConcatLemma DEF Drop
  <2> QED
    BY <2>3, <1>2, <1>5 DEF IInv, FreeInv
<1>7. open' = open \ {streamobj[f] : f \in Range(last)}
  BY DEF Drop, Range
<1>8. StreamInv' /\ open' \in SUBSET Stream
  <2>1. open = {streamobj[f] : f \in Used}
    BY DEF IInv, StreamInv
  <2>2. \A f, g \in Used : streamobj[f] = streamobj[g] => f = g
    BY DEF IInv, StreamInv
  <2>3. open \in SUBSET Stream
    BY DEF IInv, TypeOK
  <2>4. {streamobj[f] : f \in Used'} = open'
    BY <1>5, <1>7, <2>1, <2>2
  <2>5. \A f, g \in Used' : streamobj'[f] = streamobj'[g] => f = g
    BY <1>5, <2>2
  <2> QED
    BY <2>3, <2>4, <2>5, <1>7 DEF StreamInv
<1> QED
  BY <1>3, <1>4, <1>6, <1>8

LEMMA LastOneLemma ==
  ASSUME TypeOK, StreamsAssumption, NEW f \in FT \cup {NULL}
  PROVE  /\ LastOne(f) \in Seq(FT) /\ IsInjective(LastOne(f))
         /\ \A g \in FT : g \in Range(LastOne(f)) <=> g = f /\ refcount[f] = 1
<1>1. CASE f # NULL /\ refcount[f] = 1
  <2>1. LastOne(f) = <<f>> /\ f \in FT
    BY <1>1 DEF LastOne
  <2>2. <<f>> \in Seq(FT) /\ Len(<<f>>) = 1 /\ <<f>>[1] = f
    BY <2>1
  <2> QED
    BY <1>1, <2>1, <2>2 DEF IsInjective, Range
<1>2. CASE ~(f # NULL /\ refcount[f] = 1)
  <2>1. LastOne(f) = <<>>
    BY <1>2 DEF LastOne
  <2> QED
    BY <1>2, <2>1, FidLemma DEF IsInjective, Range
<1> QED
  BY <1>1, <1>2

\* Nothing is dropped.
LEMMA NoDrop ==
  ASSUME TypeOK, UNCHANGED <<FCB_freelist, open>>
  PROVE  /\ <<>> \in Seq(FT) /\ IsInjective(<<>>) /\ Range(<<>>) = {}
         /\ Drop(<<>>)
<1>1. FCB_freelist \o <<>> = FCB_freelist
  BY DEF TypeOK
<1> QED
  BY <1>1 DEF IsInjective, Range, Drop

LEMMA BeginLemma ==
  ASSUME StreamsAssumption, IInv, NEW t \in Thread, NEW fid \in Fid, Begin(t, fid)
  PROVE  IInv'
<1> DEFINE f == FIDT[owner[t]][fid]
           more == One(f)
           gone == None
           last == <<>>
<1>t. TypeOK /\ DeadInv
  BY DEF IInv
<1>1. owner[t] \in Process /\ f \in FT /\ fcb[t] = NULL /\ NULL \notin FT
  BY <1>t, FidLemma DEF TypeOK, Begin, StreamsAssumption
<1>2. InUse(f)
  <2>1. <<owner[t], fid>> \in Fids(f)
    BY <1>1 DEF Fids
  <2> QED
    BY <2>1 DEF InUse
<1>3. \A g \in FT : Fids(g)' = Fids(g)
  BY DEF Begin, Fids
<1>4. \A g \in FT : Cardinality(Callers(g)') =
                      Cardinality(Callers(g)) + (IF g = f THEN 1 ELSE 0)
  <2>1. fcb' = [fcb EXCEPT ![t] = f] /\ f # fcb[t] /\ f \in FT \cup {NULL}
    BY <1>1 DEF Begin
  <2> HIDE DEF f
  <2> TAKE g \in FT
  <2>2. Cardinality(Callers(g)') = Cardinality(Callers(g))
           - (IF g = fcb[t] THEN 1 ELSE 0) + (IF g = f THEN 1 ELSE 0)
    BY <1>t, <2>1, SetCall, Zenon
  <2> QED
    BY <1>1, <2>2, CountLemma
<1>5. \A g \in FT : /\ more[g] = (IF g = f THEN 1 ELSE 0) /\ gone[g] = 0
                    /\ refcount'[g] = refcount[g] + more[g]
                    /\ refcount[g] \in Nat
  BY <1>t, <1>1 DEF TypeOK, Begin, Incref, One, None
<1>6. refcount' = [g \in FT |-> refcount'[g]] /\ streamobj' = streamobj
  BY <1>t DEF TypeOK, Begin, Incref
<1>7. last \in Seq(FT) /\ IsInjective(last) /\ Range(last) = {} /\ Drop(last)
  BY <1>t, NoDrop DEF Begin
<1>8. fcb' \in [Thread -> FT \cup {NULL}] /\ DeadInv' /\ UNCHANGED <<alive, FIDT, streamobj>>
  BY <1>t, <1>1 DEF TypeOK, DeadInv, Begin
<1> HIDE DEF f, more, gone, last
<1>g. \A g \in FT : g \in Range(last) <=> gone[g] > 0 /\ refcount[g] = gone[g]
  BY <1>5, <1>7
<1>9. \A g \in FT : /\ more[g] \in Nat /\ gone[g] \in Nat
                    /\ more[g] = 0 \/ (gone[g] = 0 /\ InUse(g))
                    /\ Refs(g)' = Refs(g) + more[g] - gone[g]
                    /\ refcount'[g] = refcount[g] + more[g] - gone[g]
                    /\ g \in Range(last) <=> gone[g] > 0 /\ refcount[g] = gone[g]
  BY <1>2, <1>3, <1>4, <1>5, <1>g, CountLemma DEF Refs
<1>10. /\ refcount' \in [FT -> Nat] /\ FCB_freelist' \in Seq(FT)
       /\ open' \in SUBSET Stream
       /\ FreeInv' /\ CountInv' /\ StreamInv'
  BY <1>6, <1>7, <1>9, CountStep
<1> QED
  BY <1>8, <1>10, <1>t DEF IInv, TypeOK

LEMMA EndLemma ==
  ASSUME StreamsAssumption, IInv, NEW t \in Thread, End(t)
  PROVE  IInv'
<1> DEFINE f == fcb[t]
           more == None
           gone == One(f)
           last == LastOne(f)
<1>t. TypeOK /\ DeadInv
  BY DEF IInv
<1>1. f \in FT /\ NULL \notin FT
  BY <1>t, FidLemma DEF TypeOK, End
<1>2. \A g \in FT : Fids(g)' = Fids(g)
  BY DEF End, Fids
<1>3. \A g \in FT : Cardinality(Callers(g)') =
                      Cardinality(Callers(g)) - (IF g = f THEN 1 ELSE 0)
  <2>1. fcb' = [fcb EXCEPT ![t] = NULL] /\ NULL # fcb[t]
    BY DEF End
  <2> TAKE g \in FT
  <2>2. Cardinality(Callers(g)') = Cardinality(Callers(g))
           - (IF g = fcb[t] THEN 1 ELSE 0) + (IF g = NULL THEN 1 ELSE 0)
    BY <1>t, <2>1, SetCall
  <2> QED
    BY <1>1, <2>2, CountLemma
<1>4. \A g \in FT : /\ gone[g] = (IF g = f THEN 1 ELSE 0) /\ more[g] = 0
                    /\ refcount'[g] = refcount[g] - gone[g]
                    /\ refcount[g] \in Nat
  BY <1>t, <1>1 DEF TypeOK, End, Dropped, One, None
<1>5. refcount' = [g \in FT |-> refcount'[g]] /\ streamobj' = streamobj /\ Drop(last)
  BY DEF End, Dropped
<1>6. /\ last \in Seq(FT) /\ IsInjective(last)
      /\ \A g \in FT : g \in Range(last) <=> g = f /\ refcount[f] = 1
  BY <1>t, <1>1, LastOneLemma
<1>7. fcb' \in [Thread -> FT \cup {NULL}] /\ DeadInv' /\ UNCHANGED <<alive, FIDT, streamobj>>
  BY <1>t DEF TypeOK, DeadInv, End
<1> HIDE DEF f, more, gone, last
<1>g. \A g \in FT : g \in Range(last) <=> gone[g] > 0 /\ refcount[g] = gone[g]
  BY <1>4, <1>6
<1>8. \A g \in FT : /\ more[g] \in Nat /\ gone[g] \in Nat
                    /\ more[g] = 0 \/ (gone[g] = 0 /\ InUse(g))
                    /\ Refs(g)' = Refs(g) + more[g] - gone[g]
                    /\ refcount'[g] = refcount[g] + more[g] - gone[g]
                    /\ g \in Range(last) <=> gone[g] > 0 /\ refcount[g] = gone[g]
  BY <1>2, <1>3, <1>4, <1>g, CountLemma DEF Refs
<1>9. /\ refcount' \in [FT -> Nat] /\ FCB_freelist' \in Seq(FT)
      /\ open' \in SUBSET Stream
      /\ FreeInv' /\ CountInv' /\ StreamInv'
  BY <1>5, <1>6, <1>8, CountStep
<1> QED
  BY <1>7, <1>9, <1>t DEF IInv, TypeOK

LEMMA CloseLemma ==
  ASSUME StreamsAssumption, IInv, NEW p \in Process, NEW fid \in Fid, Close(p, fid)
  PROVE  IInv'
<1> DEFINE f == FIDT[p][fid]
           more == None
           gone == One(f)
           last == LastOne(f)
<1>t. TypeOK /\ DeadInv
  BY DEF IInv
<1>1. f \in FT /\ NULL \notin FT
  BY <1>t, FidLemma DEF TypeOK, Close
<1>2. \A g \in FT : Callers(g)' = Callers(g)
  BY DEF Close, Callers
<1>3. \A g \in FT : Cardinality(Fids(g)') =
                      Cardinality(Fids(g)) - (IF g = f THEN 1 ELSE 0)
  <2>1. /\ FIDT' = [FIDT EXCEPT ![p][fid] = NULL]
        /\ NULL # FIDT[p][fid] /\ NULL \in FT \cup {NULL}
    BY DEF Close
  <2> HIDE DEF more, gone, last
  <2>2. \A g : Cardinality(Fids(g)') = Cardinality(Fids(g))
           - (IF g = FIDT[p][fid] THEN 1 ELSE 0) + (IF g = NULL THEN 1 ELSE 0)
    BY <1>t, <2>1, SetFid, ZenonT(60)
  <2>3. ASSUME NEW g \in FT
        PROVE  Cardinality(Fids(g)') = Cardinality(Fids(g)) - (IF g = f THEN 1 ELSE 0)
    <3>1. g # NULL /\ Cardinality(Fids(g)) \in Nat
      BY <1>1, CountLemma
    <3>2. Cardinality(Fids(g)') = Cardinality(Fids(g))
             - (IF g = FIDT[p][fid] THEN 1 ELSE 0) + (IF g = NULL THEN 1 ELSE 0)
      BY <2>2
    <3> QED
      BY <3>1, <3>2
  <2> QED
    BY <2>3
<1>4. \A g \in FT : /\ gone[g] = (IF g = f THEN 1 ELSE 0) /\ more[g] = 0
                    /\ refcount'[g] = refcount[g] - gone[g]
                    /\ refcount[g] \in Nat
  BY <1>t, <1>1 DEF TypeOK, Close, Dropped, One, None
<1>5. refcount' = [g \in FT |-> refcount'[g]] /\ streamobj' = streamobj /\ Drop(last)
  BY DEF Close, Dropped
<1>6. /\ last \in Seq(FT) /\ IsInjective(last)
      /\ \A g \in FT : g \in Range(last) <=> g = f /\ refcount[f] = 1
  BY <1>t, <1>1, LastOneLemma
<1>7. /\ FIDT' \in [Process -> [Fid -> FT \cup {NULL}]] /\ DeadInv'
      /\ UNCHANGED <<alive, fcb, streamobj>>
  BY <1>t DEF TypeOK, DeadInv, Close
<1> HIDE DEF f, more, gone, last
<1>8. \A g \in FT : g \in Range(last) <=> gone[g] > 0 /\ refcount[g] = gone[g]
  BY <1>4, <1>6
<1>9. \A g \in FT : /\ more[g] \in Nat /\ gone[g] \in Nat
                    /\ more[g] = 0 \/ (gone[g] = 0 /\ InUse(g))
                    /\ Refs(g)' = Refs(g) + more[g] - gone[g]
                    /\ refcount'[g] = refcount[g] + more[g] - gone[g]
                    /\ g \in Range(last) <=> gone[g] > 0 /\ refcount[g] = gone[g]
  BY <1>2, <1>3, <1>4, <1>8, CountLemma DEF Refs
<1>10. /\ refcount' \in [FT -> Nat] /\ FCB_freelist' \in Seq(FT)
       /\ open' \in SUBSET Stream
       /\ FreeInv' /\ CountInv' /\ StreamInv'
  BY <1>5, <1>6, <1>9, CountStep
<1> QED
  BY <1>7, <1>10, <1>t DEF IInv, TypeOK

LEMMA Dup2Lemma ==
  ASSUME StreamsAssumption, IInv, NEW p \in Process,
         NEW oldfid \in Fid, NEW newfid \in Fid, Dup2(p, oldfid, newfid)
  PROVE  IInv'
<1> DEFINE old == FIDT[p][oldfid]
           new == FIDT[p][newfid]
           more == One(old)
           gone == Replaced(new)
           last == LastOne(new)
<1>t. TypeOK /\ DeadInv
  BY DEF IInv
<1>1. /\ old \in FT /\ new \in FT \cup {NULL} /\ old # new /\ NULL \notin FT
      /\ InUse(old)
  <2>1. old \in FT /\ new \in FT \cup {NULL} /\ old # new /\ NULL \notin FT
    BY <1>t, FidLemma DEF TypeOK, Dup2
  <2>2. <<p, oldfid>> \in Fids(old)
    BY DEF Fids
  <2> QED
    BY <2>1, <2>2 DEF InUse
<1>2. \A g \in FT : Callers(g)' = Callers(g)
  BY DEF Dup2, Callers
<1>3. \A g \in FT : Cardinality(Fids(g)') =
        Cardinality(Fids(g)) - (IF g = new THEN 1 ELSE 0) + (IF g = old THEN 1 ELSE 0)
  <2>1. /\ FIDT' = [FIDT EXCEPT ![p][newfid] = old]
        /\ old # FIDT[p][newfid] /\ old \in FT \cup {NULL}
    BY <1>1 DEF Dup2
  <2> HIDE DEF old
  <2>2. \A g : Cardinality(Fids(g)') = Cardinality(Fids(g))
           - (IF g = FIDT[p][newfid] THEN 1 ELSE 0) + (IF g = old THEN 1 ELSE 0)
    BY <1>t, <2>1, SetFid, ZenonT(60)
  <2> HIDE DEF more, gone, last
  <2>3. new = FIDT[p][newfid]
    OBVIOUS
  <2> HIDE DEF new
  <2> QED
    BY <2>2, <2>3, Zenon
<1>4. \A g \in FT : /\ gone[g] = (IF g = new THEN 1 ELSE 0)
                    /\ more[g] = (IF g = old THEN 1 ELSE 0)
                    /\ refcount'[g] = refcount[g] + more[g] - gone[g]
                    /\ refcount[g] \in Nat
  BY <1>t, <1>1 DEF TypeOK, Dup2, Dropped, Incref, Replaced, One, None
<1>5. refcount' = [g \in FT |-> refcount'[g]] /\ streamobj' = streamobj /\ Drop(last)
  BY DEF Dup2, Dropped
<1>6. /\ last \in Seq(FT) /\ IsInjective(last)
      /\ \A g \in FT : g \in Range(last) <=> g = new /\ refcount[new] = 1
  BY <1>t, <1>1, LastOneLemma
<1>7. /\ FIDT' \in [Process -> [Fid -> FT \cup {NULL}]] /\ DeadInv'
      /\ UNCHANGED <<alive, fcb, streamobj>>
  BY <1>t, <1>1 DEF TypeOK, DeadInv, Dup2
<1> HIDE DEF old, new, more, gone, last
<1>8. \A g \in FT : g \in Range(last) <=> gone[g] > 0 /\ refcount[g] = gone[g]
  BY <1>4, <1>6
<1>9. \A g \in FT : /\ more[g] \in Nat /\ gone[g] \in Nat
                    /\ more[g] = 0 \/ (gone[g] = 0 /\ InUse(g))
                    /\ Refs(g)' = Refs(g) + more[g] - gone[g]
                    /\ refcount'[g] = refcount[g] + more[g] - gone[g]
                    /\ g \in Range(last) <=> gone[g] > 0 /\ refcount[g] = gone[g]
  BY <1>1, <1>2, <1>3, <1>4, <1>8, CountLemma DEF Refs
<1>10. /\ refcount' \in [FT -> Nat] /\ FCB_freelist' \in Seq(FT)
       /\ open' \in SUBSET Stream
       /\ FreeInv' /\ CountInv' /\ StreamInv'
  BY <1>5, <1>6, <1>9, CountStep
<1> QED
  BY <1>7, <1>10, <1>t DEF IInv, TypeOK

\* The file ids of p at which f is found.
LEMMA RowLemma ==
  ASSUME StreamsAssumption, TypeOK, NEW p \in Process, NEW f \in FT
  PROVE  /\ References(p)[f] = Cardinality(Row(FIDT[p], f))
         /\ References(p)[f] \in Nat
         /\ References(p)[f] > 0 <=> Row(FIDT[p], f) # {}
         /\ References(p)[f] > 0 => InUse(f)
<1>1. References(p)[f] = Cardinality(Row(FIDT[p], f))
  BY DEF References, Row
<1>2. /\ Cardinality(Row(FIDT[p], f)) \in Nat
      /\ Cardinality(Row(FIDT[p], f)) = 0 <=> Row(FIDT[p], f) = {}
  BY Finite DEF Row
<1>3. ASSUME Row(FIDT[p], f) # {} PROVE InUse(f)
  <2>1. PICK fid \in Fid : FIDT[p][fid] = f
    BY <1>3 DEF Row
  <2>2. <<p, fid>> \in Fids(f)
    BY <2>1 DEF Fids
  <2> QED
    BY <2>2 DEF InUse
<1> QED
  BY <1>1, <1>2, <1>3

LEMMA ExecLemma ==
  ASSUME StreamsAssumption, IInv, NEW p \in Process, NEW child \in Process, Exec(p, child)
  PROVE  IInv'
<1> DEFINE more == References(p)
           gone == None
           last == <<>>
<1>t. TypeOK /\ DeadInv
  BY DEF IInv
<1>1. \A g \in FT : Callers(g)' = Callers(g)
  BY DEF Exec, Callers
<1>2. \A g \in FT : /\ more[g] = Cardinality(Row(FIDT[p], g)) /\ more[g] \in Nat
                    /\ more[g] > 0 => InUse(g)
  BY <1>t, RowLemma
<1>3. \A g \in FT : Cardinality(Fids(g)') = Cardinality(Fids(g)) + more[g]
  <2>1. FIDT' = [FIDT EXCEPT ![child] = FIDT[p]] /\ FIDT[p] \in [Fid -> FT \cup {NULL}]
    BY <1>t DEF Exec, TypeOK
  <2> TAKE g \in FT
  <2>2. Cardinality(Fids(g)') =
          Cardinality(Fids(g)) - Cardinality(Row(FIDT[child], g)) + Cardinality(Row(FIDT[p], g))
    BY <1>t, <2>1, SetRow
  <2>3. Row(FIDT[child], g) = {}
    BY <1>t, FidLemma DEF Row, DeadInv, Exec
  <2> HIDE DEF more
  <2> QED
    BY <1>2, <2>2, <2>3, FS_EmptySet, CountLemma
<1>4. \A g \in FT : /\ gone[g] = 0
                    /\ refcount'[g] = refcount[g] + more[g]
                    /\ refcount[g] \in Nat
  BY <1>t DEF TypeOK, Exec, None
<1>5. refcount' = [g \in FT |-> refcount'[g]] /\ streamobj' = streamobj
  BY DEF Exec
<1>6. last \in Seq(FT) /\ IsInjective(last) /\ Range(last) = {} /\ Drop(last)
  BY <1>t, NoDrop DEF Exec
<1>7. /\ FIDT' \in [Process -> [Fid -> FT \cup {NULL}]] /\ DeadInv'
      /\ alive' \in [Process -> BOOLEAN]
      /\ UNCHANGED <<fcb, streamobj>>
  BY <1>t DEF TypeOK, DeadInv, Exec
<1> HIDE DEF more, gone, last
<1>8. \A g \in FT : g \in Range(last) <=> gone[g] > 0 /\ refcount[g] = gone[g]
  BY <1>4, <1>6
<1>9. \A g \in FT : /\ more[g] \in Nat /\ gone[g] \in Nat
                    /\ more[g] = 0 \/ (gone[g] = 0 /\ InUse(g))
                    /\ Refs(g)' = Refs(g) + more[g] - gone[g]
                    /\ refcount'[g] = refcount[g] + more[g] - gone[g]
                    /\ g \in Range(last) <=> gone[g] > 0 /\ refcount[g] = gone[g]
  BY <1>1, <1>2, <1>3, <1>4, <1>8, CountLemma DEF Refs
<1>10. /\ refcount' \in [FT -> Nat] /\ FCB_freelist' \in Seq(FT)
       /\ open' \in SUBSET Stream
       /\ FreeInv' /\ CountInv' /\ StreamInv'
  BY <1>5, <1>6, <1>9, CountStep
<1> QED
  BY <1>7, <1>10, <1>t DEF IInv, TypeOK

\* The FCBs whose last reference p holds, each once.
LEMMA LastReferencesLemma ==
  ASSUME StreamsAssumption, TypeOK, NEW p \in Process
  PROVE  /\ LastReferences(p) \in Seq(FT) /\ IsInjective(LastReferences(p))
         /\ \A f \in FT : f \in Range(LastReferences(p)) <=>
                            References(p)[f] > 0 /\ refcount[f] = References(p)[f]
<1> DEFINE S == LastFids(p)
           s == LastReferences(p)
           n == Cardinality(S)
<1>1. S \in SUBSET Fid /\ S \in SUBSET Int /\ IsFiniteSet(S) /\ n \in Nat
  BY FidLemma, Finite DEF LastFids
<1>2. \A i \in 1 .. n : Nth(S, i) \in S
  BY <1>1, NthLemma
<1>3. \A x \in S : \E i \in 1 .. n : x = Nth(S, i)
  BY <1>1, NthLemma
<1>4. \A fid \in S : FIDT[p][fid] \in FT
  BY FidLemma DEF LastFids, TypeOK
<1>5. s = [i \in 1 .. n |-> FIDT[p][Nth(S, i)]]
  BY DEF LastReferences
<1>6. s \in Seq(FT) /\ Len(s) = n
  <2> HIDE DEF s, S, n
  <2>1. s \in [1 .. n -> FT]
    BY <1>2, <1>4, <1>5
  <2> QED
    BY <1>1, <2>1
<1>7. \A x, y \in S : FIDT[p][x] = FIDT[p][y] => x = y
  <2>1. ASSUME NEW x \in S, NEW y \in S, FIDT[p][x] = FIDT[p][y] PROVE ~(x > y)
    BY <2>1, <1>1 DEF LastFids
  <2> QED
    BY <2>1, <1>1
<1>8. IsInjective(s)
  <2>1. ASSUME NEW i \in 1 .. n, NEW j \in 1 .. n, s[i] = s[j] PROVE i = j
    <3>1. Nth(S, i) = Nth(S, j)
      BY <2>1, <1>2, <1>5, <1>7
    <3> QED
      BY <3>1, <1>1, NthDistinct
  <2> QED
    BY <2>1, <1>6, Positions
<1>9. ASSUME NEW f \in FT
      PROVE  f \in Range(s) <=> \E fid \in S : FIDT[p][fid] = f
  <2>1. f \in Range(s) <=> \E i \in 1 .. n : s[i] = f
    BY <1>6, Positions
  <2> QED
    BY <2>1, <1>2, <1>3, <1>5
<1>10. ASSUME NEW f \in FT, References(p)[f] > 0, refcount[f] = References(p)[f]
       PROVE  \E fid \in S : FIDT[p][fid] = f
  <2> DEFINE T == Row(FIDT[p], f)
  <2>1. T # {} /\ T \in SUBSET (0 .. MAX_FILEID)
    <3>1. T # {} /\ T \subseteq Fid
      BY <1>10, RowLemma DEF Row
    <3>2. Fid \subseteq 0 .. MAX_FILEID
      BY DEF Fid, StreamsAssumption
    <3> QED
      BY <3>1, <3>2
  <2>2. PICK m \in T : \A k \in T : k <= m
    <3> HIDE DEF T
    <3> QED
      BY <2>1, GreatestNat DEF StreamsAssumption
  <2>3. m \in Fid /\ FIDT[p][m] = f /\ f # NULL
    BY FidLemma DEF Row
  <2>4. ASSUME NEW g \in Fid, g > m PROVE FIDT[p][g] # f
    <3>1. g \notin T
      BY <2>2, <2>3, <2>4, FidLemma
    <3> QED
      BY <3>1 DEF Row
  <2>5. m \in S
    BY <2>3, <2>4, <1>10 DEF LastFids
  <2> QED
    BY <2>3, <2>5
<1>11. ASSUME NEW f \in FT, NEW fid \in S, FIDT[p][fid] = f
       PROVE  References(p)[f] > 0 /\ refcount[f] = References(p)[f]
  <2>1. fid \in Row(FIDT[p], f)
    BY <1>11, <1>1 DEF Row
  <2> QED
    BY <2>1, <1>11, RowLemma DEF LastFids
<1> QED
  BY <1>6, <1>8, <1>9, <1>10, <1>11

LEMMA ExitLemma ==
  ASSUME StreamsAssumption, IInv, NEW p \in Process, Exit(p)
  PROVE  IInv'
<1> DEFINE more == None
           gone == References(p)
           last == LastReferences(p)
           row == Cleaned(p)
<1>t. TypeOK /\ DeadInv
  BY DEF IInv
<1>1. \A g \in FT : Callers(g)' = Callers(g)
  BY DEF Exit, Callers
<1>2. \A g \in FT : /\ gone[g] = Cardinality(Row(FIDT[p], g)) /\ gone[g] \in Nat
  BY <1>t, RowLemma
<1>3. \A g \in FT : Cardinality(Fids(g)') = Cardinality(Fids(g)) - gone[g]
  <2>1. FIDT' = [FIDT EXCEPT ![p] = row] /\ row \in [Fid -> FT \cup {NULL}]
    BY <1>t DEF Exit, TypeOK, Cleaned
  <2> TAKE g \in FT
  <2>3. Row(row, g) = {}
    BY FidLemma DEF Row, Cleaned
  <2> HIDE DEF more, gone, row
  <2>2. Cardinality(Fids(g)') =
          Cardinality(Fids(g)) - Cardinality(Row(FIDT[p], g)) + Cardinality(Row(row, g))
    BY <1>t, <2>1, SetRow
  <2> QED
    BY <1>2, <2>2, <2>3, FS_EmptySet, CountLemma
<1>4. \A g \in FT : /\ more[g] = 0
                    /\ refcount'[g] = refcount[g] - gone[g]
                    /\ refcount[g] \in Nat
  BY <1>t DEF TypeOK, Exit, Dropped, None
<1>5. refcount' = [g \in FT |-> refcount'[g]] /\ streamobj' = streamobj /\ Drop(last)
  BY DEF Exit, Dropped
<1>6. /\ last \in Seq(FT) /\ IsInjective(last)
      /\ \A g \in FT : g \in Range(last) <=> gone[g] > 0 /\ refcount[g] = gone[g]
  BY <1>t, LastReferencesLemma
<1>7. /\ FIDT' \in [Process -> [Fid -> FT \cup {NULL}]] /\ DeadInv'
      /\ alive' \in [Process -> BOOLEAN]
      /\ UNCHANGED <<fcb, streamobj>>
  BY <1>t DEF TypeOK, DeadInv, Exit, Cleaned
<1> HIDE DEF more, gone, last, row
<1>r. \A g \in FT : Refs(g)' = Refs(g) - gone[g]
  BY <1>1, <1>2, <1>3, CountLemma DEF Refs
<1>8. \A g \in FT : /\ more[g] \in Nat /\ gone[g] \in Nat
                    /\ more[g] = 0 \/ (gone[g] = 0 /\ InUse(g))
                    /\ Refs(g)' = Refs(g) + more[g] - gone[g]
                    /\ refcount'[g] = refcount[g] + more[g] - gone[g]
                    /\ g \in Range(last) <=> gone[g] > 0 /\ refcount[g] = gone[g]
  BY <1>2, <1>r, <1>4, <1>6, CountLemma
<1>9. /\ refcount' \in [FT -> Nat] /\ FCB_freelist' \in Seq(FT)
      /\ open' \in SUBSET Stream
      /\ FreeInv' /\ CountInv' /\ StreamInv'
  BY <1>5, <1>6, <1>8, CountStep
<1> QED
  BY <1>7, <1>9, <1>t DEF IInv, TypeOK

LEMMA ReserveFailsLemma ==
  ASSUME StreamsAssumption, IInv, NEW p \in Process, NEW num \in 1 .. 2,
         ReserveFails(p, num)
  PROVE  IInv'
<1>t. TypeOK /\ FreeInv /\ CountInv /\ StreamInv /\ DeadInv
  BY DEF IInv
<1>1. UNCHANGED <<alive, FIDT, streamobj, fcb, open>>
  BY DEF ReserveFails
<1>2. /\ \A f : Refs(f)' = Refs(f) /\ (InUse(f)' <=> InUse(f))
      /\ Used' = Used
  BY <1>1, KeepLemma
<1>3. FCB_freelist' \in Seq(FT) /\ FreeInv'
  <2>1. FCB_freelist' = Reverse(FCB_freelist)
    BY DEF ReserveFails, RolledBack
  <2> QED
    BY <1>t, <1>2, <2>1, ReverseLemma DEF TypeOK, FreeInv
<1>4. refcount' \in [FT -> Nat] /\ CountInv'
  <2>1. refcount' = [f \in FT |-> IF f \in Range(FCB_freelist) THEN 0 ELSE refcount[f]]
    BY DEF ReserveFails
  <2>2. refcount' \in [FT -> Nat]
    BY <1>t, <2>1 DEF TypeOK
  <2>3. \A f \in FT : InUse(f) => refcount'[f] = refcount[f]
    BY <1>t, <2>1 DEF FreeInv
  <2> QED
    BY <1>t, <1>2, <2>2, <2>3 DEF CountInv
<1>5. StreamInv' /\ DeadInv'
  BY <1>t, <1>1, <1>2 DEF StreamInv, DeadInv
<1> QED
  BY <1>t, <1>1, <1>3, <1>4, <1>5 DEF IInv, TypeOK

LEMMA OpenFailsLemma ==
  ASSUME StreamsAssumption, IInv, NEW p \in Process, OpenFails(p)
  PROVE  IInv'
<1> DEFINE h == Head(FCB_freelist)
<1>t. TypeOK /\ FreeInv /\ CountInv /\ StreamInv /\ DeadInv
  BY DEF IInv
<1>1. UNCHANGED <<alive, FIDT, streamobj, fcb, open>>
  BY DEF OpenFails
<1>2. /\ \A f : Refs(f)' = Refs(f) /\ (InUse(f)' <=> InUse(f))
      /\ Used' = Used
  BY <1>1, KeepLemma
<1>3. /\ h \in FT /\ h \in Range(FCB_freelist) /\ Tail(FCB_freelist) \in Seq(FT)
      /\ IsInjective(Tail(FCB_freelist)) /\ h \notin Range(Tail(FCB_freelist))
      /\ Range(Tail(FCB_freelist)) \cup {h} = Range(FCB_freelist)
  <2>1. FCB_freelist \in Seq(FT) /\ FCB_freelist # <<>> /\ IsInjective(FCB_freelist)
    BY <1>t DEF TypeOK, FreeInv, OpenFails
  <2> QED
    BY <2>1, PopLemma
<1>4. FCB_freelist' \in Seq(FT) /\ FreeInv'
  <2>1. FCB_freelist' = Append(Tail(FCB_freelist), h)
    BY DEF OpenFails, Unreserved
  <2> DEFINE r == Tail(FCB_freelist)
  <2>3. r \in Seq(FT) /\ h \in FT /\ IsInjective(r) /\ h \notin Range(r)
    BY <1>3
  <2> HIDE DEF h
  <2>4. /\ Append(r, h) \in Seq(FT) /\ IsInjective(Append(r, h))
        /\ Range(Append(r, h)) = Range(r) \cup {h}
    <3> HIDE DEF r
    <3> QED
      BY <2>3, AppendLemma
  <2>2. /\ FCB_freelist' \in Seq(FT) /\ IsInjective(FCB_freelist')
        /\ Range(FCB_freelist') = Range(FCB_freelist)
    BY <1>3, <2>1, <2>4
  <2> QED
    BY <1>t, <1>2, <2>2 DEF FreeInv
<1>5. refcount' \in [FT -> Nat] /\ CountInv'
  <2>1. refcount' = [refcount EXCEPT ![h] = 1]
    BY DEF OpenFails
  <2>2. refcount' \in [FT -> Nat]
    BY <1>t, <2>1 DEF TypeOK
  <2>3. \A f \in FT : InUse(f) => f # h
    BY <1>t, <1>3 DEF FreeInv
  <2>4. \A f \in FT : InUse(f) => refcount'[f] = refcount[f]
    BY <1>t, <2>1, <2>3 DEF TypeOK
  <2> QED
    BY <1>t, <1>2, <2>2, <2>4 DEF CountInv
<1>6. StreamInv' /\ DeadInv'
  BY <1>t, <1>1, <1>2 DEF StreamInv, DeadInv
<1> QED
  BY <1>t, <1>1, <1>4, <1>5, <1>6 DEF IInv, TypeOK

\* A list is cut in two.
LEMMA CutLemma ==
  ASSUME NEW S, NEW s \in Seq(S), IsInjective(s), NEW n \in 0 .. Len(s)
  PROVE  /\ SubSeq(s, 1, n) \in Seq(S) /\ Len(SubSeq(s, 1, n)) = n
         /\ \A i \in 1 .. n : SubSeq(s, 1, n)[i] = s[i]
         /\ SubSeq(s, n + 1, Len(s)) \in Seq(S)
         /\ IsInjective(SubSeq(s, 1, n)) /\ IsInjective(SubSeq(s, n + 1, Len(s)))
         /\ Range(SubSeq(s, 1, n)) \subseteq Range(s)
         /\ Range(SubSeq(s, n + 1, Len(s))) = Range(s) \ Range(SubSeq(s, 1, n))
<1> DEFINE a == SubSeq(s, 1, n)
           b == SubSeq(s, n + 1, Len(s))
<1>1. /\ a \in Seq(S) /\ Len(a) = n /\ \A i \in 1 .. n : a[i] = s[i]
      /\ b \in Seq(S) /\ Len(b) = Len(s) - n
      /\ \A i \in 1 .. Len(s) - n : b[i] = s[i + n]
      /\ Len(s) \in Nat /\ n \in Nat /\ n <= Len(s)
  OBVIOUS
<1>2. \A i, j \in 1 .. Len(s) : s[i] = s[j] => i = j
  BY Positions
<1> HIDE DEF a, b
<1>p. ASSUME NEW q \in Seq(S), NEW m, Len(q) = m
      PROVE  /\ \A x : x \in Range(q) <=> \E i \in 1 .. m : q[i] = x
             /\ (\A i, j \in 1 .. m : q[i] = q[j] => i = j) => IsInjective(q)
  BY <1>p, Positions, Zenon
<1>3. /\ \A x : x \in Range(a) <=> \E i \in 1 .. n : a[i] = x
      /\ (\A i, j \in 1 .. n : a[i] = a[j] => i = j) => IsInjective(a)
  <2>1. a \in Seq(S) /\ Len(a) = n
    BY <1>1
  <2> QED
    BY <2>1, <1>p
<1>4. /\ \A x : x \in Range(b) <=> \E i \in 1 .. Len(s) - n : b[i] = x
      /\ (\A i, j \in 1 .. Len(s) - n : b[i] = b[j] => i = j) => IsInjective(b)
  BY <1>1, <1>p, Zenon
<1>5. \A x : x \in Range(s) <=> \E i \in 1 .. Len(s) : s[i] = x
  BY Positions
<1>6. IsInjective(a) /\ Range(a) \subseteq Range(s)
  <2>1. \A i \in 1 .. n : i \in 1 .. Len(s) /\ a[i] = s[i]
    BY <1>1
  <2>2. \A i, j \in 1 .. n : a[i] = a[j] => i = j
    BY <1>2, <2>1
  <2>3. Range(a) \subseteq Range(s)
    BY <1>3, <1>5, <2>1
  <2> QED
    BY <1>3, <2>2, <2>3
<1>7. IsInjective(b)
  <2>1. ASSUME NEW i \in 1 .. Len(s) - n, NEW j \in 1 .. Len(s) - n, b[i] = b[j]
        PROVE  i = j
    <3>1. i + n \in 1 .. Len(s) /\ j + n \in 1 .. Len(s) /\ s[i + n] = s[j + n]
      BY <1>1, <2>1
    <3>2. i + n = j + n
      BY <1>2, <3>1
    <3> QED
      BY <3>2, <1>1
  <2> QED
    BY <2>1, <1>4
<1>8. ASSUME NEW x \in Range(b) PROVE x \in Range(s) /\ x \notin Range(a)
  <2>0. PICK i \in 1 .. Len(s) - n : b[i] = x
    BY <1>4
  <2>1. s[i + n] = x /\ i + n \in 1 .. Len(s)
    BY <1>1, <2>0
  <2>2. \A j \in 1 .. n : j \in 1 .. Len(s) /\ j # i + n
    BY <1>1
  <2> QED
    BY <1>1, <1>2, <1>3, <1>5, <2>1, <2>2
<1>9. ASSUME NEW x \in Range(s), x \notin Range(a) PROVE x \in Range(b)
  <2>1. PICK i \in 1 .. Len(s) : s[i] = x
    BY <1>5
  <2>2. ~(i <= n)
    BY <1>1, <1>3, <1>9, <2>1
  <2>3. i - n \in 1 .. Len(s) - n /\ b[i - n] = s[i]
    <3>1. i - n \in 1 .. Len(s) - n /\ (i - n) + n = i
      BY <1>1, <2>2
    <3> QED
      BY <3>1, <1>1
  <2> QED
    BY <1>4, <2>1, <2>3
<1>10. Range(b) = Range(s) \ Range(a)
  BY <1>8, <1>9
<1> QED
  BY <1>1, <1>6, <1>7, <1>10 DEF a, b

LEMMA AtLemma ==
  ASSUME NEW s, IsInjective(s), NEW i \in DOMAIN s
  PROVE  At(s, s[i]) = i
<1>1. \E j \in DOMAIN s : s[j] = s[i]
  OBVIOUS
<1>2. At(s, s[i]) \in DOMAIN s /\ s[At(s, s[i])] = s[i]
  BY <1>1 DEF At
<1> QED
  BY <1>2 DEF IsInjective

\* What FCB_reserve finds for num streams of p, and the FIDT that it makes.
Found(p, num) == [i \in 1 .. num |-> NthFree(p, i)]

Reserved(p, num) ==
  [g \in Fid |-> IF g \in Range(Found(p, num)) THEN Acquired(num)[At(Found(p, num), g)]
                 ELSE FIDT[p][g]]

LEMMA ReserveLemma ==
  ASSUME StreamsAssumption, IInv, NEW p \in Process, NEW num \in Nat,
         num <= Cardinality(FreeFids(p)), num <= Len(FCB_freelist)
  PROVE  LET fid == Found(p, num)
             fcbs == Acquired(num)
             row == Reserved(p, num)
         IN  /\ DOMAIN fid = 1 .. num /\ IsInjective(fid)
             /\ DOMAIN fcbs = 1 .. num /\ IsInjective(fcbs)
             /\ \A i \in 1 .. num : /\ fid[i] \in Fid /\ FIDT[p][fid[i]] = NULL
                                    /\ fcbs[i] \in FT /\ ~InUse(fcbs[i])
                                    /\ fcbs[i] \in Range(FCB_freelist)
                                    /\ row[fid[i]] = fcbs[i]
             /\ row \in [Fid -> FT \cup {NULL}]
             /\ \A g \in Fid : g \notin Range(fid) => row[g] = FIDT[p][g]
<1> DEFINE fid == Found(p, num)
           fcbs == Acquired(num)
           row == Reserved(p, num)
           S == FreeFids(p)
<1>t. TypeOK /\ FreeInv
  BY DEF IInv
<1>1. S \in SUBSET Fid /\ S \in SUBSET Int /\ IsFiniteSet(S) /\ Cardinality(S) \in Nat
  BY FidLemma, Finite DEF FreeFids
<1>2. ASSUME NEW i \in 1 .. num
      PROVE  i \in 1 .. Cardinality(S) /\ fid[i] = Nth(S, i) /\ fid[i] \in S
  <2>1. i \in 1 .. Cardinality(S)
    BY <1>1
  <2>2. fid[i] = Nth(S, i)
    BY DEF Found, NthFree
  <2>3. Nth(S, i) \in S
    BY <1>1, <2>1, NthLemma
  <2> QED
    BY <2>1, <2>2, <2>3
<1>3. DOMAIN fid = 1 .. num /\ IsInjective(fid)
  <2>1. DOMAIN fid = 1 .. num
    BY DEF Found
  <2>2. ASSUME NEW i \in 1 .. num, NEW j \in 1 .. num, fid[i] = fid[j] PROVE i = j
    <3>1. /\ i \in 1 .. Cardinality(S) /\ j \in 1 .. Cardinality(S)
          /\ Nth(S, i) = Nth(S, j)
      BY <1>2, <2>2
    <3> QED
      BY <3>1, <1>1, NthDistinct
  <2> HIDE DEF fid
  <2> QED
    BY <2>1, <2>2 DEF IsInjective
<1>4. /\ fcbs \in Seq(FT) /\ Len(fcbs) = num /\ IsInjective(fcbs)
      /\ Range(fcbs) \subseteq Range(FCB_freelist)
  <2>1. FCB_freelist \in Seq(FT) /\ IsInjective(FCB_freelist) /\ num \in 0 .. Len(FCB_freelist)
    BY <1>t DEF TypeOK, FreeInv
  <2> QED
    BY <2>1, CutLemma DEF Acquired
<1>5. DOMAIN fcbs = 1 .. num
  <2> HIDE DEF fcbs
  <2> QED
    BY <1>4
<1>6. ASSUME NEW i \in 1 .. num
      PROVE  fcbs[i] \in FT /\ fcbs[i] \in Range(FCB_freelist) /\ ~InUse(fcbs[i])
  <2>1. fcbs[i] \in FT /\ fcbs[i] \in Range(fcbs)
    <3> HIDE DEF fcbs
    <3> QED
      BY <1>4, <1>5 DEF Range
  <2> QED
    BY <2>1, <1>4, <1>t DEF FreeInv
<1>7. ASSUME NEW g \in Range(fid)
      PROVE  g \in Fid /\ At(fid, g) \in 1 .. num /\ fid[At(fid, g)] = g
  <2>1. PICK i \in 1 .. num : fid[i] = g
    <3> HIDE DEF fid
    <3> QED
      BY <1>3 DEF Range
  <2>2. At(fid, g) = i
    <3> HIDE DEF fid
    <3>1. At(fid, fid[i]) = i
      BY <1>3, AtLemma
    <3> QED
      BY <2>1, <3>1
  <2> QED
    BY <2>1, <2>2, <1>1, <1>2
<1>8. ASSUME NEW i \in 1 .. num
      PROVE  fid[i] \in Range(fid) /\ At(fid, fid[i]) = i
  <2> HIDE DEF fid
  <2> QED
    BY <1>3, AtLemma DEF Range
<1>9. \A g \in Fid : row[g] = IF g \in Range(fid) THEN fcbs[At(fid, g)] ELSE FIDT[p][g]
  BY DEF Reserved
<1>10. row \in [Fid -> FT \cup {NULL}]
  <2>1. \A g \in Fid : row[g] \in FT \cup {NULL}
    <3> HIDE DEF row, fid, fcbs
    <3>1. \A g \in Fid : FIDT[p][g] \in FT \cup {NULL}
      BY <1>t DEF TypeOK
    <3>2. \A g \in Range(fid) : fcbs[At(fid, g)] \in FT
      BY <1>6, <1>7
    <3> QED
      BY <3>1, <3>2, <1>9
  <2>2. row = [g \in Fid |-> row[g]]
    BY DEF Reserved
  <2> HIDE DEF row
  <2> QED
    BY <2>1, <2>2
<1>11. ASSUME NEW i \in 1 .. num
       PROVE  fid[i] \in Fid /\ FIDT[p][fid[i]] = NULL /\ row[fid[i]] = fcbs[i]
  <2>1. fid[i] \in Fid /\ FIDT[p][fid[i]] = NULL
    BY <1>2 DEF FreeFids
  <2> HIDE DEF row, fid, fcbs
  <2> QED
    BY <2>1, <1>8, <1>9
<1>12. \A g \in Fid : g \notin Range(fid) => row[g] = FIDT[p][g]
  <2> HIDE DEF row, fid, fcbs
  <2> QED
    BY <1>9
<1> QED
  BY <1>3, <1>4, <1>5, <1>6, <1>10, <1>11, <1>12

\* Each of the FCBs that FCB_reserve takes is found at one file id, and nothing
\* else changes.
LEMMA ReservedRefs ==
  ASSUME StreamsAssumption, IInv, NEW p \in Process, NEW num \in Nat,
         num <= Cardinality(FreeFids(p)), num <= Len(FCB_freelist),
         FIDT' = [FIDT EXCEPT ![p] = Reserved(p, num)], fcb' = fcb, NEW f \in FT
  PROVE  Refs(f)' = IF f \in Range(Acquired(num)) THEN 1 ELSE Refs(f)
<1> DEFINE fid == Found(p, num)
           fcbs == Acquired(num)
           row == Reserved(p, num)
<1>t. TypeOK
  BY DEF IInv
<1>1. /\ DOMAIN fid = 1 .. num /\ IsInjective(fid)
      /\ DOMAIN fcbs = 1 .. num /\ IsInjective(fcbs)
      /\ row \in [Fid -> FT \cup {NULL}]
  BY ReserveLemma
<1>2. \A i \in 1 .. num : /\ fid[i] \in Fid /\ FIDT[p][fid[i]] = NULL
                          /\ ~InUse(fcbs[i]) /\ row[fid[i]] = fcbs[i]
  BY ReserveLemma
<1>3. \A g \in Fid : g \notin Range(fid) => row[g] = FIDT[p][g]
  BY ReserveLemma
<1>r. FIDT' = [FIDT EXCEPT ![p] = row] /\ NULL \notin FT
  BY FidLemma
<1> HIDE DEF fid, fcbs, row
<1>4. /\ \A x : x \in Range(fid) <=> \E i \in 1 .. num : fid[i] = x
      /\ \A x : x \in Range(fcbs) <=> \E i \in 1 .. num : fcbs[i] = x
      /\ \A i, j \in 1 .. num : fcbs[i] = fcbs[j] => i = j
  BY <1>1 DEF Range, IsInjective
<1>5. /\ Cardinality(Fids(f)') =
           Cardinality(Fids(f)) - Cardinality(Row(FIDT[p], f)) + Cardinality(Row(row, f))
      /\ Cardinality(Callers(f)') = Cardinality(Callers(f))
  <2>1. Callers(f)' = Callers(f)
    BY DEF Callers
  <2> QED
    BY <2>1, <1>t, <1>1, <1>r, SetRow
<1>6. /\ Cardinality(Fids(f)) \in Nat /\ Cardinality(Callers(f)) \in Nat
      /\ Cardinality(Row(FIDT[p], f)) \in Nat /\ Refs(f) \in Nat
      /\ InUse(f) <=> Refs(f) > 0
  BY CountLemma, Finite DEF Row
<1>7. Row(FIDT[p], f) # {} => InUse(f)
  <2>1. ASSUME NEW g \in Fid, FIDT[p][g] = f PROVE InUse(f)
    <3>1. <<p, g>> \in Fids(f)
      BY <2>1 DEF Fids
    <3> QED
      BY <3>1 DEF InUse
  <2> QED
    BY <2>1 DEF Row
<1>8. CASE f \in Range(fcbs)
  <2>1. PICK i \in 1 .. num : fcbs[i] = f
    BY <1>4, <1>8
  <2>2. Row(row, f) = {fid[i]}
    <3>1. fid[i] \in Row(row, f)
      BY <1>2, <2>1 DEF Row
    <3>2. ASSUME NEW g \in Fid, row[g] = f PROVE g = fid[i]
      <4>1. g \in Range(fid)
        <5>1. FIDT[p][g] # f
          BY <1>2, <1>7, <2>1 DEF Row
        <5> QED
          BY <5>1, <1>3, <3>2
      <4>2. PICK j \in 1 .. num : fid[j] = g
        BY <4>1, <1>4
      <4>3. fcbs[j] = fcbs[i]
        BY <4>2, <3>2, <2>1, <1>2
      <4> QED
        BY <4>2, <4>3, <1>4
    <3> QED
      BY <3>1, <3>2 DEF Row
  <2>3. Cardinality(Row(row, f)) = 1
    BY <2>2, FS_Singleton
  <2>4. ~InUse(f) /\ Row(FIDT[p], f) = {}
    BY <1>2, <1>7, <2>1
  <2>5. Refs(f) = 0 /\ Cardinality(Row(FIDT[p], f)) = 0
    BY <2>4, <1>6, FS_EmptySet
  <2>6. Refs(f)' = 1
    BY <2>3, <2>5, <1>5, <1>6 DEF Refs
  <2> QED
    BY <2>6, <1>8 DEF fcbs
<1>9. CASE f \notin Range(fcbs)
  <2>1. Row(row, f) = Row(FIDT[p], f)
    <3>1. ASSUME NEW g \in Fid PROVE row[g] = f <=> FIDT[p][g] = f
      <4>1. CASE g \in Range(fid)
        <5>1. PICK j \in 1 .. num : fid[j] = g
          BY <4>1, <1>4
        <5>2. row[g] = fcbs[j] /\ FIDT[p][g] = NULL /\ fcbs[j] # f
          BY <5>1, <1>2, <1>4, <1>9
        <5> QED
          BY <5>2, <1>r
      <4>2. CASE g \notin Range(fid)
        BY <4>2, <1>3
      <4> QED
        BY <4>1, <4>2
    <3> QED
      BY <3>1 DEF Row
  <2>2. Refs(f)' = Refs(f)
    BY <2>1, <1>5, <1>6 DEF Refs
  <2> QED
    BY <2>2, <1>9 DEF fcbs
<1> QED
  BY <1>8, <1>9 DEF fcbs

LEMMA OpenLemma ==
  ASSUME StreamsAssumption, IInv, NEW p \in Process,
         NEW streams \in Seq(Stream), IsInjective(streams), Open(p, streams)
  PROVE  IInv'
<1> DEFINE num == Len(streams)
           fcbs == Acquired(num)
           row == Reserved(p, num)
<1>t. TypeOK /\ FreeInv /\ CountInv /\ StreamInv /\ DeadInv
  BY DEF IInv
<1>1. /\ num \in Nat /\ num <= Cardinality(FreeFids(p)) /\ num <= Len(FCB_freelist)
      /\ FCB_freelist' = SubSeq(FCB_freelist, num + 1, Len(FCB_freelist))
      /\ FIDT' = [FIDT EXCEPT ![p] = row]
      /\ refcount' = [f \in FT |-> IF f \in Range(fcbs) THEN 1 ELSE refcount[f]]
      /\ streamobj' = [f \in FT |-> IF f \in Range(fcbs) THEN streams[At(fcbs, f)]
                                    ELSE streamobj[f]]
  BY DEF Open, FCB_reserve, Reserved, Found
<1>2. /\ alive' = alive /\ fcb' = fcb /\ alive[p]
      /\ \A i \in DOMAIN streams : streams[i] \notin open
      /\ open' = open \cup {streams[i] : i \in DOMAIN streams}
  BY DEF Open
<1>3. /\ DOMAIN fcbs = 1 .. num /\ IsInjective(fcbs)
      /\ \A i \in 1 .. num : /\ fcbs[i] \in FT /\ ~InUse(fcbs[i])
                             /\ fcbs[i] \in Range(FCB_freelist)
      /\ row \in [Fid -> FT \cup {NULL}]
  BY <1>1, ReserveLemma
<1>4. \A f \in FT : Refs(f)' = IF f \in Range(fcbs) THEN 1 ELSE Refs(f)
  BY <1>1, <1>2, ReservedRefs
<1>5. /\ DOMAIN streams = 1 .. num
      /\ \A i \in 1 .. num : streams[i] \in Stream
      /\ \A i, j \in 1 .. num : streams[i] = streams[j] => i = j
  BY DEF IsInjective
<1> HIDE DEF num, fcbs, row
<1>6. \A x : x \in Range(fcbs) <=> \E i \in 1 .. num : fcbs[i] = x
  BY <1>3 DEF Range
<1>7. \A f \in FT : InUse(f)' <=> InUse(f) \/ f \in Range(fcbs)
  BY <1>4, CountLemma
<1>8. Used' = Used \cup Range(fcbs) /\ Used \cap Range(fcbs) = {}
  BY <1>3, <1>6, <1>7 DEF Used
<1>9. FCB_freelist' \in Seq(FT) /\ FreeInv'
  <2>1. FCB_freelist \in Seq(FT) /\ IsInjective(FCB_freelist) /\ num \in 0 .. Len(FCB_freelist)
    BY <1>t, <1>1 DEF TypeOK, FreeInv
  <2>2. /\ FCB_freelist' \in Seq(FT) /\ IsInjective(FCB_freelist')
        /\ Range(FCB_freelist') = Range(FCB_freelist) \ Range(fcbs)
    BY <1>1, <2>1, CutLemma DEF fcbs, Acquired
  <2> QED
    BY <1>t, <1>7, <2>2 DEF FreeInv
<1>10. refcount' \in [FT -> Nat] /\ CountInv'
  <2>1. refcount' \in [FT -> Nat]
    BY <1>t, <1>1 DEF TypeOK
  <2>2. \A f \in FT : InUse(f)' => refcount'[f] = Refs(f)'
    BY <1>t, <1>1, <1>4, <1>7 DEF CountInv
  <2> QED
    BY <2>1, <2>2 DEF CountInv
<1>11. /\ \A f \in Used : streamobj'[f] = streamobj[f]
       /\ \A i \in 1 .. num : fcbs[i] \in Range(fcbs) /\ streamobj'[fcbs[i]] = streams[i]
  <2>1. \A f \in Used : streamobj'[f] = streamobj[f]
    BY <1>1, <1>8 DEF Used
  <2>2. \A i \in 1 .. num : fcbs[i] \in Range(fcbs) /\ streamobj'[fcbs[i]] = streams[i]
    BY <1>1, <1>3, <1>6, AtLemma
  <2> QED
    BY <2>1, <2>2
<1>12. StreamInv'
  <2>1. {streamobj[f] : f \in Used} = open
    BY <1>t DEF StreamInv
  <2>2. \A f, g \in Used : streamobj[f] = streamobj[g] => f = g
    BY <1>t DEF StreamInv
  <2>3. {streamobj'[f] : f \in Used'} = open'
    <3>1. ASSUME NEW f \in Used' PROVE streamobj'[f] \in open'
      BY <1>2, <1>5, <1>6, <1>8, <1>11, <2>1
    <3>2. ASSUME NEW s \in open' PROVE \E f \in Used' : streamobj'[f] = s
      <4>1. CASE s \in open
        BY <4>1, <1>8, <1>11, <2>1
      <4>2. CASE \E i \in 1 .. num : streams[i] = s
        BY <4>2, <1>8, <1>11
      <4> QED
        BY <4>1, <4>2, <1>2, <1>5
    <3> QED
      BY <3>1, <3>2
  <2>4. ASSUME NEW f \in Used', NEW g \in Used', streamobj'[f] = streamobj'[g]
        PROVE  f = g
    <3>1. ASSUME NEW i \in 1 .. num, NEW h \in Used PROVE streamobj'[fcbs[i]] # streamobj'[h]
      BY <1>2, <1>5, <1>11, <2>1
    <3>2. CASE f \in Used /\ g \in Used
      BY <3>2, <1>11, <2>2, <2>4
    <3>3. CASE f \in Range(fcbs) /\ g \in Range(fcbs)
      BY <3>3, <1>5, <1>6, <1>11, <2>4
    <3> QED
      BY <3>1, <3>2, <3>3, <1>6, <1>8, <2>4
  <2> QED
    BY <2>3, <2>4 DEF StreamInv
<1>13. FIDT' \in [Process -> [Fid -> FT \cup {NULL}]] /\ DeadInv'
  BY <1>t, <1>1, <1>2, <1>3 DEF TypeOK, DeadInv
<1>14. streamobj' \in [FT -> Stream \cup {NULL}]
  <2>1. \A f \in FT : streamobj'[f] \in Stream \cup {NULL}
    <3>1. ASSUME NEW f \in FT, f \in Range(fcbs) PROVE streamobj'[f] \in Stream
      BY <3>1, <1>5, <1>6, <1>11
    <3>2. ASSUME NEW f \in FT, f \notin Range(fcbs) PROVE streamobj'[f] = streamobj[f]
      BY <3>2, <1>1
    <3> QED
      BY <3>1, <3>2, <1>t DEF TypeOK
  <2> QED
    BY <1>1, <2>1
<1>15. open' \subseteq Stream
  BY <1>t, <1>2, <1>5 DEF TypeOK
<1> QED
  BY <1>t, <1>2, <1>9, <1>10, <1>12, <1>13, <1>14, <1>15 DEF IInv, TypeOK

\* Next opens one stream, or two different ones.
LEMMA OpenedLemma ==
  ASSUME NEW S, NEW s \in S
  PROVE  /\ <<s>> \in Seq(S) /\ IsInjective(<<s>>)
         /\ \A r \in S \ {s} : <<r, s>> \in Seq(S) /\ IsInjective(<<r, s>>)
BY DEF IsInjective

LEMMA StepLemma ==
  ASSUME StreamsAssumption, IInv, [Next]_vars
  PROVE  IInv'
<1>1. CASE \E p \in Process, s \in Stream :
             Open(p, <<s>>) \/ \E r \in Stream \ {s} : Open(p, <<r, s>>)
  <2>1. PICK p \in Process, s \in Stream :
          Open(p, <<s>>) \/ \E r \in Stream \ {s} : Open(p, <<r, s>>)
    BY <1>1
  <2>2. PICK q \in Seq(Stream) : IsInjective(q) /\ Open(p, q)
    BY <2>1, OpenedLemma
  <2> QED
    BY <2>2, OpenLemma
<1>2. CASE \E p \in Process :
             \/ OpenFails(p) \/ Exit(p)
             \/ \E num \in 1 .. 2 : ReserveFails(p, num)
             \/ \E child \in Process \ {InitProcess} : Exec(p, child)
  BY <1>2, OpenFailsLemma, ExitLemma, ReserveFailsLemma, ExecLemma
<1>3. CASE \E p \in Process, fid \in Fid :
             Close(p, fid) \/ \E newfid \in Fid : Dup2(p, fid, newfid)
  BY <1>3, CloseLemma, Dup2Lemma
<1>4. CASE \E t \in Thread : End(t) \/ \E fid \in Fid : Begin(t, fid)
  BY <1>4, EndLemma, BeginLemma
<1>5. CASE UNCHANGED vars
  <2>1. UNCHANGED <<alive, FIDT, refcount, streamobj, FCB_freelist, fcb, open>>
    BY <1>5 DEF vars
  <2>2. /\ \A f : Refs(f)' = Refs(f) /\ (InUse(f)' <=> InUse(f))
        /\ Used' = Used
    BY <2>1, KeepLemma
  <2>3. TypeOK' /\ DeadInv' /\ StreamInv'
    BY <2>1, <2>2 DEF IInv, TypeOK, StreamInv, DeadInv
  <2>4. FreeInv' /\ CountInv'
    BY <2>1, <2>2 DEF IInv, FreeInv, CountInv
  <2> QED
    BY <2>3, <2>4 DEF IInv
<1> QED
  BY <1>1, <1>2, <1>3, <1>4, <1>5 DEF Next, Halted

LEMMA AccountingLemma ==
  ASSUME StreamsAssumption, IInv
  PROVE  FCBAccounting
<1>t. TypeOK /\ FreeInv /\ CountInv /\ StreamInv
  BY DEF IInv
<1>1. ASSUME NEW f \in FT
      PROVE  LET places == Cardinality({i \in DOMAIN FCB_freelist : FCB_freelist[i] = f})
             IN  \/ places = 1 /\ Referring(f) = 0
                 \/ places = 0 /\ Referring(f) = refcount[f] /\ refcount[f] > 0
  <2> DEFINE at == {i \in DOMAIN FCB_freelist : FCB_freelist[i] = f}
  <2>1. Referring(f) = Refs(f) /\ Refs(f) \in Nat /\ (InUse(f) <=> Refs(f) > 0)
    BY CountLemma DEF Referring, Refs, Fids, Callers
  <2>2. CASE InUse(f)
    <3>1. at = {}
      BY <1>t, <2>2 DEF FreeInv, Range
    <3>2. Cardinality(at) = 0
      BY <3>1, FS_EmptySet
    <3>3. Refs(f) = refcount[f] /\ refcount[f] > 0
      BY <1>t, <2>1, <2>2 DEF CountInv
    <3> HIDE DEF at
    <3>4. Cardinality(at) = 0 /\ Referring(f) = refcount[f] /\ refcount[f] > 0
      BY <2>1, <3>2, <3>3
    <3> QED
      BY <3>4 DEF at
  <2>3. CASE ~InUse(f)
    <3>1. f \in Range(FCB_freelist) /\ IsInjective(FCB_freelist)
      BY <1>t, <2>3 DEF FreeInv
    <3>2. PICK i \in DOMAIN FCB_freelist : FCB_freelist[i] = f
      BY <3>1 DEF Range
    <3>3. at = {i}
      BY <3>1, <3>2 DEF IsInjective
    <3>4. Cardinality(at) = 1
      BY <3>3, FS_Singleton
    <3> HIDE DEF at
    <3>5. Cardinality(at) = 1 /\ Referring(f) = 0
      BY <2>1, <2>3, <3>4
    <3> QED
      BY <3>5 DEF at
  <2> QED
    BY <2>2, <2>3
<1>2. StreamsHeld
  <2>1. {f \in FT : Referring(f) > 0} = Used
    <3>1. \A f \in FT : Referring(f) > 0 <=> InUse(f)
      BY CountLemma DEF Referring, Refs, Fids, Callers
    <3> QED
      BY <3>1 DEF Used
  <2> QED
    BY <1>t, <2>1 DEF StreamsHeld, StreamInv
<1> QED
  BY <1>t, <1>1, <1>2 DEF FCBAccounting, FCBsCounted

-----------------------------------------------------------------------------
(* The theorems.                                                           *)

\* kernel_streams.c, in every state: an FCB is free, once, or refcount counts what
\* refers to it, and the FCBs in use hold the open streams.
THEOREM StreamsInvariant ==
  ASSUME StreamsAssumption
  PROVE  Spec => []IInv
<1>1. Init => IInv
  BY InitLemma
<1>2. IInv /\ [Next]_vars => IInv'
  BY StepLemma
<1> QED
  BY <1>1, <1>2, PTL DEF Spec

\* kernel_streams.c: acquire_FCB never gives an FCB that something refers to, none
\* is lost, and a stream is closed when its last reference goes and not before.
THEOREM FCBsAccounted ==
  ASSUME StreamsAssumption
  PROVE  Spec => []FCBAccounting
<1>1. IInv => FCBAccounting
  BY AccountingLemma
<1> QED
  BY <1>1, StreamsInvariant, PTL

-----------------------------------------------------------------------------
(* The file ids of tinyos.h.                                               *)

\* What a file id names: an FCB in use has a stream.
LEMMA NamingLemma ==
  ASSUME StreamsAssumption, IInv
  PROVE  /\ \A p \in Process, fid \in Fid :
              /\ Naming[p][fid] = Of(FIDT[p][fid])
              /\ Naming[p][fid] = NULL <=> FIDT[p][fid] = NULL
         /\ \A t \in Thread : /\ Using[t] = Of(fcb[t])
                              /\ Using[t] = NULL <=> fcb[t] = NULL
<1>1. \A f \in Used : streamobj[f] \in Stream /\ streamobj[f] # NULL
  BY DEF IInv, TypeOK, StreamInv, StreamsAssumption
<1>2. ASSUME NEW p \in Process, NEW fid \in Fid, FIDT[p][fid] # NULL
      PROVE  FIDT[p][fid] \in Used
  <2>1. FIDT[p][fid] \in FT /\ <<p, fid>> \in Fids(FIDT[p][fid])
    BY <1>2 DEF IInv, TypeOK, Fids
  <2> QED
    BY <2>1 DEF Used, InUse
<1>3. ASSUME NEW t \in Thread, fcb[t] # NULL
      PROVE  fcb[t] \in Used
  BY <1>3 DEF IInv, TypeOK, Callers, Used, InUse
<1> QED
  BY <1>1, <1>2, <1>3 DEF Naming, Using, Of

\* The streams that are open are those named and used.
LEMMA OpenLaw ==
  ASSUME StreamsAssumption, IInv'
  PROVE  open' = Files!Named(Naming', Using')
<1>1. /\ open' = {streamobj'[f] : f \in Used'} /\ open' \subseteq Stream
  BY DEF IInv, StreamInv, TypeOK
<1>2. /\ \A p \in Process, fid \in Fid :
           /\ FIDT'[p][fid] \in FT \cup {NULL}
           /\ Naming'[p][fid] = IF FIDT'[p][fid] = NULL THEN NULL
                                ELSE streamobj'[FIDT'[p][fid]]
      /\ \A t \in Thread :
           /\ fcb'[t] \in FT \cup {NULL}
           /\ Using'[t] = IF fcb'[t] = NULL THEN NULL ELSE streamobj'[fcb'[t]]
      /\ NULL \notin FT /\ NULL \notin Stream
  BY FidLemma DEF IInv, TypeOK, Naming, Using, Of, StreamsAssumption
<1>3. ASSUME NEW f \in FT
      PROVE  f \in Used' <=> \/ \E p \in Process, fid \in Fid : FIDT'[p][fid] = f
                             \/ \E t \in Thread : fcb'[t] = f
  <2>1. Fids(f)' # {} <=> \E p \in Process, fid \in Fid : FIDT'[p][fid] = f
    <3>1. ASSUME NEW p \in Process, NEW fid \in Fid, FIDT'[p][fid] = f PROVE Fids(f)' # {}
      <4>1. <<p, fid>> \in Fids(f)'
        BY <3>1 DEF Fids
      <4> QED
        BY <4>1
    <3>2. ASSUME Fids(f)' # {} PROVE \E p \in Process, fid \in Fid : FIDT'[p][fid] = f
      BY <3>2 DEF Fids
    <3> QED
      BY <3>1, <3>2
  <2>2. Callers(f)' # {} <=> \E t \in Thread : fcb'[t] = f
    BY DEF Callers
  <2> QED
    BY <2>1, <2>2 DEF Used, InUse
<1>4. ASSUME NEW s \in open'
      PROVE  \/ \E p \in Process, fid \in Fid : Naming'[p][fid] = s
             \/ \E t \in Thread : Using'[t] = s
  <2>1. PICK f \in Used' : streamobj'[f] = s
    BY <1>1
  <2>2. f \in FT /\ f # NULL
    BY <2>1, <1>2 DEF Used
  <2> QED
    BY <1>2, <1>3, <2>1, <2>2
<1>5. ASSUME NEW s \in Stream,
             \/ \E p \in Process, fid \in Fid : Naming'[p][fid] = s
             \/ \E t \in Thread : Using'[t] = s
      PROVE  s \in open'
  <2>1. CASE \E p \in Process, fid \in Fid : Naming'[p][fid] = s
    <3>1. PICK p \in Process, fid \in Fid : Naming'[p][fid] = s
      BY <2>1
    <3>2. FIDT'[p][fid] \in FT /\ streamobj'[FIDT'[p][fid]] = s
      BY <1>2, <3>1
    <3> QED
      BY <1>1, <1>3, <3>2
  <2>2. CASE \E t \in Thread : Using'[t] = s
    <3>1. PICK t \in Thread : Using'[t] = s
      BY <2>2
    <3>2. fcb'[t] \in FT /\ streamobj'[fcb'[t]] = s
      BY <1>2, <3>1
    <3> QED
      BY <1>1, <1>3, <3>2
  <2> QED
    BY <1>5, <2>1, <2>2
<1> QED
  BY <1>1, <1>4, <1>5 DEF Files!Named

\* A step that does not touch streamobj changes what file ids name as it changes
\* FIDT, and what calls use as it changes fcb.
LEMMA SameFids ==
  ASSUME StreamsAssumption, UNCHANGED <<FIDT, streamobj>>
  PROVE  Naming' = Naming
BY DEF Naming, Of

LEMMA SameCalls ==
  ASSUME StreamsAssumption, UNCHANGED <<fcb, streamobj>>
  PROVE  Using' = Using
BY DEF Using, Of

LEMMA FilesInit ==
  ASSUME StreamsAssumption, Init
  PROVE  Files!Init
<1>1. Naming = [p \in Process |-> [fid \in Fid |-> NULL]]
  BY DEF Init, Naming, Of
<1>2. Using = [t \in Thread |-> NULL]
  BY DEF Init, Using, Of
<1> QED
  BY <1>1, <1>2 DEF Init, Files!Init

LEMMA CallsMap ==
  ASSUME StreamsAssumption, IInv, NEW t \in Thread
  PROVE  /\ \A fid \in Fid : Begin(t, fid) => Files!Begin(t, fid)
         /\ End(t) => Files!End(t)
<1>1. owner[t] \in Process /\ fcb \in [Thread -> FT \cup {NULL}]
  BY DEF StreamsAssumption, IInv, TypeOK
<1>2. ASSUME NEW fid \in Fid, Begin(t, fid) PROVE Files!Begin(t, fid)
  <2>1. Using[t] = NULL /\ Naming' = Naming
    BY <1>2, NamingLemma, SameFids DEF Begin
  <2>2. Using' = [Using EXCEPT ![t] = Naming[owner[t]][fid]]
    <3>1. fcb' = [fcb EXCEPT ![t] = FIDT[owner[t]][fid]] /\ streamobj' = streamobj
      BY <1>2 DEF Begin
    <3>2. Naming[owner[t]][fid] = Of(FIDT[owner[t]][fid])
      BY <1>1, NamingLemma
    <3> QED
      BY <1>1, <3>1, <3>2 DEF Using, Of
  <2> QED
    BY <2>1, <2>2 DEF Files!Begin
<1>3. ASSUME End(t) PROVE Files!End(t)
  <2>1. Naming' = Naming
    BY <1>3, SameFids DEF End
  <2>2. Using' = [Using EXCEPT ![t] = NULL]
    BY <1>1, <1>3 DEF End, Using, Of
  <2> QED
    BY <2>1, <2>2 DEF Files!End
<1> QED
  BY <1>2, <1>3

LEMMA FidsMap ==
  ASSUME StreamsAssumption, IInv, NEW p \in Process, NEW fid \in Fid
  PROVE  /\ Close(p, fid) => Files!Close(p, fid)
         /\ \A newfid \in Fid : Dup2(p, fid, newfid) => Files!Dup2(p, fid, newfid)
<1>1. FIDT \in [Process -> [Fid -> FT \cup {NULL}]]
  BY DEF IInv, TypeOK
<1>2. ASSUME Close(p, fid) PROVE Files!Close(p, fid)
  <2>1. Using' = Using
    BY <1>2, SameCalls DEF Close
  <2>2. Naming' = [Naming EXCEPT ![p][fid] = NULL]
    BY <1>1, <1>2 DEF Close, Naming, Of
  <2> QED
    BY <2>1, <2>2 DEF Files!Close
<1>3. ASSUME NEW newfid \in Fid, Dup2(p, fid, newfid) PROVE Files!Dup2(p, fid, newfid)
  <2>1. Using' = Using
    BY <1>3, SameCalls DEF Dup2
  <2>2. Naming[p][fid] # NULL /\ Naming[p][fid] = Of(FIDT[p][fid])
    BY <1>3, NamingLemma DEF Dup2
  <2>3. FIDT' = [FIDT EXCEPT ![p][newfid] = FIDT[p][fid]] /\ streamobj' = streamobj
    BY <1>3 DEF Dup2
  <2>4. Naming' = [Naming EXCEPT ![p][newfid] = Naming[p][fid]]
    BY <1>1, <2>2, <2>3 DEF Naming, Of
  <2> QED
    BY <2>1, <2>2, <2>4 DEF Files!Dup2
<1> QED
  BY <1>2, <1>3

LEMMA ProcessesMap ==
  ASSUME StreamsAssumption, IInv, NEW p \in Process
  PROVE  /\ \A child \in Process : Exec(p, child) => Files!Inherit(p, child)
         /\ Exit(p) => Files!CloseAll(p)
<1>1. FIDT \in [Process -> [Fid -> FT \cup {NULL}]]
  BY DEF IInv, TypeOK
<1>2. ASSUME NEW child \in Process, Exec(p, child) PROVE Files!Inherit(p, child)
  <2>1. Using' = Using
    BY <1>2, SameCalls DEF Exec
  <2>2. Naming' = [Naming EXCEPT ![child] = Naming[p]]
    BY <1>1, <1>2 DEF Exec, Naming, Of
  <2> QED
    BY <2>1, <2>2 DEF Files!Inherit
<1>3. ASSUME Exit(p) PROVE Files!CloseAll(p)
  <2>1. Using' = Using
    BY <1>3, SameCalls DEF Exit
  <2>2. Naming' = [Naming EXCEPT ![p] = [fid \in Fid |-> NULL]]
    BY <1>1, <1>3 DEF Exit, Naming, Of, Cleaned
  <2> QED
    BY <2>1, <2>2 DEF Files!CloseAll
<1> QED
  BY <1>2, <1>3

\* OpenFiles counts as this module does.
LEMMA SameCardinality == \A T : Files!Cardinality(T) = Cardinality(T)
BY DEF Files!Cardinality, Cardinality

LEMMA OpenMap ==
  ASSUME StreamsAssumption, IInv, NEW p \in Process, NEW streams \in Seq(Stream),
         Open(p, streams)
  PROVE  Files!Open(p, streams)
<1> DEFINE num == Len(streams)
           fid == Found(p, num)
           fcbs == Acquired(num)
           row == Reserved(p, num)
           S == Files!Unused(p)
<1>t. FIDT \in [Process -> [Fid -> FT \cup {NULL}]]
  BY DEF IInv, TypeOK
<1>1. /\ num \in Nat /\ num <= Cardinality(FreeFids(p)) /\ num <= Len(FCB_freelist)
      /\ FIDT' = [FIDT EXCEPT ![p] = row]
      /\ streamobj' = [f \in FT |-> IF f \in Range(fcbs) THEN streams[At(fcbs, f)]
                                    ELSE streamobj[f]]
      /\ fcb' = fcb
      /\ \A i \in DOMAIN streams : streams[i] \notin open
  BY DEF Open, FCB_reserve, Reserved, Found
<1>2. /\ DOMAIN fid = 1 .. num /\ IsInjective(fid)
      /\ DOMAIN fcbs = 1 .. num /\ IsInjective(fcbs)
      /\ \A i \in 1 .. num : /\ fid[i] \in Fid /\ FIDT[p][fid[i]] = NULL
                             /\ fcbs[i] \in FT /\ ~InUse(fcbs[i])
                             /\ row[fid[i]] = fcbs[i]
      /\ \A g \in Fid : g \notin Range(fid) => row[g] = FIDT[p][g]
  BY <1>1, ReserveLemma
<1>3. S = FreeFids(p) /\ S \in SUBSET Int /\ IsFiniteSet(S)
  <2>1. FreeFids(p) \in SUBSET Int /\ IsFiniteSet(FreeFids(p))
    BY FidLemma, Finite DEF FreeFids
  <2>2. S = FreeFids(p)
    BY NamingLemma DEF Files!Unused, FreeFids
  <2> QED
    BY <2>1, <2>2
<1>4. \A i \in 1 .. num : /\ fid[i] \in S
                          /\ Cardinality({g \in S : g < fid[i]}) = i - 1
  <2> TAKE i \in 1 .. num
  <2>1. i \in 1 .. Cardinality(S)
    <3>1. Cardinality(S) \in Nat
      BY <1>3, FS_CardinalityType
    <3> HIDE DEF S
    <3> QED
      BY <1>1, <1>3, <3>1
  <2>2. fid[i] = Nth(S, i)
    BY <1>3 DEF Found, NthFree
  <2> HIDE DEF S, fid
  <2> QED
    BY <1>3, <2>1, <2>2, NthLemma
<1>5. DOMAIN streams = 1 .. num
  OBVIOUS
<1>6. fid = [i \in 1 .. num |-> fid[i]]
  BY DEF Found
<1> HIDE DEF num, fid, fcbs, row, S
<1>7. fid \in [DOMAIN streams -> S]
  BY <1>4, <1>5, <1>6
<1>8. /\ \A x : x \in Range(fid) <=> \E i \in 1 .. num : fid[i] = x
      /\ \A x : x \in Range(fcbs) <=> \E i \in 1 .. num : fcbs[i] = x
  BY <1>2 DEF Range
<1>9. \A i \in 1 .. num : fcbs[i] \in Range(fcbs) /\ streamobj'[fcbs[i]] = streams[i]
  BY <1>1, <1>2, <1>8, AtLemma
<1>10. \A f \in Used : streamobj'[f] = streamobj[f]
  BY <1>1, <1>2, <1>8 DEF Used
<1>11. \A q \in Process, g \in Fid : FIDT[q][g] # NULL => FIDT[q][g] \in Used
  <2>1. ASSUME NEW q \in Process, NEW g \in Fid, FIDT[q][g] # NULL PROVE FIDT[q][g] \in Used
    <3>1. FIDT[q][g] \in FT /\ <<q, g>> \in Fids(FIDT[q][g])
      BY <1>t, <2>1 DEF Fids
    <3> QED
      BY <3>1 DEF Used, InUse
  <2> QED
    BY <2>1
<1>12. Using' = Using
  <2>1. \A t \in Thread : fcb[t] # NULL => fcb[t] \in Used
    BY DEF IInv, TypeOK, Callers, Used, InUse
  <2>2. \A t \in Thread : (IF fcb'[t] = NULL THEN NULL ELSE streamobj'[fcb'[t]])
                          = (IF fcb[t] = NULL THEN NULL ELSE streamobj[fcb[t]])
    BY <1>1, <1>10, <2>1
  <2> QED
    BY <2>2 DEF Using, Of
<1> DEFINE names(g) == IF \E i \in DOMAIN streams : fid[i] = g
                       THEN streams[CHOOSE i \in DOMAIN streams : fid[i] = g]
                       ELSE Naming[p][g]
           OfNext(f) == IF f = NULL THEN NULL ELSE streamobj'[f]
<1>13. \A q \in Process, g \in Fid : FIDT[q][g] \in Used \cup {NULL}
                                     /\ OfNext(FIDT[q][g]) = Naming[q][g]
  BY <1>10, <1>11, NamingLemma DEF Of
<1>14. \A g \in Fid : OfNext(row[g]) = names(g)
  <2> TAKE g \in Fid
  <2>1. CASE \E i \in DOMAIN streams : fid[i] = g
    <3> DEFINE j == CHOOSE i \in DOMAIN streams : fid[i] = g
    <3>1. j \in 1 .. num /\ fid[j] = g
      BY <1>5, <2>1
    <3> HIDE DEF j
    <3>2. row[g] = fcbs[j] /\ fcbs[j] \in FT /\ fcbs[j] # NULL
      BY <1>2, <3>1, FidLemma
    <3>3. OfNext(row[g]) = streams[j]
      BY <1>9, <3>1, <3>2
    <3>4. names(g) = streams[j]
      BY <2>1 DEF j
    <3> QED
      BY <3>3, <3>4
  <2>2. CASE ~\E i \in DOMAIN streams : fid[i] = g
    <3>1. row[g] = FIDT[p][g]
      BY <1>2, <1>5, <1>8, <2>2
    <3> QED
      BY <1>13, <2>2, <3>1
  <2> QED
    BY <2>1, <2>2
<1>15. Naming' = [Naming EXCEPT ![p] = [g \in Fid |-> names(g)]]
  <2>1. Naming' = [q \in Process |-> [g \in Fid |-> OfNext(FIDT'[q][g])]]
    BY DEF Naming, Of
  <2>2. FIDT'[p] = row /\ \A q \in Process : q # p => FIDT'[q] = FIDT[q]
    BY <1>t, <1>1
  <2>3. Naming = [q \in Process |-> [g \in Fid |-> Naming[q][g]]]
    BY DEF Naming
  <2> HIDE DEF names, OfNext
  <2>4. [g \in Fid |-> OfNext(FIDT'[p][g])] = [g \in Fid |-> names(g)]
    BY <1>14, <2>2
  <2>5. \A q \in Process : q # p =>
          [g \in Fid |-> OfNext(FIDT'[q][g])] = [g \in Fid |-> Naming[q][g]]
    BY <1>13, <2>2
  <2> QED
    BY <2>1, <2>3, <2>4, <2>5
<1>16. Naming' = [Naming EXCEPT ![p] =
          [g \in Fid |-> IF \E i \in DOMAIN streams : fid[i] = g
                         THEN streams[CHOOSE i \in DOMAIN streams : fid[i] = g]
                         ELSE @[g]]]
  BY <1>15
<1>17. \E found \in [DOMAIN streams -> S] :
         /\ \A i \in DOMAIN streams :
              Cardinality({g \in S : g < found[i]}) = i - 1
         /\ Naming' = [Naming EXCEPT ![p] =
              [g \in Fid |-> IF \E i \in DOMAIN streams : found[i] = g
                             THEN streams[CHOOSE i \in DOMAIN streams : found[i] = g]
                             ELSE @[g]]]
  <2>1. \A i \in DOMAIN streams : Cardinality({g \in S : g < fid[i]}) = i - 1
    BY <1>4, <1>5
  <2> HIDE DEF names
  <2> WITNESS fid \in [DOMAIN streams -> S]
  <2> QED
    BY <2>1, <1>16
<1>18. (\A i \in DOMAIN streams : streams[i] \notin open) /\ UNCHANGED Using
  BY <1>1, <1>12
<1> QED
  BY <1>17, <1>18, SameCardinality, Zenon DEF Files!Open, S

LEMMA FilesStep ==
  ASSUME StreamsAssumption, IInv, IInv', [Next]_vars
  PROVE  [Files!Next]_(Files!vars)
<1>0. open' = Files!Named(Naming', Using')
  BY OpenLaw
<1>1. CASE \E p \in Process, s \in Stream :
             Open(p, <<s>>) \/ \E r \in Stream \ {s} : Open(p, <<r, s>>)
  <2>1. \A p \in Process, s \in Stream : Open(p, <<s>>) => Files!Open(p, <<s>>)
    BY OpenMap, OpenedLemma
  <2>2. \A p \in Process, s \in Stream : \A r \in Stream \ {s} :
          Open(p, <<r, s>>) => Files!Open(p, <<r, s>>)
    BY OpenMap, OpenedLemma
  <2> QED
    BY <1>0, <1>1, <2>1, <2>2 DEF Files!Next
<1>2. CASE \E p \in Process : Exit(p) \/ \E child \in Process \ {InitProcess} : Exec(p, child)
  BY <1>0, <1>2, ProcessesMap DEF Files!Next
<1>3. CASE \E p \in Process, fid \in Fid :
             Close(p, fid) \/ \E newfid \in Fid : Dup2(p, fid, newfid)
  BY <1>0, <1>3, FidsMap DEF Files!Next
<1>4. CASE \E t \in Thread : End(t) \/ \E fid \in Fid : Begin(t, fid)
  BY <1>0, <1>4, CallsMap DEF Files!Next
<1>5. CASE UNCHANGED <<FIDT, streamobj, fcb, open>>
  BY <1>5, SameFids, SameCalls DEF Files!vars
<1>6. CASE \E p \in Process : OpenFails(p) \/ \E num \in 1 .. 2 : ReserveFails(p, num)
  BY <1>5, <1>6 DEF OpenFails, ReserveFails
<1>7. CASE UNCHANGED vars
  BY <1>5, <1>7 DEF vars
<1> QED
  BY <1>1, <1>2, <1>3, <1>4, <1>6, <1>7 DEF Next, Halted

\* kernel_streams.c, sys_Exec and sys_ThreadExit implement the file ids that
\* tinyos.h promises: new streams get the lowest ones that are free, in order, and
\* a stream is open exactly while a file id names it or a call uses it.
THEOREM FilesRefinement ==
  ASSUME StreamsAssumption
  PROVE  Spec => RefinesFiles
<1>1. Init => Files!Init
  BY FilesInit
<1>2. IInv /\ IInv' /\ [Next]_vars => [Files!Next]_(Files!vars)
  BY FilesStep
<1> QED
  BY <1>1, <1>2, StreamsInvariant, PTL DEF Spec, RefinesFiles, Files!Spec

-----------------------------------------------------------------------------
(* Information streams.                                                    *)

\* What has been reported lies before the cursor, in order, and so does what
\* stayed, as far as it has been reported.
InfoInv ==
  /\ PT_cursor \in 0 .. MAX_PROC
  /\ reported \in Seq(Nat)
  /\ \A i \in 1 .. Len(reported) : reported[i] < PT_cursor
  /\ \A i, j \in 1 .. Len(reported) : i < j => reported[i] < reported[j]
  /\ \A p \in stayed : p \in 0 .. MAX_PROC - 1 /\ In!Used(p)
  /\ \A p \in stayed :
       p < PT_cursor => \E i \in 1 .. Len(reported) : reported[i] = p
  /\ stream = "closed" => PT_cursor = 0

LEMMA InfoSize == MAX_PROC \in Nat
BY TablesAssumption DEF In!InfoAssumption

\* The loop stops at the first used PCB, or at the end of the table.
LEMMA StopLemma ==
  ASSUME NEW p \in 0 .. MAX_PROC
  PROVE  /\ In!Stop(p) \in p .. MAX_PROC
         /\ In!Stop(p) < MAX_PROC => In!Used(In!Stop(p))
         /\ \A r \in p .. In!Stop(p) - 1 : ~In!Used(r)
<1> DEFINE T == {q \in p .. MAX_PROC : q < MAX_PROC => In!Used(q)}
<1>1. T \in SUBSET Nat /\ MAX_PROC \in T
  BY InfoSize
<1>2. PICK q \in T : \A r \in T : q <= r
  BY <1>1, LeastNat
<1>3. \A r \in p .. q - 1 : ~In!Used(r)
  BY <1>2, InfoSize
<1>4. \E x \in p .. MAX_PROC :
        (x < MAX_PROC => In!Used(x)) /\ \A r \in p .. x - 1 : ~In!Used(r)
  BY <1>2, <1>3
<1> QED BY <1>4 DEF In!Stop

LEMMA InfoInit == In!Init => InfoInv
BY InfoSize DEF In!Init, InfoInv

LEMMA InfoNext == InfoInv /\ [In!Next]_infoVars => InfoInv'
<1> SUFFICES ASSUME InfoInv, [In!Next]_infoVars
             PROVE  InfoInv'
  OBVIOUS
<1>1. CASE In!TableStep
  <2>1. /\ stayed' = {p \in stayed : p = 0 \/ state'[p] # "FREE"}
        /\ stream' = stream /\ PT_cursor' = PT_cursor /\ reported' = reported
    BY <1>1 DEF In!TableStep
  <2>2. \A p \in stayed' : p \in stayed /\ In!Used(p)'
    BY <2>1 DEF In!Used
  <2> QED BY <2>1, <2>2 DEF InfoInv
<1>2. CASE In!sys_OpenInfo
  <2>1. /\ stayed' = {p \in 0 .. MAX_PROC - 1 : In!Used(p)}
        /\ stream = "closed" /\ stream' = "open" /\ state' = state
        /\ PT_cursor' = PT_cursor /\ reported' = reported
    BY <1>2 DEF In!sys_OpenInfo, In!table
  <2>2. \A p \in stayed' : p \in 0 .. MAX_PROC - 1 /\ In!Used(p)' /\ ~(p < PT_cursor')
    BY <2>1 DEF InfoInv, In!Used
  <2> QED BY <2>1, <2>2 DEF InfoInv
<1>3. CASE In!procinfo_read
  <2> DEFINE cur == In!Stop(PT_cursor)
  <2>1. /\ cur \in PT_cursor .. MAX_PROC /\ (cur < MAX_PROC => In!Used(cur))
        /\ \A r \in PT_cursor .. cur - 1 : ~In!Used(r)
    BY StopLemma DEF InfoInv
  <2>2. /\ stream = "open" /\ state' = state /\ stayed' = stayed
        /\ \/ /\ cur < MAX_PROC /\ PT_cursor' = cur + 1
              /\ reported' = Append(reported, cur) /\ stream' = stream
           \/ /\ cur >= MAX_PROC /\ PT_cursor' = cur
              /\ stream' = "end" /\ reported' = reported
    BY <1>3 DEF In!procinfo_read, In!table
  <2>3. PICK c \in Nat : c = cur
    BY <2>1, InfoSize DEF InfoInv
  <2> HIDE DEF cur
  <2>4. /\ PT_cursor \in Nat /\ reported \in Seq(Nat) /\ Len(reported) \in Nat
        /\ \A i \in 1 .. Len(reported) : reported[i] \in Nat /\ reported[i] < PT_cursor
        /\ c \in PT_cursor .. MAX_PROC
    BY <2>1, <2>3, InfoSize DEF InfoInv
  <2>5. \A p \in stayed : In!Used(p)' /\ p \in 0 .. MAX_PROC - 1
    BY <2>2 DEF InfoInv, In!Used
  <2>6. \A p \in stayed : p < c => p < PT_cursor
    BY <2>1, <2>3, <2>4, InfoSize DEF InfoInv
  <2>7. CASE c < MAX_PROC
    <3> DEFINE r == Append(reported, c)
    <3>1. PT_cursor' = c + 1 /\ reported' = r /\ stream' = stream
      BY <2>2, <2>3, <2>7, InfoSize
    <3>2. /\ r \in Seq(Nat) /\ Len(r) = Len(reported) + 1
          /\ \A i \in 1 .. Len(reported) : r[i] = reported[i]
          /\ r[Len(reported) + 1] = c
      BY <2>4
    <3> HIDE DEF r
    <3>3. \A i \in 1 .. Len(r) : r[i] \in Nat /\ r[i] < c + 1
                                 /\ (i <= Len(reported) => r[i] < c)
      BY <2>4, <3>2, InfoSize
    <3>4. \A i, j \in 1 .. Len(r) : i < j => r[i] < r[j]
      <4> SUFFICES ASSUME NEW i \in 1 .. Len(r), NEW j \in 1 .. Len(r), i < j
                   PROVE  r[i] < r[j]
        OBVIOUS
      <4>1. CASE j = Len(reported) + 1
        BY <4>1, <2>4, <3>2, <3>3
      <4>2. CASE j # Len(reported) + 1
        <5>1. i \in 1 .. Len(reported) /\ j \in 1 .. Len(reported)
          <6>1. PICK size \in Nat : size = Len(reported)
            BY <2>4
          <6>2. Len(r) = size + 1
            BY <3>2, <6>1
          <6>3. /\ i \in 1 .. size + 1 /\ j \in 1 .. size + 1
                /\ i < j /\ j # size + 1
            BY <4>2, <6>1, <6>2
          <6>4. i \in 1 .. size /\ j \in 1 .. size
            BY <6>3
          <6> QED BY <6>1, <6>4
        <5> QED BY <5>1, <3>2 DEF InfoInv
      <4> QED BY <4>1, <4>2
    <3>5. \A p \in stayed : p < c + 1 => \E i \in 1 .. Len(r) : r[i] = p
      <4> SUFFICES ASSUME NEW p \in stayed, p < c + 1
                   PROVE  \E i \in 1 .. Len(r) : r[i] = p
        OBVIOUS
      <4>1. p \in Nat
        BY <2>5, InfoSize
      <4>2. CASE p = c
        BY <4>2, <2>4, <3>2
      <4>3. CASE p # c
        <5>1. p < PT_cursor
          BY <2>3, <2>6, <4>1, <4>3
        <5>2. PICK i \in 1 .. Len(reported) : reported[i] = p
          BY <5>1 DEF InfoInv
        <5> QED BY <5>2, <2>4, <3>2
      <4> QED BY <4>2, <4>3
    <3>6. c + 1 \in 0 .. MAX_PROC
      BY <2>3, <2>4, <2>7, InfoSize
    <3> QED BY <2>2, <2>5, <3>1, <3>2, <3>3, <3>4, <3>5, <3>6 DEF InfoInv
  <2>8. CASE c >= MAX_PROC
    <3>1. PT_cursor' = c /\ reported' = reported /\ stream' = "end" /\ c = MAX_PROC
      BY <2>2, <2>3, <2>4, <2>8, InfoSize
    <3>2. \A i \in 1 .. Len(reported) : reported[i] < c
      BY <2>4, InfoSize
    <3>3. \A p \in stayed : p < c => \E i \in 1 .. Len(reported) : reported[i] = p
      BY <2>6 DEF InfoInv
    <3> QED BY <2>2, <2>4, <2>5, <3>1, <3>2, <3>3, InfoSize DEF InfoInv
  <2> QED BY <2>3, <2>7, <2>8, InfoSize
<1>4. CASE In!AtEnd
  <2>1. /\ stream' = "end" /\ state' = state /\ PT_cursor' = PT_cursor
        /\ reported' = reported /\ stayed' = stayed
    BY <1>4 DEF In!AtEnd, In!table
  <2> QED BY <2>1 DEF InfoInv, In!Used
<1>5. CASE In!procinfo_close
  <2>1. PT_cursor' = 0 /\ reported' = <<>> /\ stayed' = {}
    BY <1>5 DEF In!procinfo_close
  <2> QED BY <2>1, InfoSize DEF InfoInv
<1>6. CASE UNCHANGED infoVars
  BY <1>6 DEF infoVars, InfoInv, In!Used
<1> QED BY <1>1, <1>2, <1>3, <1>4, <1>5, <1>6 DEF In!Next, In!Read

\* kernel_proc.c:397-497: an information stream misses no process that was there
\* all the time, and reports none twice, whatever processes begin and end between
\* its Reads.
THEOREM InfoIsComplete == TablesSpec => []InfoComplete
<1>1. TablesInit => InfoInv
  BY InfoInit DEF TablesInit
<1>2. InfoInv /\ [TablesNext]_tablesVars => InfoInv'
  <2>1. [TablesNext]_tablesVars => [In!Next]_infoVars
    BY DEF TablesNext, tablesVars, infoVars
  <2> QED BY <2>1, InfoNext
<1>3. InfoInv => InfoComplete
  <2> SUFFICES ASSUME InfoInv
               PROVE  InfoComplete
    OBVIOUS
  <2>1. reported \in Seq(Nat) /\ DOMAIN reported = 1 .. Len(reported)
    BY DEF InfoInv
  <2>2. \A i, j \in DOMAIN reported : i < j => reported[i] < reported[j]
    BY <2>1 DEF InfoInv
  <2>3. \A p \in stayed : p < PT_cursor => p \in In!Range(reported)
    BY <2>1 DEF InfoInv, In!Range
  <2> QED BY <2>2, <2>3 DEF InfoComplete, In!InfoComplete
<1> QED BY <1>1, <1>2, <1>3, PTL DEF TablesSpec

-----------------------------------------------------------------------------
(* The rings of util.h: a memory holds lists of any length.  The loops of  *)
(* Rlist are recursive functions of the number of turns.                   *)

\* The two pointers agree: the first part of WellLinked.
Linked(m) ==
  /\ m.next \in [Rl!Cell -> Rl!Cell] /\ m.prev \in [Rl!Cell -> Rl!Cell]
  /\ \A c \in Rl!Cell : m.prev[m.next[c]] = c /\ m.next[m.prev[c]] = c

\* util.h:393-398: rl_splice keeps the pointers of every ring in agreement,
\* whether it joins two rings or cuts one in two.
LEMMA SpliceLinks ==
  ASSUME NEW m, Linked(m), NEW a \in Rl!Cell, NEW b \in Rl!Cell
  PROVE  Linked(Rl!rl_splice(m, a, b))
<1> DEFINE n == m.next
           p == m.prev
           r == Rl!rl_splice(m, a, b)
<1>1. /\ n \in [Rl!Cell -> Rl!Cell] /\ p \in [Rl!Cell -> Rl!Cell]
      /\ \A c \in Rl!Cell : p[n[c]] = c /\ n[p[c]] = c
  BY DEF Linked
<1>2. /\ r.next = [n EXCEPT ![a] = n[b], ![b] = n[a]]
      /\ r.prev = [p EXCEPT ![n[a]] = p[n[b]], ![n[b]] = p[n[a]]]
  BY DEF Rl!rl_splice, Rl!Swapped
<1> HIDE DEF n, p, r
<1>3. /\ r.next \in [Rl!Cell -> Rl!Cell] /\ r.prev \in [Rl!Cell -> Rl!Cell]
      /\ n[a] \in Rl!Cell /\ n[b] \in Rl!Cell
  BY <1>1, <1>2
<1>4. \A c \in Rl!Cell :
        /\ r.next[c] = (IF c = b THEN n[a] ELSE IF c = a THEN n[b] ELSE n[c])
        /\ r.prev[c] = (IF c = n[b] THEN a ELSE IF c = n[a] THEN b ELSE p[c])
  BY <1>1, <1>2, <1>3
<1>5. \A c \in Rl!Cell : r.prev[r.next[c]] = c /\ r.next[r.prev[c]] = c
  BY <1>1, <1>3, <1>4
<1> QED BY <1>3, <1>5 DEF Linked, r

\* The i-th cell of the ring of list l, when s is what the list holds.
Place(l, s, i) == IF i = 0 \/ i = Len(s) + 1 THEN l ELSE s[i]

\* A node is in one place of one list.
NoTwice(q) ==
  \A l, k \in List : \A i \in 1 .. Len(q[l]), j \in 1 .. Len(q[k]) :
    q[l][i] = q[k][j] => l = k /\ i = j

Listed(q, x) == \E l \in List : \E i \in 1 .. Len(q[l]) : q[l][i] = x

\* The memory m holds the lists q, and the other nodes each alone.
Holds(m, q) ==
  /\ Linked(m)
  /\ q \in [List -> Seq(Node)] /\ NoTwice(q)
  /\ \A l \in List : \A i \in 0 .. Len(q[l]) :
       m.next[Place(l, q[l], i)] = Place(l, q[l], i + 1)
  /\ \A x \in Node : Listed(q, x) \/ m.next[x] = x

\* The places of the lists are different cells.
LEMMA PlaceLemma ==
  ASSUME List \cap Node = {}, NEW q \in [List -> Seq(Node)], NoTwice(q), NEW l \in List
  PROVE  /\ Len(q[l]) \in Nat
         /\ \A i \in 0 .. Len(q[l]) + 1 : Place(l, q[l], i) \in Rl!Cell
         /\ \A i \in 1 .. Len(q[l]) : Place(l, q[l], i) = q[l][i] /\ q[l][i] \in Node
         /\ Place(l, q[l], 0) = l /\ Place(l, q[l], Len(q[l]) + 1) = l
         /\ \A k \in List : \A i \in 0 .. Len(q[l]), j \in 0 .. Len(q[k]) :
              Place(l, q[l], i) = Place(k, q[k], j) => l = k /\ i = j
<1>1. \A k \in List : q[k] \in Seq(Node) /\ Len(q[k]) \in Nat
                      /\ \A i \in 1 .. Len(q[k]) : q[k][i] \in Node
  OBVIOUS
<1>2. \A k \in List : \A i \in 1 .. Len(q[k]) : Place(k, q[k], i) = q[k][i]
  BY <1>1 DEF Place
<1>3. \A k \in List : Place(k, q[k], 0) = k /\ Place(k, q[k], Len(q[k]) + 1) = k
  BY <1>1 DEF Place
<1>4. ASSUME NEW k \in List, NEW i \in 0 .. Len(q[l]), NEW j \in 0 .. Len(q[k]),
             Place(l, q[l], i) = Place(k, q[k], j)
      PROVE  l = k /\ i = j
  <2>1. i = 0 \/ i \in 1 .. Len(q[l])
    BY <1>1
  <2>2. j = 0 \/ j \in 1 .. Len(q[k])
    BY <1>1
  <2>3. CASE i = 0
    BY <2>2, <2>3, <1>1, <1>2, <1>3, <1>4
  <2>4. CASE i \in 1 .. Len(q[l])
    <3>1. Place(l, q[l], i) = q[l][i] /\ q[l][i] \in Node
      BY <2>4, <1>1, <1>2
    <3>2. j \in 1 .. Len(q[k])
      BY <3>1, <2>2, <1>3, <1>4
    <3>3. q[k][j] = q[l][i]
      BY <3>1, <3>2, <1>2, <1>4
    <3> QED BY <2>4, <3>2, <3>3 DEF NoTwice
  <2> QED BY <2>1, <2>3, <2>4
<1>5. ASSUME NEW i \in 0 .. Len(q[l]) + 1
      PROVE  Place(l, q[l], i) \in Rl!Cell
  <2>1. i = 0 \/ i = Len(q[l]) + 1 \/ i \in 1 .. Len(q[l])
    BY <1>1
  <2> QED BY <2>1, <1>1, <1>2, <1>3 DEF Rl!Cell
<1> QED BY <1>1, <1>2, <1>3, <1>4, <1>5

\* A cell is a place of a list, or a node alone.
LEMMA AloneLemma ==
  ASSUME List \cap Node = {}, NEW m, NEW q, Holds(m, q), NEW x \in Node
  PROVE  m.next[x] = x <=> ~Listed(q, x)
<1>1. ASSUME NEW l \in List, NEW i \in 1 .. Len(q[l]), q[l][i] = x
      PROVE  m.next[x] # x
  <2>1. q \in [List -> Seq(Node)] /\ NoTwice(q)
    BY DEF Holds
  <2>2. Len(q[l]) \in Nat
    BY <2>1
  <2>3. /\ Place(l, q[l], i) = x /\ Place(l, q[l], Len(q[l]) + 1) = l
        /\ \A j \in 0 .. Len(q[l]) : Place(l, q[l], i) = Place(l, q[l], j) => i = j
    BY <2>1, <2>2, <1>1, PlaceLemma
  <2>4. m.next[x] = Place(l, q[l], i + 1)
    BY <2>2, <2>3 DEF Holds
  <2>5. CASE i = Len(q[l])
    BY <2>3, <2>4, <2>5
  <2>6. CASE i # Len(q[l])
    <3>1. i + 1 \in 0 .. Len(q[l]) /\ i # i + 1
      BY <2>2, <2>6
    <3> QED BY <2>3, <2>4, <3>1
  <2> QED BY <2>5, <2>6
<1> QED BY <1>1 DEF Holds, Listed

\* The order of the two cells that are spliced does not matter.
LEMMA SpliceEither ==
  ASSUME NEW m, Linked(m), NEW a \in Rl!Cell, NEW b \in Rl!Cell
  PROVE  Rl!rl_splice(m, a, b) = Rl!rl_splice(m, b, a)
<1> DEFINE n == m.next
           p == m.prev
<1>1. n \in [Rl!Cell -> Rl!Cell] /\ p \in [Rl!Cell -> Rl!Cell]
  BY DEF Linked
<1> HIDE DEF n, p
<1>2. \A f \in [Rl!Cell -> Rl!Cell] : \A x, y \in Rl!Cell :
        [f EXCEPT ![x] = f[y], ![y] = f[x]] = [f EXCEPT ![y] = f[x], ![x] = f[y]]
  OBVIOUS
<1>3. n[a] \in Rl!Cell /\ n[b] \in Rl!Cell
  BY <1>1
<1>4. /\ Rl!rl_splice(m, a, b) = [prev |-> [p EXCEPT ![n[a]] = p[n[b]], ![n[b]] = p[n[a]]],
                               next |-> [n EXCEPT ![a] = n[b], ![b] = n[a]]]
      /\ Rl!rl_splice(m, b, a) = [prev |-> [p EXCEPT ![n[b]] = p[n[a]], ![n[a]] = p[n[b]]],
                               next |-> [n EXCEPT ![b] = n[a], ![a] = n[b]]]
  BY DEF Rl!rl_splice, Rl!Swapped, n, p
<1>5. /\ [p EXCEPT ![n[a]] = p[n[b]], ![n[b]] = p[n[a]]]
           = [p EXCEPT ![n[b]] = p[n[a]], ![n[a]] = p[n[b]]]
      /\ [n EXCEPT ![a] = n[b], ![b] = n[a]] = [n EXCEPT ![b] = n[a], ![a] = n[b]]
  BY <1>1, <1>2, <1>3
<1> QED BY <1>4, <1>5

\* Where the next pointers lead after a splice.
LEMMA SpliceAt ==
  ASSUME NEW m, Linked(m), NEW a \in Rl!Cell, NEW b \in Rl!Cell, NEW c \in Rl!Cell
  PROVE  Rl!rl_splice(m, a, b).next[c] =
           IF c = a THEN m.next[b] ELSE IF c = b THEN m.next[a] ELSE m.next[c]
<1> DEFINE n == m.next
<1>1. n \in [Rl!Cell -> Rl!Cell]
  BY DEF Linked
<1>2. Rl!rl_splice(m, a, b).next = [n EXCEPT ![a] = n[b], ![b] = n[a]]
  BY DEF Rl!rl_splice, Rl!Swapped
<1> HIDE DEF n
<1>3. [n EXCEPT ![a] = n[b], ![b] = n[a]][c] =
        IF c = a THEN n[b] ELSE IF c = b THEN n[a] ELSE n[c]
  BY <1>1
<1> QED BY <1>2, <1>3 DEF n

\* A node alone is put after the i-th place of a list.
LEMMA InsertLemma ==
  ASSUME List \cap Node = {}, NEW m, NEW q, Holds(m, q),
         NEW l \in List, NEW i \in 0 .. Len(q[l]), NEW x \in Node, m.next[x] = x,
         NEW t \in Seq(Node), Len(t) = Len(q[l]) + 1,
         \A j \in 1 .. Len(t) :
           t[j] = IF j <= i THEN q[l][j] ELSE IF j = i + 1 THEN x ELSE q[l][j - 1]
  PROVE  Holds(Rl!rl_splice(m, Place(l, q[l], i), x), [q EXCEPT ![l] = t])
<1> DEFINE s == q[l]
           a == Place(l, s, i)
           m2 == Rl!rl_splice(m, a, x)
           q2 == [q EXCEPT ![l] = t]
<1>1. q \in [List -> Seq(Node)] /\ NoTwice(q) /\ Linked(m)
  BY DEF Holds
<1>2. ~Listed(q, x)
  BY AloneLemma
<1>3. /\ s \in Seq(Node) /\ Len(s) \in Nat /\ i \in 0 .. Len(s) /\ Len(t) = Len(s) + 1
      /\ \A j \in 0 .. Len(s) + 1 : Place(l, s, j) \in Rl!Cell
      /\ \A j \in 1 .. Len(s) : Place(l, s, j) = s[j]
      /\ Place(l, s, 0) = l /\ Place(l, s, Len(s) + 1) = l
      /\ \A k \in List : \A j \in 0 .. Len(s), h \in 0 .. Len(q[k]) :
           Place(l, s, j) = Place(k, q[k], h) => l = k /\ j = h
  BY <1>1, PlaceLemma
<1>4. \A k \in List : /\ q[k] \in Seq(Node) /\ Len(q[k]) \in Nat
                      /\ q2[k] = IF k = l THEN t ELSE q[k]
  BY <1>1
<1>5. q2 \in [List -> Seq(Node)]
  BY <1>1
<1>6. /\ \A j \in 0 .. Len(s) : m.next[Place(l, s, j)] = Place(l, s, j + 1)
      /\ \A k \in List : \A j \in 0 .. Len(q[k]) :
           m.next[Place(k, q[k], j)] = Place(k, q[k], j + 1)
      /\ \A y \in Node : Listed(q, y) \/ m.next[y] = y
  BY DEF Holds
<1>7. /\ l \in Rl!Cell /\ x \in Rl!Cell /\ a \in Rl!Cell /\ x # l
      /\ \A k \in List : k # x
      /\ \A k \in List : \A j \in 0 .. Len(q[k]) : Place(k, q[k], j) # x
  <2>1. l \in Rl!Cell /\ x \in Rl!Cell /\ a \in Rl!Cell /\ x # l /\ \A k \in List : k # x
    BY <1>3 DEF Rl!Cell
  <2>2. ASSUME NEW k \in List, NEW j \in 0 .. Len(q[k])
        PROVE  Place(k, q[k], j) # x
    <3>1. j = 0 \/ j \in 1 .. Len(q[k])
      BY <1>4
    <3>2. Place(k, q[k], 0) = k /\ \A h \in 1 .. Len(q[k]) : Place(k, q[k], h) = q[k][h]
      BY <1>1, PlaceLemma
    <3> QED BY <3>1, <3>2, <2>1, <1>2 DEF Listed
  <2> QED BY <2>1, <2>2
<1>8. /\ Linked(m2)
      /\ \A c \in Rl!Cell : m2.next[c] =
           IF c = a THEN x ELSE IF c = x THEN Place(l, s, i + 1) ELSE m.next[c]
  <2>1. m.next[a] = Place(l, s, i + 1) /\ m.next[x] = x
    BY <1>3, <1>6
  <2> HIDE DEF a
  <2>2. Linked(m2)
    BY <1>1, <1>7, SpliceLinks
  <2>3. \A c \in Rl!Cell : m2.next[c] =
          IF c = a THEN m.next[x] ELSE IF c = x THEN m.next[a] ELSE m.next[c]
    BY <1>1, <1>7, SpliceAt
  <2> HIDE DEF m2
  <2> QED BY <2>1, <2>2, <2>3
<1> HIDE DEF s, a, m2, q2
<1>9. \A j \in 1 .. Len(t) :
        t[j] = IF j <= i THEN s[j] ELSE IF j = i + 1 THEN x ELSE s[j - 1]
  BY DEF s
<1>10. \A j \in 0 .. Len(t) + 1 :
         Place(l, t, j) = IF j <= i THEN Place(l, s, j)
                          ELSE IF j = i + 1 THEN x ELSE Place(l, s, j - 1)
  <2> SUFFICES ASSUME NEW j \in 0 .. Len(t) + 1
               PROVE  Place(l, t, j) = IF j <= i THEN Place(l, s, j)
                          ELSE IF j = i + 1 THEN x ELSE Place(l, s, j - 1)
    OBVIOUS
  <2>1. CASE j = 0
    BY <2>1, <1>3 DEF Place
  <2>2. CASE j = Len(t) + 1
    BY <2>2, <1>3 DEF Place
  <2>3. CASE j \in 1 .. Len(t)
    <3>1. Place(l, t, j) = t[j]
      BY <2>3, <1>3 DEF Place
    <3>2. j <= i => j \in 1 .. Len(s)
      BY <2>3, <1>3
    <3>3. j > i + 1 => j - 1 \in 1 .. Len(s)
      BY <2>3, <1>3
    <3>4. j \in Nat /\ i \in Nat
      BY <1>3
    <3> QED BY <3>1, <3>2, <3>3, <3>4, <2>3, <1>3, <1>9
  <2> QED BY <2>1, <2>2, <2>3, <1>3
<1>11. ASSUME NEW j \in 0 .. Len(t)
       PROVE  m2.next[Place(l, t, j)] = Place(l, t, j + 1)
  <2>1. /\ j \in 0 .. Len(t) + 1 /\ j + 1 \in 0 .. Len(t) + 1 /\ j \in Nat /\ i \in Nat
        /\ i \in 0 .. Len(s)
    BY <1>3
  <2>2. CASE j < i
    <3>1. /\ Place(l, t, j) = Place(l, s, j) /\ Place(l, t, j + 1) = Place(l, s, j + 1)
          /\ j \in 0 .. Len(s) /\ j # i
      BY <2>1, <2>2, <1>10
    <3>2. Place(l, s, j) # a /\ Place(l, s, j) # x /\ Place(l, s, j) \in Rl!Cell
      BY <3>1, <2>1, <1>3, <1>7 DEF a, s
    <3> QED BY <3>1, <3>2, <1>6, <1>8
  <2>3. CASE j = i
    <3>1. Place(l, t, j) = a /\ Place(l, t, j + 1) = x
      BY <2>1, <2>3, <1>10 DEF a
    <3> QED BY <3>1, <1>7, <1>8
  <2>4. CASE j = i + 1
    <3>1. Place(l, t, j) = x /\ Place(l, t, j + 1) = Place(l, s, i + 1)
      BY <2>1, <2>4, <1>10
    <3>2. x # a
      BY <1>7, <2>1 DEF a, s
    <3> QED BY <3>1, <3>2, <1>7, <1>8
  <2>5. CASE j > i + 1
    <3>1. PICK h \in Nat : h = j - 1
      BY <2>1, <2>5
    <3>2. /\ Place(l, t, j) = Place(l, s, h) /\ Place(l, t, j + 1) = Place(l, s, h + 1)
          /\ h \in 0 .. Len(s) /\ h # i
      BY <3>1, <2>1, <2>5, <1>3, <1>10
    <3>3. Place(l, s, h) # a /\ Place(l, s, h) # x /\ Place(l, s, h) \in Rl!Cell
      BY <3>2, <2>1, <1>3, <1>7 DEF a, s
    <3> QED BY <3>2, <3>3, <1>6, <1>8
  <2> QED BY <2>1, <2>2, <2>3, <2>4, <2>5
<1>12. ASSUME NEW k \in List, k # l, NEW j \in 0 .. Len(q[k])
       PROVE  m2.next[Place(k, q[k], j)] = Place(k, q[k], j + 1)
  <2>1. Place(k, q[k], j) # a /\ Place(k, q[k], j) # x
    BY <1>12, <1>3, <1>7 DEF a
  <2>2. Place(k, q[k], j) \in Rl!Cell
    <3>1. j \in 0 .. Len(q[k]) + 1
      BY <1>4
    <3> QED BY <3>1, <1>1, PlaceLemma
  <2> QED BY <2>1, <2>2, <1>6, <1>8
<1>13. ASSUME NEW y \in Node, ~Listed(q2, y)
       PROVE  m2.next[y] = y
  <2>1. y # x
    <3>1. i + 1 \in 1 .. Len(t) /\ t[i + 1] = x
      BY <1>3, <1>9
    <3> QED BY <3>1, <1>13, <1>4 DEF Listed
  <2>2. ~Listed(q, y)
    <3> SUFFICES ASSUME NEW k \in List, NEW j \in 1 .. Len(q[k]), q[k][j] = y
                 PROVE  FALSE
      BY DEF Listed
    <3>1. CASE k # l
      BY <3>1, <1>4, <1>13 DEF Listed
    <3>2. CASE k = l
      <4>1. PICK h \in 1 .. Len(t) : t[h] = y
        <5>1. s[j] = y /\ j \in 1 .. Len(s)
          BY <3>2 DEF s
        <5>2. CASE j <= i
          BY <5>1, <5>2, <1>3, <1>9
        <5>3. CASE j > i
          <6>1. PICK h \in Nat : h = j + 1
            BY <5>1, <1>3
          <6>2. h \in 1 .. Len(t) /\ ~(h <= i) /\ h # i + 1 /\ h - 1 = j
            BY <6>1, <5>1, <5>3, <1>3
          <6> QED BY <6>2, <5>1, <1>9
        <5> QED BY <5>1, <5>2, <5>3, <1>3
      <4> QED BY <4>1, <1>4, <1>13 DEF Listed
    <3> QED BY <3>1, <3>2
  <2>3. y \in Rl!Cell /\ y # a
    <3>1. i = 0 \/ i \in 1 .. Len(s)
      BY <1>3
    <3>2. l # y
      OBVIOUS
    <3>3. i \in 1 .. Len(s) => a = q[l][i]
      BY <1>3 DEF a, s
    <3>4. i = 0 => a = l
      BY <1>3 DEF a
    <3> QED BY <3>1, <3>2, <3>3, <3>4, <2>2 DEF Rl!Cell, Listed, s
  <2> QED BY <2>1, <2>2, <2>3, <1>6, <1>8
<1>14. NoTwice(q2)
  <2>1. \A j, h \in 1 .. Len(t) : t[j] = t[h] => j = h
    <3> SUFFICES ASSUME NEW j \in 1 .. Len(t), NEW h \in 1 .. Len(t), t[j] = t[h]
                 PROVE  j = h
      OBVIOUS
    <3>1. /\ j \in Nat /\ h \in Nat /\ i \in Nat
          /\ j <= i => j \in 1 .. Len(s) /\ t[j] = s[j]
          /\ j > i + 1 => j - 1 \in 1 .. Len(s) /\ t[j] = s[j - 1]
          /\ j = i + 1 => t[j] = x
          /\ h <= i => h \in 1 .. Len(s) /\ t[h] = s[h]
          /\ h > i + 1 => h - 1 \in 1 .. Len(s) /\ t[h] = s[h - 1]
          /\ h = i + 1 => t[h] = x
      BY <1>3, <1>9
    <3>2. \A u, v \in 1 .. Len(s) : (s[u] = s[v] => u = v) /\ s[u] # x
      BY <1>1, <1>2 DEF NoTwice, Listed, s
    <3> QED BY <3>1, <3>2
  <2>2. \A j \in 1 .. Len(t) : t[j] = x \/ \E h \in 1 .. Len(s) : t[j] = s[h]
    <3> SUFFICES ASSUME NEW j \in 1 .. Len(t)
                 PROVE  t[j] = x \/ \E h \in 1 .. Len(s) : t[j] = s[h]
      OBVIOUS
    <3>1. /\ j \in Nat /\ i \in Nat
          /\ j <= i => j \in 1 .. Len(s) /\ t[j] = s[j]
          /\ j > i + 1 => j - 1 \in 1 .. Len(s) /\ t[j] = s[j - 1]
          /\ j = i + 1 => t[j] = x
      BY <1>3, <1>9
    <3> QED BY <3>1
  <2>3. ASSUME NEW k \in List, k # l, NEW j \in 1 .. Len(q[k]), NEW h \in 1 .. Len(t)
        PROVE  q[k][j] # t[h]
    <3>1. CASE t[h] = x
      BY <3>1, <1>2 DEF Listed
    <3>2. ASSUME NEW u \in 1 .. Len(s), t[h] = s[u]
          PROVE  q[k][j] # t[h]
      BY <3>2, <2>3, <1>1 DEF NoTwice, s
    <3> QED BY <3>1, <3>2, <2>2
  <2>4. \A k, g \in List : \A j \in 1 .. Len(q[k]), h \in 1 .. Len(q[g]) :
          q[k][j] = q[g][h] => k = g /\ j = h
    BY <1>1 DEF NoTwice
  <2> SUFFICES ASSUME NEW k \in List, NEW g \in List,
                      NEW j \in 1 .. Len(q2[k]), NEW h \in 1 .. Len(q2[g]),
                      q2[k][j] = q2[g][h]
               PROVE  k = g /\ j = h
    BY DEF NoTwice
  <2>5. CASE k = l /\ g = l
    BY <2>5, <2>1, <1>4
  <2>6. CASE k = l /\ g # l
    BY <2>6, <2>3, <1>4
  <2>7. CASE k # l /\ g = l
    BY <2>7, <2>3, <1>4
  <2>8. CASE k # l /\ g # l
    BY <2>8, <2>4, <1>4
  <2> QED BY <2>5, <2>6, <2>7, <2>8
<1>15. ASSUME NEW k \in List, NEW j \in 0 .. Len(q2[k])
       PROVE  m2.next[Place(k, q2[k], j)] = Place(k, q2[k], j + 1)
  BY <1>4, <1>11, <1>12
<1>16. Holds(m2, q2)
  BY <1>5, <1>8, <1>13, <1>14, <1>15 DEF Holds
<1> QED BY <1>16 DEF m2, q2, a, s

\* The i-th node of a list is taken out, and is alone.
LEMMA DeleteLemma ==
  ASSUME List \cap Node = {}, NEW m, NEW q, Holds(m, q),
         NEW l \in List, NEW i \in 1 .. Len(q[l]),
         NEW t \in Seq(Node), Len(t) = Len(q[l]) - 1,
         \A j \in 1 .. Len(t) : t[j] = IF j < i THEN q[l][j] ELSE q[l][j + 1]
  PROVE  Holds(Rl!rl_splice(m, Place(l, q[l], i - 1), q[l][i]), [q EXCEPT ![l] = t])
<1> DEFINE s == q[l]
           a == Place(l, s, i - 1)
           x == s[i]
           m2 == Rl!rl_splice(m, a, x)
           q2 == [q EXCEPT ![l] = t]
<1>1. q \in [List -> Seq(Node)] /\ NoTwice(q) /\ Linked(m)
  BY DEF Holds
<1>3. /\ s \in Seq(Node) /\ Len(s) \in Nat /\ i \in 1 .. Len(s) /\ Len(t) = Len(s) - 1
      /\ \A j \in 0 .. Len(s) + 1 : Place(l, s, j) \in Rl!Cell
      /\ \A j \in 1 .. Len(s) : Place(l, s, j) = s[j] /\ s[j] \in Node
      /\ Place(l, s, 0) = l /\ Place(l, s, Len(s) + 1) = l
      /\ \A k \in List : \A j \in 0 .. Len(s), h \in 0 .. Len(q[k]) :
           Place(l, s, j) = Place(k, q[k], h) => l = k /\ j = h
  BY <1>1, PlaceLemma
<1>4. \A k \in List : /\ q[k] \in Seq(Node) /\ Len(q[k]) \in Nat
                      /\ q2[k] = IF k = l THEN t ELSE q[k]
  BY <1>1
<1>5. q2 \in [List -> Seq(Node)]
  BY <1>1
<1>6. /\ \A j \in 0 .. Len(s) : m.next[Place(l, s, j)] = Place(l, s, j + 1)
      /\ \A k \in List : \A j \in 0 .. Len(q[k]) :
           m.next[Place(k, q[k], j)] = Place(k, q[k], j + 1)
      /\ \A y \in Node : Listed(q, y) \/ m.next[y] = y
  BY DEF Holds
<1>7. /\ i - 1 \in 0 .. Len(s) /\ i \in 0 .. Len(s) /\ i \in Nat /\ i # i - 1
      /\ x = Place(l, s, i) /\ x \in Node /\ x \in Rl!Cell /\ a \in Rl!Cell
  BY <1>3 DEF Rl!Cell
<1>8. /\ Linked(m2)
      /\ \A c \in Rl!Cell : m2.next[c] =
           IF c = a THEN Place(l, s, i + 1) ELSE IF c = x THEN x ELSE m.next[c]
  <2>1. m.next[a] = x /\ m.next[x] = Place(l, s, i + 1)
    <3>1. i - 1 + 1 = i
      BY <1>7
    <3> QED BY <3>1, <1>6, <1>7
  <2> HIDE DEF a, x
  <2>2. Linked(m2)
    BY <1>1, <1>7, SpliceLinks
  <2>3. \A c \in Rl!Cell : m2.next[c] =
          IF c = a THEN m.next[x] ELSE IF c = x THEN m.next[a] ELSE m.next[c]
    BY <1>1, <1>7, SpliceAt
  <2> HIDE DEF m2
  <2> QED BY <2>1, <2>2, <2>3
<1> HIDE DEF m2, q2
<1>9. \A j \in 1 .. Len(t) : t[j] = IF j < i THEN s[j] ELSE s[j + 1]
  OBVIOUS
<1>a. \A k, g \in List : \A j \in 1 .. Len(q[k]), h \in 1 .. Len(q[g]) :
        q[k][j] = q[g][h] => k = g /\ j = h
  BY <1>1 DEF NoTwice
<1> HIDE DEF s, x, a
<1>b. \A j, h \in 1 .. Len(s) : s[j] = s[h] => j = h
  BY <1>a DEF s
<1>c. \A j \in 1 .. Len(t) :
        \/ j < i /\ j \in 1 .. Len(s) /\ t[j] = s[j]
        \/ j >= i /\ j + 1 \in 1 .. Len(s) /\ t[j] = s[j + 1]
  BY <1>3, <1>9
<1>10. \A j \in 0 .. Len(t) + 1 :
         Place(l, t, j) = IF j < i THEN Place(l, s, j) ELSE Place(l, s, j + 1)
  <2> SUFFICES ASSUME NEW j \in 0 .. Len(t) + 1
               PROVE  Place(l, t, j) = IF j < i THEN Place(l, s, j) ELSE Place(l, s, j + 1)
    OBVIOUS
  <2>1. CASE j = 0
    BY <2>1, <1>3, <1>7 DEF Place
  <2>2. CASE j = Len(t) + 1
    BY <2>2, <1>3, <1>7 DEF Place
  <2>3. CASE j \in 1 .. Len(t)
    <3>1. Place(l, t, j) = t[j]
      BY <2>3, <1>3 DEF Place
    <3> QED BY <3>1, <2>3, <1>3, <1>c
  <2> QED BY <2>1, <2>2, <2>3, <1>3
<1>11. ASSUME NEW j \in 0 .. Len(t)
       PROVE  m2.next[Place(l, t, j)] = Place(l, t, j + 1)
  <2>1. j \in 0 .. Len(t) + 1 /\ j + 1 \in 0 .. Len(t) + 1 /\ j \in Nat
    BY <1>3
  <2>2. CASE j < i - 1
    <3>1. /\ Place(l, t, j) = Place(l, s, j) /\ Place(l, t, j + 1) = Place(l, s, j + 1)
          /\ j \in 0 .. Len(s) /\ j # i - 1 /\ j # i
      BY <2>1, <2>2, <1>3, <1>10
    <3>2. Place(l, s, j) # a /\ Place(l, s, j) # x /\ Place(l, s, j) \in Rl!Cell
      BY <3>1, <2>1, <1>3, <1>7 DEF a, s
    <3> QED BY <3>1, <3>2, <1>6, <1>8
  <2>3. CASE j = i - 1
    <3>1. Place(l, t, j) = a /\ Place(l, t, j + 1) = Place(l, s, i + 1)
      BY <2>1, <2>3, <1>7, <1>10 DEF a
    <3> QED BY <3>1, <1>7, <1>8
  <2>4. CASE j > i - 1
    <3>1. PICK h \in Nat : h = j + 1
      BY <2>1
    <3>2. /\ Place(l, t, j) = Place(l, s, h) /\ Place(l, t, j + 1) = Place(l, s, h + 1)
          /\ h \in 0 .. Len(s) /\ h # i - 1 /\ h # i
      BY <3>1, <2>1, <2>4, <1>3, <1>10
    <3>3. Place(l, s, h) # a /\ Place(l, s, h) # x /\ Place(l, s, h) \in Rl!Cell
      BY <3>2, <2>1, <1>3, <1>7 DEF a, s
    <3> QED BY <3>2, <3>3, <1>6, <1>8
  <2> QED BY <2>1, <2>2, <2>3, <2>4, <1>7
<1>12. ASSUME NEW k \in List, k # l, NEW j \in 0 .. Len(q[k])
       PROVE  m2.next[Place(k, q[k], j)] = Place(k, q[k], j + 1)
  <2>1. Place(k, q[k], j) # a /\ Place(k, q[k], j) # x
    BY <1>12, <1>3, <1>7 DEF a
  <2>2. Place(k, q[k], j) \in Rl!Cell
    <3>1. j \in 0 .. Len(q[k]) + 1
      BY <1>4
    <3> QED BY <3>1, <1>1, PlaceLemma
  <2> QED BY <2>1, <2>2, <1>6, <1>8
<1>13. ASSUME NEW y \in Node, ~Listed(q2, y)
       PROVE  m2.next[y] = y
  <2>1. y \in Rl!Cell
    BY DEF Rl!Cell
  <2>2. y # a
    <3>1. CASE i = 1
      BY <3>1, <1>3 DEF a
    <3>2. CASE i # 1
      <4>1. i - 1 \in 1 .. Len(t) /\ i - 1 \in 1 .. Len(s) /\ i - 1 < i
        BY <3>2, <1>3
      <4>2. a = s[i - 1] /\ t[i - 1] = s[i - 1]
        BY <4>1, <1>3, <1>9 DEF a
      <4> QED BY <4>1, <4>2, <1>4, <1>13 DEF Listed
    <3> QED BY <3>1, <3>2
  <2>3. ASSUME y # x
        PROVE  ~Listed(q, y)
    <3> SUFFICES ASSUME NEW k \in List, NEW j \in 1 .. Len(q[k]), q[k][j] = y
                 PROVE  FALSE
      BY DEF Listed
    <3>1. CASE k # l
      BY <3>1, <1>4, <1>13 DEF Listed
    <3>2. CASE k = l
      <4>1. s[j] = y /\ j \in 1 .. Len(s) /\ j # i
        BY <3>2, <2>3 DEF s, x
      <4>2. \E h \in 1 .. Len(t) : t[h] = y
        <5>1. CASE j < i
          BY <5>1, <4>1, <1>3, <1>9
        <5>2. CASE j > i
          <6>1. PICK h \in Nat : h = j - 1
            BY <4>1, <5>2, <1>3
          <6>2. h \in 1 .. Len(t) /\ ~(h < i) /\ h + 1 = j
            BY <6>1, <4>1, <5>2, <1>3
          <6> QED BY <6>2, <4>1, <1>9
        <5> QED BY <5>1, <5>2, <4>1, <1>3
      <4> QED BY <4>2, <1>4, <1>13 DEF Listed
    <3> QED BY <3>1, <3>2
  <2> QED BY <2>1, <2>2, <2>3, <1>6, <1>8
<1>14. NoTwice(q2)
  <2>1. \A j, h \in 1 .. Len(t) : t[j] = t[h] => j = h
    BY <1>3, <1>b, <1>c
  <2>3. ASSUME NEW k \in List, k # l, NEW j \in 1 .. Len(q[k]), NEW h \in 1 .. Len(t)
        PROVE  q[k][j] # t[h]
    <3>1. PICK u \in 1 .. Len(s) : t[h] = s[u]
      BY <1>c
    <3> QED BY <3>1, <2>3, <1>a DEF s
  <2> SUFFICES ASSUME NEW k \in List, NEW g \in List,
                      NEW j \in 1 .. Len(q2[k]), NEW h \in 1 .. Len(q2[g]),
                      q2[k][j] = q2[g][h]
               PROVE  k = g /\ j = h
    BY DEF NoTwice
  <2>5. CASE k = l /\ g = l
    BY <2>5, <2>1, <1>4
  <2>6. CASE k = l /\ g # l
    BY <2>6, <2>3, <1>4
  <2>7. CASE k # l /\ g = l
    BY <2>7, <2>3, <1>4
  <2>8. CASE k # l /\ g # l
    BY <2>8, <1>a, <1>4
  <2> QED BY <2>5, <2>6, <2>7, <2>8
<1>15. ASSUME NEW k \in List, NEW j \in 0 .. Len(q2[k])
       PROVE  m2.next[Place(k, q2[k], j)] = Place(k, q2[k], j + 1)
  BY <1>4, <1>11, <1>12
<1>16. Holds(m2, q2)
  BY <1>5, <1>8, <1>13, <1>14, <1>15 DEF Holds
<1> QED BY <1>16 DEF m2, q2, a, x, s

\* Splicing a cell with itself changes nothing.
LEMMA SelfLemma ==
  ASSUME NEW m, NEW q, Holds(m, q), NEW a \in Rl!Cell
  PROVE  Holds(Rl!rl_splice(m, a, a), q)
<1> DEFINE m2 == Rl!rl_splice(m, a, a)
<1>1. Linked(m)
  BY DEF Holds
<1>2. Linked(m2)
  BY <1>1, SpliceLinks
<1>3. \A c \in Rl!Cell : m2.next[c] = IF c = a THEN m.next[a]
                                   ELSE IF c = a THEN m.next[a] ELSE m.next[c]
  BY <1>1, SpliceAt
<1> HIDE DEF m2
<1>4. m2.next = m.next
  BY <1>1, <1>2, <1>3 DEF Linked
<1>5. Holds(m2, q)
  BY <1>2, <1>4 DEF Holds
<1> QED BY <1>5 DEF m2

\* The ends of a list.
LEMMA EndsLemma ==
  ASSUME List \cap Node = {}, NEW m, NEW q, Holds(m, q), NEW l \in List
  PROVE  /\ m.prev[l] = Place(l, q[l], Len(q[l]))
         /\ m.next[l] = Place(l, q[l], 1)
         /\ \A i \in 1 .. Len(q[l]) : m.prev[q[l][i]] = Place(l, q[l], i - 1)
<1>1. q \in [List -> Seq(Node)] /\ NoTwice(q) /\ Linked(m)
  BY DEF Holds
<1>2. /\ Len(q[l]) \in Nat
      /\ \A i \in 0 .. Len(q[l]) + 1 : Place(l, q[l], i) \in Rl!Cell
      /\ \A i \in 1 .. Len(q[l]) : Place(l, q[l], i) = q[l][i]
      /\ Place(l, q[l], 0) = l /\ Place(l, q[l], Len(q[l]) + 1) = l
  BY <1>1, PlaceLemma
<1>3. \A i \in 0 .. Len(q[l]) : m.next[Place(l, q[l], i)] = Place(l, q[l], i + 1)
  BY DEF Holds
<1>4. \A c \in Rl!Cell : m.prev[m.next[c]] = c
  BY <1>1 DEF Linked
<1>5. \A i \in 0 .. Len(q[l]) : m.prev[Place(l, q[l], i + 1)] = Place(l, q[l], i)
  BY <1>2, <1>3, <1>4
<1>6. m.prev[l] = Place(l, q[l], Len(q[l]))
  <2>1. Len(q[l]) \in 0 .. Len(q[l])
    BY <1>2
  <2> QED BY <2>1, <1>2, <1>5
<1>7. m.next[l] = Place(l, q[l], 1)
  <2>1. 0 \in 0 .. Len(q[l]) /\ 0 + 1 = 1
    BY <1>2
  <2> QED BY <2>1, <1>2, <1>3
<1>8. ASSUME NEW i \in 1 .. Len(q[l])
      PROVE  m.prev[q[l][i]] = Place(l, q[l], i - 1)
  <2>1. i - 1 \in 0 .. Len(q[l]) /\ i - 1 + 1 = i
    BY <1>2
  <2> QED BY <2>1, <1>2, <1>5
<1> QED BY <1>6, <1>7, <1>8

\* util.h:417-436: a node alone is pushed.
LEMMA PushLemma ==
  ASSUME List \cap Node = {}, NEW m, NEW q, Holds(m, q),
         NEW l \in List, NEW x \in Node, m.next[x] = x
  PROVE  /\ Holds(Rl!rlist_push_front(m, l, x), [q EXCEPT ![l] = <<x>> \o q[l]])
         /\ Holds(Rl!rlist_push_back(m, l, x), [q EXCEPT ![l] = Append(q[l], x)])
<1>1. q \in [List -> Seq(Node)] /\ NoTwice(q)
  BY DEF Holds
<1>2. q[l] \in Seq(Node) /\ Len(q[l]) \in Nat /\ Place(l, q[l], 0) = l
  BY <1>1, PlaceLemma
<1>3. Holds(Rl!rlist_push_front(m, l, x), [q EXCEPT ![l] = <<x>> \o q[l]])
  <2> DEFINE t == <<x>> \o q[l]
  <2>1. <<x>> \in Seq(Node) /\ Len(<<x>>) = 1 /\ <<x>>[1] = x
    OBVIOUS
  <2>2. /\ t \in Seq(Node) /\ Len(t) = 1 + Len(q[l])
        /\ \A j \in 1 .. 1 + Len(q[l]) : t[j] = IF j <= 1 THEN <<x>>[j] ELSE q[l][j - 1]
    BY <2>1, <1>2, ConcatProperties
  <2> HIDE DEF t
  <2>3. /\ Len(t) = Len(q[l]) + 1 /\ 0 \in 0 .. Len(q[l])
        /\ \A j \in 1 .. Len(t) :
             t[j] = IF j <= 0 THEN q[l][j] ELSE IF j = 0 + 1 THEN x ELSE q[l][j - 1]
    BY <2>1, <2>2, <1>2
  <2>4. Holds(Rl!rl_splice(m, Place(l, q[l], 0), x), [q EXCEPT ![l] = t])
    BY <2>2, <2>3, InsertLemma
  <2> QED BY <2>4, <1>2 DEF t, Rl!rlist_push_front
<1>4. Holds(Rl!rlist_push_back(m, l, x), [q EXCEPT ![l] = Append(q[l], x)])
  <2> DEFINE t == Append(q[l], x)
             n == Len(q[l])
  <2>2. /\ t \in Seq(Node) /\ Len(t) = n + 1
        /\ \A j \in 1 .. n : t[j] = q[l][j]
        /\ t[n + 1] = x
    BY <1>2, AppendProperties
  <2> HIDE DEF t
  <2>3. /\ Len(t) = Len(q[l]) + 1 /\ n \in 0 .. Len(q[l])
        /\ \A j \in 1 .. Len(t) :
             t[j] = IF j <= n THEN q[l][j] ELSE IF j = n + 1 THEN x ELSE q[l][j - 1]
    BY <2>2, <1>2
  <2>4. Holds(Rl!rl_splice(m, Place(l, q[l], n), x), [q EXCEPT ![l] = t])
    BY <2>2, <2>3, InsertLemma
  <2>5. m.prev[l] = Place(l, q[l], n)
    BY EndsLemma
  <2> QED BY <2>4, <2>5 DEF t, Rl!rlist_push_back
<1> QED BY <1>3, <1>4

\* util.h:408: a node is removed from where it is.
LEMMA RemoveLemma ==
  ASSUME List \cap Node = {}, NEW m, NEW q, Holds(m, q), NEW x \in Node
  PROVE  /\ ~Listed(q, x) => Holds(Rl!rlist_remove(m, x), q)
         /\ \A l \in List : \A i \in 1 .. Len(q[l]) :
              q[l][i] = x =>
                Holds(Rl!rlist_remove(m, x), [q EXCEPT ![l] = RemoveAt(q[l], i)])
<1>1. q \in [List -> Seq(Node)] /\ NoTwice(q) /\ Linked(m) /\ x \in Rl!Cell
  BY DEF Holds, Rl!Cell
<1>2. ASSUME ~Listed(q, x)
      PROVE  Holds(Rl!rlist_remove(m, x), q)
  <2>1. m.next[x] = x
    BY <1>2 DEF Holds
  <2>2. m.prev[x] = x
    BY <2>1, <1>1 DEF Linked
  <2> QED BY <2>2, <1>1, SelfLemma DEF Rl!rlist_remove
<1>3. ASSUME NEW l \in List, NEW i \in 1 .. Len(q[l]), q[l][i] = x
      PROVE  Holds(Rl!rlist_remove(m, x), [q EXCEPT ![l] = RemoveAt(q[l], i)])
  <2> DEFINE t == RemoveAt(q[l], i)
             a == Place(l, q[l], i - 1)
  <2>1. q[l] \in Seq(Node) /\ Len(q[l]) \in Nat
    BY <1>1
  <2>2. /\ t \in Seq(Node) /\ Len(t) = Len(q[l]) - 1
        /\ \A j \in 1 .. Len(q[l]) - 1 : t[j] = IF j < i THEN q[l][j] ELSE q[l][j + 1]
    BY <2>1, RemoveAtLemma
  <2>3. i - 1 \in 0 .. Len(q[l]) + 1
    BY <2>1
  <2>4. a \in Rl!Cell
    BY <2>3, <1>1, PlaceLemma
  <2>5. m.prev[x] = a
    BY <1>3, EndsLemma
  <2> HIDE DEF t
  <2>6. Holds(Rl!rl_splice(m, Place(l, q[l], i - 1), q[l][i]), [q EXCEPT ![l] = t])
    BY <2>2, DeleteLemma
  <2> HIDE DEF a
  <2>7. Rl!rl_splice(m, x, a) = Rl!rl_splice(m, a, x)
    BY <1>1, <2>4, SpliceEither
  <2> QED BY <1>3, <2>5, <2>6, <2>7 DEF t, a, Rl!rlist_remove
<1> QED BY <1>2, <1>3

\* util.h:448-456: the first node is popped, and the last one if it is the only one.
LEMMA PopsLemma ==
  ASSUME List \cap Node = {}, NEW m, NEW q, Holds(m, q), NEW l \in List
  PROVE  /\ q[l] = <<>> => /\ Holds(Rl!rlist_pop_front(m, l), q)
                           /\ Holds(Rl!rlist_pop_back(m, l), q)
         /\ q[l] # <<>> => Holds(Rl!rlist_pop_front(m, l), [q EXCEPT ![l] = Tail(q[l])])
         /\ Len(q[l]) = 1 => Holds(Rl!rlist_pop_back(m, l), [q EXCEPT ![l] = Tail(q[l])])
<1>1. q \in [List -> Seq(Node)] /\ NoTwice(q) /\ Linked(m) /\ l \in Rl!Cell
  BY DEF Holds, Rl!Cell
<1>2. /\ q[l] \in Seq(Node) /\ Len(q[l]) \in Nat /\ (Len(q[l]) = 0 <=> q[l] = <<>>)
      /\ Place(l, q[l], 0) = l /\ Place(l, q[l], Len(q[l]) + 1) = l
      /\ \A i \in 1 .. Len(q[l]) : Place(l, q[l], i) = q[l][i]
  BY <1>1, PlaceLemma
<1>3. m.prev[l] = Place(l, q[l], Len(q[l])) /\ m.next[l] = Place(l, q[l], 1)
  BY EndsLemma
<1>4. CASE q[l] = <<>>
  <2>1. m.prev[l] = l /\ m.next[l] = l
    BY <1>2, <1>3, <1>4
  <2> QED BY <1>1, <1>2, <1>4, <2>1, SelfLemma DEF Rl!rlist_pop_front, Rl!rlist_pop_back
<1>5. CASE q[l] # <<>>
  <2> DEFINE t == Tail(q[l])
  <2>1. /\ t \in Seq(Node) /\ Len(t) = Len(q[l]) - 1
        /\ \A j \in 1 .. Len(t) : t[j] = q[l][j + 1]
    BY <1>2, <1>5, HeadTailProperties
  <2> HIDE DEF t
  <2>2. /\ 1 \in 1 .. Len(q[l]) /\ m.next[l] = q[l][1]
        /\ \A j \in 1 .. Len(t) : t[j] = IF j < 1 THEN q[l][j] ELSE q[l][j + 1]
    BY <1>2, <1>3, <1>5, <2>1
  <2>3. Holds(Rl!rl_splice(m, Place(l, q[l], 1 - 1), q[l][1]), [q EXCEPT ![l] = t])
    BY <2>1, <2>2, DeleteLemma
  <2>4. Holds(Rl!rl_splice(m, l, q[l][1]), [q EXCEPT ![l] = t])
    BY <2>3, <1>2
  <2>5. Len(q[l]) = 1 => m.prev[l] = q[l][1]
    BY <1>2, <1>3
  <2> QED BY <1>5, <2>2, <2>4, <2>5 DEF t, Rl!rlist_pop_front, Rl!rlist_pop_back
<1> QED BY <1>4, <1>5

\* t is s with r put after its i-th element.
Joined(s, i, r, t) ==
  /\ Len(t) = Len(s) + Len(r)
  /\ \A j \in 1 .. Len(t) :
       t[j] = IF j <= i THEN s[j]
              ELSE IF j <= i + Len(r) THEN r[j - i] ELSE s[j - Len(r)]

\* The nodes of list k are put after the i-th place of list l.
LEMMA JoinLemma ==
  ASSUME List \cap Node = {}, NEW m, NEW q, Holds(m, q),
         NEW l \in List, NEW k \in List, l # k, NEW i \in 0 .. Len(q[l]),
         NEW t \in Seq(Node), Joined(q[l], i, q[k], t)
  PROVE  Holds(Rl!rlist_remove(Rl!rl_splice(m, Place(l, q[l], i), k), k),
               [q EXCEPT ![l] = t, ![k] = <<>>])
<1> DEFINE s == q[l]
           r == q[k]
           a == Place(l, s, i)
           b == Place(l, s, i + 1)
           e == IF r = <<>> THEN a ELSE r[Len(r)]
           m1 == Rl!rl_splice(m, a, k)
           m2 == Rl!rlist_remove(m1, k)
           q2 == [q EXCEPT ![l] = t, ![k] = <<>>]
<1>1. q \in [List -> Seq(Node)] /\ NoTwice(q) /\ Linked(m)
  BY DEF Holds
<1>2. /\ s \in Seq(Node) /\ Len(s) \in Nat /\ i \in 0 .. Len(s)
      /\ \A j \in 0 .. Len(s) + 1 : Place(l, s, j) \in Rl!Cell
      /\ \A j \in 1 .. Len(s) : Place(l, s, j) = s[j] /\ s[j] \in Node
      /\ Place(l, s, 0) = l /\ Place(l, s, Len(s) + 1) = l
      /\ \A g \in List : \A j \in 0 .. Len(s), h \in 0 .. Len(q[g]) :
           Place(l, s, j) = Place(g, q[g], h) => l = g /\ j = h
  BY <1>1, PlaceLemma
<1>3. /\ r \in Seq(Node) /\ Len(r) \in Nat /\ (r = <<>> <=> Len(r) = 0)
      /\ \A j \in 0 .. Len(r) + 1 : Place(k, r, j) \in Rl!Cell
      /\ \A j \in 1 .. Len(r) : Place(k, r, j) = r[j] /\ r[j] \in Node
      /\ Place(k, r, 0) = k /\ Place(k, r, Len(r) + 1) = k
      /\ \A g \in List : \A j \in 0 .. Len(r), h \in 0 .. Len(q[g]) :
           Place(k, r, j) = Place(g, q[g], h) => k = g /\ j = h
  <2>1. r \in Seq(Node) /\ (r = <<>> <=> Len(r) = 0)
    BY <1>1
  <2> QED BY <2>1, <1>1, PlaceLemma
<1>5. q2 \in [List -> Seq(Node)]
  BY <1>1
<1>4. \A g \in List : /\ q[g] \in Seq(Node) /\ Len(q[g]) \in Nat
                      /\ q2[g] = IF g = k THEN <<>> ELSE IF g = l THEN t ELSE q[g]
  <2>1. \A g \in List : q2[g] = IF g = k THEN <<>> ELSE IF g = l THEN t ELSE q[g]
    BY <1>1
  <2> QED BY <2>1, <1>1
<1>6. /\ \A j \in 0 .. Len(s) : m.next[Place(l, s, j)] = Place(l, s, j + 1)
      /\ \A j \in 0 .. Len(r) : m.next[Place(k, r, j)] = Place(k, r, j + 1)
      /\ \A g \in List : \A j \in 0 .. Len(q[g]) :
           m.next[Place(g, q[g], j)] = Place(g, q[g], j + 1)
      /\ \A y \in Node : Listed(q, y) \/ m.next[y] = y
  BY DEF Holds
<1>7. /\ \A g, f \in List : \A j \in 1 .. Len(q[g]), h \in 1 .. Len(q[f]) :
           q[g][j] = q[f][h] => g = f /\ j = h
      /\ \A j, h \in 1 .. Len(s) : s[j] = s[h] => j = h
      /\ \A j, h \in 1 .. Len(r) : r[j] = r[h] => j = h
      /\ \A j \in 1 .. Len(s), h \in 1 .. Len(r) : s[j] # r[h]
      /\ \A g \in List : g \notin Node
  BY <1>1 DEF NoTwice
<1> HIDE DEF s, r, q2
<1>8. /\ a \in Rl!Cell /\ b \in Rl!Cell /\ k \in Rl!Cell /\ l \in Rl!Cell /\ a # k
      /\ m.next[a] = b /\ m.next[k] = Place(k, r, 1)
  <2>1. i \in 0 .. Len(s) + 1 /\ i + 1 \in 0 .. Len(s) + 1 /\ i \in 0 .. Len(s)
        /\ 0 \in 0 .. Len(r) /\ 0 + 1 = 1
    BY <1>2, <1>3
  <2>2. a \in Rl!Cell /\ b \in Rl!Cell /\ m.next[a] = b /\ k \in Rl!Cell /\ l \in Rl!Cell
    BY <2>1, <1>2, <1>6 DEF Rl!Cell
  <2>3. m.next[k] = Place(k, r, 1)
    BY <2>1, <1>3, <1>6
  <2>4. a # k
    BY <2>1, <1>2, <1>3 DEF r
  <2> QED BY <2>2, <2>3, <2>4
<1>9. /\ Linked(m1)
      /\ \A c \in Rl!Cell : m1.next[c] = IF c = a THEN Place(k, r, 1)
                                      ELSE IF c = k THEN b ELSE m.next[c]
  <2> HIDE DEF a, b
  <2>1. Linked(m1)
    BY <1>1, <1>8, SpliceLinks
  <2>2. \A c \in Rl!Cell : m1.next[c] = IF c = a THEN m.next[k]
                                     ELSE IF c = k THEN m.next[a] ELSE m.next[c]
    BY <1>1, <1>8, SpliceAt
  <2> HIDE DEF m1
  <2> QED BY <2>1, <2>2, <1>8
<1>10. e \in Rl!Cell /\ e # k /\ m1.next[e] = k
  <2>1. CASE r = <<>>
    <3>1. e = a /\ Place(k, r, 1) = k
      BY <2>1, <1>3
    <3> QED BY <3>1, <1>8, <1>9
  <2>2. CASE r # <<>>
    <3>1. e = r[Len(r)] /\ Len(r) \in 1 .. Len(r) /\ Len(r) \in 0 .. Len(r)
      BY <2>2, <1>3
    <3>2. e = Place(k, r, Len(r)) /\ e \in Node /\ e \in Rl!Cell
      BY <3>1, <1>3 DEF Rl!Cell
    <3>3. m.next[e] = k
      BY <3>1, <3>2, <1>3, <1>6
    <3>4. e # a
      BY <3>1, <3>2, <1>2 DEF r
    <3>5. e # k
      BY <3>2, <1>7
    <3> QED BY <3>2, <3>3, <3>4, <3>5, <1>9
  <2> QED BY <2>1, <2>2
<1> HIDE DEF m1
<1>11. /\ Linked(m2)
       /\ \A c \in Rl!Cell : m2.next[c] = IF c = k THEN k
                                       ELSE IF c = e THEN b ELSE m1.next[c]
  <2>1. m1.prev[k] = e
    BY <1>9, <1>10 DEF Linked
  <2>2. m2 = Rl!rl_splice(m1, k, e)
    BY <2>1 DEF Rl!rlist_remove
  <2> HIDE DEF m2, e, a, b
  <2>3. Linked(m2)
    BY <2>2, <1>8, <1>9, <1>10, SpliceLinks
  <2>4. \A c \in Rl!Cell : m2.next[c] = IF c = k THEN m1.next[e]
                                     ELSE IF c = e THEN m1.next[k] ELSE m1.next[c]
    BY <2>2, <1>8, <1>9, <1>10, SpliceAt
  <2> QED BY <2>3, <2>4, <1>8, <1>9, <1>10
<1> HIDE DEF m2
<1>12. \A c \in Rl!Cell : m2.next[c] =
         IF c = k THEN k
         ELSE IF c = e THEN b
         ELSE IF c = a THEN Place(k, r, 1) ELSE m.next[c]
  BY <1>9, <1>11
<1> HIDE DEF e, a, b
<1>13. CASE r = <<>>
  <2>1. e = a /\ Len(r) = 0
    BY <1>3, <1>13 DEF e
  <2>2. \A c \in Rl!Cell : m2.next[c] = m.next[c]
    BY <2>1, <1>3, <1>8, <1>12
  <2>3. m2.next = m.next
    BY <2>2, <1>1, <1>11 DEF Linked
  <2>4. \A j \in 1 .. Len(t) : t[j] = s[j]
    BY <2>1, <1>2, <1>3 DEF s, r, Joined
  <2>5. t = s
    <3>1. Len(t) = Len(s)
      BY <2>1, <1>2 DEF s, r, Joined
    <3> QED BY <2>4, <3>1, <1>2, SeqEqual
  <2>6. q2 = q
    BY <2>5, <1>1, <1>4, <1>5, <1>13 DEF s, r
  <2>7. Holds(m2, q2)
    BY <2>3, <2>6, <1>11 DEF Holds
  <2> QED BY <2>7 DEF m2, m1, q2, a, s
<1>14. CASE r # <<>>
  <2> DEFINE n == Len(r)
  <2>1. /\ n \in Nat /\ n >= 1 /\ e = r[n] /\ i \in Nat /\ i <= Len(s)
        /\ n \in 1 .. Len(r) /\ Len(t) = Len(s) + n /\ Len(s) \in Nat
    BY <1>2, <1>3, <1>14 DEF e, s, r, Joined
  <2>2. \A j \in 1 .. Len(t) :
          \/ j <= i /\ j \in 1 .. Len(s) /\ t[j] = s[j]
          \/ i < j /\ j <= i + n /\ j - i \in 1 .. n /\ t[j] = r[j - i]
          \/ j > i + n /\ j - n \in 1 .. Len(s) /\ t[j] = s[j - n]
    <3>1. \A j \in 1 .. Len(t) :
            t[j] = IF j <= i THEN s[j] ELSE IF j <= i + n THEN r[j - i] ELSE s[j - n]
      BY DEF s, r, Joined
    <3> HIDE DEF n
    <3> QED BY <3>1, <2>1
  <2> HIDE DEF n
  <2>3. \A j \in 0 .. Len(t) + 1 :
          Place(l, t, j) = IF j <= i THEN Place(l, s, j)
                           ELSE IF j <= i + n THEN r[j - i] ELSE Place(l, s, j - n)
    <3> SUFFICES ASSUME NEW j \in 0 .. Len(t) + 1
                 PROVE  Place(l, t, j) = IF j <= i THEN Place(l, s, j)
                           ELSE IF j <= i + n THEN r[j - i] ELSE Place(l, s, j - n)
      OBVIOUS
    <3>1. CASE j = 0
      BY <3>1, <2>1, <1>2 DEF Place
    <3>2. CASE j = Len(t) + 1
      <4>1. ~(j <= i) /\ ~(j <= i + n) /\ j - n = Len(s) + 1
        BY <3>2, <2>1
      <4> QED BY <3>2, <4>1, <1>2 DEF Place
    <3>3. CASE j \in 1 .. Len(t)
      <4>1. Place(l, t, j) = t[j]
        BY <3>3, <2>1 DEF Place
      <4>2. CASE j <= i /\ j \in 1 .. Len(s) /\ t[j] = s[j]
        BY <4>1, <4>2, <1>2
      <4>3. CASE i < j /\ j <= i + n /\ t[j] = r[j - i]
        BY <4>1, <4>3, <3>3, <2>1
      <4>4. CASE j > i + n /\ j - n \in 1 .. Len(s) /\ t[j] = s[j - n]
        <5>1. ~(j <= i) /\ ~(j <= i + n)
          BY <4>4, <3>3, <2>1
        <5>2. Place(l, s, j - n) = s[j - n]
          BY <4>4, <1>2
        <5> QED BY <4>1, <4>4, <5>1, <5>2
      <4> QED BY <4>2, <4>3, <4>4, <3>3, <2>2
    <3> QED BY <3>1, <3>2, <3>3, <2>1
  <2>4. ASSUME NEW j \in 0 .. Len(s), j # i
        PROVE  m2.next[Place(l, s, j)] = Place(l, s, j + 1)
    <3>1. Place(l, s, j) \in Rl!Cell /\ Place(l, s, j) # a
      BY <2>1, <2>4, <1>2 DEF a, s
    <3>2. Place(l, s, j) # k /\ Place(l, s, j) # e
      <4>1. 0 \in 0 .. Len(r) /\ n \in 0 .. Len(r) /\ Place(k, r, n) = e
        BY <2>1, <1>3 DEF n
      <4> QED BY <4>1, <1>2, <1>3 DEF r
    <3> QED BY <3>1, <3>2, <1>6, <1>12
  <2>5. m2.next[a] = r[1] /\ m2.next[e] = b /\ m2.next[k] = k
    <3>1. e # a
      <4>1. n \in 0 .. Len(r) /\ Place(k, r, n) = e
        BY <2>1, <1>3 DEF n
      <4> QED BY <4>1, <1>2, <1>3 DEF r, a
    <3>2. Place(k, r, 1) = r[1]
      BY <2>1, <1>3
    <3> QED BY <3>1, <3>2, <1>8, <1>10, <1>12
  <2>6. ASSUME NEW j \in 1 .. n - 1
        PROVE  m2.next[r[j]] = r[j + 1]
    <3>1. /\ j \in 1 .. Len(r) /\ j + 1 \in 1 .. Len(r) /\ j \in 0 .. Len(r) /\ j # n
          /\ j # 0 /\ 0 \in 0 .. Len(r)
      BY <2>1 DEF n
    <3>2. /\ Place(k, r, j) = r[j] /\ Place(k, r, j + 1) = r[j + 1] /\ r[j] \in Rl!Cell
          /\ r[j] # k
      BY <3>1, <1>3, <1>7 DEF Rl!Cell
    <3>3. r[j] # e
      BY <3>1, <2>1, <1>7
    <3>4. r[j] # a
      BY <3>1, <3>2, <1>2 DEF a, r
    <3> QED BY <3>1, <3>2, <3>3, <3>4, <1>6, <1>12
  <2>7. ASSUME NEW j \in 0 .. Len(t)
        PROVE  m2.next[Place(l, t, j)] = Place(l, t, j + 1)
    <3>1. j \in 0 .. Len(t) + 1 /\ j + 1 \in 0 .. Len(t) + 1 /\ j \in Nat
      BY <2>1
    <3>2. CASE j < i
      <4>1. /\ Place(l, t, j) = Place(l, s, j) /\ Place(l, t, j + 1) = Place(l, s, j + 1)
            /\ j \in 0 .. Len(s) /\ j # i
        <5>1. j <= i /\ j + 1 <= i /\ j \in 0 .. Len(s) /\ j # i
          BY <3>1, <3>2, <2>1
        <5> QED BY <5>1, <3>1, <2>3
      <4> QED BY <4>1, <2>4
    <3>3. CASE j = i
      <4>1. Place(l, t, j) = a
        <5>1. j <= i
          BY <3>1, <3>3
        <5> QED BY <5>1, <3>1, <3>3, <2>3 DEF a
      <4>2. /\ ~(j + 1 <= i) /\ j + 1 <= i + n /\ j + 1 - i = 1
        BY <3>1, <3>3, <2>1
      <4>3. Place(l, t, j + 1) = r[1]
        BY <4>2, <3>1, <2>3
      <4> QED BY <4>1, <4>3, <2>5
    <3>4. CASE i < j /\ j < i + n
      <4>1. PICK h \in Nat : h = j - i
        BY <3>1, <3>4, <2>1
      <4>2. /\ h \in 1 .. n - 1 /\ j + 1 - i = h + 1
            /\ ~(j <= i) /\ j <= i + n /\ ~(j + 1 <= i) /\ j + 1 <= i + n
        BY <3>1, <3>4, <4>1, <2>1
      <4>3. Place(l, t, j) = r[h] /\ Place(l, t, j + 1) = r[h + 1]
        <5>1. Place(l, t, j) = r[j - i]
          BY <3>1, <4>2, <2>3
        <5>2. Place(l, t, j + 1) = r[j + 1 - i]
          BY <3>1, <4>2, <2>3
        <5> QED BY <5>1, <5>2, <4>1, <4>2
      <4> QED BY <4>2, <4>3, <2>6
    <3>5. CASE j = i + n
      <4>1. /\ ~(j <= i) /\ j <= i + n /\ j - i = n
            /\ ~(j + 1 <= i) /\ ~(j + 1 <= i + n) /\ j + 1 - n = i + 1
        BY <3>1, <3>5, <2>1
      <4>2. Place(l, t, j) = e /\ Place(l, t, j + 1) = b
        <5>1. Place(l, t, j) = r[j - i] /\ Place(l, t, j + 1) = Place(l, s, j + 1 - n)
          BY <3>1, <4>1, <2>3
        <5> QED BY <5>1, <4>1, <2>1 DEF b
      <4> QED BY <4>2, <2>5
    <3>6. CASE j > i + n
      <4>1. PICK h \in Nat : h = j - n
        BY <3>1, <3>6, <2>1
      <4>2. /\ h \in 0 .. Len(s) /\ h # i /\ j + 1 - n = h + 1
            /\ ~(j <= i) /\ ~(j <= i + n) /\ ~(j + 1 <= i) /\ ~(j + 1 <= i + n)
        BY <3>1, <3>6, <4>1, <2>1
      <4>3. Place(l, t, j) = Place(l, s, h) /\ Place(l, t, j + 1) = Place(l, s, h + 1)
        <5>0. ~(j <= i) /\ ~(j <= i + n)
          BY <4>2
        <5>1. Place(l, t, j) = Place(l, s, j - n)
          BY <3>1, <5>0, <2>3
        <5>2. PICK f \in 0 .. Len(t) + 1 : f = j + 1
          BY <3>1
        <5>3. Place(l, t, f) = Place(l, s, f - n)
          <6>1. ~(f <= i) /\ ~(f <= i + n)
            BY <5>2, <4>2
          <6> QED BY <6>1, <2>3
        <5> QED BY <5>1, <5>2, <5>3, <4>1, <4>2, <3>1, <2>1
      <4> QED BY <4>2, <4>3, <2>4
    <3> QED BY <3>1, <3>2, <3>3, <3>4, <3>5, <3>6, <2>1
  <2>8. ASSUME NEW g \in List, g # l, g # k, NEW j \in 0 .. Len(q[g])
        PROVE  m2.next[Place(g, q[g], j)] = Place(g, q[g], j + 1)
    <3>1. Place(g, q[g], j) # a
      BY <2>8, <1>2 DEF a
    <3>2. Place(g, q[g], j) # e /\ Place(g, q[g], j) # k
      <4>1. 0 \in 0 .. Len(r) /\ n \in 0 .. Len(r) /\ Place(k, r, n) = e
        BY <2>1, <1>3 DEF n
      <4> QED BY <4>1, <2>8, <1>3
    <3>3. Place(g, q[g], j) \in Rl!Cell
      <4>1. j \in 0 .. Len(q[g]) + 1
        BY <1>4
      <4> QED BY <4>1, <1>1, PlaceLemma
    <3> QED BY <3>1, <3>2, <3>3, <1>6, <1>12
  <2>9. \A j \in 1 .. Len(t) :
          \/ \E h \in 1 .. Len(s) : t[j] = s[h]
          \/ \E h \in 1 .. Len(r) : t[j] = r[h]
    BY <2>2 DEF n
  <2>10. /\ \A h \in 1 .. Len(s) : \E j \in 1 .. Len(t) : t[j] = s[h]
         /\ \A h \in 1 .. Len(r) : \E j \in 1 .. Len(t) : t[j] = r[h]
    <3>1. ASSUME NEW h \in 1 .. Len(s)
          PROVE  \E j \in 1 .. Len(t) : t[j] = s[h]
      <4>1. CASE h <= i
        <5>1. h \in 1 .. Len(t) /\ ~(i < h) /\ ~(h > i + n)
          BY <4>1, <2>1
        <5> QED BY <5>1, <2>2
      <4>2. CASE h > i
        <5>1. PICK j \in Nat : j = h + n
          BY <2>1
        <5>2. j \in 1 .. Len(t) /\ j > i + n /\ ~(j <= i) /\ ~(j <= i + n) /\ j - n = h
          BY <4>2, <5>1, <2>1
        <5> QED BY <5>2, <2>2
      <4> QED BY <4>1, <4>2, <2>1
    <3>2. ASSUME NEW h \in 1 .. Len(r)
          PROVE  \E j \in 1 .. Len(t) : t[j] = r[h]
      <4>1. PICK j \in Nat : j = h + i
        BY <2>1
      <4>2. j \in 1 .. Len(t) /\ ~(j <= i) /\ ~(j > i + n) /\ j - i = h
        BY <4>1, <2>1 DEF n
      <4> QED BY <4>2, <2>2
    <3> QED BY <3>1, <3>2
  <2>11. ASSUME NEW y \in Node, ~Listed(q2, y)
         PROVE  m2.next[y] = y
    <3>1. \A j \in 1 .. Len(t) : t[j] # y
      BY <2>11, <1>4 DEF Listed
    <3>2. \A j \in 1 .. Len(s) : s[j] # y
      BY <3>1, <2>10
    <3>3. \A j \in 1 .. Len(r) : r[j] # y
      BY <3>1, <2>10
    <3>4. ~Listed(q, y)
      <4> SUFFICES ASSUME NEW g \in List, NEW j \in 1 .. Len(q[g]), q[g][j] = y
                   PROVE  FALSE
        BY DEF Listed
      <4>1. g # l /\ g # k
        BY <3>2, <3>3 DEF s, r
      <4> QED BY <4>1, <2>11, <1>4 DEF Listed
    <3>5. y \in Rl!Cell /\ y # k /\ y # e /\ y # l
      BY <3>3, <2>1, <1>7 DEF Rl!Cell
    <3>6. y # a
      <4>1. i = 0 \/ i \in 1 .. Len(s)
        BY <1>2
      <4> QED BY <4>1, <3>2, <3>5, <1>2 DEF a
    <3> QED BY <3>4, <3>5, <3>6, <1>6, <1>12
  <2>12. NoTwice(q2)
    <3>1. \A j, h \in 1 .. Len(t) : t[j] = t[h] => j = h
      <4> SUFFICES ASSUME NEW j \in 1 .. Len(t), NEW h \in 1 .. Len(t), t[j] = t[h]
                   PROVE  j = h
        OBVIOUS
      <4>1. j \in Nat /\ h \in Nat
        OBVIOUS
      <4>2. /\ \/ j <= i /\ j \in 1 .. Len(s) /\ t[j] = s[j]
               \/ i < j /\ j <= i + n /\ j - i \in 1 .. Len(r) /\ t[j] = r[j - i]
               \/ j > i + n /\ j - n \in 1 .. Len(s) /\ t[j] = s[j - n]
            /\ \/ h <= i /\ h \in 1 .. Len(s) /\ t[h] = s[h]
               \/ i < h /\ h <= i + n /\ h - i \in 1 .. Len(r) /\ t[h] = r[h - i]
               \/ h > i + n /\ h - n \in 1 .. Len(s) /\ t[h] = s[h - n]
        BY <2>2 DEF n
      <4>3. /\ \A u, v \in 1 .. Len(s) : s[u] = s[v] => u = v
            /\ \A u, v \in 1 .. Len(r) : r[u] = r[v] => u = v
            /\ \A u \in 1 .. Len(s), v \in 1 .. Len(r) : s[u] # r[v]
        BY <1>7
      <4>4. PICK u \in Nat :
              \/ j <= i /\ u = j /\ u \in 1 .. Len(s) /\ t[j] = s[u]
              \/ i < j /\ j <= i + n /\ u = j - i /\ u \in 1 .. Len(r) /\ t[j] = r[u]
              \/ j > i + n /\ u = j - n /\ u \in 1 .. Len(s) /\ t[j] = s[u]
        <5>1. CASE j <= i /\ j \in 1 .. Len(s) /\ t[j] = s[j]
          BY <5>1, <4>1
        <5>2. CASE i < j /\ j <= i + n /\ j - i \in 1 .. Len(r) /\ t[j] = r[j - i]
          BY <5>2
        <5>3. CASE j > i + n /\ j - n \in 1 .. Len(s) /\ t[j] = s[j - n]
          BY <5>3
        <5> QED BY <5>1, <5>2, <5>3, <4>2
      <4>5. PICK v \in Nat :
              \/ h <= i /\ v = h /\ v \in 1 .. Len(s) /\ t[h] = s[v]
              \/ i < h /\ h <= i + n /\ v = h - i /\ v \in 1 .. Len(r) /\ t[h] = r[v]
              \/ h > i + n /\ v = h - n /\ v \in 1 .. Len(s) /\ t[h] = s[v]
        BY <4>1, <4>2, <2>1
      <4>6. /\ u \in 1 .. Len(s) /\ v \in 1 .. Len(s) /\ s[u] = s[v] => u = v
            /\ u \in 1 .. Len(r) /\ v \in 1 .. Len(r) /\ r[u] = r[v] => u = v
            /\ u \in 1 .. Len(s) /\ v \in 1 .. Len(r) => s[u] # r[v]
            /\ u \in 1 .. Len(r) /\ v \in 1 .. Len(s) => r[u] # s[v]
        BY <4>3
      <4>7. t[j] = t[h]
        OBVIOUS
      <4> QED BY <4>1, <4>4, <4>5, <4>6, <4>7, <2>1
    <3>2. ASSUME NEW g \in List, g # l, g # k, NEW j \in 1 .. Len(q[g]), NEW h \in 1 .. Len(t)
          PROVE  q[g][j] # t[h]
      <4>1. ASSUME NEW u \in 1 .. Len(s), t[h] = s[u]
            PROVE  q[g][j] # t[h]
        BY <4>1, <3>2, <1>7 DEF s
      <4>2. ASSUME NEW u \in 1 .. Len(r), t[h] = r[u]
            PROVE  q[g][j] # t[h]
        BY <4>2, <3>2, <1>7 DEF r
      <4> QED BY <4>1, <4>2, <2>9
    <3> SUFFICES ASSUME NEW g \in List, NEW f \in List,
                        NEW j \in 1 .. Len(q2[g]), NEW h \in 1 .. Len(q2[f]),
                        q2[g][j] = q2[f][h]
                 PROVE  g = f /\ j = h
      BY DEF NoTwice
    <3>3. g # k /\ f # k
      BY <1>4
    <3>4. CASE g = l /\ f = l
      BY <3>4, <3>3, <3>1, <1>4
    <3>5. CASE g = l /\ f # l
      BY <3>5, <3>3, <3>2, <1>4
    <3>6. CASE g # l /\ f = l
      BY <3>6, <3>3, <3>2, <1>4
    <3>7. CASE g # l /\ f # l
      BY <3>7, <3>3, <1>7, <1>4
    <3> QED BY <3>4, <3>5, <3>6, <3>7
  <2>13. ASSUME NEW g \in List, NEW j \in 0 .. Len(q2[g])
         PROVE  m2.next[Place(g, q2[g], j)] = Place(g, q2[g], j + 1)
    <3>1. CASE g = k
      <4>1. q2[g] = <<>> /\ j = 0
        BY <3>1, <1>4
      <4> QED BY <3>1, <4>1, <2>5 DEF Place
    <3>2. CASE g = l
      BY <3>2, <2>7, <1>4
    <3>3. CASE g # l /\ g # k
      BY <3>3, <2>8, <1>4
    <3> QED BY <3>1, <3>2, <3>3
  <2>14. Holds(m2, q2)
    BY <1>5, <1>11, <2>11, <2>12, <2>13 DEF Holds
  <2> QED BY <2>14 DEF m2, m1, q2, a, s
<1> QED BY <1>13, <1>14

\* The concatenations are the sequences that joins leave.
LEMMA ConcatJoins ==
  ASSUME NEW S, NEW s \in Seq(S), NEW r \in Seq(S)
  PROVE  /\ s \o r \in Seq(S) /\ Joined(s, Len(s), r, s \o r)
         /\ r \o s \in Seq(S) /\ Joined(s, 0, r, r \o s)
<1> DEFINE n == Len(s)
           k == Len(r)
           t == s \o r
           u == r \o s
<1>1. n \in Nat /\ k \in Nat
  OBVIOUS
<1>2. /\ t \in Seq(S) /\ Len(t) = n + k
      /\ \A j \in 1 .. n + k : t[j] = IF j <= n THEN s[j] ELSE r[j - n]
  BY ConcatProperties
<1>3. /\ u \in Seq(S) /\ Len(u) = k + n
      /\ \A j \in 1 .. k + n : u[j] = IF j <= k THEN r[j] ELSE s[j - k]
  BY ConcatProperties
<1> HIDE DEF n, k, t, u
<1>4. \A j \in 1 .. Len(t) :
        t[j] = IF j <= n THEN s[j] ELSE IF j <= n + k THEN r[j - n] ELSE s[j - k]
  BY <1>1, <1>2
<1>5. \A j \in 1 .. Len(u) :
        u[j] = IF j <= 0 THEN s[j] ELSE IF j <= 0 + k THEN r[j - 0] ELSE s[j - k]
  BY <1>1, <1>3
<1>6. Len(u) = n + k
  BY <1>1, <1>3
<1> QED BY <1>2, <1>3, <1>4, <1>5, <1>6 DEF Joined, n, k, t, u

\* util.h:511-523: the nodes of a list are put at an end of another one.
LEMMA MergeLemma ==
  ASSUME List \cap Node = {}, NEW m, NEW q, Holds(m, q),
         NEW l \in List, NEW k \in List, l # k
  PROVE  /\ Holds(Rl!rlist_append(m, l, k), [q EXCEPT ![l] = q[l] \o q[k], ![k] = <<>>])
         /\ Holds(Rl!rlist_prepend(m, l, k), [q EXCEPT ![l] = q[k] \o q[l], ![k] = <<>>])
<1>1. q \in [List -> Seq(Node)] /\ NoTwice(q)
  BY DEF Holds
<1>2. /\ q[l] \in Seq(Node) /\ Len(q[l]) \in Nat /\ q[k] \in Seq(Node)
      /\ Place(l, q[l], 0) = l
  BY <1>1, PlaceLemma
<1>3. /\ 0 \in 0 .. Len(q[l]) /\ Len(q[l]) \in 0 .. Len(q[l])
  BY <1>2
<1>4. Holds(Rl!rlist_append(m, l, k), [q EXCEPT ![l] = q[l] \o q[k], ![k] = <<>>])
  <2>1. Holds(Rl!rlist_remove(Rl!rl_splice(m, Place(l, q[l], Len(q[l])), k), k),
              [q EXCEPT ![l] = q[l] \o q[k], ![k] = <<>>])
    BY <1>2, <1>3, ConcatJoins, JoinLemma
  <2>2. m.prev[l] = Place(l, q[l], Len(q[l]))
    BY EndsLemma
  <2> QED BY <2>1, <2>2 DEF Rl!rlist_append, Rl!rlist_push_back
<1>5. Holds(Rl!rlist_prepend(m, l, k), [q EXCEPT ![l] = q[k] \o q[l], ![k] = <<>>])
  <2>1. Holds(Rl!rlist_remove(Rl!rl_splice(m, Place(l, q[l], 0), k), k),
              [q EXCEPT ![l] = q[k] \o q[l], ![k] = <<>>])
    BY <1>2, <1>3, ConcatJoins, JoinLemma
  <2> QED BY <2>1, <1>2 DEF Rl!rlist_prepend, Rl!rlist_push_front
<1> QED BY <1>4, <1>5

-----------------------------------------------------------------------------

\* A ring has no more cells than there are.
LEMMA RingSize ==
  ASSUME List \cap Node = {}, IsFiniteSet(List), IsFiniteSet(Node),
         NEW q \in [List -> Seq(Node)], NoTwice(q), NEW l \in List
  PROVE  /\ Cardinality(Rl!Cell) \in Nat /\ IsFiniteSet(Rl!Cell)
         /\ Len(q[l]) \in Nat /\ Len(q[l]) + 1 <= Cardinality(Rl!Cell)
<1> DEFINE n == Len(q[l])
           S == 0 .. n
           f == [i \in S |-> Place(l, q[l], i)]
<1>1. IsFiniteSet(Rl!Cell) /\ Cardinality(Rl!Cell) \in Nat
  BY FS_Union, FS_CardinalityType DEF Rl!Cell
<1>2. /\ n \in Nat
      /\ \A i \in 0 .. n + 1 : Place(l, q[l], i) \in Rl!Cell
      /\ \A i, j \in 0 .. n : Place(l, q[l], i) = Place(l, q[l], j) => i = j
  BY PlaceLemma
<1> HIDE DEF n
<1>3. IsFiniteSet(S) /\ Cardinality(S) = n + 1
  BY <1>2, FS_Interval
<1>4. f \in [S -> Rl!Cell]
  BY <1>2
<1>5. \A i, j \in S : f[i] = f[j] => i = j
  BY <1>2
<1> HIDE DEF S, f
<1>6. ~(Cardinality(Rl!Cell) < Cardinality(S))
  BY <1>1, <1>3, <1>4, <1>5, FS_PigeonHole
<1> QED BY <1>1, <1>2, <1>3, <1>6 DEF n

\* The states of the loops of rlist_reverse and rlist_select.
Loop == [memory : [next : [Rl!Cell -> Rl!Cell], prev : [Rl!Cell -> Rl!Cell]], at : Rl!Cell]

\* The fields of a state of a loop.
LEMMA LoopFields ==
  ASSUME NEW w \in Loop
  PROVE  /\ w.memory.next \in [Rl!Cell -> Rl!Cell] /\ w.memory.prev \in [Rl!Cell -> Rl!Cell]
         /\ w.at \in Rl!Cell /\ w = [memory |-> w.memory, at |-> w.at]
         /\ w.memory = [next |-> w.memory.next, prev |-> w.memory.prev]
BY DEF Loop

\* util.h:530-538: the turns of the loop, from its definition as a recursive function.
LEMMA ReverseLoop ==
  ASSUME IsFiniteSet(List), IsFiniteSet(Node), NEW l \in List,
         NEW m \in [next : [Rl!Cell -> Rl!Cell], prev : [Rl!Cell -> Rl!Cell]]
  PROVE  LET f == Rl!Reversing(m, l)
             n == Cardinality(Rl!Cell)
         IN  /\ f[0] = [memory |-> m, at |-> l]
             /\ \A k \in 1 .. n :
                  f[k] = IF k > 1 /\ f[k - 1].at = l THEN f[k - 1]
                         ELSE [memory |-> Rl!Turned(f[k - 1].memory, f[k - 1].at),
                               at     |-> f[k - 1].memory.prev[f[k - 1].at]]
<1> DEFINE n == Cardinality(Rl!Cell)
           z == [memory |-> m, at |-> l]
           step(k, w) == IF k > 1 /\ w.at = l THEN w
                         ELSE [memory |-> Rl!Turned(w.memory, w.at),
                               at     |-> w.memory.prev[w.at]]
           turn == [k \in 1 .. n |-> [w \in Loop |-> step(k, w)]]
           Is(f) == f = [k \in 0 .. n |->
                           IF k = 0 THEN [memory |-> m, at |-> l]
                           ELSE IF k > 1 /\ f[k - 1].at = l THEN f[k - 1]
                           ELSE [memory |-> Rl!Turned(f[k - 1].memory, f[k - 1].at),
                                 at     |-> f[k - 1].memory.prev[f[k - 1].at]]]
<1>1. n \in Nat
  BY FS_Union, FS_CardinalityType DEF Rl!Cell
<1>2. z \in Loop
  BY DEF Loop, Rl!Cell
<1>3. ASSUME NEW k \in 1 .. n, NEW w \in Loop
      PROVE  step(k, w) \in Loop
  <2>1. Rl!Turned(w.memory, w.at) \in [next : [Rl!Cell -> Rl!Cell], prev : [Rl!Cell -> Rl!Cell]]
    <3>1. /\ [w.memory.next EXCEPT ![w.at] = w.memory.prev[w.at]] \in [Rl!Cell -> Rl!Cell]
          /\ [w.memory.prev EXCEPT ![w.at] = w.memory.next[w.at]] \in [Rl!Cell -> Rl!Cell]
      BY LoopFields
    <3> QED BY <3>1 DEF Rl!Turned
  <2>2. w.memory.prev[w.at] \in Rl!Cell
    BY LoopFields
  <2> HIDE DEF Rl!Turned
  <2> QED BY <2>1, <2>2 DEF Loop
<1> HIDE DEF n, z, step
<1>4. \A k \in 1 .. n : \A w \in Loop : turn[k][w] \in Loop
  BY <1>3
<1>5. \A k \in 1 .. n : \A w \in Loop : turn[k][w] = step(k, w)
  OBVIOUS
<1> HIDE DEF turn
<1>6. PICK f : /\ f = [k \in 0 .. n |-> IF k = 0 THEN z ELSE turn[k][f[k - 1]]]
               /\ f \in [0 .. n -> Loop]
  BY <1>1, <1>2, <1>4, LoopLemma
<1>7. Is(f)
  <2>1. ASSUME NEW k \in 0 .. n
        PROVE  f[k] = IF k = 0 THEN z ELSE step(k, f[k - 1])
    <3>1. CASE k = 0
      BY <3>1, <1>6
    <3>2. CASE k # 0
      <4>1. k \in 1 .. n /\ k - 1 \in 0 .. n
        BY <3>2, <1>1
      <4>2. f[k - 1] \in Loop /\ f[k] = turn[k][f[k - 1]]
        BY <4>1, <3>2, <1>6
      <4> QED BY <3>2, <4>1, <4>2, <1>5
    <3> QED BY <3>1, <3>2
  <2>2. f = [k \in 0 .. n |-> IF k = 0 THEN z ELSE step(k, f[k - 1])]
    BY <2>1, <1>6
  <2> QED BY <2>2 DEF z, step
<1>8. Rl!Reversing(m, l) = CHOOSE g : Is(g)
  BY DEF Rl!Reversing, n, Rl!Cardinality, Cardinality
<1> HIDE DEF Is
<1>9. Is(Rl!Reversing(m, l))
  BY <1>7, <1>8
<1> DEFINE g == Rl!Reversing(m, l)
<1> HIDE DEF g
<1>10. g = [k \in 0 .. n |->
              IF k = 0 THEN [memory |-> m, at |-> l]
              ELSE IF k > 1 /\ g[k - 1].at = l THEN g[k - 1]
              ELSE [memory |-> Rl!Turned(g[k - 1].memory, g[k - 1].at),
                    at     |-> g[k - 1].memory.prev[g[k - 1].at]]]
  BY <1>9 DEF Is, g
<1>11. g[0] = [memory |-> m, at |-> l]
  <2>1. 0 \in 0 .. n
    BY <1>1
  <2> QED BY <2>1, <1>10
<1>12. ASSUME NEW k \in 1 .. n
       PROVE  g[k] = IF k > 1 /\ g[k - 1].at = l THEN g[k - 1]
                     ELSE [memory |-> Rl!Turned(g[k - 1].memory, g[k - 1].at),
                           at     |-> g[k - 1].memory.prev[g[k - 1].at]]
  <2>1. k \in 0 .. n /\ k # 0
    BY <1>1
  <2> QED BY <2>1, <1>10
<1> QED BY <1>11, <1>12 DEF g, n

\* The cells of a ring.
Ring(l, s) == {Place(l, s, j) : j \in 1 .. Len(s) + 1}

\* util.h:530-538: the loop turns the cells of the ring one after the other, from
\* the list itself back to its first node.
LEMMA TurnedLemma ==
  ASSUME List \cap Node = {}, IsFiniteSet(List), IsFiniteSet(Node),
         NEW m \in [next : [Rl!Cell -> Rl!Cell], prev : [Rl!Cell -> Rl!Cell]],
         NEW q, Holds(m, q), NEW l \in List
  PROVE  /\ Rl!rlist_reverse(m, l).next =
              [c \in Rl!Cell |-> IF c \in Ring(l, q[l]) THEN m.prev[c] ELSE m.next[c]]
         /\ Rl!rlist_reverse(m, l).prev =
              [c \in Rl!Cell |-> IF c \in Ring(l, q[l]) THEN m.next[c] ELSE m.prev[c]]
<1> DEFINE s == q[l]
           n == Len(s)
           N == Cardinality(Rl!Cell)
           f == Rl!Reversing(m, l)
           D(e) == {Place(l, s, j) : j \in n + 2 - e .. n + 1}
           NextOf(e) == [c \in Rl!Cell |-> IF c \in D(e) THEN m.prev[c] ELSE m.next[c]]
           PrevOf(e) == [c \in Rl!Cell |-> IF c \in D(e) THEN m.next[c] ELSE m.prev[c]]
           W(e) == [memory |-> [next |-> NextOf(e), prev |-> PrevOf(e)],
                    at |-> Place(l, s, n + 1 - e)]
<1>1. q \in [List -> Seq(Node)] /\ NoTwice(q) /\ Linked(m)
  BY DEF Holds
<1>2. /\ n \in Nat
      /\ \A j \in 0 .. n + 1 : Place(l, s, j) \in Rl!Cell
      /\ \A j \in 1 .. n : Place(l, s, j) \in Node
      /\ Place(l, s, 0) = l /\ Place(l, s, n + 1) = l
      /\ \A j, h \in 0 .. n : Place(l, s, j) = Place(l, s, h) => j = h
  <2>1. \A j \in 1 .. n : Place(l, s, j) = s[j] /\ s[j] \in Node
    BY <1>1, PlaceLemma
  <2> QED BY <2>1, <1>1, PlaceLemma
<1>3. N \in Nat /\ n + 1 <= N
  BY <1>1, RingSize
<1>4. /\ f[0] = [memory |-> m, at |-> l]
      /\ \A k \in 1 .. N :
           f[k] = IF k > 1 /\ f[k - 1].at = l THEN f[k - 1]
                  ELSE [memory |-> Rl!Turned(f[k - 1].memory, f[k - 1].at),
                        at     |-> f[k - 1].memory.prev[f[k - 1].at]]
  BY ReverseLoop
<1>5. /\ m.next \in [Rl!Cell -> Rl!Cell] /\ m.prev \in [Rl!Cell -> Rl!Cell]
      /\ m = [next |-> m.next, prev |-> m.prev]
      /\ \A c \in Rl!Cell : m.prev[m.next[c]] = c /\ m.next[m.prev[c]] = c
  BY <1>1 DEF Linked
<1>6. \A j \in 0 .. n : m.next[Place(l, s, j)] = Place(l, s, j + 1)
  BY DEF Holds
<1> HIDE DEF s, n, N, f
<1>7. ASSUME NEW e \in 0 .. n
      PROVE  /\ Place(l, s, n + 1 - e) \in Rl!Cell
             /\ m.prev[Place(l, s, n + 1 - e)] = Place(l, s, n - e)
             /\ Place(l, s, n + 1 - e) \notin D(e)
             /\ D(e + 1) = D(e) \cup {Place(l, s, n + 1 - e)}
             /\ e # 0 => Place(l, s, n + 1 - e) # l
  <2>1. PICK j \in Nat : j = n + 1 - e
    BY <1>2
  <2>2. PICK h \in Nat : h = n - e
    BY <1>2
  <2>3. j = h + 1 /\ h \in 0 .. n /\ j \in 0 .. n + 1 /\ h \in 0 .. n + 1 /\ (e # 0 => j \in 1 .. n)
    BY <2>1, <2>2, <1>2
  <2>4. Place(l, s, j) \in Rl!Cell /\ m.prev[Place(l, s, j)] = Place(l, s, h)
    BY <2>3, <1>2, <1>5, <1>6
  <2>5. e # 0 => Place(l, s, j) # l
    BY <2>3, <1>2
  <2>6. ASSUME NEW i \in n + 2 - e .. n + 1, Place(l, s, i) = Place(l, s, j)
        PROVE  FALSE
    <3>1. e # 0 /\ j \in 1 .. n /\ i \in Nat /\ i > j /\ (i \in 0 .. n \/ i = n + 1)
      BY <2>1, <2>3, <1>2
    <3>2. i # n + 1
      BY <3>1, <2>5, <2>6, <1>2
    <3> QED BY <3>1, <3>2, <2>6, <1>2
  <2>7. n + 2 - (e + 1) .. n + 1 = (n + 2 - e .. n + 1) \cup {j}
    BY <2>1, <1>2
  <2>8. D(e + 1) = D(e) \cup {Place(l, s, j)}
    BY <2>7
  <2> QED BY <2>1, <2>2, <2>4, <2>5, <2>6, <2>8
<1>8. f[0] = W(0)
  <2>1. D(0) = {}
    BY <1>2
  <2>2. NextOf(0) = m.next /\ PrevOf(0) = m.prev
    BY <2>1, <1>5
  <2>3. Place(l, s, n + 1 - 0) = l
    BY <1>2
  <2> QED BY <2>2, <2>3, <1>4, <1>5
<1>9. ASSUME NEW e \in 0 .. n
      PROVE  [memory |-> Rl!Turned(W(e).memory, W(e).at),
              at     |-> W(e).memory.prev[W(e).at]] = W(e + 1)
  <2> DEFINE p == Place(l, s, n + 1 - e)
  <2>1. /\ p \in Rl!Cell /\ p \notin D(e) /\ D(e + 1) = D(e) \cup {p}
        /\ m.prev[p] = Place(l, s, n - e)
    BY <1>7
  <2>2. W(e).at = p /\ W(e).memory.next = NextOf(e) /\ W(e).memory.prev = PrevOf(e)
    OBVIOUS
  <2>3. NextOf(e) \in [Rl!Cell -> Rl!Cell] /\ PrevOf(e) \in [Rl!Cell -> Rl!Cell]
    BY <1>5
  <2> HIDE DEF D, p
  <2>4. PrevOf(e)[p] = m.prev[p] /\ NextOf(e)[p] = m.next[p]
    BY <2>1
  <2>5. NextOf(e + 1) = [NextOf(e) EXCEPT ![p] = m.prev[p]]
    BY <2>1, <2>3
  <2>6. PrevOf(e + 1) = [PrevOf(e) EXCEPT ![p] = m.next[p]]
    BY <2>1, <2>3
  <2>7. Place(l, s, n + 1 - (e + 1)) = Place(l, s, n - e)
    <3>1. n + 1 - (e + 1) = n - e
      BY <1>2
    <3> QED BY <3>1
  <2> HIDE DEF NextOf, PrevOf
  <2>8. Rl!Turned(W(e).memory, W(e).at) = [next |-> NextOf(e + 1), prev |-> PrevOf(e + 1)]
    BY <2>2, <2>4, <2>5, <2>6 DEF Rl!Turned
  <2>9. W(e).memory.prev[W(e).at] = Place(l, s, n + 1 - (e + 1))
    BY <2>1, <2>2, <2>4, <2>7
  <2> HIDE DEF Rl!Turned
  <2> QED BY <2>8, <2>9
<1> DEFINE T == {k \in 0 .. N : f[k] = IF k <= n + 1 THEN W(k) ELSE W(n + 1)}
<1>10. W(n + 1).at = l /\ \A e \in 0 .. n : W(e).at = l => e = 0
  <2>1. n + 1 - (n + 1) = 0
    BY <1>2
  <2> QED BY <2>1, <1>2, <1>7
<1> HIDE DEF W
<1>11. ASSUME NEW k \in 1 .. N, k - 1 \in T
       PROVE  k \in T
  <2>1. CASE k <= n + 1
    <3>1. PICK e \in 0 .. n : e = k - 1 /\ k = e + 1
      BY <2>1, <1>2
    <3>2. f[e] = W(e)
      BY <3>1, <2>1, <1>2, <1>11
    <3>3. ~(k > 1 /\ f[e].at = l)
      BY <3>1, <3>2, <1>10
    <3>4. f[k] = W(e + 1)
      BY <3>1, <3>2, <3>3, <1>4, <1>9
    <3> QED BY <3>1, <3>4, <2>1
  <2>2. CASE k > n + 1
    <3>1. f[k - 1] = W(n + 1)
      <4>1. k - 1 \in Nat /\ k - 1 >= n + 1
        BY <2>2, <1>2
      <4>2. k - 1 <= n + 1 => k - 1 = n + 1
        BY <4>1, <1>2
      <4> QED BY <4>2, <1>11
    <3>2. f[k] = W(n + 1)
      <4>1. k > 1 /\ f[k - 1].at = l
        BY <3>1, <2>2, <1>2, <1>10
      <4> QED BY <3>1, <4>1, <1>4
    <3> QED BY <3>2, <2>2, <1>2, <1>3
  <2> QED BY <2>1, <2>2, <1>2
<1>12. 0 \in T
  BY <1>2, <1>3, <1>8
<1>13. N \in T
  <2> HIDE DEF T
  <2>1. \A k \in 0 .. N : k \in T
    BY <1>3, <1>11, <1>12, NatSteps
  <2> QED BY <2>1, <1>3
<1>14. f[N] = W(n + 1)
  <2>1. N <= n + 1 => N = n + 1
    BY <1>2, <1>3
  <2> QED BY <2>1, <1>13
<1>15. Rl!rlist_reverse(m, l) = [next |-> NextOf(n + 1), prev |-> PrevOf(n + 1)]
  BY <1>14 DEF Rl!rlist_reverse, W, f, N, Rl!Cardinality, Cardinality
<1>16. D(n + 1) = {Place(l, s, j) : j \in 1 .. n + 1}
  <2>1. n + 2 - (n + 1) = 1
    BY <1>2
  <2> QED BY <2>1
<1>17. D(n + 1) = Ring(l, q[l])
  BY <1>16 DEF Ring, s, n
<1> QED BY <1>15, <1>17

\* The sequence of the list is reversed.
LEMMA ReversedLemma ==
  ASSUME List \cap Node = {}, IsFiniteSet(List), IsFiniteSet(Node),
         NEW m \in [next : [Rl!Cell -> Rl!Cell], prev : [Rl!Cell -> Rl!Cell]],
         NEW q, Holds(m, q), NEW l \in List,
         NEW t \in Seq(Node), Len(t) = Len(q[l]),
         \A j \in 1 .. Len(t) : t[j] = q[l][Len(q[l]) - j + 1]
  PROVE  Holds(Rl!rlist_reverse(m, l), [q EXCEPT ![l] = t])
<1> DEFINE s == q[l]
           n == Len(s)
           R == Ring(l, s)
           m2 == Rl!rlist_reverse(m, l)
           q2 == [q EXCEPT ![l] = t]
<1>1. q \in [List -> Seq(Node)] /\ NoTwice(q) /\ Linked(m)
  BY DEF Holds
<1>2. /\ n \in Nat /\ l \in Rl!Cell
      /\ \A j \in 0 .. n + 1 : Place(l, s, j) \in Rl!Cell
      /\ \A j \in 1 .. n : Place(l, s, j) = s[j] /\ s[j] \in Node
      /\ Place(l, s, 0) = l /\ Place(l, s, n + 1) = l
      /\ \A g \in List : \A j \in 0 .. n, h \in 0 .. Len(q[g]) :
           Place(l, s, j) = Place(g, q[g], h) => l = g /\ j = h
  BY <1>1, PlaceLemma DEF Rl!Cell
<1>3. /\ m2.next = [c \in Rl!Cell |-> IF c \in R THEN m.prev[c] ELSE m.next[c]]
      /\ m2.prev = [c \in Rl!Cell |-> IF c \in R THEN m.next[c] ELSE m.prev[c]]
  BY TurnedLemma
<1>4. /\ m.next \in [Rl!Cell -> Rl!Cell] /\ m.prev \in [Rl!Cell -> Rl!Cell]
      /\ \A c \in Rl!Cell : m.prev[m.next[c]] = c /\ m.next[m.prev[c]] = c
  BY <1>1 DEF Linked
<1>5. /\ \A j \in 0 .. n : m.next[Place(l, s, j)] = Place(l, s, j + 1)
      /\ \A g \in List : \A j \in 0 .. Len(q[g]) :
           m.next[Place(g, q[g], j)] = Place(g, q[g], j + 1)
      /\ \A y \in Node : Listed(q, y) \/ m.next[y] = y
  BY DEF Holds
<1>6. q2 \in [List -> Seq(Node)]
  BY <1>1
<1>7. \A g \in List : Len(q[g]) \in Nat /\ q2[g] = IF g = l THEN t ELSE q[g]
  BY <1>1
<1>8. \A j \in 1 .. n : t[j] = s[n - j + 1] /\ n - j + 1 \in 1 .. n
  <2>1. \A j \in 1 .. n : t[j] = s[n - j + 1]
    OBVIOUS
  <2> QED BY <2>1, <1>2
<1>9. Len(t) = n
  OBVIOUS
<1> HIDE DEF s, n, m2, q2
<1>r. R = {Place(l, s, j) : j \in 1 .. n + 1}
  BY DEF Ring, n
<1> HIDE DEF R
<1>10. \A j \in 0 .. n : Place(l, s, j) \in R /\ Place(l, s, j + 1) \in R
  <2>1. ASSUME NEW j \in 0 .. n
        PROVE  Place(l, s, j) \in R /\ Place(l, s, j + 1) \in R
    <3>1. Place(l, s, j + 1) \in R
      <4>1. j + 1 \in 1 .. n + 1
        BY <1>2
      <4> QED BY <4>1, <1>r
    <3>2. CASE j = 0
      <4>1. n + 1 \in 1 .. n + 1
        BY <1>2
      <4> QED BY <4>1, <3>1, <3>2, <1>2, <1>r
    <3>3. CASE j # 0
      <4>1. j \in 1 .. n + 1
        BY <3>3, <1>2
      <4> QED BY <4>1, <3>1, <1>r
    <3> QED BY <3>2, <3>3
  <2> QED BY <2>1
<1>11. \A c \in R : \E j \in 0 .. n : c = Place(l, s, j + 1)
  <2>1. ASSUME NEW j \in 1 .. n + 1
        PROVE  \E h \in 0 .. n : j = h + 1
    <3>1. j - 1 \in 0 .. n /\ j = (j - 1) + 1
      BY <1>2
    <3> QED BY <3>1
  <2> QED BY <2>1, <1>r
<1>12. \A c \in R : \E j \in 0 .. n : c = Place(l, s, j)
  <2>1. ASSUME NEW j \in 1 .. n + 1
        PROVE  \E h \in 0 .. n : Place(l, s, j) = Place(l, s, h)
    <3>1. j = n + 1 \/ j \in 0 .. n
      BY <1>2
    <3>2. 0 \in 0 .. n
      BY <1>2
    <3> QED BY <3>1, <3>2, <1>2
  <2> QED BY <2>1, <1>r
<1>13. \A j \in 0 .. n : m.prev[Place(l, s, j + 1)] = Place(l, s, j)
  <2>1. \A j \in 0 .. n : Place(l, s, j) \in Rl!Cell
    BY <1>2
  <2> QED BY <2>1, <1>4, <1>5
<1>14. \A c \in R : c \in Rl!Cell /\ m.next[c] \in R /\ m.prev[c] \in R
  <2>1. ASSUME NEW c \in R
        PROVE  c \in Rl!Cell /\ m.next[c] \in R
    <3>1. PICK j \in 0 .. n : c = Place(l, s, j)
      BY <1>12
    <3>2. j \in 0 .. n + 1
      BY <1>2
    <3> QED BY <3>1, <3>2, <1>2, <1>5, <1>10
  <2>2. ASSUME NEW c \in R
        PROVE  m.prev[c] \in R
    <3>1. PICK j \in 0 .. n : c = Place(l, s, j + 1)
      BY <1>11
    <3> QED BY <3>1, <1>10, <1>13
  <2> QED BY <2>1, <2>2
<1>15. Linked(m2)
  <2>1. m2.next \in [Rl!Cell -> Rl!Cell] /\ m2.prev \in [Rl!Cell -> Rl!Cell]
    BY <1>3, <1>4
  <2>2. ASSUME NEW c \in Rl!Cell
        PROVE  m2.prev[m2.next[c]] = c /\ m2.next[m2.prev[c]] = c
    <3>1. CASE c \in R
      <4>1. m2.next[c] = m.prev[c] /\ m2.prev[c] = m.next[c]
        BY <3>1, <1>3
      <4>2. m.prev[c] \in R /\ m.next[c] \in R /\ m.prev[c] \in Rl!Cell /\ m.next[c] \in Rl!Cell
        BY <3>1, <1>14
      <4> QED BY <4>1, <4>2, <1>3, <1>4
    <3>2. CASE c \notin R
      <4>1. m2.next[c] = m.next[c] /\ m2.prev[c] = m.prev[c]
        BY <3>2, <1>3
      <4>2. m.prev[c] \in Rl!Cell /\ m.next[c] \in Rl!Cell /\ m.prev[c] \notin R /\ m.next[c] \notin R
        BY <3>2, <1>4, <1>14
      <4> QED BY <4>1, <4>2, <1>3, <1>4
    <3> QED BY <3>1, <3>2
  <2> QED BY <2>1, <2>2 DEF Linked
<1>16. \A j \in 0 .. n + 1 : Place(l, t, j) = Place(l, s, n + 1 - j)
  <2> SUFFICES ASSUME NEW j \in 0 .. n + 1
               PROVE  Place(l, t, j) = Place(l, s, n + 1 - j)
    OBVIOUS
  <2>1. CASE j = 0 \/ j = n + 1
    <3>1. Place(l, t, j) = l
      BY <2>1, <1>9 DEF Place
    <3>2. j = 0 => n + 1 - j = n + 1
      BY <1>2
    <3>3. j = n + 1 => n + 1 - j = 0
      BY <1>2
    <3> QED BY <3>1, <3>2, <3>3, <2>1, <1>2
  <2>2. CASE j \in 1 .. n
    <3>1. Place(l, t, j) = t[j]
      BY <2>2, <1>2, <1>9 DEF Place
    <3>2. n - j + 1 = n + 1 - j
      BY <1>2
    <3> QED BY <3>1, <3>2, <2>2, <1>2, <1>8
  <2> QED BY <2>1, <2>2, <1>2
<1>17. ASSUME NEW j \in 0 .. n
       PROVE  m2.next[Place(l, t, j)] = Place(l, t, j + 1)
  <2>1. PICK h \in 0 .. n : h = n - j /\ n + 1 - j = h + 1 /\ n + 1 - (j + 1) = h
    BY <1>2
  <2>2. Place(l, t, j) = Place(l, s, h + 1) /\ Place(l, t, j + 1) = Place(l, s, h)
    <3>1. j \in 0 .. n + 1 /\ j + 1 \in 0 .. n + 1
      BY <1>2
    <3> QED BY <3>1, <2>1, <1>16
  <2>3. Place(l, s, h + 1) \in R /\ Place(l, s, h + 1) \in Rl!Cell
    BY <1>10, <1>14
  <2>4. m2.next[Place(l, s, h + 1)] = m.prev[Place(l, s, h + 1)]
    BY <2>3, <1>3
  <2> QED BY <2>2, <2>4, <1>13
<1>18. ASSUME NEW g \in List, g # l, NEW j \in 0 .. Len(q[g])
       PROVE  m2.next[Place(g, q[g], j)] = Place(g, q[g], j + 1)
  <2>1. Place(g, q[g], j) \notin R
    BY <1>2, <1>12, <1>18
  <2>2. Place(g, q[g], j) \in Rl!Cell
    <3>1. j \in 0 .. Len(q[g]) + 1
      BY <1>7
    <3> QED BY <3>1, <1>1, PlaceLemma
  <2> QED BY <2>1, <2>2, <1>3, <1>5
<1>19. \A h \in 1 .. n : \E j \in 1 .. n : t[j] = s[h]
  <2> SUFFICES ASSUME NEW h \in 1 .. n
               PROVE  \E j \in 1 .. n : t[j] = s[h]
    OBVIOUS
  <2>1. PICK j \in 1 .. n : j = n - h + 1 /\ n - j + 1 = h
    BY <1>2
  <2> QED BY <2>1, <1>8
<1>20. ASSUME NEW y \in Node, ~Listed(q2, y)
       PROVE  m2.next[y] = y
  <2>1. \A h \in 1 .. n : s[h] # y
    BY <1>7, <1>9, <1>19, <1>20 DEF Listed
  <2>2. ~Listed(q, y)
    <3> SUFFICES ASSUME NEW g \in List, NEW j \in 1 .. Len(q[g]), q[g][j] = y
                 PROVE  FALSE
      BY DEF Listed
    <3>1. g # l
      BY <2>1 DEF s, n
    <3> QED BY <3>1, <1>7, <1>20 DEF Listed
  <2>3. y \in Rl!Cell /\ y # l
    BY DEF Rl!Cell
  <2>4. y \notin R
    <3> SUFFICES ASSUME NEW j \in 0 .. n, y = Place(l, s, j)
                 PROVE  FALSE
      BY <1>12
    <3>1. j = 0 \/ j \in 1 .. n
      BY <1>2
    <3> QED BY <3>1, <2>1, <2>3, <1>2
  <2> QED BY <2>2, <2>3, <2>4, <1>3, <1>5
<1>21. NoTwice(q2)
  <2>1. \A g, f \in List : \A j \in 1 .. Len(q[g]), h \in 1 .. Len(q[f]) :
          q[g][j] = q[f][h] => g = f /\ j = h
    BY <1>1 DEF NoTwice
  <2>2. \A j, h \in 1 .. n : t[j] = t[h] => j = h
    <3> SUFFICES ASSUME NEW j \in 1 .. n, NEW h \in 1 .. n, t[j] = t[h]
                 PROVE  j = h
      OBVIOUS
    <3>1. PICK u \in 1 .. n : u = n - j + 1 /\ t[j] = s[u]
      BY <1>8
    <3>2. PICK v \in 1 .. n : v = n - h + 1 /\ t[h] = s[v]
      BY <1>8
    <3>3. u = v
      <4>1. u \in 1 .. Len(q[l]) /\ v \in 1 .. Len(q[l]) /\ q[l][u] = q[l][v]
        BY <3>1, <3>2 DEF s, n
      <4>2. \A j1, h1 \in 1 .. Len(q[l]) : q[l][j1] = q[l][h1] => j1 = h1
        BY <2>1
      <4> QED BY <4>1, <4>2
    <3> QED BY <3>1, <3>2, <3>3, <1>2
  <2>3. ASSUME NEW g \in List, g # l, NEW j \in 1 .. Len(q[g]), NEW h \in 1 .. n
        PROVE  q[g][j] # t[h]
    <3>1. PICK u \in 1 .. n : t[h] = s[u]
      BY <1>8
    <3> QED BY <3>1, <2>1, <2>3 DEF s, n
  <2> SUFFICES ASSUME NEW g \in List, NEW f \in List,
                      NEW j \in 1 .. Len(q2[g]), NEW h \in 1 .. Len(q2[f]),
                      q2[g][j] = q2[f][h]
               PROVE  g = f /\ j = h
    BY DEF NoTwice
  <2>4. CASE g = l /\ f = l
    BY <2>4, <2>2, <1>7, <1>9
  <2>5. CASE g = l /\ f # l
    BY <2>5, <2>3, <1>7, <1>9
  <2>6. CASE g # l /\ f = l
    BY <2>6, <2>3, <1>7, <1>9
  <2>7. CASE g # l /\ f # l
    <3>1. q2[g] = q[g] /\ q2[f] = q[f]
      BY <2>7, <1>7
    <3> QED BY <3>1, <2>1
  <2> QED BY <2>4, <2>5, <2>6, <2>7
<1>22. ASSUME NEW g \in List, NEW j \in 0 .. Len(q2[g])
       PROVE  m2.next[Place(g, q2[g], j)] = Place(g, q2[g], j + 1)
  BY <1>7, <1>9, <1>17, <1>18
<1>23. Holds(m2, q2)
  BY <1>6, <1>15, <1>20, <1>21, <1>22 DEF Holds
<1> QED BY <1>23 DEF m2, q2

\* A walk along a function.
LEMMA StepsLemma ==
  ASSUME NEW S, NEW n \in Nat, NEW z \in S, NEW step,
         \A s \in S : step[s] \in S
  PROVE  \E f : /\ f = [k \in 0 .. n |-> IF k = 0 THEN z ELSE step[f[k - 1]]]
                /\ f \in [0 .. n -> S]
<1> DEFINE turn == [k \in 1 .. n |-> step]
<1>1. \A k \in 1 .. n : turn[k] = step
  OBVIOUS
<1> HIDE DEF turn
<1>2. \A k \in 1 .. n : \A s \in S : turn[k][s] \in S
  BY <1>1
<1>3. PICK f : /\ f = [k \in 0 .. n |-> IF k = 0 THEN z ELSE turn[k][f[k - 1]]]
               /\ f \in [0 .. n -> S]
  BY <1>2, LoopLemma
<1>4. \A k \in 0 .. n : f[k] = IF k = 0 THEN z ELSE step[f[k - 1]]
  <2>1. \A k \in 0 .. n : k # 0 => k \in 1 .. n
    OBVIOUS
  <2> QED BY <1>1, <1>3, <2>1
<1> QED BY <1>3, <1>4

\* The cells of a list and its contents in a walk.
LEMMA WalkLemma ==
  ASSUME IsFiniteSet(List), IsFiniteSet(Node), NEW m,
         \A c \in Rl!Cell : m.next[c] \in Rl!Cell, NEW l \in List
  PROVE  /\ Rl!Walk(m, l)[0] = l
         /\ \A k \in 1 .. Cardinality(Rl!Cell) : Rl!Walk(m, l)[k] = m.next[Rl!Walk(m, l)[k - 1]]
<1> DEFINE n == Cardinality(Rl!Cell)
           Is(f) == f = [k \in 0 .. n |-> IF k = 0 THEN l ELSE m.next[f[k - 1]]]
           g == Rl!Walk(m, l)
<1>1. n \in Nat /\ l \in Rl!Cell
  BY FS_Union, FS_CardinalityType DEF Rl!Cell
<1> HIDE DEF n
<1>4. \E f : Is(f)
  <2> DEFINE step == m.next
  <2>1. \A c \in Rl!Cell : step[c] \in Rl!Cell
    OBVIOUS
  <2> HIDE DEF step
  <2>2. \E f : /\ f = [k \in 0 .. n |-> IF k = 0 THEN l ELSE step[f[k - 1]]]
               /\ f \in [0 .. n -> Rl!Cell]
    BY <1>1, <2>1, StepsLemma
  <2> QED BY <2>2 DEF step
<1>5. Rl!Walk(m, l) = CHOOSE h : Is(h)
  BY DEF Rl!Walk, n, Rl!Cardinality, Cardinality
<1> HIDE DEF Is
<1>6. Is(g)
  BY <1>4, <1>5
<1> HIDE DEF g
<1>7. g = [k \in 0 .. n |-> IF k = 0 THEN l ELSE m.next[g[k - 1]]]
  BY <1>6 DEF Is
<1>8. g[0] = l
  <2>1. 0 \in 0 .. n
    BY <1>1
  <2> QED BY <2>1, <1>7
<1>9. ASSUME NEW k \in 1 .. n
      PROVE  g[k] = m.next[g[k - 1]]
  <2>1. k \in 0 .. n /\ k # 0
    BY <1>1
  <2> QED BY <2>1, <1>7
<1> QED BY <1>8, <1>9 DEF g, n

\* util.h:482-497: a walk goes through the nodes of the list, and back to it.
LEMMA ContentsLemma ==
  ASSUME List \cap Node = {}, IsFiniteSet(List), IsFiniteSet(Node),
         NEW m, NEW q, Holds(m, q), NEW l \in List
  PROVE  /\ \A k \in 0 .. Len(q[l]) + 1 : Rl!Walk(m, l)[k] = Place(l, q[l], k)
         /\ Rl!rlist_len(m, l) = Len(q[l])
<1> DEFINE s == q[l]
           n == Len(s)
           N == Cardinality(Rl!Cell)
           w == Rl!Walk(m, l)
           T == {k \in 0 .. n + 1 : w[k] = Place(l, s, k)}
           Is(k) == w[k + 1] = l /\ \A j \in 1 .. k : w[j] # l
<1>1. q \in [List -> Seq(Node)] /\ NoTwice(q) /\ m.next \in [Rl!Cell -> Rl!Cell]
  BY DEF Holds, Linked
<1>2. /\ n \in Nat /\ Place(l, s, 0) = l /\ Place(l, s, n + 1) = l
      /\ \A j \in 1 .. n : Place(l, s, j) \in Node
      /\ \A j \in 0 .. n : m.next[Place(l, s, j)] = Place(l, s, j + 1)
  <2>1. \A j \in 1 .. n : Place(l, s, j) = s[j] /\ s[j] \in Node
    BY <1>1, PlaceLemma
  <2>2. n \in Nat /\ Place(l, s, 0) = l /\ Place(l, s, n + 1) = l
    BY <1>1, PlaceLemma
  <2>3. \A j \in 0 .. n : m.next[Place(l, s, j)] = Place(l, s, j + 1)
    BY DEF Holds
  <2> QED BY <2>1, <2>2, <2>3
<1>3. N \in Nat /\ n + 1 <= N
  BY <1>1, RingSize
<1>4. w[0] = l /\ \A k \in 1 .. N : w[k] = m.next[w[k - 1]]
  BY <1>1, WalkLemma
<1>5. Rl!rlist_len(m, l) = CHOOSE k \in 0 .. N - 1 : Is(k)
  BY DEF Rl!rlist_len, Rl!Cardinality, Cardinality
<1> HIDE DEF s, n, N, w
<1>6. ASSUME NEW k \in 1 .. n + 1, k - 1 \in T
      PROVE  k \in T
  <2>1. PICK j \in 0 .. n : j = k - 1 /\ k = j + 1
    BY <1>2
  <2>2. w[k] = m.next[w[j]] /\ w[j] = Place(l, s, j)
    BY <2>1, <1>2, <1>3, <1>4, <1>6
  <2> QED BY <2>1, <2>2, <1>2
<1>7. 0 \in T
  BY <1>2, <1>4
<1>8. \A k \in 0 .. n + 1 : k \in T
  <2> HIDE DEF T
  <2>1. n + 1 \in Nat
    BY <1>2
  <2> QED BY <2>1, <1>6, <1>7, NatSteps
<1>9. \A k \in 0 .. n + 1 : w[k] = Place(l, s, k)
  BY <1>8
<1> HIDE DEF T
<1>10. w[n + 1] = l /\ \A j \in 1 .. n : w[j] # l
  <2>1. n + 1 \in 0 .. n + 1 /\ \A j \in 1 .. n : j \in 0 .. n + 1
    BY <1>2
  <2> QED BY <2>1, <1>2, <1>9
<1>11. n \in 0 .. N - 1 /\ Is(n)
  BY <1>2, <1>3, <1>10
<1>12. ASSUME NEW k \in 0 .. N - 1, Is(k)
       PROVE  k = n
  <2>1. CASE k < n
    <3>1. k + 1 \in 1 .. n
      BY <2>1, <1>2
    <3> QED BY <3>1, <1>10, <1>12
  <2>2. CASE k > n
    <3>1. n + 1 \in 1 .. k
      BY <2>2, <1>2, <1>3
    <3> QED BY <3>1, <1>10, <1>12
  <2> QED BY <2>1, <2>2, <1>2, <1>3
<1> HIDE DEF Is
<1>13. Rl!rlist_len(m, l) = n
  BY <1>5, <1>11, <1>12
<1> QED BY <1>9, <1>13 DEF s, n, w

\* The recursive function that keeps the elements in a set.
LEMMA KeptLemma ==
  ASSUME NEW S, NEW s \in Seq(S), NEW C
  PROVE  /\ Rl!Lists!Kept(s, C)[0] = <<>>
         /\ \A k \in 1 .. Len(s) :
              Rl!Lists!Kept(s, C)[k] = IF s[k] \in C THEN Append(Rl!Lists!Kept(s, C)[k - 1], s[k])
                                    ELSE Rl!Lists!Kept(s, C)[k - 1]
         /\ \A k \in 0 .. Len(s) : Rl!Lists!Kept(s, C)[k] \in Seq(S)
<1> DEFINE n == Len(s)
           step(k, r) == IF s[k] \in C THEN Append(r, s[k]) ELSE r
           turn == [k \in 1 .. n |-> [r \in Seq(S) |-> step(k, r)]]
           Is(f) == f = [k \in 0 .. n |-> IF k = 0 THEN <<>>
                                          ELSE IF s[k] \in C THEN Append(f[k - 1], s[k])
                                          ELSE f[k - 1]]
           g == Rl!Lists!Kept(s, C)
<1>1. n \in Nat /\ \A k \in 1 .. n : s[k] \in S
  OBVIOUS
<1> HIDE DEF n
<1>2. \A k \in 1 .. n : \A r \in Seq(S) : step(k, r) \in Seq(S)
  BY <1>1
<1>3. \A k \in 1 .. n : \A r \in Seq(S) : turn[k][r] = step(k, r)
  OBVIOUS
<1> HIDE DEF turn, step
<1>4. PICK f : /\ f = [k \in 0 .. n |-> IF k = 0 THEN <<>> ELSE turn[k][f[k - 1]]]
               /\ f \in [0 .. n -> Seq(S)]
  <2>1. \A k \in 1 .. n : \A r \in Seq(S) : turn[k][r] \in Seq(S)
    BY <1>2, <1>3
  <2>2. <<>> \in Seq(S)
    OBVIOUS
  <2> QED BY <1>1, <2>1, <2>2, LoopLemma
<1>5. f = [k \in 0 .. n |-> IF k = 0 THEN <<>> ELSE step(k, f[k - 1])]
  <2>1. ASSUME NEW k \in 0 .. n
        PROVE  f[k] = IF k = 0 THEN <<>> ELSE step(k, f[k - 1])
    <3>1. CASE k = 0
      BY <3>1, <1>4
    <3>2. CASE k # 0
      <4>1. k \in 1 .. n /\ k - 1 \in 0 .. n
        BY <3>2, <1>1
      <4>2. f[k - 1] \in Seq(S) /\ f[k] = turn[k][f[k - 1]]
        BY <4>1, <3>2, <1>4
      <4> QED BY <3>2, <4>1, <4>2, <1>3
    <3> QED BY <3>1, <3>2
  <2> QED BY <2>1, <1>4
<1>6. Is(f)
  BY <1>5 DEF step
<1>7. g = CHOOSE h : Is(h)
  BY DEF Rl!Lists!Kept, n
<1> HIDE DEF Is
<1>8. Is(g)
  BY <1>6, <1>7
<1> HIDE DEF g
<1>9. g = [k \in 0 .. n |-> IF k = 0 THEN <<>>
                            ELSE IF s[k] \in C THEN Append(g[k - 1], s[k]) ELSE g[k - 1]]
  BY <1>8 DEF Is
<1>10. g[0] = <<>>
  <2>1. 0 \in 0 .. n
    BY <1>1
  <2> QED BY <2>1, <1>9
<1>11. ASSUME NEW k \in 1 .. n
       PROVE  g[k] = IF s[k] \in C THEN Append(g[k - 1], s[k]) ELSE g[k - 1]
  <2>1. k \in 0 .. n /\ k # 0
    BY <1>1
  <2> QED BY <2>1, <1>9
<1> DEFINE T == {k \in 0 .. n : g[k] \in Seq(S)}
<1>12. \A k \in 0 .. n : k \in T
  <2>1. 0 \in T
    <3>1. <<>> \in Seq(S)
      OBVIOUS
    <3>2. g[0] \in Seq(S)
      BY <3>1, <1>10
    <3>3. 0 \in 0 .. n
      BY <1>1
    <3> QED BY <3>2, <3>3
  <2>2. ASSUME NEW k \in 1 .. n, k - 1 \in T
        PROVE  k \in T
    <3>1. g[k - 1] \in Seq(S) /\ s[k] \in S /\ k \in 0 .. n
      BY <2>2, <1>1
    <3>2. Append(g[k - 1], s[k]) \in Seq(S)
      BY <3>1
    <3> QED BY <3>1, <3>2, <1>11
  <2> HIDE DEF T
  <2> QED BY <2>1, <2>2, <1>1, NatSteps
<1>13. \A k \in 0 .. n : g[k] \in Seq(S)
  BY <1>12
<1> QED BY <1>10, <1>11, <1>13 DEF g, n

\* A splice leaves a memory of the same type.
LEMMA SpliceTyped ==
  ASSUME NEW m \in [next : [Rl!Cell -> Rl!Cell], prev : [Rl!Cell -> Rl!Cell]],
         NEW a \in Rl!Cell, NEW b \in Rl!Cell
  PROVE  Rl!rl_splice(m, a, b) \in [next : [Rl!Cell -> Rl!Cell], prev : [Rl!Cell -> Rl!Cell]]
<1>1. m.next \in [Rl!Cell -> Rl!Cell] /\ m.prev \in [Rl!Cell -> Rl!Cell]
  OBVIOUS
<1>2. \A f \in [Rl!Cell -> Rl!Cell] : \A x, y \in Rl!Cell : Rl!Swapped(f, x, y) \in [Rl!Cell -> Rl!Cell]
  BY DEF Rl!Swapped
<1>3. /\ Rl!Swapped(m.next, a, b) \in [Rl!Cell -> Rl!Cell]
      /\ Rl!Swapped(m.prev, m.next[a], m.next[b]) \in [Rl!Cell -> Rl!Cell]
  BY <1>1, <1>2
<1> HIDE DEF Rl!Swapped
<1> QED BY <1>3 DEF Rl!rl_splice

\* util.h:570-578: the turns of the loop, from its definition as a recursive function.
LEMMA SelectLoop ==
  ASSUME IsFiniteSet(List), IsFiniteSet(Node), NEW l \in List, NEW src \in List,
         NEW m \in [next : [Rl!Cell -> Rl!Cell], prev : [Rl!Cell -> Rl!Cell]]
  PROVE  /\ Rl!Selecting(m, src, l)[0] = [memory |-> m, at |-> src]
         /\ \A k \in 1 .. Cardinality(Rl!Cell) :
              Rl!Selecting(m, src, l)[k] = Rl!Sorted(Rl!Selecting(m, src, l)[k - 1], src, l)
<1> DEFINE n == Cardinality(Rl!Cell)
           z == [memory |-> m, at |-> src]
           turn == [k \in 1 .. n |-> [w \in Loop |-> Rl!Sorted(w, src, l)]]
           Is(f) == f = [k \in 0 .. n |->
                           IF k = 0 THEN [memory |-> m, at |-> src]
                           ELSE Rl!Sorted(f[k - 1], src, l)]
           g == Rl!Selecting(m, src, l)
<1>1. n \in Nat
  BY FS_Union, FS_CardinalityType DEF Rl!Cell
<1>2. z \in Loop
  BY DEF Loop, Rl!Cell
<1>3. ASSUME NEW w \in Loop
      PROVE  Rl!Sorted(w, src, l) \in Loop
  <2> DEFINE x == w.memory.next[w.at]
             M == [next : [Rl!Cell -> Rl!Cell], prev : [Rl!Cell -> Rl!Cell]]
             m1 == Rl!rl_splice(w.memory, x, w.memory.prev[x])
             m2 == Rl!rl_splice(m1, m1.prev[l], x)
  <2>1. w.memory \in M /\ w.at \in Rl!Cell /\ x \in Rl!Cell /\ l \in Rl!Cell
    <3>1. w.memory \in M /\ w.at \in Rl!Cell
      BY DEF Loop
    <3> QED BY <3>1 DEF Rl!Cell
  <2>2. w.memory.prev[x] \in Rl!Cell
    BY <2>1
  <2>3. m1 \in M
    <3> HIDE DEF x
    <3> QED BY <2>1, <2>2, SpliceTyped
  <2>4. m1.prev[l] \in Rl!Cell
    <3> HIDE DEF m1
    <3> QED BY <2>1, <2>3
  <2>5. m2 \in M
    <3> HIDE DEF x, m1
    <3> QED BY <2>1, <2>3, <2>4, SpliceTyped
  <2>6. /\ [w EXCEPT !.memory = m2] \in Loop
        /\ [w EXCEPT !.at = x] \in Loop
    <3> HIDE DEF x, m2
    <3> QED BY <2>1, <2>5 DEF Loop
  <2>7. Rl!rlist_push_back(Rl!rlist_remove(w.memory, x), l, x) = m2
    BY DEF Rl!rlist_push_back, Rl!rlist_remove
  <2>8. Rl!Sorted(w, src, l) = IF x = src THEN w
                            ELSE IF x \in Chosen THEN [w EXCEPT !.memory = m2]
                            ELSE [w EXCEPT !.at = x]
    BY <2>7 DEF Rl!Sorted
  <2> HIDE DEF x, m2
  <2> QED BY <2>6, <2>8
<1> HIDE DEF n, z
<1>4. \A k \in 1 .. n : \A w \in Loop : turn[k][w] = Rl!Sorted(w, src, l)
  OBVIOUS
<1> HIDE DEF turn
<1>5. \A k \in 1 .. n : \A w \in Loop : turn[k][w] \in Loop
  BY <1>3, <1>4
<1>6. PICK f : /\ f = [k \in 0 .. n |-> IF k = 0 THEN z ELSE turn[k][f[k - 1]]]
               /\ f \in [0 .. n -> Loop]
  BY <1>1, <1>2, <1>5, LoopLemma
<1>7. Is(f)
  <2>1. ASSUME NEW k \in 0 .. n
        PROVE  f[k] = IF k = 0 THEN z ELSE Rl!Sorted(f[k - 1], src, l)
    <3>1. CASE k = 0
      BY <3>1, <1>6
    <3>2. CASE k # 0
      <4>1. k \in 1 .. n /\ k - 1 \in 0 .. n
        BY <3>2, <1>1
      <4>2. f[k - 1] \in Loop /\ f[k] = turn[k][f[k - 1]]
        BY <4>1, <3>2, <1>6
      <4> QED BY <3>2, <4>1, <4>2, <1>4
    <3> QED BY <3>1, <3>2
  <2>2. f = [k \in 0 .. n |-> IF k = 0 THEN z ELSE Rl!Sorted(f[k - 1], src, l)]
    BY <2>1, <1>6
  <2> QED BY <2>2 DEF z
<1>8. g = CHOOSE h : Is(h)
  BY DEF Rl!Selecting, n, Rl!Cardinality, Cardinality
<1> HIDE DEF Is
<1>9. Is(g)
  BY <1>7, <1>8
<1> HIDE DEF g
<1>10. g = [k \in 0 .. n |-> IF k = 0 THEN [memory |-> m, at |-> src]
                             ELSE Rl!Sorted(g[k - 1], src, l)]
  BY <1>9 DEF Is
<1>11. g[0] = [memory |-> m, at |-> src]
  <2>1. 0 \in 0 .. n
    BY <1>1
  <2> QED BY <2>1, <1>10
<1>12. ASSUME NEW k \in 1 .. n
       PROVE  g[k] = Rl!Sorted(g[k - 1], src, l)
  <2>1. k \in 0 .. n /\ k # 0
    BY <1>1
  <2> QED BY <2>1, <1>10
<1> QED BY <1>11, <1>12 DEF g, n

\* Where the loop of rlist_select stands: before the (i+1)-th node of src.
Halfway(m, q, src, i) == [memory |-> m, at |-> Place(src, q[src], i)]

\* It has taken that node to the end of l.
Taken(w, q, src, l, i) ==
  \E m : /\ w = [memory |-> m, at |-> Place(src, RemoveAt(q[src], i + 1), i)]
         /\ Holds(m, [q EXCEPT ![src] = RemoveAt(q[src], i + 1),
                               ![l] = Append(q[l], q[src][i + 1])])

\* util.h:571-577: a turn of the loop goes on to the next node of src, or takes it
\* to the end of l.
LEMMA SortedLemma ==
  ASSUME List \cap Node = {}, NEW m, NEW q, Holds(m, q),
         NEW l \in List, NEW src \in List, src # l, NEW i \in 0 .. Len(q[src])
  PROVE  /\ i = Len(q[src]) => Rl!Sorted(Halfway(m, q, src, i), src, l) = Halfway(m, q, src, i)
         /\ i < Len(q[src]) /\ q[src][i + 1] \notin Chosen =>
              Rl!Sorted(Halfway(m, q, src, i), src, l) = Halfway(m, q, src, i + 1)
         /\ i < Len(q[src]) /\ q[src][i + 1] \in Chosen =>
              Taken(Rl!Sorted(Halfway(m, q, src, i), src, l), q, src, l, i)
<1> DEFINE s == q[src]
           n == Len(s)
           x == s[i + 1]
           t == RemoveAt(s, i + 1)
           q1 == [q EXCEPT ![src] = t]
           m1 == Rl!rlist_remove(m, x)
           m2 == Rl!rlist_push_back(m1, l, x)
           w == Halfway(m, q, src, i)
<1>1. q \in [List -> Seq(Node)] /\ NoTwice(q) /\ Linked(m)
  BY DEF Holds
<1>w. w = [memory |-> m, at |-> Place(src, s, i)]
  BY DEF Halfway
<1> HIDE DEF w
<1>2. /\ n \in Nat /\ s \in Seq(Node)
      /\ \A j \in 1 .. n : Place(src, s, j) = s[j] /\ s[j] \in Node
      /\ Place(src, s, 0) = src /\ Place(src, s, n + 1) = src
      /\ m.next[Place(src, s, i)] = Place(src, s, i + 1)
  <2>1. \A j \in 1 .. n : Place(src, s, j) = s[j] /\ s[j] \in Node
    BY <1>1, PlaceLemma
  <2>2. n \in Nat /\ s \in Seq(Node) /\ Place(src, s, 0) = src /\ Place(src, s, n + 1) = src
    BY <1>1, PlaceLemma
  <2>3. m.next[Place(src, s, i)] = Place(src, s, i + 1)
    BY DEF Holds
  <2> QED BY <2>1, <2>2, <2>3
<1>3. w.memory = m /\ w.at = Place(src, s, i) /\ w.memory.next[w.at] = Place(src, s, i + 1)
  BY <1>2, <1>w
<1>4. i \in 0 .. n
  OBVIOUS
<1> HIDE DEF n
<1>5. CASE i = n
  <2>1. Rl!Sorted(w, src, l) = w
    BY <1>2, <1>3, <1>5 DEF Rl!Sorted
  <2>2. ~(i < n)
    BY <1>2, <1>5
  <2> QED BY <2>1, <2>2 DEF n, w
<1>6. CASE i # n
  <2>1. i + 1 \in 1 .. n /\ i < n
    BY <1>2, <1>4, <1>6
  <2>2. Place(src, s, i + 1) = x /\ x \in Node /\ x # src
    BY <2>1, <1>2
  <2>3. CASE x \notin Chosen
    <3>1. Rl!Sorted(w, src, l) = [w EXCEPT !.at = x]
      BY <2>2, <2>3, <1>3 DEF Rl!Sorted
    <3>2. [w EXCEPT !.at = x] = [memory |-> m, at |-> x]
      BY <1>w
    <3>3. Rl!Sorted(w, src, l) = Halfway(m, q, src, i + 1)
      BY <3>1, <3>2, <2>2 DEF Halfway
    <3> QED BY <3>3, <1>6, <2>3 DEF n, w
  <2>4. CASE x \in Chosen
    <3>1. Rl!Sorted(w, src, l) = [w EXCEPT !.memory = m2]
      BY <2>2, <2>4, <1>3 DEF Rl!Sorted
    <3>2. [w EXCEPT !.memory = m2] = [memory |-> m2, at |-> Place(src, s, i)]
      <4> HIDE DEF m2
      <4> QED BY <1>w
    <3>3. i + 1 \in 1 .. Len(q[src])
      BY <2>1 DEF n
    <3>4. Holds(m1, q1)
      <4>1. q[src][i + 1] = x
        OBVIOUS
      <4> QED BY <3>3, <4>1, <2>2, RemoveLemma
    <3>5. /\ t \in Seq(Node) /\ Len(t) = n - 1
          /\ \A j \in 1 .. n - 1 : t[j] = IF j < i + 1 THEN s[j] ELSE s[j + 1]
      BY <3>3, <1>2, RemoveAtLemma DEF n
    <3> HIDE DEF t
    <3>6. q1[src] = t /\ q1[l] = q[l] /\ \A k \in List : k # src => q1[k] = q[k]
      BY <1>1
    <3>7. ~Listed(q1, x)
      <4> SUFFICES ASSUME NEW k \in List, NEW j \in 1 .. Len(q1[k]), q1[k][j] = x
                   PROVE  FALSE
        BY DEF Listed
      <4>1. CASE k # src
        <5>1. q[k][j] = q[src][i + 1] /\ j \in 1 .. Len(q[k])
          BY <4>1, <3>6
        <5> QED BY <5>1, <4>1, <3>3, <1>1 DEF NoTwice
      <4>2. CASE k = src
        <5>1. j \in 1 .. n - 1 /\ t[j] = x
          BY <4>2, <3>5, <3>6
        <5>2. PICK h \in 1 .. n : h # i + 1 /\ s[h] = x
          <6>1. CASE j < i + 1
            BY <6>1, <5>1, <3>5, <1>2
          <6>2. CASE ~(j < i + 1)
            <7>1. PICK h \in 1 .. n : h = j + 1 /\ h # i + 1
              BY <6>2, <5>1, <1>2, <1>4
            <7> QED BY <7>1, <6>2, <5>1, <3>5
          <6> QED BY <6>1, <6>2
        <5>3. h \in 1 .. Len(q[src]) /\ q[src][h] = q[src][i + 1]
          BY <5>2 DEF n
        <5> QED BY <5>2, <5>3, <3>3, <1>1 DEF NoTwice
      <4> QED BY <4>1, <4>2
    <3> HIDE DEF q1, m1
    <3>8. m1.next[x] = x
      BY <3>4, <3>7, <2>2 DEF Holds
    <3>9. Holds(m2, [q1 EXCEPT ![l] = Append(q1[l], x)])
      BY <3>4, <3>8, <2>2, PushLemma
    <3>10. [q1 EXCEPT ![l] = Append(q1[l], x)]
             = [q EXCEPT ![src] = t, ![l] = Append(q[l], x)]
      BY <3>6 DEF q1
    <3>11. Place(src, s, i) = Place(src, t, i)
      <4>1. CASE i = 0
        BY <4>1, <1>2 DEF Place
      <4>2. CASE i # 0
        <5>1. i \in 1 .. n - 1 /\ i \in 1 .. n /\ i # Len(t) + 1
          BY <4>2, <2>1, <3>5, <1>2, <1>4
        <5>2. Place(src, t, i) = t[i] /\ t[i] = s[i]
          BY <5>1, <4>2, <3>5 DEF Place
        <5> QED BY <5>1, <5>2, <1>2
      <4> QED BY <4>1, <4>2
    <3> HIDE DEF m2
    <3>12. \E m3 :
             /\ Rl!Sorted(w, src, l) = [memory |-> m3, at |-> Place(src, t, i)]
             /\ Holds(m3, [q EXCEPT ![src] = t, ![l] = Append(q[l], x)])
      BY <3>1, <3>2, <3>9, <3>10, <3>11
    <3>13. Taken(Rl!Sorted(w, src, l), q, src, l, i)
      BY <3>12 DEF Taken, t
    <3> QED BY <3>13, <1>6, <2>4 DEF n, w
  <2> QED BY <2>3, <2>4
<1> QED BY <1>5, <1>6

\* What rlist_select has made of s after k turns: those of the first k nodes that
\* stay and the rest.
Left(s, k) == Rl!Lists!Kept(s, Node \ Chosen)[k] \o SubSeq(s, k + 1, Len(s))
Gone(s, k) == Rl!Lists!Kept(s, Chosen)[k]
Stay(s, k) == Rl!Lists!Kept(s, Node \ Chosen)[k]

\* What a turn of rlist_select does to the three sequences.
LEMMA LeftLemma ==
  ASSUME NEW s \in Seq(Node)
  PROVE  /\ Len(s) \in Nat
         /\ \A k \in 0 .. Len(s) :
              /\ Stay(s, k) \in Seq(Node) /\ Gone(s, k) \in Seq(Node)
              /\ Left(s, k) \in Seq(Node) /\ Len(Stay(s, k)) \in Nat
              /\ Len(Left(s, k)) = Len(Stay(s, k)) + Len(s) - k
         /\ Stay(s, 0) = <<>> /\ Gone(s, 0) = <<>> /\ Left(s, 0) = s
         /\ Left(s, Len(s)) = Stay(s, Len(s))
         /\ \A k \in 1 .. Len(s) :
              /\ Left(s, k - 1)[Len(Stay(s, k - 1)) + 1] = s[k]
              /\ s[k] \notin Chosen =>
                   /\ Stay(s, k) = Append(Stay(s, k - 1), s[k])
                   /\ Len(Stay(s, k)) = Len(Stay(s, k - 1)) + 1
                   /\ Gone(s, k) = Gone(s, k - 1)
                   /\ Left(s, k) = Left(s, k - 1)
              /\ s[k] \in Chosen =>
                   /\ Stay(s, k) = Stay(s, k - 1)
                   /\ Gone(s, k) = Append(Gone(s, k - 1), s[k])
                   /\ Left(s, k) = RemoveAt(Left(s, k - 1), Len(Stay(s, k - 1)) + 1)
<1> DEFINE n == Len(s)
           b(k) == Len(Stay(s, k))
<1>1. n \in Nat /\ \A k \in 1 .. n : s[k] \in Node
  OBVIOUS
<1>2. /\ Stay(s, 0) = <<>> /\ Gone(s, 0) = <<>>
      /\ \A k \in 1 .. n :
           /\ Stay(s, k) = IF s[k] \in Node \ Chosen THEN Append(Stay(s, k - 1), s[k])
                           ELSE Stay(s, k - 1)
           /\ Gone(s, k) = IF s[k] \in Chosen THEN Append(Gone(s, k - 1), s[k])
                           ELSE Gone(s, k - 1)
      /\ \A k \in 0 .. n : Stay(s, k) \in Seq(Node) /\ Gone(s, k) \in Seq(Node)
  BY KeptLemma DEF Stay, Gone
<1>3. ASSUME NEW k \in 0 .. n
      PROVE  LET r == SubSeq(s, k + 1, n)
             IN  /\ r \in Seq(Node) /\ Len(r) = n - k
                 /\ \A j \in 1 .. n - k : r[j] = s[k + j]
  <2> DEFINE r == SubSeq(s, k + 1, n)
  <2>1. CASE k = n
    <3>1. k + 1 \in Int /\ n \in Int /\ ~(k + 1 <= n)
      BY <2>1, <1>1
    <3>2. r = <<>>
      BY <3>1
    <3> QED BY <3>2, <2>1, <1>1
  <2>2. CASE k # n
    <3>1. k + 1 \in 1 .. n + 1 /\ n \in k .. n
      BY <1>1
    <3>2. /\ r \in Seq(Node) /\ Len(r) = n - (k + 1) + 1
          /\ \A j \in 1 .. n - (k + 1) + 1 : r[j] = s[(k + 1) + j - 1]
      BY <3>1, <1>1, SubSeqProperties
    <3> HIDE DEF r
    <3>3. n - (k + 1) + 1 = n - k /\ \A j \in 1 .. n - k : (k + 1) + j - 1 = k + j
      BY <1>1
    <3> QED BY <3>2, <3>3 DEF r
  <2> QED BY <2>1, <2>2
<1>4. ASSUME NEW k \in 0 .. n
      PROVE  /\ Left(s, k) \in Seq(Node) /\ Len(Left(s, k)) = b(k) + n - k /\ b(k) \in Nat
             /\ \A j \in 1 .. b(k) + n - k :
                  Left(s, k)[j] = IF j <= b(k) THEN Stay(s, k)[j] ELSE s[k + (j - b(k))]
  <2> DEFINE r == SubSeq(s, k + 1, n)
             u == Stay(s, k)
             v == u \o r
  <2>1. /\ r \in Seq(Node) /\ Len(r) = n - k /\ u \in Seq(Node) /\ Len(u) \in Nat
        /\ \A j \in 1 .. n - k : r[j] = s[k + j]
    BY <1>2, <1>3
  <2>2. v = Left(s, k)
    BY DEF Left, Stay
  <2> HIDE DEF r, u
  <2>3. /\ v \in Seq(Node) /\ Len(v) = Len(u) + Len(r)
        /\ \A j \in 1 .. Len(u) + Len(r) : v[j] = IF j <= Len(u) THEN u[j] ELSE r[j - Len(u)]
    BY <2>1, ConcatProperties
  <2> HIDE DEF v
  <2> DEFINE d == Len(u)
  <2>4. d \in Nat /\ k \in Nat /\ k <= n
    BY <2>1, <1>1
  <2> HIDE DEF d
  <2>5. ASSUME NEW j \in 1 .. d + n - k
        PROVE  v[j] = IF j <= d THEN u[j] ELSE s[k + (j - d)]
    <3>1. j \in 1 .. Len(u) + Len(r)
      BY <2>1, <2>4, <1>1 DEF d
    <3>2. j <= d => v[j] = u[j]
      BY <3>1, <2>3 DEF d
    <3>3. ~(j <= d) => j - d \in 1 .. n - k
      BY <2>4, <1>1
    <3>4. ~(j <= d) => v[j] = r[j - d]
      BY <3>1, <2>3 DEF d
    <3> QED BY <3>2, <3>3, <3>4, <2>1
  <2>6. Len(v) = d + n - k
    BY <2>1, <2>3, <2>4, <1>1 DEF d
  <2> QED BY <2>2, <2>3, <2>4, <2>5, <2>6 DEF d, u
<1> HIDE DEF n
<1>5. Left(s, 0) = s
  <2>1. b(0) = 0 /\ 0 \in 0 .. n /\ n = Len(s)
    BY <1>1, <1>2 DEF n
  <2>2. /\ Left(s, 0) \in Seq(Node) /\ Len(Left(s, 0)) = n
        /\ \A j \in 1 .. n : Left(s, 0)[j] = s[j]
    <3>1. /\ Left(s, 0) \in Seq(Node) /\ Len(Left(s, 0)) = b(0) + n - 0
          /\ \A j \in 1 .. b(0) + n - 0 :
               Left(s, 0)[j] = IF j <= b(0) THEN Stay(s, 0)[j] ELSE s[0 + (j - b(0))]
      BY <2>1, <1>4
    <3> HIDE DEF b
    <3> QED BY <3>1, <2>1, <1>1
  <2> QED BY <2>1, <2>2, SeqEqual
<1>6. Left(s, n) = Stay(s, n)
  <2>1. n \in 0 .. n
    BY <1>1
  <2>2. /\ Left(s, n) \in Seq(Node) /\ Len(Left(s, n)) = b(n) + n - n /\ b(n) \in Nat
        /\ \A j \in 1 .. b(n) + n - n :
             Left(s, n)[j] = IF j <= b(n) THEN Stay(s, n)[j] ELSE s[n + (j - b(n))]
    BY <2>1, <1>4
  <2>3. b(n) = Len(Stay(s, n)) /\ Stay(s, n) \in Seq(Node)
    BY <2>1, <1>2
  <2> HIDE DEF b
  <2>4. b(n) + n - n = b(n)
    BY <2>2, <1>1
  <2>5. Len(Left(s, n)) = b(n) /\ \A j \in 1 .. b(n) : Left(s, n)[j] = Stay(s, n)[j]
    BY <2>2, <2>4
  <2> QED BY <2>2, <2>3, <2>5, SeqEqual
<1>7. ASSUME NEW k \in 1 .. n
      PROVE  /\ Left(s, k - 1)[b(k - 1) + 1] = s[k]
             /\ s[k] \notin Chosen =>
                  /\ Stay(s, k) = Append(Stay(s, k - 1), s[k])
                  /\ b(k) = b(k - 1) + 1
                  /\ Gone(s, k) = Gone(s, k - 1)
                  /\ Left(s, k) = Left(s, k - 1)
             /\ s[k] \in Chosen =>
                  /\ Stay(s, k) = Stay(s, k - 1)
                  /\ Gone(s, k) = Append(Gone(s, k - 1), s[k])
                  /\ Left(s, k) = RemoveAt(Left(s, k - 1), b(k - 1) + 1)
  <2>1. PICK h \in 0 .. n : h = k - 1 /\ k = h + 1 /\ k \in 0 .. n /\ h < n
    BY <1>1
  <2> DEFINE d == b(h)
  <2>2. /\ Left(s, h) \in Seq(Node) /\ Len(Left(s, h)) = d + n - h /\ d \in Nat
        /\ \A j \in 1 .. d + n - h :
             Left(s, h)[j] = IF j <= d THEN Stay(s, h)[j] ELSE s[h + (j - d)]
    BY <1>4
  <2>3. /\ Left(s, k) \in Seq(Node) /\ Len(Left(s, k)) = b(k) + n - k
        /\ \A j \in 1 .. b(k) + n - k :
             Left(s, k)[j] = IF j <= b(k) THEN Stay(s, k)[j] ELSE s[k + (j - b(k))]
    BY <2>1, <1>4
  <2>4. /\ Stay(s, h) \in Seq(Node) /\ s[k] \in Node /\ d = Len(Stay(s, h))
    BY <1>1, <1>2
  <2>5. /\ Stay(s, k) = IF s[k] \in Chosen THEN Stay(s, h) ELSE Append(Stay(s, h), s[k])
        /\ Gone(s, k) = IF s[k] \in Chosen THEN Append(Gone(s, h), s[k]) ELSE Gone(s, h)
    BY <2>1, <2>4, <1>2
  <2>6. /\ h \in Nat /\ h < n /\ k = h + 1 /\ d \in Nat
    BY <2>1, <2>2, <1>1
  <2> HIDE DEF d
  <2>7. Left(s, h)[d + 1] = s[k]
    <3>1. d + 1 \in 1 .. d + n - h /\ ~(d + 1 <= d) /\ h + (d + 1 - d) = k
      BY <2>6, <1>1
    <3> QED BY <3>1, <2>2
  <2>8. ASSUME s[k] \notin Chosen
        PROVE  b(k) = d + 1 /\ Left(s, k) = Left(s, h)
    <3>1. /\ Stay(s, k) = Append(Stay(s, h), s[k])
          /\ Len(Stay(s, k)) = d + 1
          /\ \A j \in 1 .. d : Stay(s, k)[j] = Stay(s, h)[j]
          /\ Stay(s, k)[d + 1] = s[k]
      BY <2>4, <2>5, <2>8, AppendProperties
    <3>2. b(k) = d + 1
      BY <3>1
    <3> HIDE DEF b
    <3>3. b(k) + n - k = d + n - h
      BY <3>2, <2>6, <1>1
    <3>4. ASSUME NEW j \in 1 .. d + n - h
          PROVE  Left(s, k)[j] = Left(s, h)[j]
      <4>1. CASE j <= d
        <5>1. j <= b(k) /\ j \in 1 .. d /\ j \in 1 .. b(k) + n - k
          BY <4>1, <3>2, <3>3, <2>6
        <5>2. Left(s, k)[j] = Stay(s, k)[j]
          BY <5>1, <2>3
        <5>3. Left(s, h)[j] = Stay(s, h)[j]
          BY <4>1, <2>2
        <5> QED BY <5>1, <5>2, <5>3, <3>1
      <4>2. CASE j = d + 1
        <5>1. j <= b(k) /\ j \in 1 .. b(k) + n - k
          BY <4>2, <3>2, <3>3, <2>6
        <5>2. Left(s, k)[j] = s[k]
          BY <5>1, <4>2, <2>3, <3>1
        <5> QED BY <5>2, <4>2, <2>7
      <4>3. CASE j > d + 1
        <5>1. /\ ~(j <= b(k)) /\ j \in 1 .. b(k) + n - k /\ ~(j <= d)
              /\ k + (j - b(k)) = h + (j - d)
          BY <4>3, <3>2, <3>3, <2>6
        <5>2. Left(s, k)[j] = s[k + (j - b(k))]
          BY <5>1, <2>3
        <5>3. Left(s, h)[j] = s[h + (j - d)]
          BY <5>1, <2>2
        <5> QED BY <5>1, <5>2, <5>3
      <4> QED BY <4>1, <4>2, <4>3, <2>6
    <3>5. Left(s, k) = Left(s, h)
      <4>1. Len(Left(s, k)) = Len(Left(s, h))
        BY <2>2, <2>3, <3>3
      <4> QED BY <4>1, <3>4, <2>2, <2>3, SeqEqual
    <3> QED BY <3>2, <3>5
  <2>9. ASSUME s[k] \in Chosen
        PROVE  Left(s, k) = RemoveAt(Left(s, h), d + 1)
    <3> DEFINE t == RemoveAt(Left(s, h), d + 1)
    <3>1. Stay(s, k) = Stay(s, h) /\ b(k) = d
      BY <2>4, <2>5, <2>9
    <3> HIDE DEF b
    <3>2. d + 1 \in 1 .. Len(Left(s, h))
      BY <2>2, <2>6, <1>1
    <3>3. /\ t \in Seq(Node) /\ Len(t) = Len(Left(s, h)) - 1
          /\ \A j \in 1 .. Len(Left(s, h)) - 1 :
               t[j] = IF j < d + 1 THEN Left(s, h)[j] ELSE Left(s, h)[j + 1]
      BY <3>2, <2>2, RemoveAtLemma
    <3> HIDE DEF t
    <3>4. Len(Left(s, h)) - 1 = d + n - k /\ b(k) + n - k = d + n - k
      BY <3>1, <2>2, <2>6, <1>1
    <3>5. ASSUME NEW j \in 1 .. d + n - k
          PROVE  Left(s, k)[j] = t[j]
      <4>1. j \in 1 .. d + n - h /\ j + 1 \in 1 .. d + n - h
        BY <2>6, <1>1
      <4>2. CASE j <= d
        <5>1. Left(s, k)[j] = Stay(s, h)[j]
          BY <4>2, <3>1, <3>4, <2>3
        <5>2. Left(s, h)[j] = Stay(s, h)[j]
          BY <4>1, <4>2, <2>2
        <5>3. t[j] = Left(s, h)[j]
          <6>1. j < d + 1
            BY <4>2, <2>6
          <6> QED BY <6>1, <3>3, <3>4
        <5> QED BY <5>1, <5>2, <5>3
      <4>3. CASE ~(j <= d)
        <5>1. Left(s, k)[j] = s[k + (j - d)]
          BY <4>3, <3>1, <3>4, <2>3
        <5>2. PICK g \in 1 .. d + n - h : g = j + 1 /\ ~(g <= d) /\ h + (g - d) = k + (j - d)
          BY <4>1, <4>3, <2>6
        <5>3. Left(s, h)[g] = s[h + (g - d)]
          BY <5>2, <2>2
        <5>4. t[j] = Left(s, h)[g]
          <6>1. ~(j < d + 1)
            BY <4>3, <2>6
          <6> QED BY <6>1, <5>2, <3>3, <3>4
        <5> QED BY <5>1, <5>2, <5>3, <5>4
      <4> QED BY <4>2, <4>3
    <3>6. Left(s, k) = t
      <4>1. Len(Left(s, k)) = Len(t) /\ Len(t) = d + n - k
        BY <2>3, <3>3, <3>4
      <4> QED BY <4>1, <3>3, <3>5, <2>3, SeqEqual
    <3> QED BY <3>6 DEF t
  <2> QED BY <2>1, <2>5, <2>7, <2>8, <2>9 DEF d
<1> QED BY <1>1, <1>2, <1>4, <1>5, <1>6, <1>7 DEF n

\* Appending to a concatenation.
LEMMA AppendConcat ==
  ASSUME NEW s \in Seq(Node), NEW t \in Seq(Node), NEW x \in Node
  PROVE  /\ Append(s \o t, x) = s \o Append(t, x)
         /\ s \o <<>> = s /\ s \o t \in Seq(Node)
<1> DEFINE u == Append(s \o t, x)
           v == s \o Append(t, x)
<1>1. /\ s \o t \in Seq(Node) /\ Append(t, x) \in Seq(Node) /\ <<>> \in Seq(Node)
      /\ Len(s) \in Nat /\ Len(t) \in Nat
  OBVIOUS
<1>2. /\ Len(s \o t) = Len(s) + Len(t)
      /\ \A j \in 1 .. Len(s) + Len(t) :
           (s \o t)[j] = IF j <= Len(s) THEN s[j] ELSE t[j - Len(s)]
  BY ConcatProperties
<1>3. /\ Len(Append(t, x)) = Len(t) + 1 /\ Append(t, x)[Len(t) + 1] = x
      /\ \A j \in 1 .. Len(t) : Append(t, x)[j] = t[j]
  BY AppendProperties
<1> DEFINE w == s \o t
           r == Append(t, x)
<1>4. /\ v \in Seq(Node) /\ Len(v) = Len(s) + Len(r)
      /\ \A j \in 1 .. Len(s) + Len(r) : v[j] = IF j <= Len(s) THEN s[j] ELSE r[j - Len(s)]
  BY <1>1, ConcatProperties
<1>5. /\ u \in Seq(Node) /\ Len(u) = Len(w) + 1 /\ u[Len(w) + 1] = x
      /\ \A j \in 1 .. Len(w) : u[j] = w[j]
  BY <1>1, AppendProperties
<1> DEFINE a == Len(s)
           b == Len(t)
<1>6. a \in Nat /\ b \in Nat
  BY <1>1
<1>7. /\ Len(w) = a + b /\ \A j \in 1 .. a + b : w[j] = IF j <= a THEN s[j] ELSE t[j - a]
      /\ Len(r) = b + 1 /\ r[b + 1] = x /\ \A j \in 1 .. b : r[j] = t[j]
      /\ Len(v) = a + Len(r)
      /\ \A j \in 1 .. a + Len(r) : v[j] = IF j <= a THEN s[j] ELSE r[j - a]
      /\ Len(u) = Len(w) + 1 /\ u[Len(w) + 1] = x /\ \A j \in 1 .. Len(w) : u[j] = w[j]
  BY <1>2, <1>3, <1>4, <1>5
<1> HIDE DEF a, b, u, v, w, r
<1>8. Len(u) = a + b + 1 /\ Len(v) = a + b + 1
  BY <1>6, <1>7
<1>9. ASSUME NEW j \in 1 .. a + b + 1
      PROVE  u[j] = v[j]
  <2>1. CASE j <= a
    <3>1. j \in 1 .. a + b /\ j \in 1 .. a + Len(r)
      BY <2>1, <1>6, <1>7
    <3> QED BY <2>1, <3>1, <1>7
  <2>2. CASE a < j /\ j <= a + b
    <3>1. PICK h \in 1 .. b : h = j - a
      BY <2>2, <1>6
    <3>2. ~(j <= a) /\ j \in 1 .. a + b /\ j \in 1 .. a + Len(r)
      BY <2>2, <1>6, <1>7
    <3>3. u[j] = t[h]
      BY <3>1, <3>2, <1>7
    <3>4. v[j] = r[h]
      BY <3>1, <3>2, <1>7
    <3> QED BY <3>3, <3>4, <1>7
  <2>3. CASE j = a + b + 1
    <3>1. ~(j <= a) /\ j \in 1 .. a + Len(r) /\ j - a = b + 1 /\ j = Len(w) + 1
      BY <2>3, <1>6, <1>7
    <3>2. v[j] = r[b + 1]
      <4>1. v[j] = r[j - a]
        BY <3>1, <1>7
      <4> QED BY <4>1, <3>1
    <3> QED BY <3>1, <3>2, <1>7
  <2> QED BY <2>1, <2>2, <2>3, <1>6
<1>10. u = v
  BY <1>4, <1>5, <1>8, <1>9, SeqEqual
<1>11. s \o <<>> = s
  OBVIOUS
<1> QED BY <1>1, <1>10, <1>11 DEF u, v

\* util.h:570-578: the chosen nodes go to the end of l, and the others stay.
LEMMA SelectLemma ==
  ASSUME List \cap Node = {}, IsFiniteSet(List), IsFiniteSet(Node),
         NEW m \in [next : [Rl!Cell -> Rl!Cell], prev : [Rl!Cell -> Rl!Cell]],
         NEW q, Holds(m, q), NEW l \in List, NEW src \in List, src # l
  PROVE  Holds(Rl!rlist_select(m, src, l),
               [q EXCEPT ![l] = q[l] \o Rl!Lists!Only(q[src], Chosen),
                         ![src] = Rl!Lists!Only(q[src], Node \ Chosen)])
<1> DEFINE s == q[src]
           n == Len(s)
           N == Cardinality(Rl!Cell)
           f == Rl!Selecting(m, src, l)
           Q(k) == [q EXCEPT ![src] = Left(s, k), ![l] = q[l] \o Gone(s, k)]
           Now(k, w) == \E mem : /\ w = [memory |-> mem,
                                         at |-> Place(src, Left(s, k), Len(Stay(s, k)))]
                                 /\ Holds(mem, Q(k))
<1>1. q \in [List -> Seq(Node)] /\ NoTwice(q) /\ Linked(m)
  BY DEF Holds
<1>2. s \in Seq(Node) /\ n \in Nat /\ q[l] \in Seq(Node) /\ n + 1 <= N /\ N \in Nat
  BY <1>1, RingSize
<1>3. /\ f[0] = [memory |-> m, at |-> src]
      /\ \A k \in 1 .. N : f[k] = Rl!Sorted(f[k - 1], src, l)
  BY SelectLoop
<1>4. \A k \in 0 .. n :
        /\ Stay(s, k) \in Seq(Node) /\ Gone(s, k) \in Seq(Node)
        /\ Left(s, k) \in Seq(Node) /\ Len(Stay(s, k)) \in Nat
        /\ Len(Left(s, k)) = Len(Stay(s, k)) + n - k
  BY <1>2, LeftLemma
<1>5. \A k \in 0 .. n : /\ Q(k) \in [List -> Seq(Node)]
                        /\ Q(k)[src] = Left(s, k) /\ Q(k)[l] = q[l] \o Gone(s, k)
  <2> SUFFICES ASSUME NEW k \in 0 .. n
               PROVE  /\ Q(k) \in [List -> Seq(Node)]
                      /\ Q(k)[src] = Left(s, k) /\ Q(k)[l] = q[l] \o Gone(s, k)
    OBVIOUS
  <2> DEFINE a == Left(s, k)
             b == q[l] \o Gone(s, k)
  <2>1. a \in Seq(Node) /\ b \in Seq(Node)
    <3>1. a \in Seq(Node) /\ Gone(s, k) \in Seq(Node) /\ q[l] \in Seq(Node)
      BY <1>2, <1>4
    <3> QED BY <3>1, ConcatLemma
  <2> HIDE DEF a, b
  <2>2. /\ [q EXCEPT ![src] = a, ![l] = b] \in [List -> Seq(Node)]
        /\ [q EXCEPT ![src] = a, ![l] = b][src] = a
        /\ [q EXCEPT ![src] = a, ![l] = b][l] = b
    BY <1>1, <2>1
  <2> QED BY <2>2 DEF a, b
<1> HIDE DEF s, n, N, f
<1>6. Now(0, f[0])
  <2>1. Stay(s, 0) = <<>> /\ Gone(s, 0) = <<>> /\ Left(s, 0) = s
    BY <1>2, LeftLemma
  <2>2. q[l] \o <<>> = q[l]
    BY <1>2, AppendConcat
  <2>3. Q(0) = q
    BY <1>1, <2>1, <2>2 DEF s
  <2>4. Place(src, Left(s, 0), Len(Stay(s, 0))) = src
    BY <2>1 DEF Place
  <2> QED BY <1>3, <2>3, <2>4
<1>7. ASSUME NEW k \in 1 .. n, Now(k - 1, f[k - 1])
      PROVE  Now(k, f[k])
  <2>1. PICK h \in 0 .. n : h = k - 1 /\ k = h + 1 /\ h < n /\ k \in 0 .. n /\ k \in 1 .. N
    BY <1>2
  <2>2. PICK mem : /\ f[h] = [memory |-> mem, at |-> Place(src, Left(s, h), Len(Stay(s, h)))]
                   /\ Holds(mem, Q(h))
    BY <1>7, <2>1
  <2> DEFINE i == Len(Stay(s, h))
             p == Q(h)
  <2>3. f[k] = Rl!Sorted(f[h], src, l)
    BY <2>1, <1>3
  <2>4. /\ p[src] = Left(s, h) /\ p[l] = q[l] \o Gone(s, h) /\ i \in Nat
        /\ Len(p[src]) = i + n - h
    BY <1>4, <1>5
  <2>5. /\ Left(s, h)[i + 1] = s[k]
        /\ s[k] \notin Chosen => /\ Len(Stay(s, k)) = i + 1
                                 /\ Gone(s, k) = Gone(s, h) /\ Left(s, k) = Left(s, h)
        /\ s[k] \in Chosen => /\ Stay(s, k) = Stay(s, h)
                              /\ Gone(s, k) = Append(Gone(s, h), s[k])
                              /\ Left(s, k) = RemoveAt(Left(s, h), i + 1)
    <3>1. k - 1 = h /\ k \in 1 .. Len(s)
      BY <2>1 DEF n
    <3> QED BY <3>1, <1>2, LeftLemma
  <2> HIDE DEF i, p
  <2>6. i \in 0 .. Len(p[src]) /\ i < Len(p[src])
    BY <2>1, <2>4, <1>2
  <2>7. f[h] = Halfway(mem, p, src, i) /\ Holds(mem, p)
    BY <2>2, <2>4 DEF i, p, Halfway
  <2>8. CASE s[k] \notin Chosen
    <3>1. f[k] = Halfway(mem, p, src, i + 1)
      <4>1. p[src][i + 1] \notin Chosen
        BY <2>4, <2>5, <2>8
      <4>2. Rl!Sorted(Halfway(mem, p, src, i), src, l) = Halfway(mem, p, src, i + 1)
        BY <4>1, <2>6, <2>7, SortedLemma
      <4> QED BY <4>2, <2>3, <2>7
    <3>2. Q(k) = p
      BY <2>5, <2>8 DEF p
    <3>3. f[k] = [memory |-> mem, at |-> Place(src, Left(s, k), Len(Stay(s, k)))]
      <4>1. p[src] = Left(s, k) /\ i + 1 = Len(Stay(s, k))
        BY <2>4, <2>5, <2>8
      <4> QED BY <3>1, <4>1 DEF Halfway
    <3> QED BY <3>2, <3>3, <2>7
  <2>9. CASE s[k] \in Chosen
    <3>1. PICK m2 :
            /\ Rl!Sorted(f[h], src, l)
                 = [memory |-> m2, at |-> Place(src, RemoveAt(p[src], i + 1), i)]
            /\ Holds(m2, [p EXCEPT ![src] = RemoveAt(p[src], i + 1),
                                   ![l] = Append(p[l], p[src][i + 1])])
      <4>1. p[src][i + 1] \in Chosen
        BY <2>4, <2>5, <2>9
      <4>2. Taken(Rl!Sorted(Halfway(mem, p, src, i), src, l), p, src, l, i)
        BY <4>1, <2>6, <2>7, SortedLemma
      <4> QED BY <4>2, <2>7 DEF Taken
    <3>2. RemoveAt(p[src], i + 1) = Left(s, k) /\ i = Len(Stay(s, k))
      BY <2>4, <2>5, <2>9 DEF i
    <3>3. Append(p[l], p[src][i + 1]) = q[l] \o Gone(s, k)
      <4>1. s[k] \in Node /\ Gone(s, h) \in Seq(Node)
        BY <1>2, <1>4 DEF n
      <4>2. Append(q[l] \o Gone(s, h), s[k]) = q[l] \o Append(Gone(s, h), s[k])
        <5> DEFINE a == q[l]
                   b == Gone(s, h)
                   x == s[k]
        <5>1. a \in Seq(Node) /\ b \in Seq(Node) /\ x \in Node
          BY <1>2, <4>1
        <5> HIDE DEF a, b, x
        <5>2. Append(a \o b, x) = a \o Append(b, x)
          BY <5>1, AppendConcat
        <5> QED BY <5>2 DEF a, b, x
      <4> QED BY <4>2, <2>4, <2>5, <2>9
    <3>4. [p EXCEPT ![src] = Left(s, k), ![l] = q[l] \o Gone(s, k)] = Q(k)
      <4> DEFINE a == Left(s, k)
                 b == q[l] \o Gone(s, k)
                 c == Left(s, h)
                 d == q[l] \o Gone(s, h)
      <4>1. p = [q EXCEPT ![src] = c, ![l] = d]
        BY DEF p
      <4> HIDE DEF a, b, c, d
      <4>2. [[q EXCEPT ![src] = c, ![l] = d] EXCEPT ![src] = a, ![l] = b]
              = [q EXCEPT ![src] = a, ![l] = b]
        BY <1>1
      <4> QED BY <4>1, <4>2 DEF a, b
    <3> HIDE DEF Q
    <3>5. Holds(m2, Q(k))
      BY <3>1, <3>2, <3>3, <3>4
    <3>6. f[k] = [memory |-> m2, at |-> Place(src, Left(s, k), Len(Stay(s, k)))]
      BY <3>1, <3>2, <2>3
    <3> QED BY <3>5, <3>6
  <2> QED BY <2>8, <2>9
<1>8. ASSUME NEW w, Now(n, w)
      PROVE  Rl!Sorted(w, src, l) = w
  <2>1. PICK mem : /\ w = [memory |-> mem, at |-> Place(src, Left(s, n), Len(Stay(s, n)))]
                   /\ Holds(mem, Q(n))
    BY <1>8
  <2> DEFINE p == Q(n)
             i == Len(Stay(s, n))
  <2>2. n \in 0 .. n /\ p[src] = Left(s, n) /\ Left(s, n) = Stay(s, n)
    <3>1. n \in 0 .. n
      BY <1>2
    <3>2. Left(s, n) = Stay(s, n)
      BY <1>2, LeftLemma DEF n
    <3> HIDE DEF Q
    <3> QED BY <3>1, <3>2, <1>5
  <2>3. i = Len(p[src]) /\ i \in 0 .. Len(p[src])
    BY <2>2, <1>4
  <2> HIDE DEF p, i
  <2>4. Holds(mem, p) /\ w = Halfway(mem, p, src, i)
    BY <2>1, <2>2 DEF p, i, Halfway
  <2>5. Rl!Sorted(Halfway(mem, p, src, i), src, l) = Halfway(mem, p, src, i)
    BY <2>3, <2>4, SortedLemma
  <2> QED BY <2>4, <2>5
<1> HIDE DEF Now
<1> DEFINE T == {k \in 0 .. N : Now(IF k <= n THEN k ELSE n, f[k])}
<1>9. ASSUME NEW k \in 1 .. N, k - 1 \in T
      PROVE  k \in T
  <2>1. CASE k <= n
    <3>1. k \in 1 .. n /\ k - 1 <= n
      BY <2>1, <1>2
    <3>2. Now(k - 1, f[k - 1])
      BY <3>1, <1>9
    <3>3. Now(k, f[k])
      BY <3>1, <3>2, <1>7
    <3> QED BY <3>3, <2>1, <1>2
  <2>2. CASE ~(k <= n)
    <3>1. k - 1 <= n => k - 1 = n
      BY <2>2, <1>2
    <3>2. Now(n, f[k - 1])
      BY <3>1, <1>9
    <3>3. f[k] = f[k - 1]
      BY <3>2, <1>3, <1>8
    <3> QED BY <3>2, <3>3, <2>2, <1>2
  <2> QED BY <2>1, <2>2
<1>10. N \in T
  <2>1. 0 \in T
    BY <1>2, <1>6
  <2> HIDE DEF T
  <2>2. \A k \in 0 .. N : k \in T
    BY <2>1, <1>2, <1>9, NatSteps
  <2> QED BY <2>2, <1>2
<1>11. Now(n, f[N])
  <2>1. ~(N <= n)
    BY <1>2
  <2> QED BY <2>1, <1>10
<1>12. Holds(f[N].memory, Q(n))
  BY <1>11 DEF Now
<1>13. /\ Left(s, n) = Rl!Lists!Only(q[src], Node \ Chosen)
       /\ Gone(s, n) = Rl!Lists!Only(q[src], Chosen)
  BY <1>2, LeftLemma DEF Rl!Lists!Only, Gone, Stay, n, s
<1>14. Q(n) = [q EXCEPT ![l] = q[l] \o Gone(s, n), ![src] = Left(s, n)]
  <2> DEFINE a == Left(s, n)
             b == q[l] \o Gone(s, n)
  <2> HIDE DEF a, b
  <2>1. [q EXCEPT ![src] = a, ![l] = b] = [q EXCEPT ![l] = b, ![src] = a]
    BY <1>1
  <2> QED BY <2>1 DEF a, b
<1>15. Rl!rlist_select(m, src, l) = f[N].memory
  BY DEF Rl!rlist_select, f, N, Rl!Cardinality, Cardinality
<1> HIDE DEF Q
<1> QED BY <1>12, <1>13, <1>14, <1>15

\* A memory is its pointers.
LEMMA SameMemory ==
  ASSUME NEW m, NEW w, NEW q, Holds(m, q), w.next = m.next, w.prev = m.prev
  PROVE  Holds(w, q)
BY DEF Holds, Linked

\* What Items tells of a memory.
Listing(m) == [l \in List |-> [k \in 1 .. Rl!rlist_len(m, l) |-> Rl!Walk(m, l)[k]]]

\* The walks through a memory tell what it holds.
LEMMA ListingLemma ==
  ASSUME Rl!RlistAssumption, NEW m, NEW q, Holds(m, q)
  PROVE  Listing(m) = q
<1>1. q \in [List -> Seq(Node)] /\ NoTwice(q)
  BY DEF Holds
<1>2. ASSUME NEW l \in List
      PROVE  [k \in 1 .. Rl!rlist_len(m, l) |-> Rl!Walk(m, l)[k]] = q[l]
  <2>1. /\ \A k \in 0 .. Len(q[l]) + 1 : Rl!Walk(m, l)[k] = Place(l, q[l], k)
        /\ Rl!rlist_len(m, l) = Len(q[l])
    BY ContentsLemma DEF Rl!RlistAssumption, Rl!IsFiniteSet, IsFiniteSet
  <2>2. Len(q[l]) \in Nat /\ q[l] \in Seq(Node)
    BY <1>1
  <2>3. \A k \in 1 .. Len(q[l]) : Rl!Walk(m, l)[k] = q[l][k]
    BY <2>1, <2>2, <1>1, PlaceLemma DEF Rl!RlistAssumption
  <2>4. [k \in 1 .. Rl!rlist_len(m, l) |-> Rl!Walk(m, l)[k]] = [k \in 1 .. Len(q[l]) |-> q[l][k]]
    BY <2>1, <2>3
  <2>5. [k \in 1 .. Len(q[l]) |-> q[l][k]] = q[l]
    BY <2>2
  <2> QED BY <2>4, <2>5
<1>3. Listing(m) = [l \in List |-> q[l]]
  BY <1>2 DEF Listing
<1> QED BY <1>1, <1>3

\* util.h:482-500: rlist_equal tells whether two lists have the same keys.
LEMMA EqualLemma ==
  ASSUME Rl!RlistAssumption, NEW m, NEW q, Holds(m, q), NEW l \in List, NEW h \in List
  PROVE  Rl!rlist_equal(m, l, h) <=>
           [k \in DOMAIN q[l] |-> key[q[l][k]]] = [k \in DOMAIN q[h] |-> key[q[h][k]]]
<1> DEFINE n == Len(q[l])
           b == Len(q[h])
           s == q[l]
           t == q[h]
           v == Rl!Walk(m, l)
           w == Rl!Walk(m, h)
<1>1. q \in [List -> Seq(Node)] /\ NoTwice(q)
  BY DEF Holds
<1>2. n \in Nat /\ b \in Nat /\ DOMAIN s = 1 .. n /\ DOMAIN t = 1 .. b
  BY <1>1
<1>3. /\ \A k \in 1 .. n : v[k] = s[k]
      /\ Rl!rlist_len(m, l) = n
  <2>1. /\ \A k \in 0 .. n + 1 : v[k] = Place(l, q[l], k)
        /\ Rl!rlist_len(m, l) = n
    BY ContentsLemma DEF Rl!RlistAssumption, Rl!IsFiniteSet, IsFiniteSet
  <2>2. \A k \in 1 .. n : Place(l, q[l], k) = q[l][k]
    BY <1>1, PlaceLemma DEF Rl!RlistAssumption
  <2> QED BY <2>1, <2>2, <1>2
<1>4. /\ \A k \in 1 .. b : w[k] = t[k] /\ t[k] # h
      /\ w[b + 1] = h
  <2>1. /\ \A k \in 1 .. b : Place(h, q[h], k) = q[h][k] /\ q[h][k] \in Node
        /\ Place(h, q[h], b + 1) = h
    BY <1>1, PlaceLemma DEF Rl!RlistAssumption
  <2>2. \A k \in 0 .. b + 1 : w[k] = Place(h, q[h], k)
    BY ContentsLemma DEF Rl!RlistAssumption, Rl!IsFiniteSet, IsFiniteSet
  <2> QED BY <2>1, <2>2, <1>2 DEF Rl!RlistAssumption
<1>5. Rl!rlist_equal(m, l, h) <=>
        /\ \A k \in 1 .. n : /\ \A j \in 1 .. k : w[j] # h
                             /\ key[v[k]] = key[w[k]]
        /\ w[n + 1] = h
  BY <1>3 DEF Rl!rlist_equal
<1> HIDE DEF n, b, s, t, v, w
<1>6. ASSUME /\ \A k \in 1 .. n : /\ \A j \in 1 .. k : w[j] # h
                                  /\ key[v[k]] = key[w[k]]
             /\ w[n + 1] = h
      PROVE  [k \in 1 .. n |-> key[s[k]]] = [k \in 1 .. b |-> key[t[k]]]
  <2>1. ~(b < n)
    <3> SUFFICES ASSUME b < n PROVE FALSE
      OBVIOUS
    <3>1. n \in 1 .. n /\ b + 1 \in 1 .. n
      BY <1>2
    <3> QED BY <3>1, <1>4, <1>6
  <2>2. ~(n < b)
    <3> SUFFICES ASSUME n < b PROVE FALSE
      OBVIOUS
    <3>1. n + 1 \in 1 .. b
      BY <1>2
    <3> QED BY <3>1, <1>4, <1>6
  <2>3. n = b
    BY <2>1, <2>2, <1>2
  <2>4. \A k \in 1 .. n : key[s[k]] = key[t[k]]
    BY <2>3, <1>3, <1>4, <1>6
  <2> QED BY <2>3, <2>4
<1>7. ASSUME [k \in 1 .. n |-> key[s[k]]] = [k \in 1 .. b |-> key[t[k]]]
      PROVE  /\ \A k \in 1 .. n : /\ \A j \in 1 .. k : w[j] # h
                                  /\ key[v[k]] = key[w[k]]
             /\ w[n + 1] = h
  <2>1. 1 .. n = 1 .. b
    BY <1>7
  <2>2. n = b
    BY <2>1, <1>2
  <2>3. \A k \in 1 .. n : key[s[k]] = key[t[k]]
    BY <2>1, <1>7
  <2>4. \A k \in 1 .. n : \A j \in 1 .. k : j \in 1 .. b
    BY <2>2, <1>2
  <2> QED BY <2>2, <2>3, <2>4, <1>3, <1>4
<1>8. [k \in 1 .. n |-> key[s[k]]] = [k \in 1 .. b |-> key[t[k]]] <=>
        [k \in DOMAIN q[l] |-> key[q[l][k]]] = [k \in DOMAIN q[h] |-> key[q[h][k]]]
  BY <1>2 DEF s, t
<1> QED BY <1>5, <1>6, <1>7, <1>8

\* util.h:505-560: rlist_find gives the first node with the key.
LEMMA FindLemma ==
  ASSUME Rl!RlistAssumption, NEW m, NEW q, Holds(m, q), NEW l \in List, NEW x \in Node,
         NEW y, y = Rl!rlist_find(m, l, key[x], l)
  PROVE  IF \E k \in DOMAIN q[l] : key[q[l][k]] = key[x]
         THEN y \in Node /\ key[y] = key[x]
         ELSE y = l
<1> DEFINE n == Len(q[l])
           v == Rl!Walk(m, l)
           found == {k \in 1 .. n : key[v[k]] = key[x]}
           first == CHOOSE k \in found : \A j \in found : k <= j
<1>1. q \in [List -> Seq(Node)] /\ NoTwice(q)
  BY DEF Holds
<1>2. n \in Nat /\ DOMAIN q[l] = 1 .. n
  BY <1>1
<1>3. /\ \A k \in 1 .. n : v[k] = q[l][k] /\ q[l][k] \in Node
      /\ Rl!rlist_len(m, l) = n
  <2>1. /\ \A k \in 0 .. n + 1 : v[k] = Place(l, q[l], k)
        /\ Rl!rlist_len(m, l) = n
    BY ContentsLemma DEF Rl!RlistAssumption, Rl!IsFiniteSet, IsFiniteSet
  <2>2. \A k \in 1 .. n : Place(l, q[l], k) = q[l][k] /\ q[l][k] \in Node
    BY <1>1, PlaceLemma DEF Rl!RlistAssumption
  <2> QED BY <2>1, <2>2, <1>2
<1>4. y = IF found = {} THEN l ELSE v[first]
  BY <1>3 DEF Rl!rlist_find
<1>5. found \in SUBSET Nat
  BY <1>2
<1>6. found # {} => first \in found
  <2>1. found # {} => \E k \in found : \A j \in found : k <= j
    <3> HIDE DEF found
    <3> QED BY <1>5, LeastNat
  <2> QED BY <2>1
<1> HIDE DEF first, v, n
<1>7. found # {} => y \in Node /\ key[y] = key[x]
  BY <1>3, <1>4, <1>6
<1>8. found = {} <=> ~\E k \in DOMAIN q[l] : key[q[l][k]] = key[x]
  BY <1>2, <1>3
<1> QED BY <1>4, <1>7, <1>8

\* The memory after an operation.
LEMMA ToLemma ==
  ASSUME NEW m, NEW p, Rl!To(m), Holds(m, p)
  PROVE  Holds(Rl!Memory', p)
<1>1. Rl!Memory'.next = m.next /\ Rl!Memory'.prev = m.prev
  BY DEF Rl!To, Rl!Memory
<1> QED BY <1>1, SameMemory

\* rlnode_new makes each cell a ring, and each list empty.
LEMMA RingsInit ==
  ASSUME Rl!Init
  PROVE  Holds(Rl!Memory, [l \in List |-> <<>>])
<1> DEFINE q == [l \in List |-> <<>>]
<1>1. q \in [List -> Seq(Node)] /\ \A l \in List : q[l] = <<>> /\ Len(q[l]) = 0
  OBVIOUS
<1>2. NoTwice(q)
  BY <1>1 DEF NoTwice
<1>3. \A c \in Rl!Cell : Rl!Memory.next[c] = c /\ Rl!Memory.prev[c] = c
  BY DEF Rl!Init, Rl!Memory
<1>4. Rl!Memory.next \in [Rl!Cell -> Rl!Cell] /\ Rl!Memory.prev \in [Rl!Cell -> Rl!Cell]
  BY DEF Rl!Init, Rl!Memory
<1>5. Linked(Rl!Memory)
  BY <1>3, <1>4 DEF Linked
<1>6. \A l \in List : \A i \in 0 .. Len(q[l]) :
        Rl!Memory.next[Place(l, q[l], i)] = Place(l, q[l], i + 1)
  <2> SUFFICES ASSUME NEW l \in List, NEW i \in 0 .. Len(q[l])
               PROVE  Rl!Memory.next[Place(l, q[l], i)] = Place(l, q[l], i + 1)
    OBVIOUS
  <2>1. i = 0 /\ i + 1 = Len(q[l]) + 1
    BY <1>1
  <2>2. Place(l, q[l], i) = l /\ Place(l, q[l], i + 1) = l
    BY <2>1 DEF Place
  <2> QED BY <2>2, <1>3 DEF Rl!Cell
<1>7. \A x \in Node : Rl!Memory.next[x] = x
  BY <1>3 DEF Rl!Cell
<1> HIDE DEF q
<1>8. Holds(Rl!Memory, q)
  BY <1>1, <1>2, <1>5, <1>6, <1>7 DEF Holds
<1> QED BY <1>8 DEF q

\* A node is free when no list has it.
LEMMA FreeLemma ==
  ASSUME NEW x, Rl!Items \in [List -> Seq(Node)]
  PROVE  Rl!Lists!Free(x) <=> ~Listed(Rl!Items, x)
<1>1. \A l \in List : x \in Rl!Lists!Range(Rl!Items[l]) <=> \E i \in 1 .. Len(Rl!Items[l]) : Rl!Items[l][i] = x
  <2> SUFFICES ASSUME NEW l \in List
               PROVE  x \in Rl!Lists!Range(Rl!Items[l]) <=>
                        \E i \in 1 .. Len(Rl!Items[l]) : Rl!Items[l][i] = x
    OBVIOUS
  <2>1. DOMAIN Rl!Items[l] = 1 .. Len(Rl!Items[l])
    OBVIOUS
  <2> QED BY <2>1 DEF Rl!Lists!Range
<1> QED BY <1>1 DEF Rl!Lists!Free, Listed

\* Every operation does to the sequences what it is for.
LEMMA RingsNext ==
  ASSUME Rl!RlistAssumption, Holds(Rl!Memory, Rl!Items), Rl!Next
  PROVE  \E p : /\ Holds(Rl!Memory', p)
                /\ (Rl!Items' = p => Rl!ListStep)
<1> DEFINE q == Rl!Items
           m == Rl!Memory
<1>1. /\ q \in [List -> Seq(Node)] /\ NoTwice(q) /\ List \cap Node = {}
      /\ IsFiniteSet(List) /\ IsFiniteSet(Node) /\ Holds(m, q)
  BY DEF Holds, Rl!RlistAssumption, Rl!IsFiniteSet, IsFiniteSet
<1>2. m \in [next : [Rl!Cell -> Rl!Cell], prev : [Rl!Cell -> Rl!Cell]]
  BY <1>1 DEF Holds, Linked, Rl!Memory
<1>3. ASSUME NEW l \in List, NEW x \in Node, Rl!Push(l, x)
      PROVE  \E p : Holds(Rl!Memory', p) /\ (Rl!Items' = p => Rl!ListStep)
  <2>1. m.next[x] = x
    BY <1>3 DEF Rl!Push, Rl!Single, Rl!Memory
  <2>2. Rl!Lists!Free(x)
    BY <2>1, <1>1, AloneLemma, FreeLemma
  <2>3. /\ Holds(Rl!rlist_push_front(m, l, x), [q EXCEPT ![l] = <<x>> \o q[l]])
        /\ Holds(Rl!rlist_push_back(m, l, x), [q EXCEPT ![l] = Append(q[l], x)])
    BY <2>1, <1>1, PushLemma
  <2>4. /\ Rl!Items' = [q EXCEPT ![l] = <<x>> \o q[l]] => Rl!Lists!Next
        /\ Rl!Items' = [q EXCEPT ![l] = Append(q[l], x)] => Rl!Lists!Next
    BY <2>2 DEF Rl!Lists!Next, Rl!Lists!PushFront, Rl!Lists!PushBack
  <2>5. Rl!To(Rl!rlist_push_front(m, l, x)) \/ Rl!To(Rl!rlist_push_back(m, l, x))
    BY <1>3 DEF Rl!Push
  <2> HIDE DEF q, m
  <2>6. CASE Rl!To(Rl!rlist_push_front(m, l, x))
    BY <2>3, <2>4, <2>6, ToLemma DEF Rl!ListStep
  <2>7. CASE Rl!To(Rl!rlist_push_back(m, l, x))
    BY <2>3, <2>4, <2>7, ToLemma DEF Rl!ListStep
  <2> QED BY <2>5, <2>6, <2>7
<1>4. ASSUME NEW l \in List, Rl!PopFront(l)
      PROVE  \E p : Holds(Rl!Memory', p) /\ (Rl!Items' = p => Rl!ListStep)
  <2>1. Rl!To(Rl!rlist_pop_front(m, l))
    BY <1>4 DEF Rl!PopFront
  <2>2. /\ q[l] = <<>> => Holds(Rl!rlist_pop_front(m, l), q)
        /\ q[l] # <<>> => Holds(Rl!rlist_pop_front(m, l), [q EXCEPT ![l] = Tail(q[l])])
    BY <1>1, PopsLemma
  <2>3. /\ Rl!Items' = q => Rl!ListStep
        /\ q[l] # <<>> /\ Rl!Items' = [q EXCEPT ![l] = Tail(q[l])] => Rl!ListStep
    BY DEF Rl!ListStep, Rl!Lists!Next, Rl!Lists!PopFront
  <2> HIDE DEF q, m
  <2> QED BY <2>1, <2>2, <2>3, ToLemma
<1>5. ASSUME NEW l \in List, Rl!PopBack(l)
      PROVE  \E p : Holds(Rl!Memory', p) /\ (Rl!Items' = p => Rl!ListStep)
  <2>1. Rl!To(Rl!rlist_pop_back(m, l)) /\ Rl!rlist_len(m, l) <= 1
    BY <1>5 DEF Rl!PopBack
  <2>2. Len(q[l]) <= 1 /\ Len(q[l]) \in Nat /\ q[l] \in Seq(Node)
    BY <2>1, <1>1, ContentsLemma
  <2>3. q[l] = <<>> \/ (Len(q[l]) = 1 /\ q[l] # <<>>)
    <3> DEFINE s == q[l]
    <3>1. s \in Seq(Node) /\ Len(s) \in Nat /\ Len(s) <= 1
      BY <2>2
    <3> HIDE DEF s
    <3>2. s = <<>> <=> Len(s) = 0
      BY <3>1, EmptySeq
    <3> DEFINE n == Len(s)
    <3> HIDE DEF n
    <3>3. n \in Nat /\ n <= 1
      BY <3>1 DEF n
    <3>4. n = 0 \/ n = 1
      BY <3>3
    <3>5. s = <<>> \/ (n = 1 /\ s # <<>>)
      BY <3>2, <3>4 DEF n
    <3> QED BY <3>5 DEF s, n
  <2>4. /\ q[l] = <<>> => Holds(Rl!rlist_pop_back(m, l), q)
        /\ Len(q[l]) = 1 => Holds(Rl!rlist_pop_back(m, l), [q EXCEPT ![l] = Tail(q[l])])
    BY <1>1, PopsLemma
  <2>5. /\ Rl!Items' = q => Rl!ListStep
        /\ q[l] # <<>> /\ Rl!Items' = [q EXCEPT ![l] = Tail(q[l])] => Rl!ListStep
    BY DEF Rl!ListStep, Rl!Lists!Next, Rl!Lists!PopFront
  <2> HIDE DEF q, m
  <2> QED BY <2>1, <2>3, <2>4, <2>5, ToLemma
<1>6. ASSUME NEW l \in List, Rl!Reverse(l)
      PROVE  \E p : Holds(Rl!Memory', p) /\ (Rl!Items' = p => Rl!ListStep)
  <2> DEFINE t == Rl!Lists!Reverse(q[l])
  <2>1. Rl!To(Rl!rlist_reverse(m, l))
    BY <1>6 DEF Rl!Reverse
  <2>2. /\ t \in Seq(Node) /\ Len(t) = Len(q[l])
        /\ \A j \in 1 .. Len(t) : t[j] = q[l][Len(q[l]) - j + 1]
    <3>1. q[l] \in Seq(Node)
      BY <1>1
    <3> QED BY <3>1, ReverseLemma DEF Rl!Lists!Reverse
  <2>3. Rl!Items' = [q EXCEPT ![l] = t] => Rl!ListStep
    BY DEF Rl!ListStep, Rl!Lists!Next, Rl!Lists!TurnRound
  <2> HIDE DEF q, m, t
  <2>4. Holds(Rl!rlist_reverse(m, l), [q EXCEPT ![l] = t])
    BY <2>2, <1>1, <1>2, ReversedLemma
  <2> QED BY <2>1, <2>3, <2>4, ToLemma
<1>7. ASSUME NEW x \in Node, Rl!Remove(x)
      PROVE  \E p : Holds(Rl!Memory', p) /\ (Rl!Items' = p => Rl!ListStep)
  <2>1. Rl!To(Rl!rlist_remove(m, x))
    BY <1>7 DEF Rl!Remove
  <2>2. /\ ~Listed(q, x) => Holds(Rl!rlist_remove(m, x), q)
        /\ \A l \in List : \A i \in 1 .. Len(q[l]) :
             q[l][i] = x => Holds(Rl!rlist_remove(m, x), [q EXCEPT ![l] = RemoveAt(q[l], i)])
    BY <1>1, RemoveLemma
  <2>3. CASE ~Listed(q, x)
    <3>1. Rl!Items' = q => Rl!ListStep
      BY DEF Rl!ListStep
    <3> HIDE DEF q, m
    <3> QED BY <3>1, <2>1, <2>2, <2>3, ToLemma
  <2>4. CASE Listed(q, x)
    <3>1. PICK l \in List : \E i \in 1 .. Len(q[l]) : q[l][i] = x
      BY <2>4 DEF Listed
    <3>2. PICK i \in 1 .. Len(q[l]) : q[l][i] = x
      BY <3>1
    <3>3. Rl!Items' = [q EXCEPT ![l] = RemoveAt(q[l], i)] => Rl!ListStep
      <4>1. RemoveAt(q[l], i) = Rl!Lists!RemoveAt(q[l], i)
        BY DEF RemoveAt, Rl!Lists!RemoveAt
      <4> QED BY <3>2, <4>1 DEF Rl!ListStep, Rl!Lists!Next, Rl!Lists!Drop
    <3> HIDE DEF q, m
    <3> QED BY <3>2, <3>3, <2>1, <2>2, ToLemma
  <2> QED BY <2>3, <2>4
<1>8. ASSUME NEW l \in List, NEW k \in List, Rl!Merge(l, k)
      PROVE  \E p : Holds(Rl!Memory', p) /\ (Rl!Items' = p => Rl!ListStep)
  <2>1. l # k /\ (Rl!To(Rl!rlist_append(m, l, k)) \/ Rl!To(Rl!rlist_prepend(m, l, k)))
    BY <1>8 DEF Rl!Merge
  <2>2. /\ Holds(Rl!rlist_append(m, l, k), [q EXCEPT ![l] = q[l] \o q[k], ![k] = <<>>])
        /\ Holds(Rl!rlist_prepend(m, l, k), [q EXCEPT ![l] = q[k] \o q[l], ![k] = <<>>])
    BY <2>1, <1>1, MergeLemma
  <2>3. /\ Rl!Items' = [q EXCEPT ![l] = q[l] \o q[k], ![k] = <<>>] => Rl!ListStep
        /\ Rl!Items' = [q EXCEPT ![l] = q[k] \o q[l], ![k] = <<>>] => Rl!ListStep
    BY <2>1 DEF Rl!ListStep, Rl!Lists!Next, Rl!Lists!AppendAll, Rl!Lists!PrependAll
  <2> HIDE DEF q, m
  <2> QED BY <2>1, <2>2, <2>3, ToLemma
<1>9. ASSUME NEW l \in List, NEW k \in List, Rl!Select(k, l)
      PROVE  \E p : Holds(Rl!Memory', p) /\ (Rl!Items' = p => Rl!ListStep)
  <2>1. k # l /\ Rl!To(Rl!rlist_select(m, k, l))
    BY <1>9 DEF Rl!Select
  <2> DEFINE p == [q EXCEPT ![l] = q[l] \o Rl!Lists!Only(q[k], Chosen),
                            ![k] = Rl!Lists!Only(q[k], Node \ Chosen)]
  <2>2. Holds(Rl!rlist_select(m, k, l), p)
    <3> HIDE DEF q, m
    <3> QED BY <2>1, <1>1, <1>2, SelectLemma
  <2>3. Rl!Items' = p => Rl!ListStep
    <3>1. Rl!Items' = p => Rl!Lists!Select(k, l)
      <4>1. p = [q EXCEPT ![l] = @ \o Rl!Lists!Only(q[k], Chosen),
                          ![k] = Rl!Lists!Only(@, Node \ Chosen)]
        BY <1>1, <2>1
      <4> QED BY <4>1 DEF Rl!Lists!Select
    <3> QED BY <3>1, <2>1 DEF Rl!ListStep, Rl!Lists!Next
  <2> HIDE DEF q, m, p
  <2> QED BY <2>1, <2>2, <2>3, ToLemma
<1> QED BY <1>3, <1>4, <1>5, <1>6, <1>7, <1>8, <1>9 DEF Rl!Next

\* The memory holds what Items tells, after every step.
LEMMA RingsKept ==
  ASSUME Rl!RlistAssumption, Holds(Rl!Memory, Rl!Items), [Rl!Next]_listVars
  PROVE  Holds(Rl!Memory', Rl!Items') /\ Rl!ListStep
<1>1. CASE Rl!Next
  <2>1. PICK p : Holds(Rl!Memory', p) /\ (Rl!Items' = p => Rl!ListStep)
    BY <1>1, RingsNext
  <2>2. Listing(Rl!Memory') = p
    BY <2>1, ListingLemma
  <2>3. Rl!Items' = Listing(Rl!Memory')
    BY DEF Rl!Items, Rl!Contents, Listing
  <2> QED BY <2>1, <2>2, <2>3
<1>2. CASE UNCHANGED listVars
  <2>1. Rl!Memory' = Rl!Memory /\ Rl!Items' = Rl!Items
    BY <1>2 DEF listVars, Rl!Memory, Rl!Items, Rl!Contents
  <2> QED BY <2>1 DEF Rl!ListStep
<1> QED BY <1>1, <1>2

\* Which is why the properties of the walks hold.
LEMMA RingsSound ==
  ASSUME Rl!RlistAssumption, Holds(Rl!Memory, Rl!Items)
  PROVE  Rl!TypeOK /\ Rl!WellLinked
<1>1. Linked(Rl!Memory)
  BY DEF Holds
<1>2. Rl!TypeOK /\ \A c \in Rl!Cell : prev[next[c]] = c /\ next[prev[c]] = c
  BY <1>1 DEF Linked, Rl!TypeOK, Rl!Memory
<1>3. \A l \in List : Rl!Contents(l) = Rl!Items[l]
  BY DEF Rl!Items
<1>4. \A l, m \in List :
       Rl!rlist_equal(Rl!Memory, l, m) <=>
         [k \in DOMAIN Rl!Contents(l) |-> key[Rl!Contents(l)[k]]]
           = [k \in DOMAIN Rl!Contents(m) |-> key[Rl!Contents(m)[k]]]
  <2> HIDE DEF Rl!Items
  <2> QED BY <1>3, EqualLemma
<1>5. ASSUME NEW l \in List, NEW x \in Node, NEW y, y = Rl!rlist_find(Rl!Memory, l, key[x], l)
      PROVE  IF \E k \in DOMAIN Rl!Contents(l) : key[Rl!Contents(l)[k]] = key[x]
             THEN y \in Node /\ key[y] = key[x]
             ELSE y = l
  BY <1>3, <1>5, FindLemma
<1> QED BY <1>2, <1>4, <1>5 DEF Rl!WellLinked

\* util.h: any number of lists in a memory of any size hold sequences of nodes, no
\* node in two places; every operation does to the sequences what it is for; and
\* rlist_equal and rlist_find tell what the sequences tell.
THEOREM ListsOfAnySize == TablesSpec => ListsWork
<1> DEFINE Inv == Holds(Rl!Memory, Rl!Items)
<1> USE TablesAssumption DEF TablesAssumption
<1>1. Rl!Init => Inv /\ Rl!Lists!Init
  <2> SUFFICES ASSUME Rl!Init
               PROVE  Inv /\ Rl!Lists!Init
    OBVIOUS
  <2>1. Holds(Rl!Memory, [l \in List |-> <<>>])
    BY RingsInit
  <2>2. Rl!Items = [l \in List |-> <<>>]
    BY <2>1, ListingLemma DEF Rl!Items, Rl!Contents, Listing
  <2> QED BY <2>1, <2>2 DEF Rl!Lists!Init
<1>2. Inv /\ [Rl!Next]_listVars => Inv' /\ Rl!ListStep
  BY RingsKept
<1>3. Inv => Rl!TypeOK /\ Rl!WellLinked
  BY RingsSound
<1> HIDE DEF Inv
<1>4. TablesInit => Inv /\ Rl!Lists!Init
  BY <1>1 DEF TablesInit
<1>5. Inv /\ [TablesNext]_tablesVars => Inv' /\ [part = "lists" => Rl!ListStep]_listVars
  <2> SUFFICES ASSUME Inv, [TablesNext]_tablesVars
               PROVE  [Rl!Next]_listVars
    BY <1>2
  <2> QED BY DEF TablesNext, tablesVars, listVars
<1>6. Inv => (part = "lists" => Rl!TypeOK /\ Rl!WellLinked)
  BY <1>3
<1> QED BY <1>4, <1>5, <1>6, PTL DEF TablesSpec, ListsWork

-----------------------------------------------------------------------------
(* The packing of arguments.  Its loops are recursive functions: LoopLemma *)
(* says what they are, and NatSteps is induction over their turns.         *)

Byte == Char \cup {0}

\* What argvlen and argvpack have after k strings.
LEMMA PackLoops ==
  ASSUME NEW argv \in Seq(Seq(Char))
  PROVE  /\ Ar!Lengths(argv) \in [0 .. Len(argv) -> Nat]
         /\ Ar!Lengths(argv)[0] = 0
         /\ \A k \in 1 .. Len(argv) :
              Ar!Lengths(argv)[k] = Ar!Lengths(argv)[k - 1] + Len(argv[k]) + 1
         /\ Ar!Packed(argv) \in [0 .. Len(argv) -> Seq(Byte)]
         /\ Ar!Packed(argv)[0] = <<>>
         /\ \A k \in 1 .. Len(argv) :
              Ar!Packed(argv)[k] = Ar!Packed(argv)[k - 1] \o Append(argv[k], 0)
<1> DEFINE n == Len(argv)
           L(f) == f = [k \in 0 .. n |-> IF k = 0 THEN 0 ELSE f[k - 1] + Len(argv[k]) + 1]
           P(f) == f = [k \in 0 .. n |-> IF k = 0 THEN <<>>
                                         ELSE f[k - 1] \o Append(argv[k], 0)]
           long == [k \in 1 .. n |-> [s \in Nat |-> s + Len(argv[k]) + 1]]
           pack == [k \in 1 .. n |-> [s \in Seq(Byte) |-> s \o Append(argv[k], 0)]]
<1>1. /\ n \in Nat
      /\ \A k \in 1 .. n : argv[k] \in Seq(Char) /\ Len(argv[k]) \in Nat
  OBVIOUS
<1>2. \A k \in 1 .. n : Append(argv[k], 0) \in Seq(Byte)
  BY <1>1 DEF Byte
<1>a. \A k \in 1 .. n : \A s \in Seq(Byte) : s \o Append(argv[k], 0) \in Seq(Byte)
  BY <1>2, ConcatProperties
<1>3. \A k \in 1 .. n : \A s \in Nat :
        long[k][s] = s + Len(argv[k]) + 1 /\ long[k][s] \in Nat
  BY <1>1
<1>4. \A k \in 1 .. n : \A s \in Seq(Byte) :
        pack[k][s] = s \o Append(argv[k], 0) /\ pack[k][s] \in Seq(Byte)
  BY <1>a
<1>5. /\ Ar!Lengths(argv) = CHOOSE f : L(f)
      /\ Ar!Packed(argv) = CHOOSE f : P(f)
  BY DEF Ar!Lengths, Ar!Packed, Ar!Copied
<1> HIDE DEF long, pack
<1>b. /\ \A k \in 1 .. n : \A s \in Nat : long[k][s] \in Nat
      /\ \A k \in 1 .. n : \A s \in Seq(Byte) : pack[k][s] \in Seq(Byte)
      /\ 0 \in Nat /\ <<>> \in Seq(Byte)
  BY <1>3, <1>4
<1> HIDE DEF n
<1>6. L(Ar!Lengths(argv)) /\ Ar!Lengths(argv) \in [0 .. n -> Nat]
  <2>1. PICK f : /\ f = [k \in 0 .. n |-> IF k = 0 THEN 0 ELSE long[k][f[k - 1]]]
                 /\ f \in [0 .. n -> Nat]
    BY <1>1, <1>b, LoopLemma
  <2>2. L(f)
    <3>1. \A k \in 1 .. n : f[k - 1] \in Nat
      BY <2>1, <1>1
    <3>2. \A k \in 0 .. n : (IF k = 0 THEN 0 ELSE long[k][f[k - 1]])
                           = IF k = 0 THEN 0 ELSE f[k - 1] + Len(argv[k]) + 1
      <4>1. \A k \in 0 .. n : k # 0 => k \in 1 .. n
        BY <1>1
      <4> QED BY <3>1, <4>1, <1>3
    <3> QED BY <2>1, <3>2
  <2> HIDE DEF L
  <2>3. L(Ar!Lengths(argv))
    BY <2>2, <1>5
  <2> DEFINE g == Ar!Lengths(argv)
             T == {k \in 0 .. n : g[k] \in Nat}
  <2>4. g = [k \in 0 .. n |-> IF k = 0 THEN 0 ELSE g[k - 1] + Len(argv[k]) + 1]
    BY <2>3 DEF L
  <2> HIDE DEF g
  <2>5. \A k \in 0 .. n : k \in T
    <3>1. 0 \in T
      BY <2>4, <1>1
    <3>2. ASSUME NEW k \in 1 .. n, k - 1 \in T
          PROVE  k \in T
      BY <2>4, <1>1, <3>2
    <3> HIDE DEF T
    <3> QED BY <3>1, <3>2, <1>1, NatSteps
  <2>6. g \in [0 .. n -> Nat]
    BY <2>4, <2>5
  <2> QED BY <2>3, <2>6 DEF g
<1>7. P(Ar!Packed(argv)) /\ Ar!Packed(argv) \in [0 .. n -> Seq(Byte)]
  <2>1. PICK f : /\ f = [k \in 0 .. n |-> IF k = 0 THEN <<>> ELSE pack[k][f[k - 1]]]
                 /\ f \in [0 .. n -> Seq(Byte)]
    BY <1>1, <1>b, LoopLemma
  <2>2. P(f)
    <3>1. \A k \in 1 .. n : f[k - 1] \in Seq(Byte)
      BY <2>1, <1>1
    <3>2. \A k \in 0 .. n : (IF k = 0 THEN <<>> ELSE pack[k][f[k - 1]])
                           = IF k = 0 THEN <<>> ELSE f[k - 1] \o Append(argv[k], 0)
      <4>1. \A k \in 0 .. n : k # 0 => k \in 1 .. n
        BY <1>1
      <4> QED BY <3>1, <4>1, <1>4
    <3> QED BY <2>1, <3>2
  <2> HIDE DEF P
  <2>3. P(Ar!Packed(argv))
    BY <2>2, <1>5
  <2> DEFINE g == Ar!Packed(argv)
             T == {k \in 0 .. n : g[k] \in Seq(Byte)}
  <2>4. g = [k \in 0 .. n |-> IF k = 0 THEN <<>> ELSE g[k - 1] \o Append(argv[k], 0)]
    BY <2>3 DEF P
  <2> HIDE DEF g
  <2>5. \A k \in 0 .. n : k \in T
    <3>1. 0 \in T
      BY <2>4, <1>1
    <3>2. ASSUME NEW k \in 1 .. n, k - 1 \in T
          PROVE  k \in T
      <4>1. g[k - 1] \in Seq(Byte) /\ k \in 0 .. n /\ k # 0
        BY <3>2, <1>1
      <4>2. g[k] = g[k - 1] \o Append(argv[k], 0)
        BY <2>4, <4>1
      <4> QED BY <1>a, <4>1, <4>2
    <3> HIDE DEF T
    <3> QED BY <3>1, <3>2, <1>1, NatSteps
  <2>6. g \in [0 .. n -> Seq(Byte)]
    BY <2>4, <2>5
  <2> QED BY <2>3, <2>6 DEF g
<1>8. /\ Ar!Lengths(argv)[0] = 0
      /\ \A k \in 1 .. n : Ar!Lengths(argv)[k] = Ar!Lengths(argv)[k - 1] + Len(argv[k]) + 1
  <2> DEFINE g == Ar!Lengths(argv)
  <2>1. g = [k \in 0 .. n |-> IF k = 0 THEN 0 ELSE g[k - 1] + Len(argv[k]) + 1]
    BY <1>6
  <2> HIDE DEF g
  <2>2. g[0] = 0 /\ \A k \in 1 .. n : g[k] = g[k - 1] + Len(argv[k]) + 1
    BY <2>1, <1>1
  <2> QED BY <2>2 DEF g
<1>9. /\ Ar!Packed(argv)[0] = <<>>
      /\ \A k \in 1 .. n : Ar!Packed(argv)[k] = Ar!Packed(argv)[k - 1] \o Append(argv[k], 0)
  <2> DEFINE g == Ar!Packed(argv)
  <2>1. g = [k \in 0 .. n |-> IF k = 0 THEN <<>> ELSE g[k - 1] \o Append(argv[k], 0)]
    BY <1>7
  <2> HIDE DEF g
  <2>2. g[0] = <<>> /\ \A k \in 1 .. n : g[k] = g[k - 1] \o Append(argv[k], 0)
    BY <2>1, <1>1
  <2> QED BY <2>2 DEF g
<1> QED BY <1>6, <1>7, <1>8, <1>9 DEF n

\* The ends of the strings ascend, and every byte of the buffer is in one string.
LEMMA Ascending ==
  ASSUME NEW n \in Nat, NEW E \in [0 .. n -> Nat], E[0] = 0,
         \A k \in 1 .. n : E[k - 1] < E[k]
  PROVE  /\ \A j, k \in 0 .. n : j < k => E[j] < E[k]
         /\ \A p \in 1 .. E[n] : \E k \in 1 .. n : E[k - 1] < p /\ p <= E[k]
<1>1. \A j, k \in 0 .. n : j < k => E[j] < E[k]
  <2> DEFINE T == {k \in 0 .. n : \A j \in 0 .. k : j < k => E[j] < E[k]}
  <2>1. 0 \in T
    OBVIOUS
  <2>2. ASSUME NEW k \in 1 .. n, k - 1 \in T
        PROVE  k \in T
    <3> SUFFICES ASSUME NEW j \in 0 .. k, j < k
                 PROVE  E[j] < E[k]
      OBVIOUS
    <3>1. /\ j \in 0 .. k - 1 /\ j \in 0 .. n /\ k - 1 \in 0 .. n /\ k \in 0 .. n
          /\ E[j] \in Nat /\ E[k - 1] \in Nat /\ E[k] \in Nat
      OBVIOUS
    <3>2. E[j] <= E[k - 1]
      <4>1. CASE j = k - 1
        BY <4>1, <3>1
      <4>2. CASE j # k - 1
        BY <4>2, <3>1, <2>2
      <4> QED BY <4>1, <4>2
    <3> QED BY <3>1, <3>2
  <2> HIDE DEF T
  <2>3. \A k \in 0 .. n : k \in T
    BY <2>1, <2>2, NatSteps
  <2> QED BY <2>3 DEF T
<1>2. ASSUME NEW p \in 1 .. E[n]
      PROVE  \E k \in 1 .. n : E[k - 1] < p /\ p <= E[k]
  <2> DEFINE U == {k \in 0 .. n : p <= E[k]}
  <2>1. U \in SUBSET Nat /\ n \in U
    BY <1>2
  <2>2. PICK k \in U : \A j \in U : k <= j
    <3> HIDE DEF U
    <3> QED BY <2>1, LeastNat
  <2>3. k # 0 /\ k - 1 \in 0 .. n /\ k - 1 \notin U
    BY <2>2
  <2> QED BY <2>2, <2>3
<1> QED BY <1>1, <1>2

\* The buffer of argvpack: every string, and a zero after it.
LEMMA Layout ==
  ASSUME NEW argv \in Seq(Seq(Char))
  PROVE  /\ Ar!argvpack(argv) \in Seq(Byte)
         /\ Len(Ar!argvpack(argv)) = Ar!Lengths(argv)[Len(argv)]
         /\ \A k \in 1 .. Len(argv) :
              /\ Ar!argvpack(argv)[Ar!Lengths(argv)[k]] = 0
              /\ \A i \in 1 .. Len(argv[k]) :
                   Ar!argvpack(argv)[Ar!Lengths(argv)[k - 1] + i] = argv[k][i]
<1> DEFINE n == Len(argv)
           E == Ar!Lengths(argv)
           B == Ar!Packed(argv)
           T == {k \in 0 .. n :
                   /\ Len(B[k]) = E[k]
                   /\ \A j \in 1 .. k :
                        /\ B[k][E[j]] = 0
                        /\ \A i \in 1 .. Len(argv[j]) : B[k][E[j - 1] + i] = argv[j][i]}
<1>1. /\ n \in Nat
      /\ \A k \in 1 .. n : argv[k] \in Seq(Char) /\ Len(argv[k]) \in Nat
  OBVIOUS
<1>2. /\ E \in [0 .. n -> Nat] /\ E[0] = 0
      /\ \A k \in 1 .. n : E[k] = E[k - 1] + Len(argv[k]) + 1
      /\ B \in [0 .. n -> Seq(Byte)] /\ B[0] = <<>>
      /\ \A k \in 1 .. n : B[k] = B[k - 1] \o Append(argv[k], 0)
  BY PackLoops
<1> HIDE DEF n, E, B
<1>3. \A k \in 1 .. n : E[k - 1] \in Nat /\ E[k] \in Nat /\ E[k - 1] < E[k]
  <2> SUFFICES ASSUME NEW k \in 1 .. n
               PROVE  E[k - 1] \in Nat /\ E[k] \in Nat /\ E[k - 1] < E[k]
    OBVIOUS
  <2>1. k \in 0 .. n /\ k - 1 \in 0 .. n /\ Len(argv[k]) \in Nat
    BY <1>1
  <2>2. E[k - 1] \in Nat /\ E[k] = E[k - 1] + Len(argv[k]) + 1
    BY <1>2, <2>1
  <2> QED BY <2>1, <2>2
<1>4. \A j, k \in 0 .. n : j < k => E[j] < E[k]
  BY <1>1, <1>2, <1>3, Ascending
<1>5. 0 \in T
  <2>1. B[0] = <<>> /\ Len(B[0]) = E[0] /\ 0 \in 0 .. n
    <3>1. Len(<<>>) = 0
      OBVIOUS
    <3>2. B[0] = <<>> /\ E[0] = 0
      BY <1>2
    <3>3. 0 \in 0 .. n
      BY <1>1
    <3> QED BY <3>1, <3>2, <3>3, Zenon
  <2>2. \A j \in 1 .. 0 : FALSE
    OBVIOUS
  <2> QED BY <2>1, <2>2
<1>6. ASSUME NEW k \in 1 .. n, k - 1 \in T
      PROVE  k \in T
  <2> DEFINE c == Append(argv[k], 0)
             b == B[k - 1]
             l == Len(argv[k])
  <2>1. /\ k - 1 \in 0 .. n /\ k \in 0 .. n /\ k \in Nat
        /\ argv[k] \in Seq(Byte) /\ l \in Nat /\ 0 \in Byte
    BY <1>1 DEF Byte
  <2>2. /\ c \in Seq(Byte) /\ Len(c) = l + 1 /\ c[l + 1] = 0
        /\ \A i \in 1 .. l : c[i] = argv[k][i]
    BY <2>1, AppendProperties
  <2>3. b \in Seq(Byte) /\ Len(b) = E[k - 1] /\ E[k - 1] \in Nat /\ B[k] = b \o c
    BY <1>2, <1>6, <2>1
  <2>4. E[k] = E[k - 1] + l + 1
    BY <1>2
  <2> HIDE DEF b, c, l
  <2>5. /\ Len(B[k]) = Len(b) + Len(c)
        /\ \A i \in 1 .. Len(b) + Len(c) :
             B[k][i] = IF i <= Len(b) THEN b[i] ELSE c[i - Len(b)]
    <3>1. /\ Len(b \o c) = Len(b) + Len(c)
          /\ \A i \in 1 .. Len(b) + Len(c) :
               (b \o c)[i] = IF i <= Len(b) THEN b[i] ELSE c[i - Len(b)]
      BY <2>2, <2>3, ConcatProperties
    <3> QED BY <3>1, <2>3
  <2>6. Len(B[k]) = E[k]
    BY <2>1, <2>2, <2>3, <2>4, <2>5
  <2>7. B[k][E[k]] = 0
    <3>1. /\ E[k] \in 1 .. Len(b) + Len(c) /\ ~(E[k] <= Len(b))
          /\ E[k] - Len(b) = l + 1
      BY <2>1, <2>2, <2>3, <2>4
    <3>2. B[k][E[k]] = c[E[k] - Len(b)]
      BY <3>1, <2>5
    <3> QED BY <3>1, <3>2, <2>2
  <2>8. \A i \in 1 .. l : B[k][E[k - 1] + i] = argv[k][i]
    <3> SUFFICES ASSUME NEW i \in 1 .. l
                 PROVE  B[k][E[k - 1] + i] = argv[k][i]
      OBVIOUS
    <3>1. PICK p \in Nat : p = E[k - 1] + i
      BY <2>3
    <3>2. p \in 1 .. Len(b) + Len(c) /\ ~(p <= Len(b)) /\ p - Len(b) = i
      BY <3>1, <2>1, <2>2, <2>3
    <3>3. B[k][p] = c[i]
      BY <3>2, <2>5
    <3> QED BY <3>1, <3>3, <2>2
  <2>9. ASSUME NEW j \in 1 .. k - 1
        PROVE  /\ B[k][E[j]] = 0
               /\ \A i \in 1 .. Len(argv[j]) : B[k][E[j - 1] + i] = argv[j][i]
    <3>1. /\ j \in 1 .. n /\ j \in 0 .. n /\ j <= k - 1 /\ E[j] \in Nat /\ E[j - 1] \in Nat
          /\ E[j] = E[j - 1] + Len(argv[j]) + 1 /\ Len(argv[j]) \in Nat
      <4>1. j \in 1 .. n /\ j \in 0 .. n /\ j - 1 \in 0 .. n /\ j <= k - 1
        BY <1>1, <2>1
      <4> QED BY <4>1, <1>1, <1>2
    <3>2. E[j] <= E[k - 1]
      BY <3>1, <2>1, <2>3, <1>4
    <3>3. \A i \in 1 .. E[j] : B[k][i] = b[i]
      BY <3>1, <3>2, <2>1, <2>2, <2>3, <2>5
    <3>4. /\ b[E[j]] = 0
          /\ \A i \in 1 .. Len(argv[j]) : b[E[j - 1] + i] = argv[j][i]
      BY <1>6 DEF b
    <3>5. E[j] \in 1 .. E[j] /\ \A i \in 1 .. Len(argv[j]) : E[j - 1] + i \in 1 .. E[j]
      BY <3>1
    <3> QED BY <3>3, <3>4, <3>5
  <2>10. \A j \in 1 .. k : j = k \/ j \in 1 .. k - 1
    BY <2>1
  <2> QED BY <2>1, <2>6, <2>7, <2>8, <2>9, <2>10 DEF l
<1> HIDE DEF T
<1>7. n \in T
  <2>1. \A k \in 0 .. n : k \in T
    BY <1>1, <1>5, <1>6, NatSteps
  <2> QED BY <2>1, <1>1
<1>8. Ar!argvpack(argv) = B[n] /\ B[n] \in Seq(Byte)
  <2>1. n \in 0 .. n
    BY <1>1
  <2> QED BY <2>1, <1>2 DEF Ar!argvpack, B, n
<1> QED BY <1>7, <1>8 DEF T, n, E

\* The zeros of the buffer are the ends of its strings.
LEMMA ZerosLemma ==
  ASSUME 0 \notin Char, NEW argv \in Seq(Seq(Char))
  PROVE  /\ \A p \in 1 .. Len(Ar!argvpack(argv)) :
              Ar!argvpack(argv)[p] = 0 <=> \E k \in 1 .. Len(argv) : p = Ar!Lengths(argv)[k]
         /\ \A k \in 1 .. Len(argv) :
              Ar!Zero(Ar!argvpack(argv), Ar!Lengths(argv)[k - 1] + 1) = Ar!Lengths(argv)[k]
<1> DEFINE n == Len(argv)
           E == Ar!Lengths(argv)
           buf == Ar!argvpack(argv)
<1>1. /\ n \in Nat
      /\ \A k \in 1 .. n : Len(argv[k]) \in Nat
                           /\ \A i \in 1 .. Len(argv[k]) : argv[k][i] \in Char
  OBVIOUS
<1>2. /\ E \in [0 .. n -> Nat] /\ E[0] = 0
      /\ \A k \in 1 .. n : E[k] = E[k - 1] + Len(argv[k]) + 1
  BY PackLoops
<1>3. /\ buf \in Seq(Byte) /\ Len(buf) = E[n]
      /\ \A k \in 1 .. n : /\ buf[E[k]] = 0
                           /\ \A i \in 1 .. Len(argv[k]) : buf[E[k - 1] + i] = argv[k][i]
  BY Layout
<1> HIDE DEF n, E, buf
<1>4. \A k \in 1 .. n : /\ E[k - 1] \in Nat /\ E[k] \in Nat /\ E[k - 1] < E[k]
                        /\ E[k] = E[k - 1] + Len(argv[k]) + 1 /\ Len(argv[k]) \in Nat
  <2> SUFFICES ASSUME NEW k \in 1 .. n
               PROVE  /\ E[k - 1] \in Nat /\ E[k] \in Nat /\ E[k - 1] < E[k]
                      /\ E[k] = E[k - 1] + Len(argv[k]) + 1 /\ Len(argv[k]) \in Nat
    OBVIOUS
  <2>1. k \in 0 .. n /\ k - 1 \in 0 .. n /\ Len(argv[k]) \in Nat
    BY <1>1
  <2>2. E[k - 1] \in Nat /\ E[k] = E[k - 1] + Len(argv[k]) + 1
    BY <1>2, <2>1
  <2> QED BY <2>1, <2>2
<1>5. /\ \A j, k \in 0 .. n : j < k => E[j] < E[k]
      /\ \A p \in 1 .. E[n] : \E k \in 1 .. n : E[k - 1] < p /\ p <= E[k]
  BY <1>1, <1>2, <1>4, Ascending
<1>6. ASSUME NEW k \in 1 .. n, NEW p \in Nat, E[k - 1] < p, p < E[k]
      PROVE  buf[p] # 0
  <2>1. PICK i \in Nat : i = p - E[k - 1]
    BY <1>4, <1>6
  <2>2. i \in 1 .. Len(argv[k]) /\ p = E[k - 1] + i
    BY <2>1, <1>4, <1>6
  <2>3. buf[p] = argv[k][i] /\ argv[k][i] \in Char
    BY <2>2, <1>1, <1>3
  <2> QED BY <2>3
<1>7. ASSUME NEW p \in 1 .. Len(buf)
      PROVE  buf[p] = 0 <=> \E k \in 1 .. n : p = E[k]
  <2>1. PICK k \in 1 .. n : E[k - 1] < p /\ p <= E[k]
    BY <1>3, <1>5
  <2>2. p \in Nat
    BY <1>3
  <2>3. buf[p] = 0 => p = E[k]
    BY <2>1, <2>2, <1>4, <1>6
  <2> QED BY <2>3, <1>3
<1>8. ASSUME NEW k \in 1 .. n
      PROVE  Ar!Zero(buf, E[k - 1] + 1) = E[k]
  <2>1. E[k] <= E[n] /\ E[n] \in Nat
    <3>1. k \in 0 .. n /\ n \in 0 .. n
      BY <1>1
    <3>2. k = n \/ k < n
      BY <1>1
    <3> QED BY <3>1, <3>2, <1>2, <1>4, <1>5
  <2> DEFINE First(j) == buf[j] = 0 /\ \A h \in E[k - 1] + 1 .. j - 1 : buf[h] # 0
  <2>2. E[k] \in E[k - 1] + 1 .. Len(buf)
    BY <2>1, <1>3, <1>4
  <2>3. First(E[k])
    <3>1. \A h \in E[k - 1] + 1 .. E[k] - 1 : h \in Nat /\ E[k - 1] < h /\ h < E[k]
      BY <1>4
    <3> QED BY <3>1, <1>3, <1>6
  <2>4. ASSUME NEW j \in E[k - 1] + 1 .. Len(buf), First(j)
        PROVE  j = E[k]
    <3>1. j \in Nat /\ E[k] \in Nat /\ E[k - 1] \in Nat /\ E[k - 1] < j /\ E[k - 1] < E[k]
      BY <2>4, <1>3, <1>4, <2>1
    <3>2. ~(j < E[k])
      BY <3>1, <2>4, <1>6
    <3>3. ~(E[k] < j)
      <4>1. E[k] < j => E[k] \in E[k - 1] + 1 .. j - 1
        BY <3>1
      <4> QED BY <4>1, <2>4, <1>3
    <3> QED BY <3>1, <3>2, <3>3
  <2>5. Ar!Zero(buf, E[k - 1] + 1) = CHOOSE j \in E[k - 1] + 1 .. Len(buf) : First(j)
    BY DEF Ar!Zero
  <2> HIDE DEF First
  <2> QED BY <2>2, <2>3, <2>4, <2>5
<1> QED BY <1>7, <1>8 DEF n, E, buf

\* argscount finds as many strings as were packed.
LEMMA StringsLemma ==
  ASSUME 0 \notin Char, NEW argv \in Seq(Seq(Char))
  PROVE  Ar!argscount(Ar!argvpack(argv)) = Len(argv)
<1> DEFINE n == Len(argv)
           E == Ar!Lengths(argv)
           buf == Ar!argvpack(argv)
           Z == {i \in DOMAIN buf : buf[i] = 0}
           end == [k \in 1 .. n |-> E[k]]
<1>1. n \in Nat
  OBVIOUS
<1>2. buf \in Seq(Byte) /\ Len(buf) = E[n]
  BY Layout
<1>3. \A p \in 1 .. Len(buf) : buf[p] = 0 <=> \E k \in 1 .. n : p = E[k]
  BY ZerosLemma
<1>4. /\ E \in [0 .. n -> Nat] /\ E[0] = 0
      /\ \A k \in 1 .. n : E[k - 1] < E[k]
  <2>1. \A k \in 1 .. n : /\ Len(argv[k]) \in Nat /\ k - 1 \in 0 .. n
    OBVIOUS
  <2>2. /\ E \in [0 .. n -> Nat] /\ E[0] = 0
        /\ \A k \in 1 .. n : E[k] = E[k - 1] + Len(argv[k]) + 1
    BY PackLoops
  <2> HIDE DEF n, E
  <2>3. ASSUME NEW k \in 1 .. n
        PROVE  E[k - 1] < E[k]
    <3>1. E[k - 1] \in Nat /\ E[k] = E[k - 1] + Len(argv[k]) + 1
      BY <2>1, <2>2
    <3> QED BY <3>1, <2>1
  <2> QED BY <2>2, <2>3
<1>5. DOMAIN buf = 1 .. Len(buf)
  BY <1>2
<1>6. Ar!argscount(buf) = Cardinality(Z)
  BY DEF Ar!argscount, Ar!Cardinality, Cardinality
<1> HIDE DEF n, E, buf
<1>7. \A j, k \in 0 .. n : j < k => E[j] < E[k]
  BY <1>1, <1>4, Ascending
<1>8. \A k \in 1 .. n : E[k] \in 1 .. Len(buf) /\ E[k] \in Nat
  <2> SUFFICES ASSUME NEW k \in 1 .. n
               PROVE  E[k] \in 1 .. Len(buf) /\ E[k] \in Nat
    OBVIOUS
  <2>1. 0 \in 0 .. n /\ k \in 0 .. n /\ n \in 0 .. n /\ 0 < k /\ (k < n \/ k = n)
    BY <1>1
  <2>2. E[0] < E[k] /\ (E[k] < E[n] \/ E[k] = E[n]) /\ E[k] \in Nat /\ E[n] \in Nat
    BY <2>1, <1>4, <1>7
  <2> QED BY <2>2, <1>2, <1>4
<1>9. Z = {E[k] : k \in 1 .. n}
  BY <1>3, <1>5, <1>8
<1>10. end \in Bijection(1 .. n, Z)
  <2>1. end \in Surjection(1 .. n, Z)
    BY <1>9 DEF Surjection
  <2>2. end \in Injection(1 .. n, Z)
    <3>1. \A j, k \in 1 .. n : E[j] = E[k] => j = k
      BY <1>1, <1>7, <1>8
    <3>2. end \in [1 .. n -> Z]
      BY <1>9
    <3> QED BY <3>1, <3>2 DEF Injection, IsInjective
  <2> QED BY <2>1, <2>2 DEF Bijection
<1>11. IsFiniteSet(1 .. n) /\ Cardinality(1 .. n) = n
  BY <1>1, FS_Interval
<1>12. Cardinality(Z) = n
  <2> HIDE DEF Z, end
  <2>1. ExistsBijection(1 .. n, Z)
    BY <1>10 DEF ExistsBijection
  <2> QED BY <2>1, <1>11, FS_Bijection
<1> QED BY <1>6, <1>12 DEF n, buf

\* argvunpack finds the strings that argvpack has put there.
LEMMA UnpackLemma ==
  ASSUME 0 \notin Char, NEW argv \in Seq(Seq(Char)), NEW argc \in 0 .. Len(argv)
  PROVE  Ar!argvunpack(argc, Ar!argvpack(argv)) = [k \in 1 .. argc |-> argv[k]]
<1> DEFINE n == Len(argv)
           E == Ar!Lengths(argv)
           buf == Ar!argvpack(argv)
           S(f) == f = [k \in 1 .. argc |-> IF k = 1 THEN 1 ELSE Ar!Zero(buf, f[k - 1]) + 1]
           start == Ar!Starts(argc, buf)
           T == {k \in 0 .. argc : k # 0 => start[k] = E[k - 1] + 1}
<1>1. n \in Nat /\ argc \in 0 .. n /\ \A k \in 1 .. n : argv[k] \in Seq(Char)
  OBVIOUS
<1>2. /\ E \in [0 .. n -> Nat] /\ E[0] = 0
      /\ \A k \in 1 .. n : E[k] = E[k - 1] + Len(argv[k]) + 1
  BY PackLoops
<1>3. /\ buf \in Seq(Byte) /\ Len(buf) = E[n]
      /\ \A k \in 1 .. n : \A i \in 1 .. Len(argv[k]) : buf[E[k - 1] + i] = argv[k][i]
  BY Layout
<1>4. \A k \in 1 .. n : Ar!Zero(buf, E[k - 1] + 1) = E[k]
  BY ZerosLemma
<1>5. start = CHOOSE f : S(f)
  BY DEF Ar!Starts
<1>6. Ar!argvunpack(argc, buf) =
        [k \in 1 .. argc |-> SubSeq(buf, start[k], Ar!Zero(buf, start[k]) - 1)]
  BY DEF Ar!argvunpack
<1> HIDE DEF n, E, buf, start
<1>7. S(start)
  <2> DEFINE g == [k \in 1 .. argc |-> E[k - 1] + 1]
  <2>1. S(g)
    <3>1. ASSUME NEW k \in 1 .. argc
          PROVE  E[k - 1] + 1 = IF k = 1 THEN 1 ELSE Ar!Zero(buf, g[k - 1]) + 1
      <4>1. CASE k = 1
        BY <4>1, <1>2
      <4>2. CASE k # 1
        <5>1. k - 1 \in 1 .. argc /\ k - 1 \in 1 .. n
          BY <4>2, <1>1
        <5>2. g[k - 1] = E[k - 1 - 1] + 1
          BY <5>1
        <5>3. Ar!Zero(buf, g[k - 1]) = E[k - 1]
          BY <5>1, <5>2, <1>4
        <5> QED BY <4>2, <5>3
      <4> QED BY <4>1, <4>2
    <3>2. g = [k \in 1 .. argc |-> IF k = 1 THEN 1 ELSE Ar!Zero(buf, g[k - 1]) + 1]
      BY <3>1
    <3> QED BY <3>2
  <2> HIDE DEF S, g
  <2> QED BY <2>1, <1>5
<1>8. \A k \in 1 .. argc : start[k] = IF k = 1 THEN 1 ELSE Ar!Zero(buf, start[k - 1]) + 1
  BY <1>7
<1>9. ASSUME NEW k \in 1 .. argc, k - 1 \in T
      PROVE  k \in T
  <2>1. CASE k = 1
    BY <2>1, <1>2, <1>8
  <2>2. CASE k # 1
    <3>1. k - 1 \in 1 .. argc /\ k - 1 \in 1 .. n
      BY <2>2, <1>1
    <3>2. start[k - 1] = E[k - 1 - 1] + 1
      BY <1>9, <3>1
    <3>3. Ar!Zero(buf, start[k - 1]) = E[k - 1]
      BY <3>1, <3>2, <1>4
    <3>4. start[k] = E[k - 1] + 1
      BY <2>2, <3>3, <1>8
    <3> QED BY <3>4
  <2> QED BY <2>1, <2>2
<1>10. \A k \in 0 .. argc : k \in T
  <2>1. 0 \in T /\ argc \in Nat
    BY <1>1
  <2> HIDE DEF T
  <2> QED BY <2>1, <1>9, NatSteps
<1>11. ASSUME NEW k \in 1 .. argc
       PROVE  SubSeq(buf, start[k], Ar!Zero(buf, start[k]) - 1) = argv[k]
  <2> DEFINE l == Len(argv[k])
  <2>1. k \in 1 .. n /\ k \in 0 .. n /\ k - 1 \in 0 .. n /\ k # 0 /\ k \in 0 .. argc
    BY <1>1
  <2>2. argv[k] \in Seq(Char) /\ l \in Nat
    BY <2>1, <1>1
  <2>3. start[k] = E[k - 1] + 1 /\ Ar!Zero(buf, start[k]) = E[k]
    BY <2>1, <1>4, <1>10
  <2>4. E[k - 1] \in Nat /\ E[k] = E[k - 1] + l + 1
    BY <2>1, <1>2
  <2>5. \A i \in 1 .. l : buf[E[k - 1] + i] = argv[k][i] /\ argv[k][i] \in Char
    BY <2>1, <2>2, <1>3
  <2> HIDE DEF l
  <2>6. PICK a \in Nat : a = E[k - 1]
    BY <2>4
  <2>7. \A i \in a + 1 .. a + l : buf[i] \in Char
    <3> SUFFICES ASSUME NEW i \in a + 1 .. a + l
                 PROVE  buf[i] \in Char
      OBVIOUS
    <3>1. i - a \in 1 .. l /\ a + (i - a) = i
      BY <2>2
    <3> QED BY <3>1, <2>5, <2>6
  <2> DEFINE s == SubSeq(buf, a + 1, a + l)
  <2>8. a + 1 \in Int /\ a + l \in Int
    BY <2>2
  <2> HIDE DEF s
  <2>9. s \in Seq(Char) /\ Len(s) = l /\ \A i \in 1 .. l : s[i] = buf[a + i]
    <3>1. PICK b \in Int, c \in Int : b = a + 1 /\ c = a + l
      BY <2>8
    <3>2. \A i \in b .. c : buf[i] \in Char
      BY <2>7, <3>1
    <3> DEFINE r == SubSeq(buf, b, c)
    <3>3. /\ r \in Seq(Char) /\ Len(r) = (IF b <= c THEN c - b + 1 ELSE 0)
          /\ \A i \in 1 .. c - b + 1 : r[i] = buf[b + i - 1]
      BY <3>2, SubSeqProperties
    <3>4. s = r
      BY <3>1 DEF s
    <3> HIDE DEF r
    <3>5. c - b + 1 = l /\ (b <= c <=> l # 0)
      BY <3>1, <2>2
    <3>6. Len(r) = l
      BY <3>3, <3>5
    <3>7. ASSUME NEW i \in 1 .. l
          PROVE  r[i] = buf[a + i]
      <4>1. i \in 1 .. c - b + 1 /\ b + i - 1 = a + i
        BY <3>1, <3>5
      <4> QED BY <4>1, <3>3
    <3> QED BY <3>3, <3>4, <3>6, <3>7
  <2>10. \A i \in 1 .. l : s[i] = argv[k][i]
    BY <2>5, <2>6, <2>9
  <2>11. s = argv[k]
    BY <2>2, <2>9, <2>10, SeqEqual DEF l
  <2>12. start[k] = a + 1 /\ Ar!Zero(buf, start[k]) - 1 = a + l
    BY <2>2, <2>3, <2>4, <2>6
  <2> QED BY <2>11, <2>12 DEF s
<1> QED BY <1>6, <1>11 DEF buf

\* The buffer of a process is what argvpack made of the arguments of Execute.
ArgsInv ==
  /\ given \in Seq(Seq(Char))
  /\ args # <<>> => args = <<"prog">> \o Ar!argvpack(given)
  /\ Ar!ArgsArrive

LEMMA BufferLemma ==
  ASSUME NEW argv \in Seq(Seq(Char))
  PROVE  LET a == <<"prog">> \o Ar!argvpack(argv)
         IN  a # <<>> /\ Len(a) = Ar!argvlen(argv) + 1 /\ Tail(a) = Ar!argvpack(argv)
<1> DEFINE b == Ar!argvpack(argv)
           a == <<"prog">> \o b
           Mixed == Byte \cup {"prog"}
<1>1. b \in Seq(Byte) /\ Len(b) = Ar!argvlen(argv)
  BY Layout DEF Ar!argvlen
<1>2. b \in Seq(Mixed) /\ <<"prog">> \in Seq(Mixed)
  BY <1>1
<1> HIDE DEF b, Mixed
<1>3. /\ a \in Seq(Mixed) /\ Len(a) = 1 + Len(b)
      /\ \A i \in 1 .. 1 + Len(b) : a[i] = IF i <= 1 THEN "prog" ELSE b[i - 1]
  BY <1>2, ConcatProperties
<1> HIDE DEF a
<1>4. a # <<>> /\ Len(b) \in Nat
  BY <1>2, <1>3
<1>5. /\ Tail(a) \in Seq(Mixed) /\ Len(Tail(a)) = Len(b)
      /\ \A i \in 1 .. Len(b) : Tail(a)[i] = a[i + 1]
  BY <1>3, <1>4, HeadTailProperties
<1>6. \A i \in 1 .. Len(b) : Tail(a)[i] = b[i]
  BY <1>3, <1>4, <1>5
<1>7. Tail(a) = b
  BY <1>2, <1>5, <1>6, SeqEqual
<1> QED BY <1>1, <1>3, <1>4, <1>7 DEF a, b

LEMMA ArgsInit == Ar!Init => ArgsInv
<1> SUFFICES ASSUME Ar!Init PROVE ArgsInv
  OBVIOUS
<1>1. given \in Seq(Seq(Char))
  <2>1. PICK k \in 0 .. MaxArgs : given \in [1 .. k -> Ar!Strings]
    BY DEF Ar!Init, Ar!Argv
  <2>2. Ar!Strings \subseteq Seq(Char)
    BY DEF Ar!Strings
  <2> QED BY <2>1, <2>2
<1> QED BY <1>1 DEF Ar!Init, ArgsInv, Ar!ArgsArrive

LEMMA ArgsNext == Ar!ArgsAssumption /\ ArgsInv /\ [Ar!Next]_argsVars => ArgsInv'
<1> SUFFICES ASSUME Ar!ArgsAssumption, ArgsInv, [Ar!Next]_argsVars
             PROVE  ArgsInv'
  OBVIOUS
<1> DEFINE buf == Tail(args)
<1>a. 0 \notin Char /\ PROCINFO_MAX_ARGS_SIZE \in Nat /\ MaxArgs \in Nat
  BY DEF Ar!ArgsAssumption
<1>1. /\ given' = given /\ given \in Seq(Seq(Char))
  BY DEF ArgsInv, Ar!Next, Ar!Execute, Ar!exec_wrapper, Ar!ParseProcInfo, argsVars
<1>2. args # <<>> => /\ args = <<"prog">> \o Ar!argvpack(given) /\ buf = Ar!argvpack(given)
                     /\ Len(args) = Ar!argvlen(given) + 1 /\ Ar!argvlen(given) \in Nat
                     /\ Ar!argscount(buf) = Len(given)
  <2>1. Ar!argvlen(given) \in Nat
    <3>1. Len(given) \in 0 .. Len(given)
      BY <1>1
    <3> QED BY <3>1, <1>1, PackLoops DEF Ar!argvlen
  <2> QED BY <1>1, <1>a, <2>1, BufferLemma, StringsLemma DEF ArgsInv
<1>3. CASE Ar!Execute
  <2>1. /\ args' = <<"prog">> \o Ar!argvpack(given)
        /\ called' = called /\ parsed' = parsed
    BY <1>3 DEF Ar!Execute
  <2>2. Len(args') = Ar!argvlen(given) + 1
    BY <1>1, <2>1, BufferLemma
  <2> QED BY <1>1, <2>1, <2>2 DEF ArgsInv, Ar!ArgsArrive
<1>4. CASE Ar!exec_wrapper
  <2>1. /\ args # <<>> /\ args' = args /\ parsed' = parsed
        /\ called' = {Ar!argvunpack(Ar!argscount(buf), buf)}
    BY <1>4 DEF Ar!exec_wrapper
  <2>2. Ar!argvunpack(Len(given), Ar!argvpack(given)) = [k \in 1 .. Len(given) |-> given[k]]
    BY <1>1, <1>a, UnpackLemma
  <2>3. given = [k \in 1 .. Len(given) |-> given[k]]
    BY <1>1
  <2>4. called' = {given}
    BY <1>2, <2>1, <2>2, <2>3
  <2> QED BY <1>1, <2>1, <2>4 DEF ArgsInv, Ar!ArgsArrive
<1>5. ASSUME NEW argc \in 0 .. MaxArgs, Ar!ParseProcInfo(argc)
      PROVE  ArgsInv'
  <2>1. /\ args # <<>> /\ args' = args /\ called' = called
        /\ parsed' = IF Len(args) > PROCINFO_MAX_ARGS_SIZE THEN {[n |-> -1, argv |-> <<>>]}
                     ELSE {[n |-> Ar!argscount(buf),
                            argv |-> Ar!argvunpack(IF argc > Ar!argscount(buf)
                                                THEN Ar!argscount(buf) ELSE argc, buf)]}
    BY <1>5 DEF Ar!ParseProcInfo
  <2>2. ASSUME NEW p \in parsed'
        PROVE  \/ p.n = -1 /\ Ar!argvlen(given) >= PROCINFO_MAX_ARGS_SIZE
               \/ p.n = Len(given) /\ Ar!IsPrefix(p.argv, given)
    <3>1. CASE Len(args) > PROCINFO_MAX_ARGS_SIZE
      <4>1. p = [n |-> -1, argv |-> <<>>]
        BY <3>1, <2>1
      <4>2. Ar!argvlen(given) + 1 > PROCINFO_MAX_ARGS_SIZE /\ Ar!argvlen(given) \in Nat
        BY <3>1, <1>2, <2>1
      <4> QED BY <4>1, <4>2, <1>a
    <3>2. CASE ~(Len(args) > PROCINFO_MAX_ARGS_SIZE)
      <4>1. PICK c \in 0 .. Len(given) : c = IF argc > Ar!argscount(buf)
                                             THEN Ar!argscount(buf) ELSE argc
        BY <1>1, <1>2, <1>a, <2>1
      <4>2. p.n = Len(given) /\ p.argv = [k \in 1 .. c |-> given[k]]
        <5>1. p = [n |-> Len(given), argv |-> Ar!argvunpack(c, Ar!argvpack(given))]
          BY <3>2, <4>1, <1>2, <2>1
        <5>2. Ar!argvunpack(c, Ar!argvpack(given)) = [k \in 1 .. c |-> given[k]]
          BY <1>1, <1>a, UnpackLemma
        <5> QED BY <5>1, <5>2
      <4>3. Ar!IsPrefix(p.argv, given)
        BY <4>1, <4>2, <1>1 DEF Ar!IsPrefix
      <4> QED BY <4>2, <4>3
    <3> QED BY <3>1, <3>2
  <2> QED BY <1>1, <2>1, <2>2 DEF ArgsInv, Ar!ArgsArrive
<1>6. CASE UNCHANGED argsVars
  BY <1>6 DEF argsVars, ArgsInv, Ar!ArgsArrive
<1> QED BY <1>3, <1>4, <1>5, <1>6 DEF Ar!Next

\* util.h:599-674 and tinyoslib.c:95-168: a program is called with the arguments
\* of Execute, whatever they are, and ParseProcInfo finds them.
THEOREM ArgumentsArrive == TablesSpec => []ArgsArrive
<1>1. TablesInit => ArgsInv
  BY ArgsInit DEF TablesInit
<1>2. ArgsInv /\ [TablesNext]_tablesVars => ArgsInv'
  <2>1. [TablesNext]_tablesVars => [Ar!Next]_argsVars
    BY DEF TablesNext, tablesVars, argsVars
  <2> QED BY <2>1, ArgsNext, TablesAssumption
<1>3. ArgsInv => ArgsArrive
  BY DEF ArgsInv, ArgsArrive
<1> QED BY <1>1, <1>2, <1>3, PTL DEF TablesSpec

=============================================================================
