---------------------------- MODULE QueueLemmas ----------------------------
(***************************************************************************)
(* Facts about the sequences that stand for the kernel's intrusive lists:  *)
(* what each list operation does to the set of elements and to the absence *)
(* of duplicates.  And facts about loops, as recursive functions of the    *)
(* number of turns.                                                        *)
(***************************************************************************)
EXTENDS Integers, SequencesExt, SequenceTheorems, WellFoundedInduction, TLAPS

\* Every inhabited set of natural numbers has a least element.
LEMMA LeastNat ==
  ASSUME NEW T \in SUBSET Nat, T # {}
  PROVE  \E m \in T : \A k \in T : m <= k
<1>1. \E x \in T : \A y \in T : ~(<<y, x>> \in OpToRel(<, Nat))
  BY NatLessThanWellFounded, WFMin, Zenon
<1>2. PICK x \in T : \A y \in T : ~(<<y, x>> \in OpToRel(<, Nat))
  BY <1>1, Zenon
<1>3. \A y \in T : <<y, x>> \in OpToRel(<, Nat) <=> y < x
  BY DEF OpToRel
<1>4. \A y \in T : ~(y < x)
  BY <1>2, <1>3, Zenon
<1> QED BY <1>4

\* Every inhabited set of natural numbers with an upper bound has a greatest
\* element.
LEMMA GreatestNat ==
  ASSUME NEW n \in Nat, NEW T \in SUBSET (0 .. n), T # {}
  PROVE  \E m \in T : \A k \in T : k <= m
<1> DEFINE U == {i \in 0 .. n : n - i \in T}
<1>1. PICK t \in T : TRUE
  OBVIOUS
<1>2. U \in SUBSET Nat /\ n - t \in U
  OBVIOUS
<1>3. PICK u \in U : \A k \in U : u <= k
  BY <1>2, LeastNat
<1>4. n - u \in T /\ \A k \in T : n - k \in U
  OBVIOUS
<1> QED BY <1>3, <1>4

\* Membership and absence of duplicates, position by position.
LEMMA Positions ==
  ASSUME NEW S, NEW s \in Seq(S)
  PROVE  /\ \A x : x \in Range(s) <=> \E i \in 1 .. Len(s) : s[i] = x
         /\ IsInjective(s) <=>
              \A i, j \in 1 .. Len(s) : s[i] = s[j] => i = j
<1>1. DOMAIN s = 1 .. Len(s)
  OBVIOUS
<1> QED BY <1>1, Zenon DEF Range, IsInjective

\* rlist_push_back.
LEMMA AppendLemma ==
  ASSUME NEW S, NEW s \in Seq(S), NEW e \in S
  PROVE  /\ Append(s, e) \in Seq(S)
         /\ Range(Append(s, e)) = Range(s) \cup {e}
         /\ IsInjective(s) /\ e \notin Range(s) => IsInjective(Append(s, e))
<1> DEFINE r == Append(s, e)
<1>1. /\ r \in Seq(S) /\ Len(r) = Len(s) + 1 /\ Len(s) \in Nat
      /\ \A i \in 1 .. Len(s) : r[i] = s[i]
      /\ r[Len(s) + 1] = e
  OBVIOUS
<1> HIDE DEF r
<1>2. /\ \A x : x \in Range(s) <=> \E i \in 1 .. Len(s) : s[i] = x
      /\ IsInjective(s) <=> \A i, j \in 1 .. Len(s) : s[i] = s[j] => i = j
  BY Positions
<1>3. /\ \A x : x \in Range(r) <=> \E i \in 1 .. Len(r) : r[i] = x
      /\ IsInjective(r) <=> \A i, j \in 1 .. Len(r) : r[i] = r[j] => i = j
  BY <1>1, Positions
<1>4. Range(r) = Range(s) \cup {e}
  BY <1>1, <1>2, <1>3
<1>5. IsInjective(s) /\ e \notin Range(s) => IsInjective(r)
  BY <1>1, <1>2, <1>3
<1> QED BY <1>1, <1>4, <1>5 DEF r

\* rlist_pop_front.
LEMMA PopLemma ==
  ASSUME NEW S, NEW s \in Seq(S), s # <<>>
  PROVE  /\ Head(s) \in S /\ Head(s) \in Range(s)
         /\ Tail(s) \in Seq(S)
         /\ Range(Tail(s)) \subseteq Range(s)
         /\ Range(s) \subseteq Range(Tail(s)) \cup {Head(s)}
         /\ IsInjective(s) => IsInjective(Tail(s)) /\ Head(s) \notin Range(Tail(s))
<1> DEFINE r == Tail(s)
           h == Head(s)
<1>1. /\ Len(s) \in Nat \ {0} /\ h = s[1] /\ h \in S
      /\ r \in Seq(S) /\ Len(r) = Len(s) - 1
      /\ \A i \in 1 .. Len(r) : r[i] = s[i + 1]
  BY HeadTailProperties
<1> HIDE DEF r, h
<1>2. /\ \A x : x \in Range(s) <=> \E i \in 1 .. Len(s) : s[i] = x
      /\ IsInjective(s) <=> \A i, j \in 1 .. Len(s) : s[i] = s[j] => i = j
  BY Positions
<1>3. /\ \A x : x \in Range(r) <=> \E i \in 1 .. Len(r) : r[i] = x
      /\ IsInjective(r) <=> \A i, j \in 1 .. Len(r) : r[i] = r[j] => i = j
  BY <1>1, Positions
<1>4. h \in Range(s) /\ Range(r) \subseteq Range(s)
  BY <1>1, <1>2, <1>3
<1>5. Range(s) \subseteq Range(r) \cup {h}
  <2> SUFFICES ASSUME NEW i \in 1 .. Len(s), i # 1
               PROVE  s[i] \in Range(r)
    BY <1>1, <1>2
  <2>1. i - 1 \in 1 .. Len(r) /\ r[i - 1] = s[i]
    BY <1>1
  <2> QED BY <2>1, <1>3
<1>6. IsInjective(s) => IsInjective(r) /\ h \notin Range(r)
  BY <1>1, <1>2, <1>3
<1> QED BY <1>1, <1>4, <1>5, <1>6 DEF r, h

\* The boost turns a queue round.
LEMMA ReverseLemma ==
  ASSUME NEW S, NEW s \in Seq(S)
  PROVE  /\ Reverse(s) \in Seq(S)
         /\ Range(Reverse(s)) = Range(s)
         /\ IsInjective(s) => IsInjective(Reverse(s))
<1> DEFINE r == Reverse(s)
<1>1. /\ r \in Seq(S) /\ Len(r) = Len(s) /\ Len(s) \in Nat
      /\ \A i \in 1 .. Len(s) : r[i] = s[Len(s) - i + 1]
  BY DEF Reverse
<1> HIDE DEF r
<1>2. /\ \A x : x \in Range(s) <=> \E i \in 1 .. Len(s) : s[i] = x
      /\ IsInjective(s) <=> \A i, j \in 1 .. Len(s) : s[i] = s[j] => i = j
  BY Positions
<1>3. /\ \A x : x \in Range(r) <=> \E i \in 1 .. Len(r) : r[i] = x
      /\ IsInjective(r) <=> \A i, j \in 1 .. Len(r) : r[i] = r[j] => i = j
  BY <1>1, Positions
<1>4. \A i \in 1 .. Len(s) :
        Len(s) - i + 1 \in 1 .. Len(s) /\ r[Len(s) - i + 1] = s[i]
  BY <1>1
<1>5. Range(r) \subseteq Range(s)
  <2> SUFFICES ASSUME NEW i \in 1 .. Len(s) PROVE r[i] \in Range(s)
    BY <1>1, <1>3
  <2> QED BY <1>1, <1>2, <1>4
<1>6. Range(s) \subseteq Range(r)
  <2> SUFFICES ASSUME NEW i \in 1 .. Len(s) PROVE s[i] \in Range(r)
    BY <1>2
  <2> QED BY <1>1, <1>3, <1>4
<1>7. ASSUME IsInjective(s) PROVE IsInjective(r)
  <2> SUFFICES ASSUME NEW i \in 1 .. Len(s), NEW j \in 1 .. Len(s), r[i] = r[j]
               PROVE  i = j
    BY <1>1, <1>3
  <2>1. s[Len(s) - i + 1] = s[Len(s) - j + 1]
    BY <1>1
  <2>2. Len(s) - i + 1 = Len(s) - j + 1
    BY <2>1, <1>2, <1>4, <1>7
  <2> QED BY <2>2, <1>1
<1> QED BY <1>1, <1>5, <1>6, <1>7 DEF r

\* The boost puts one queue before another.
LEMMA ConcatLemma ==
  ASSUME NEW S, NEW s \in Seq(S), NEW t \in Seq(S)
  PROVE  /\ s \o t \in Seq(S)
         /\ Range(s \o t) = Range(s) \cup Range(t)
         /\ /\ IsInjective(s) /\ IsInjective(t)
            /\ Range(s) \cap Range(t) = {}
            => IsInjective(s \o t)
<1> DEFINE r == s \o t
<1>1. /\ r \in Seq(S) /\ Len(r) = Len(s) + Len(t)
      /\ Len(s) \in Nat /\ Len(t) \in Nat
      /\ \A i \in 1 .. Len(s) + Len(t) :
           r[i] = IF i <= Len(s) THEN s[i] ELSE t[i - Len(s)]
  BY ConcatProperties
<1>2. Range(r) = Range(s) \cup Range(t)
  BY RangeConcatenation
<1> HIDE DEF r
<1>3. ASSUME IsInjective(s), IsInjective(t), Range(s) \cap Range(t) = {}
      PROVE  IsInjective(r)
  <2>1. /\ \A i, j \in 1 .. Len(s) : s[i] = s[j] => i = j
        /\ \A i, j \in 1 .. Len(t) : t[i] = t[j] => i = j
    BY <1>3, Positions
  <2>2. \A i \in 1 .. Len(s), j \in 1 .. Len(t) : s[i] # t[j]
    BY <1>3, Positions
  <2>3. IsInjective(r) <=> \A i, j \in 1 .. Len(r) : r[i] = r[j] => i = j
    BY <1>1, Positions
  <2>4. \A i \in 1 .. Len(r) :
          \/ i \in 1 .. Len(s) /\ r[i] = s[i]
          \/ i - Len(s) \in 1 .. Len(t) /\ r[i] = t[i - Len(s)]
    BY <1>1
  <2>5. ASSUME NEW i \in 1 .. Len(r), NEW j \in 1 .. Len(r), r[i] = r[j]
        PROVE  i = j
    <3>1. CASE i \in 1 .. Len(s) /\ j \in 1 .. Len(s)
      BY <3>1, <2>1, <2>5, <1>1
    <3>2. CASE i \notin 1 .. Len(s) /\ j \notin 1 .. Len(s)
      <4>1. i - Len(s) = j - Len(s)
        BY <3>2, <2>1, <2>4, <2>5
      <4> QED BY <4>1, <1>1
    <3>3. CASE i \in 1 .. Len(s) /\ j \notin 1 .. Len(s)
      BY <3>3, <2>2, <2>4, <2>5, <1>1
    <3>4. CASE i \notin 1 .. Len(s) /\ j \in 1 .. Len(s)
      BY <3>4, <2>2, <2>4, <2>5, <1>1
    <3> QED BY <3>1, <3>2, <3>3, <3>4
  <2> QED BY <2>3, <2>5
<1> QED BY <1>1, <1>2, <1>3 DEF r

\* rl_splice of one node before position i.
LEMMA InsertAtLemma ==
  ASSUME NEW S, NEW s \in Seq(S), NEW e \in S, NEW i \in 1 .. Len(s) + 1
  PROVE  /\ InsertAt(s, i, e) \in Seq(S)
         /\ Len(InsertAt(s, i, e)) = Len(s) + 1
         /\ \A j \in 1 .. Len(s) + 1 : InsertAt(s, i, e)[j] =
              IF j < i THEN s[j] ELSE IF j = i THEN e ELSE s[j - 1]
         /\ Range(InsertAt(s, i, e)) = Range(s) \cup {e}
         /\ IsInjective(s) /\ e \notin Range(s) => IsInjective(InsertAt(s, i, e))
<1> DEFINE a == SubSeq(s, 1, i - 1)
           b == SubSeq(s, i, Len(s))
           c == a \o <<e>>
           r == InsertAt(s, i, e)
<1>0. Len(s) \in Nat /\ i \in Int /\ 1 <= i /\ i <= Len(s) + 1
  OBVIOUS
<1>1. /\ a \in Seq(S) /\ Len(a) = i - 1
      /\ \A j \in 1 .. i - 1 : a[j] = s[j]
  BY <1>0, SubSeqProperties
<1>2. /\ b \in Seq(S) /\ Len(b) = Len(s) - i + 1
      /\ \A j \in 1 .. Len(s) - i + 1 : b[j] = s[i + j - 1]
  BY <1>0, SubSeqProperties
<1>3. r = c \o b
  BY DEF InsertAt
<1> HIDE DEF a, b, r
<1>4. /\ c \in Seq(S) /\ Len(c) = i
      /\ \A j \in 1 .. i : c[j] = IF j < i THEN s[j] ELSE e
  BY <1>0, <1>1
<1> HIDE DEF c
<1>5. /\ r \in Seq(S) /\ Len(r) = Len(c) + Len(b)
      /\ \A j \in 1 .. Len(c) + Len(b) :
           r[j] = IF j <= Len(c) THEN c[j] ELSE b[j - Len(c)]
  BY <1>2, <1>3, <1>4, ConcatProperties
<1>6. /\ Len(r) = Len(s) + 1
      /\ \A j \in 1 .. Len(s) + 1 :
           r[j] = IF j < i THEN s[j] ELSE IF j = i THEN e ELSE s[j - 1]
  BY <1>0, <1>2, <1>4, <1>5
<1>7. /\ \A x : x \in Range(s) <=> \E j \in 1 .. Len(s) : s[j] = x
      /\ IsInjective(s) <=> \A j, k \in 1 .. Len(s) : s[j] = s[k] => j = k
  BY Positions
<1>8. /\ \A x : x \in Range(r) <=> \E j \in 1 .. Len(r) : r[j] = x
      /\ IsInjective(r) <=> \A j, k \in 1 .. Len(r) : r[j] = r[k] => j = k
  BY <1>5, Positions
<1>9. Range(r) \subseteq Range(s) \cup {e}
  <2> SUFFICES ASSUME NEW j \in 1 .. Len(s) + 1, j # i
               PROVE  r[j] \in Range(s)
    BY <1>6, <1>8
  <2>1. CASE j < i
    BY <2>1, <1>0, <1>6, <1>7
  <2>2. CASE j > i
    <3>1. j - 1 \in 1 .. Len(s) /\ r[j] = s[j - 1]
      BY <2>2, <1>0, <1>6
    <3> QED BY <3>1, <1>7
  <2> QED BY <2>1, <2>2, <1>0
<1>10. Range(s) \cup {e} \subseteq Range(r)
  <2>1. e \in Range(r)
    BY <1>0, <1>6, <1>8
  <2>2. ASSUME NEW j \in 1 .. Len(s) PROVE s[j] \in Range(r)
    <3>1. CASE j < i
      BY <3>1, <1>0, <1>6, <1>8
    <3>2. CASE ~(j < i)
      <4>1. j + 1 \in 1 .. Len(s) + 1 /\ r[j + 1] = s[j]
        BY <3>2, <1>0, <1>6
      <4> QED BY <4>1, <1>6, <1>8
    <3> QED BY <3>1, <3>2
  <2> QED BY <2>1, <2>2, <1>7
<1>11. ASSUME IsInjective(s), e \notin Range(s) PROVE IsInjective(r)
  <2>1. \A j \in 1 .. Len(r) :
          \/ j < i /\ j \in 1 .. Len(s) /\ r[j] = s[j]
          \/ j = i /\ r[j] = e
          \/ j > i /\ j - 1 \in 1 .. Len(s) /\ r[j] = s[j - 1]
    BY <1>0, <1>6
  <2>2. ASSUME NEW j \in 1 .. Len(r), NEW k \in 1 .. Len(r), r[j] = r[k]
        PROVE  j = k
    BY <2>1, <2>2, <1>7, <1>11, <1>0, <1>6, SMTT(30)
  <2> QED BY <2>2, <1>8
<1> QED BY <1>5, <1>6, <1>9, <1>10, <1>11 DEF r

\* rlist_remove of the node at position i.
LEMMA RemoveAtLemma ==
  ASSUME NEW S, NEW s \in Seq(S), NEW i \in 1 .. Len(s)
  PROVE  /\ RemoveAt(s, i) \in Seq(S)
         /\ Len(RemoveAt(s, i)) = Len(s) - 1
         /\ \A j \in 1 .. Len(s) - 1 :
              RemoveAt(s, i)[j] = IF j < i THEN s[j] ELSE s[j + 1]
         /\ Range(RemoveAt(s, i)) \subseteq Range(s)
         /\ Range(s) \subseteq Range(RemoveAt(s, i)) \cup {s[i]}
         /\ IsInjective(s) =>
              IsInjective(RemoveAt(s, i)) /\ s[i] \notin Range(RemoveAt(s, i))
<1> DEFINE a == SubSeq(s, 1, i - 1)
           b == SubSeq(s, i + 1, Len(s))
           r == RemoveAt(s, i)
<1>0. Len(s) \in Nat /\ i \in Int /\ 1 <= i /\ i <= Len(s)
  OBVIOUS
<1>1. /\ a \in Seq(S) /\ Len(a) = i - 1
      /\ \A j \in 1 .. i - 1 : a[j] = s[j]
  BY <1>0, SubSeqProperties
<1>2. /\ b \in Seq(S) /\ Len(b) = Len(s) - i
      /\ \A j \in 1 .. Len(s) - i : b[j] = s[i + j]
  BY <1>0, SubSeqProperties
<1>3. r = a \o b
  BY DEF RemoveAt
<1> HIDE DEF a, b, r
<1>4. /\ r \in Seq(S) /\ Len(r) = Len(a) + Len(b)
      /\ \A j \in 1 .. Len(a) + Len(b) :
           r[j] = IF j <= Len(a) THEN a[j] ELSE b[j - Len(a)]
  BY <1>1, <1>2, <1>3, ConcatProperties
<1>5. /\ Len(r) = Len(s) - 1
      /\ \A j \in 1 .. Len(s) - 1 : r[j] = IF j < i THEN s[j] ELSE s[j + 1]
  BY <1>0, <1>1, <1>2, <1>4
<1>6. /\ \A x : x \in Range(s) <=> \E j \in 1 .. Len(s) : s[j] = x
      /\ IsInjective(s) <=> \A j, k \in 1 .. Len(s) : s[j] = s[k] => j = k
  BY Positions
<1>7. /\ \A x : x \in Range(r) <=> \E j \in 1 .. Len(r) : r[j] = x
      /\ IsInjective(r) <=> \A j, k \in 1 .. Len(r) : r[j] = r[k] => j = k
  BY <1>4, Positions
<1>8. \A j \in 1 .. Len(r) :
        \/ j < i /\ j \in 1 .. Len(s) /\ r[j] = s[j]
        \/ j >= i /\ j + 1 \in 1 .. Len(s) /\ r[j] = s[j + 1]
  BY <1>0, <1>5
<1>9. Range(r) \subseteq Range(s)
  BY <1>6, <1>7, <1>8
<1>10. Range(s) \subseteq Range(r) \cup {s[i]}
  <2> SUFFICES ASSUME NEW j \in 1 .. Len(s), j # i PROVE s[j] \in Range(r)
    BY <1>6
  <2>1. CASE j < i
    BY <2>1, <1>0, <1>5, <1>7
  <2>2. CASE j > i
    <3>1. j - 1 \in 1 .. Len(s) - 1 /\ r[j - 1] = s[j]
      BY <2>2, <1>0, <1>5
    <3> QED BY <3>1, <1>5, <1>7
  <2> QED BY <2>1, <2>2, <1>0
<1>11. ASSUME IsInjective(s)
       PROVE  IsInjective(r) /\ s[i] \notin Range(r)
  <2>1. ASSUME NEW j \in 1 .. Len(r), NEW k \in 1 .. Len(r), r[j] = r[k]
        PROVE  j = k
    BY <2>1, <1>8, <1>6, <1>11, <1>0, <1>5
  <2>2. s[i] \notin Range(r)
    BY <1>8, <1>6, <1>7, <1>11, <1>0
  <2> QED BY <2>1, <2>2, <1>7
<1> QED BY <1>4, <1>5, <1>9, <1>10, <1>11 DEF r

-----------------------------------------------------------------------------
(* Loops.                                                                  *)

\* A set that has 0, and with a number its successor.
LEMMA NatSteps ==
  ASSUME NEW n \in Nat, NEW T, 0 \in T,
         \A k \in 1 .. n : k - 1 \in T => k \in T
  PROVE  \A k \in 0 .. n : k \in T
<1> DEFINE Out == {k \in 0 .. n : k \notin T}
<1> SUFFICES ASSUME Out # {}
             PROVE  FALSE
  OBVIOUS
<1>1. PICK k \in Out : \A j \in Out : k <= j
  <2>1. Out \in SUBSET Nat
    OBVIOUS
  <2> HIDE DEF Out
  <2> QED BY <2>1, LeastNat
<1>2. k \in 1 .. n /\ k - 1 \in 0 .. n /\ k - 1 \notin Out
  BY <1>1
<1> QED BY <1>1, <1>2

\* A loop of n turns, of which the k-th takes s to turn[k][s].
LEMMA LoopLemma ==
  ASSUME NEW S, NEW n \in Nat, NEW z \in S, NEW turn,
         \A k \in 1 .. n : \A s \in S : turn[k][s] \in S
  PROVE  \E f : /\ f = [k \in 0 .. n |-> IF k = 0 THEN z ELSE turn[k][f[k - 1]]]
                /\ f \in [0 .. n -> S]
<1> DEFINE Run(f, k) == /\ f \in [0 .. k -> S] /\ f[0] = z
                        /\ \A j \in 1 .. k : f[j] = turn[j][f[j - 1]]
           T == {k \in 0 .. n : \E f : Run(f, k)}
<1>1. 0 \in T
  <2>1. Run([k \in 0 .. 0 |-> z], 0)
    OBVIOUS
  <2> HIDE DEF Run
  <2> QED BY <2>1
<1>2. ASSUME NEW k \in 1 .. n, k - 1 \in T
      PROVE  k \in T
  <2>1. PICK f : Run(f, k - 1)
    BY <1>2
  <2> DEFINE g == [j \in 0 .. k |-> IF j = k THEN turn[k][f[k - 1]] ELSE f[j]]
  <2>2. f[k - 1] \in S
    BY <2>1
  <2>3. g \in [0 .. k -> S] /\ g[0] = z
    BY <2>1, <2>2
  <2>4. ASSUME NEW j \in 1 .. k
        PROVE  g[j] = turn[j][g[j - 1]]
    <3>1. j - 1 \in 0 .. k /\ j - 1 # k /\ g[j - 1] = f[j - 1]
      OBVIOUS
    <3>2. CASE j = k
      BY <3>1, <3>2
    <3>3. CASE j # k
      <4>1. j \in 1 .. k - 1 /\ g[j] = f[j]
        BY <3>3
      <4> QED BY <4>1, <3>1, <2>1
    <3> QED BY <3>2, <3>3
  <2>5. Run(g, k)
    BY <2>3, <2>4
  <2> HIDE DEF Run, g
  <2> QED BY <2>5
<1> HIDE DEF T
<1>3. n \in T
  BY <1>1, <1>2, NatSteps
<1>4. PICK f : Run(f, n)
  BY <1>3 DEF T
<1>5. f = [k \in 0 .. n |-> IF k = 0 THEN z ELSE turn[k][f[k - 1]]]
  <2>1. \A k \in 0 .. n : f[k] = IF k = 0 THEN z ELSE turn[k][f[k - 1]]
    BY <1>4
  <2>2. f = [k \in 0 .. n |-> f[k]]
    BY <1>4
  <2> QED BY <2>1, <2>2
<1> QED BY <1>4, <1>5

=============================================================================
