---------------------------------- MODULE Rlist ----------------------------------
(***************************************************************************)
(* The rings of util.h, which hold the kernel's queues and lists: nodes in *)
(* memory, with a pointer to the next and one to the previous node.  A     *)
(* list is the node in a ring that is its head.  All operations are made   *)
(* of rl_splice, rlist_reverse excepted.                                   *)
(*                                                                         *)
(* An operation returns the memory it leaves.  A node that is pushed is a  *)
(* ring of its own, as the kernel's are.                                   *)
(***************************************************************************)
EXTENDS Naturals, FiniteSets, Sequences

CONSTANTS
  List, Node,
  Chosen,         \* the nodes that the predicate of rlist_select is true of
  key             \* the key of each node

RlistAssumption ==
  /\ IsFiniteSet(List) /\ IsFiniteSet(Node) /\ List \cap Node = {}
  /\ Chosen \subseteq Node /\ Node \subseteq DOMAIN key

Cell == List \cup Node

VARIABLES next, prev

rlistVars == <<next, prev>>

Memory == [next |-> next, prev |-> prev]

\* rlnode_new
Init == next = [c \in Cell |-> c] /\ prev = [c \in Cell |-> c]

-----------------------------------------------------------------------------
Swapped(f, x, y) == [f EXCEPT ![x] = f[y], ![y] = f[x]]

rl_splice_OneWay(m, a, b) == [m EXCEPT !.next = Swapped(@, a, b)]

rl_splice(m, a, b) ==
  [prev |-> Swapped(m.prev, m.next[a], m.next[b]), next |-> Swapped(m.next, a, b)]

rlist_remove(m, a) == rl_splice(m, a, m.prev[a])

rlist_push_front(m, l, x) == rl_splice(m, l, x)
rlist_push_back(m, l, x)  == rl_splice(m, m.prev[l], x)
rlist_pop_front(m, l)     == rl_splice(m, l, m.next[l])
rlist_pop_back(m, l)      == rl_splice(m, l, m.prev[l])

rlist_append(m, l, src)  == rlist_remove(rlist_push_back(m, l, src), src)
rlist_prepend(m, l, src) == rlist_remove(rlist_push_front(m, l, src), src)

\* The loop of rlist_reverse turns one node after the other: what was the
\* previous node is the next one.
Turned(m, p) ==
  [next |-> [m.next EXCEPT ![p] = m.prev[p]], prev |-> [m.prev EXCEPT ![p] = m.next[p]]]

Reversing(m, l) ==
  LET after[k \in 0 .. Cardinality(Cell)] ==
        IF k = 0 THEN [memory |-> m, at |-> l]
        ELSE IF k > 1 /\ after[k - 1].at = l THEN after[k - 1]
        ELSE [memory |-> Turned(after[k - 1].memory, after[k - 1].at),
              at     |-> after[k - 1].memory.prev[after[k - 1].at]]
  IN  after

rlist_reverse(m, l) == Reversing(m, l)[Cardinality(Cell)].memory

\* The loop of rlist_select: at is the node before the next one.
Sorted(w, src, l) ==
  LET x == w.memory.next[w.at]
  IN  IF x = src THEN w
      ELSE IF x \in Chosen
      THEN [w EXCEPT !.memory = rlist_push_back(rlist_remove(@, x), l, x)]
      ELSE [w EXCEPT !.at = x]

Selecting(m, src, l) ==
  LET after[k \in 0 .. Cardinality(Cell)] ==
        IF k = 0 THEN [memory |-> m, at |-> src] ELSE Sorted(after[k - 1], src, l)
  IN  after

rlist_select(m, src, l) == Selecting(m, src, l)[Cardinality(Cell)].memory

-----------------------------------------------------------------------------
\* The k-th node of a walk from l.
Walk(m, l) == LET at[k \in 0 .. Cardinality(Cell)] == IF k = 0 THEN l ELSE m.next[at[k - 1]]
              IN  at

rlist_len(m, l) ==
  CHOOSE k \in 0 .. Cardinality(Cell) - 1 :
    Walk(m, l)[k + 1] = l /\ \A j \in 1 .. k : Walk(m, l)[j] # l

rlist_equal(m, l1, l2) ==
  LET n == rlist_len(m, l1)
  IN  /\ \A k \in 1 .. n : /\ \A j \in 1 .. k : Walk(m, l2)[j] # l2
                           /\ key[Walk(m, l1)[k]] = key[Walk(m, l2)[k]]
      /\ Walk(m, l2)[n + 1] = l2

rlist_find(m, l, what, fail) ==
  LET found == {k \in 1 .. rlist_len(m, l) : key[Walk(m, l)[k]] = what}
  IN  IF found = {} THEN fail
      ELSE Walk(m, l)[CHOOSE k \in found : \A j \in found : k <= j]

-----------------------------------------------------------------------------
To(m) == next' = m.next /\ prev' = m.prev

Single(x) == next[x] = x

Push(l, x) ==
  /\ Single(x)
  /\ To(rlist_push_front(Memory, l, x)) \/ To(rlist_push_back(Memory, l, x))

PopFront(l) == To(rlist_pop_front(Memory, l))

\* rlist_pop_back splices the list at its last node, which takes the list out
\* and not the node: only a list of one node is popped so.
PopBack(l) ==
  /\ rlist_len(Memory, l) <= 1
  /\ To(rlist_pop_back(Memory, l))

Remove(x) == To(rlist_remove(Memory, x))

Merge(l, src) ==
  /\ l # src
  /\ To(rlist_append(Memory, l, src)) \/ To(rlist_prepend(Memory, l, src))

Reverse(l) == To(rlist_reverse(Memory, l))

Select(src, l) == src # l /\ To(rlist_select(Memory, src, l))

Next ==
  \/ \E l \in List, x \in Node : Push(l, x)
  \/ \E l \in List : PopFront(l) \/ PopBack(l) \/ Reverse(l)
  \/ \E x \in Node : Remove(x)
  \/ \E l, m \in List : Merge(l, m) \/ Select(m, l)

Spec == Init /\ [][Next]_rlistVars

-----------------------------------------------------------------------------
TypeOK == next \in [Cell -> Cell] /\ prev \in [Cell -> Cell]

Contents(l) == [k \in 1 .. rlist_len(Memory, l) |-> Walk(Memory, l)[k]]

\* The two pointers of a ring agree; and the walks of rlist_find and rlist_equal
\* tell what the sequences of nodes tell (util.h:482-560).
WellLinked ==
  /\ \A c \in Cell : prev[next[c]] = c /\ next[prev[c]] = c
  /\ \A l, m \in List :
       rlist_equal(Memory, l, m) <=>
         [k \in DOMAIN Contents(l) |-> key[Contents(l)[k]]]
           = [k \in DOMAIN Contents(m) |-> key[Contents(m)[k]]]
  /\ \A l \in List, x \in Node :
       LET y == rlist_find(Memory, l, key[x], l)
       IN  IF \E k \in DOMAIN Contents(l) : key[Contents(l)[k]] = key[x]
           THEN y \in Node /\ key[y] = key[x]
           ELSE y = l

\* The pointers implement lists.
Items == [l \in List |-> Contents(l)]

Lists == INSTANCE ListSpec WITH items <- Items

ListStep == Lists!Next \/ UNCHANGED Items

\* Every operation does to the sequences what it is for (util.h:400-579).
RefinesLists == Lists!Spec

=============================================================================
