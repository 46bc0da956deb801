-------------------------------- MODULE ListSpec --------------------------------
(***************************************************************************)
(* What the lists of util.h promise: each is a sequence of nodes, no node  *)
(* is in two places, and an operation changes the lists it names.          *)
(***************************************************************************)
EXTENDS Integers, Sequences, SequencesExt

CONSTANTS List, Node, Chosen      \* Chosen are the nodes that a predicate is true of

VARIABLE items

Init == items = [l \in List |-> <<>>]

Free(x) == \A l \in List : x \notin Range(items[l])

PushFront(l, x) == Free(x) /\ items' = [items EXCEPT ![l] = <<x>> \o @]
PushBack(l, x)  == Free(x) /\ items' = [items EXCEPT ![l] = Append(@, x)]

PopFront(l) == items[l] # <<>> /\ items' = [items EXCEPT ![l] = Tail(@)]
PopBack(l)  == items[l] # <<>> /\ items' = [items EXCEPT ![l] = Front(@)]

Drop(x) ==
  \/ Free(x) /\ UNCHANGED items
  \/ \E l \in List : \E i \in 1 .. Len(items[l]) :
       items[l][i] = x /\ items' = [items EXCEPT ![l] = RemoveAt(@, i)]

\* Those of the first k in a sequence that are in the set S.
Kept(s, S) ==
  LET kept[k \in 0 .. Len(s)] ==
        IF k = 0 THEN <<>>
        ELSE IF s[k] \in S THEN Append(kept[k - 1], s[k]) ELSE kept[k - 1]
  IN  kept

Only(s, S) == Kept(s, S)[Len(s)]

\* The nodes of one list go to another, all or the chosen ones.
AppendAll(l, m)  == items' = [items EXCEPT ![l] = @ \o items[m], ![m] = <<>>]
PrependAll(l, m) == items' = [items EXCEPT ![l] = items[m] \o @, ![m] = <<>>]
Select(m, l) ==
  items' = [items EXCEPT ![l] = @ \o Only(items[m], Chosen),
                         ![m] = Only(@, Node \ Chosen)]

TurnRound(l) == items' = [items EXCEPT ![l] = Reverse(@)]

Next ==
  \/ \E l \in List, x \in Node : PushFront(l, x) \/ PushBack(l, x)
  \/ \E l \in List : PopFront(l) \/ PopBack(l) \/ TurnRound(l)
  \/ \E x \in Node : Drop(x)
  \/ \E l, m \in List : l # m /\ (AppendAll(l, m) \/ PrependAll(l, m) \/ Select(m, l))

Spec == Init /\ [][Next]_items

=============================================================================
