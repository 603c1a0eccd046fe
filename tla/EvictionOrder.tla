--------------------------- MODULE EvictionOrder ---------------------------
(***************************************************************************)
(* What a replacement policy with an order promises: the items stand in a  *)
(* line whose last one is evicted.  A call on an item moves no other item  *)
(* past a third one; a hit never moves the item towards the end; only an   *)
(* insertion evicts, and only the last of the line, the new item perhaps.  *)
(***************************************************************************)
EXTENDS Integers, Sequences

CONSTANTS Item, MaxLen

VARIABLE order

Queue == INSTANCE LinkedSet WITH None <- 0

InLine == {order[i] : i \in DOMAIN order}

Hit == \E i \in DOMAIN order : \E p \in 1 .. i : order' = Queue!MovedTo(order, i, p)

Insert ==
  \E k \in Item \ InLine, p \in 1 .. Len(order) + 1 :
    LET line == Queue!InsertedAt(order, p, k) IN
      \/ Len(line) =< MaxLen /\ order' = line
      \/ order' = SubSeq(line, 1, Len(line) - 1)

Leave == \E i \in DOMAIN order : order' = Queue!RemovedAt(order, i)

Clear == order' = <<>>

Init == order = <<>>

Next == Hit \/ Insert \/ Leave \/ Clear

Spec == Init /\ [][Next]_order
=============================================================================
