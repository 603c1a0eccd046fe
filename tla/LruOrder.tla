------------------------------ MODULE LruOrder ------------------------------
(***************************************************************************)
(* The least-recently-used policy without pointers: the chunks of a        *)
(* content store from the most to the least recently used.                 *)
(***************************************************************************)
EXTENDS Naturals, FiniteSets, Sequences

CONSTANTS Chunk, C

VARIABLE order

Held == {order[i] : i \in DOMAIN order}

(* The chunk at place i moves to the front.                                *)
Promoted(i) ==
  [j \in DOMAIN order |-> IF j = 1 THEN order[i]
                          ELSE IF j =< i THEN order[j - 1] ELSE order[j]]

Use == \E i \in DOMAIN order : order' = Promoted(i)

(* A new chunk goes to the front, and pushes the last one out of a full    *)
(* store.                                                                  *)
Insert(ch) ==
  /\ ch \notin Held
  /\ order' = [j \in 1 .. IF Len(order) < C THEN Len(order) + 1 ELSE C |->
                 IF j = 1 THEN ch ELSE order[j - 1]]

Init == order = <<>>

Next == Use \/ \E ch \in Chunk : Insert(ch)

Spec == Init /\ [][Next]_order

(* No chunk is held twice, and no more than C chunks are held.             *)
OrderOK == /\ order \in Seq(Chunk)
           /\ Len(order) =< C
           /\ \A i, j \in DOMAIN order : order[i] = order[j] => i = j

Store == INSTANCE ContentStore WITH content <- Held

ImplementsContentStore == Store!Spec
=============================================================================
