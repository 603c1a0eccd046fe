----------------------------- MODULE LinkedSet -----------------------------
(***************************************************************************)
(* The doubly-linked set of Icarus (models/cache.py), from which its       *)
(* recency lists and its list of expiry times are built.                   *)
(*                                                                         *)
(* A node of the list is named by its value: _map keeps one node for every *)
(* value.  up and down are the pointers of the nodes, their common domain  *)
(* is the domain of _map, and None ends the list in both directions.       *)
(* An operation is defined only where the method does not raise KeyError.  *)
(***************************************************************************)
EXTENDS Integers, Sequences, FiniteSets

CONSTANT None

Items(s) == DOMAIN s.up

EmptySet == [top |-> None, bottom |-> None, up |-> <<>>, down |-> <<>>]

(* Assignments to n.up and n.down, for a node n or for none.               *)
SetUp(s, n, u) == [s EXCEPT !.up = [j \in Items(s) |-> IF j = n THEN u ELSE s.up[j]]]

SetDown(s, n, d) == [s EXCEPT !.down = [j \in Items(s) |-> IF j = n THEN d ELSE s.down[j]]]

(* self._map.pop(k) and self._map[k] = _Node(k, u, d).                     *)
Forget(s, k) ==
  [s EXCEPT !.up   = [j \in Items(s) \ {k} |-> s.up[j]],
            !.down = [j \in Items(s) \ {k} |-> s.down[j]]]

NewNode(s, k, u, d) ==
  [s EXCEPT !.up   = [j \in Items(s) \cup {k} |-> IF j = k THEN u ELSE s.up[j]],
            !.down = [j \in Items(s) \cup {k} |-> IF j = k THEN d ELSE s.down[j]]]

PopTop(s) ==
  IF s.top = None THEN s
  ELSE LET t == s.top IN
    IF t = s.bottom
    THEN Forget([s EXCEPT !.top = None, !.bottom = None], t)
    ELSE Forget([SetUp(s, s.down[t], None) EXCEPT !.top = s.down[t]], t)

PopBottom(s) ==
  IF s.bottom = None THEN s
  ELSE LET b == s.bottom IN
    IF b = s.top
    THEN Forget([s EXCEPT !.top = None, !.bottom = None], b)
    ELSE Forget([SetDown(s, s.up[b], None) EXCEPT !.bottom = s.up[b]], b)

AppendTop(s, k) ==
  LET linked == IF s.top = None /\ s.bottom = None
                THEN [s EXCEPT !.bottom = k]
                ELSE SetUp(s, s.top, k)
  IN  NewNode([linked EXCEPT !.top = k], k, None, s.top)

AppendBottom(s, k) ==
  LET linked == IF s.top = None /\ s.bottom = None
                THEN [s EXCEPT !.top = k]
                ELSE SetDown(s, s.bottom, k)
  IN  NewNode([linked EXCEPT !.bottom = k], k, s.bottom, None)

(* The first half of a move, which returns early where n has no neighbour  *)
(* in its direction: the neighbours of n are linked to each other.         *)
Unlinked(s, n) ==
  LET below == IF s.down[n] = None THEN [s EXCEPT !.bottom = s.up[n]]
               ELSE SetUp(s, s.down[n], s.up[n])
  IN  IF s.up[n] = None THEN [below EXCEPT !.top = s.down[n]]
      ELSE SetDown(below, s.up[n], s.down[n])

MoveUp(s, n) ==
  IF s.up[n] = None THEN s
  ELSE LET down == s.up[n]
           up   == s.up[down]
           cut  == Unlinked(s, n)
           over == IF up # None THEN SetDown(cut, up, n) ELSE [cut EXCEPT !.top = n]
       IN  SetDown(SetUp(SetUp(over, down, n), n, up), n, down)

MoveDown(s, n) ==
  IF s.down[n] = None THEN s
  ELSE LET up    == s.down[n]
           down  == s.down[up]
           cut   == SetDown(Unlinked(s, n), up, n)
           under == IF down # None THEN SetUp(cut, down, n) ELSE [cut EXCEPT !.bottom = n]
       IN  SetDown(SetUp(under, n, up), n, down)

MoveToTop(s, n) ==
  IF s.up[n] = None THEN s
  ELSE [SetUp(SetDown(SetUp(Unlinked(s, n), n, None), n, s.top), s.top, n)
          EXCEPT !.top = n]

(* Mutation: the bottom of the list stays what it was.                     *)
MoveToBottomLoose(s, n) ==
  IF s.down[n] = None THEN s
  ELSE SetDown(SetUp(SetDown(Unlinked(s, n), n, None), n, s.bottom), s.bottom, n)

MoveToBottom(s, n) ==
  IF s.down[n] = None THEN s
  ELSE [SetDown(SetUp(SetDown(Unlinked(s, n), n, None), n, s.bottom), s.bottom, n)
          EXCEPT !.bottom = n]

InsertAbove(s, i, k) ==
  IF s.up[i] = None THEN AppendTop(s, k)
  ELSE NewNode(SetUp(SetDown(s, s.up[i], k), i, k), k, s.up[i], i)

InsertBelow(s, i, k) ==
  IF s.down[i] = None THEN AppendBottom(s, k)
  ELSE NewNode(SetDown(SetUp(s, s.down[i], k), i, k), k, i, s.down[i])

Remove(s, k) ==
  LET below == IF s.bottom = k THEN [s EXCEPT !.bottom = s.up[k]]
               ELSE SetUp(s, s.down[k], s.up[k])
      above == IF s.top = k THEN [below EXCEPT !.top = s.down[k]]
               ELSE SetDown(below, s.up[k], s.down[k])
  IN  Forget(above, k)

(* The iterator: from the top along down until None.  A list that does not *)
(* end is cut after one value too many.                                    *)
Heads(s) ==
  LET first[n \in 0 .. Cardinality(Items(s)) + 1] ==
        IF n = 0 THEN <<>>
        ELSE LET before == first[n - 1]
                 cur    == IF before = <<>> THEN s.top ELSE s.down[before[Len(before)]]
             IN  IF cur = None THEN before ELSE Append(before, cur)
  IN  first

Listing(s) == Heads(s)[Cardinality(Items(s)) + 1]

(* s is the linked set of the values of q, from the top to the bottom.     *)
Represents(s, q) ==
  /\ Items(s) = {q[i] : i \in DOMAIN q}
  /\ DOMAIN s.down = Items(s)
  /\ s.top = IF Len(q) = 0 THEN None ELSE q[1]
  /\ s.bottom = IF Len(q) = 0 THEN None ELSE q[Len(q)]
  /\ \A i \in DOMAIN q :
       /\ s.up[q[i]] = IF i = 1 THEN None ELSE q[i - 1]
       /\ s.down[q[i]] = IF i = Len(q) THEN None ELSE q[i + 1]

(* The sequences the operations stand for.                                 *)
RemovedAt(q, i) == [j \in 1 .. Len(q) - 1 |-> IF j < i THEN q[j] ELSE q[j + 1]]

InsertedAt(q, i, k) ==
  [j \in 1 .. Len(q) + 1 |-> IF j < i THEN q[j] ELSE IF j = i THEN k ELSE q[j - 1]]

MovedTo(q, i, p) == InsertedAt(RemovedAt(q, i), p, q[i])
=============================================================================
