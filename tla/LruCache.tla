------------------------------ MODULE LruCache ------------------------------
(***************************************************************************)
(* lru_cache of ccnSim: a map from chunks to positions, and the positions  *)
(* linked by the pointers older and newer from mru to lru.                 *)
(*                                                                         *)
(* The position of a chunk is allocated when the chunk is stored and freed *)
(* when it is evicted; memory is a set of cells, and an allocated cell is  *)
(* in the domain of heap.                                                  *)
(***************************************************************************)
EXTENDS Naturals, FiniteSets, Sequences

CONSTANTS
  Chunk,   \* the chunks of the catalogue
  C,       \* capacity of the cache, in chunks
  Cell,    \* the memory cells a position can be allocated in
  Null     \* the null pointer

ASSUME CapacityAssumption == C \in Nat \ {0}
ASSUME CellAssumption == Null \notin Cell

VARIABLES
  actual_size,   \* the number of chunks stored
  lru, mru,      \* the positions of the least and most recently used chunk
  cache,         \* cache[ch]: the position of a stored chunk ch
  heap           \* heap[p]: the fields older, newer and k of a position p

vars == <<actual_size, lru, mru, cache, heap>>

(* A function extended by, or deprived of, one argument.                   *)
Extended(f, x, y) == [z \in DOMAIN f \cup {x} |-> IF z = x THEN y ELSE f[z]]
Without(f, x)     == [z \in DOMAIN f \ {x} |-> f[z]]
-----------------------------------------------------------------------------
(* data_lookup: the position p of the chunk moves to the front, unless it  *)
(* is there already.  It is first unlinked, in one way when it has both    *)
(* neighbours and in another when it is the lru.                           *)
InMiddle(p) == heap[p].older # Null /\ heap[p].newer # Null

(* Mutation: the former neighbour keeps a pointer to the moved position.   *)
UnlinkMiddleHalf(p) == [heap EXCEPT ![heap[p].newer].older = heap[p].older]

UnlinkMiddle(p) ==
  [heap EXCEPT ![heap[p].newer].older = heap[p].older,
               ![heap[p].older].newer = heap[p].newer]

UnlinkLru(p) == [heap EXCEPT ![heap[p].newer].older = Null]

ToFront(h, p) ==
  /\ heap' = [h EXCEPT ![p].older = mru, ![p].newer = Null, ![mru].newer = p]
  /\ mru' = p

Promote(p) ==
  \/ /\ InMiddle(p)
     /\ ToFront(UnlinkMiddle(p), p)
     /\ UNCHANGED <<actual_size, lru, cache>>
  \/ /\ ~InMiddle(p) /\ heap[p].newer = Null
     /\ UNCHANGED vars
  \/ /\ ~InMiddle(p) /\ heap[p].newer # Null
     /\ lru' = heap[p].newer
     /\ ToFront(UnlinkLru(p), p)
     /\ UNCHANGED <<actual_size, cache>>

(* A lookup, or a store, of a chunk that is there.                         *)
Hit(ch) == ch \in DOMAIN cache /\ Promote(cache[ch])
-----------------------------------------------------------------------------
(* data_store of a chunk that is not there, at a free cell p.              *)
New(ch, p) == ch \notin DOMAIN cache /\ p \in Cell \ DOMAIN heap

StoreFirst(ch, p) ==
  /\ New(ch, p) /\ actual_size = 0
  /\ actual_size' = 1
  /\ lru' = p /\ mru' = p
  /\ heap' = Extended(heap, p, [older |-> Null, newer |-> Null, k |-> ch])
  /\ cache' = Extended(cache, ch, p)

(* The list with p in front of it.                                         *)
Pushed(ch, p) ==
  Extended([heap EXCEPT ![mru].newer = p], p,
           [older |-> mru, newer |-> Null, k |-> ch])

(* Mutation: a full cache grows.                                           *)
StoreMoreUnbounded(ch, p) ==
  /\ New(ch, p) /\ actual_size # 0
  /\ actual_size' = actual_size + 1
  /\ mru' = p
  /\ heap' = Pushed(ch, p)
  /\ cache' = Extended(cache, ch, p)
  /\ UNCHANGED lru

StoreMore(ch, p) ==
  /\ New(ch, p) /\ actual_size # 0 /\ actual_size # C
  /\ actual_size' = actual_size + 1
  /\ mru' = p
  /\ heap' = Pushed(ch, p)
  /\ cache' = Extended(cache, ch, p)
  /\ UNCHANGED lru

(* Mutation: the new lru keeps its pointer to the freed position.          *)
StoreAndEvictDangling(ch, p) ==
  /\ New(ch, p) /\ actual_size # 0 /\ actual_size = C
  /\ LET h == Pushed(ch, p) IN
       /\ lru' = h[lru].newer
       /\ heap' = Without(h, lru)
       /\ cache' = Extended(Without(cache, heap[lru].k), ch, p)
  /\ mru' = p
  /\ UNCHANGED actual_size

(* The cache is full: the position of the lru is freed once p is linked.   *)
(* With C = 1 the new lru is p itself.                                     *)
StoreAndEvict(ch, p) ==
  /\ New(ch, p) /\ actual_size # 0 /\ actual_size = C
  /\ LET h == Pushed(ch, p) IN
       /\ lru' = h[lru].newer
       /\ heap' = Without([h EXCEPT ![h[lru].newer].older = Null], lru)
       /\ cache' = Extended(Without(cache, heap[lru].k), ch, p)
  /\ mru' = p
  /\ UNCHANGED actual_size
-----------------------------------------------------------------------------
Empty == [x \in {} |-> Null]

Init == /\ actual_size = 0
        /\ lru = Null /\ mru = Null
        /\ cache = Empty /\ heap = Empty

Next == \E ch \in Chunk :
          \/ Hit(ch)
          \/ \E p \in Cell :
               StoreFirst(ch, p) \/ StoreMore(ch, p) \/ StoreAndEvict(ch, p)

Spec == Init /\ [][Next]_vars
-----------------------------------------------------------------------------
(* Every variable has its type.                                            *)
TypeOK ==
  /\ actual_size \in 0 .. C
  /\ {lru, mru} \subseteq Cell \cup {Null}
  /\ DOMAIN cache \subseteq Chunk /\ DOMAIN heap \subseteq Cell
  /\ \A ch \in DOMAIN cache : cache[ch] \in Cell
  /\ \A p \in DOMAIN heap :
       heap[p] \in [older : Cell \cup {Null}, newer : Cell \cup {Null},
                    k : Chunk]

(* No pointer of the cache, of the list or of its ends refers to a freed   *)
(* position: data_lookup and data_store follow them without a check.       *)
NoDanglingPointer ==
  /\ {lru, mru} \subseteq DOMAIN heap \cup {Null}
  /\ \A ch \in DOMAIN cache : cache[ch] \in DOMAIN heap
  /\ \A p \in DOMAIN heap :
       {heap[p].older, heap[p].newer} \subseteq DOMAIN heap \cup {Null}

(* The map, the list and the counter agree: every position belongs to the  *)
(* chunk mapped to it, no position is lost, older and newer are inverse,   *)
(* and only the ends of the list have no neighbour.                        *)
MapAndListAgree ==
  /\ actual_size = Cardinality(DOMAIN cache)
  /\ DOMAIN heap = {cache[ch] : ch \in DOMAIN cache}
  /\ \A ch \in DOMAIN cache : heap[cache[ch]].k = ch
  /\ \A p, q \in DOMAIN heap : heap[p].older = q <=> heap[q].newer = p
  /\ \A p \in DOMAIN heap : /\ heap[p].older = Null <=> p = lru
                            /\ heap[p].newer = Null <=> p = mru

(* The chunks in the order a walk from mru along older finds them.         *)
Walk[i \in Nat \ {0}] ==
  IF i = 1 THEN mru
  ELSE IF Walk[i - 1] \in DOMAIN heap THEN heap[Walk[i - 1]].older ELSE Null

Order == [i \in 1 .. actual_size |->
            IF Walk[i] \in DOMAIN heap THEN heap[Walk[i]].k ELSE Null]

Abstract == INSTANCE LruOrder WITH order <- Order

(* The pointers realise the least-recently-used order: the walk finds      *)
(* every stored chunk once, a hit brings its chunk to the front, and the   *)
(* chunk evicted is the one that was stored or hit longest ago.            *)
ImplementsLruOrder == Abstract!Spec
=============================================================================
