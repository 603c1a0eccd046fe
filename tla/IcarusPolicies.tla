-------------------------- MODULE IcarusPolicies ---------------------------
(***************************************************************************)
(* The replacement policies of Icarus (models/cache.py).                   *)
(*                                                                         *)
(* A cache object is a record whose field policy is its class and whose    *)
(* other fields are its attributes.  A call is an operator on such         *)
(* records; put yields a set of outcomes, each the object it leaves behind *)
(* and the item it returns as evicted, for RandEvictionCache draws one.    *)
(*                                                                         *)
(* LfuCache, FifoCache and RandEvictionCache ask self.has, which a wrapper *)
(* replaces: has is the answer they get.  LruCache and SegmentedLruCache   *)
(* look into their own list or map.                                        *)
(***************************************************************************)
EXTENDS Integers, Sequences, FiniteSets, LinkedSet

CONSTANTS
  Item,      \* the contents that may be cached
  MaxLen,    \* the size of a cache
  Segments,  \* the segments of a SegmentedLruCache
  KeyError   \* the exception of a map, a set or a deque

ASSUME PolicyAssumption ==
  /\ None \notin Item /\ KeyError \notin Item \cup {None}
  /\ MaxLen \in Nat \ {0}
  /\ Segments \in 1 .. MaxLen

SegmentMax(i) == (MaxLen \div Segments) + IF i =< MaxLen % Segments THEN 1 ELSE 0

(* Places of a deque or an array, the first one where there are several.   *)
FirstPlace(q, k) == CHOOSE i \in DOMAIN q : q[i] = k /\ \A j \in 1 .. i - 1 : q[j] # k

New(policy) ==
  CASE policy = "NULL" -> [policy |-> policy]
    [] policy = "LRU"  -> [policy |-> policy, list |-> EmptySet]
    [] policy = "SLRU" -> [policy |-> policy, map |-> <<>>,
                           segment |-> [i \in 1 .. Segments |-> EmptySet]]
    [] policy = "LFU"  -> [policy |-> policy, count |-> <<>>, t |-> 0]
    [] policy = "FIFO" -> [policy |-> policy, set |-> {}, d |-> <<>>]
    [] policy = "RAND" -> [policy |-> policy, set |-> {},
                           a |-> [i \in 1 .. MaxLen |-> None]]

Held(b) ==
  CASE b.policy = "NULL" -> {}
    [] b.policy = "LRU"  -> Items(b.list)
    [] b.policy = "SLRU" -> DOMAIN b.map
    [] b.policy = "LFU"  -> DOMAIN b.count
    [] OTHER             -> b.set

MaxLength(b) == IF b.policy = "NULL" THEN 0 ELSE MaxLen

Put1(f, k, v) == [j \in DOMAIN f \cup {k} |-> IF j = k THEN v ELSE f[j]]

Drop(f, k) == [j \in DOMAIN f \ {k} |-> f[j]]

---------------------------------------------------------------------------
(* Mutation: the map still has the demoted item in its old segment.        *)
SlruHitForgetful(b, k) ==
  LET seg == b.map[k] IN
    IF seg = 1
    THEN [b EXCEPT !.segment[1] = MoveToTop(@, k)]
    ELSE LET above   == AppendTop(b.segment[seg - 1], k)
             below   == Remove(b.segment[seg], k)
         IN  IF Cardinality(Items(above)) > SegmentMax(seg - 1)
             THEN [b EXCEPT !.segment[seg - 1] = PopBottom(above),
                            !.segment[seg] = AppendTop(below, above.bottom),
                            !.map[k] = seg - 1]
             ELSE [b EXCEPT !.segment[seg - 1] = above, !.segment[seg] = below,
                            !.map[k] = seg - 1]

(* SegmentedLruCache: a hit promotes the item to the segment above, which  *)
(* demotes its own last item when it has become too long.                  *)
SlruHit(b, k) ==
  LET seg == b.map[k] IN
    IF seg = 1
    THEN [b EXCEPT !.segment[1] = MoveToTop(@, k)]
    ELSE LET above   == AppendTop(b.segment[seg - 1], k)
             below   == Remove(b.segment[seg], k)
             demoted == above.bottom
             full    == Cardinality(Items(above)) > SegmentMax(seg - 1)
         IN  IF full
             THEN [b EXCEPT !.segment[seg - 1] = PopBottom(above),
                            !.segment[seg] = AppendTop(below, demoted),
                            !.map[k] = seg - 1, !.map[demoted] = seg]
             ELSE [b EXCEPT !.segment[seg - 1] = above, !.segment[seg] = below,
                            !.map[k] = seg - 1]

SlruInsert(b, k) ==
  LET last == AppendTop(b.segment[Segments], k)
      map  == Put1(b.map, k, Segments)
  IN  IF Cardinality(Items(last)) > SegmentMax(Segments)
      THEN << [b EXCEPT !.segment[Segments] = PopBottom(last),
                        !.map = Drop(map, last.bottom)], last.bottom >>
      ELSE << [b EXCEPT !.segment[Segments] = last, !.map = map], None >>

(* LfuCache: the smallest pair of a frequency and a time of insertion is   *)
(* evicted, the new item's own perhaps.                                    *)
Less(x, y) == x[1] < y[1] \/ (x[1] = y[1] /\ x[2] < y[2])

(* Mutation: the item inserted first is evicted, whatever its frequency.   *)
LfuPutOldest(b, k) ==
  LET count   == Put1(b.count, k, <<1, b.t + 1>>)
      evicted == CHOOSE x \in DOMAIN count :
                   \A y \in DOMAIN count \ {x} : count[x][2] < count[y][2]
  IN  IF Cardinality(DOMAIN count) > MaxLen
      THEN << [b EXCEPT !.count = Drop(count, evicted), !.t = @ + 1], evicted >>
      ELSE << [b EXCEPT !.count = count, !.t = @ + 1], None >>

LfuPut(b, k) ==
  LET count   == Put1(b.count, k, <<1, b.t + 1>>)
      evicted == CHOOSE x \in DOMAIN count :
                   \A y \in DOMAIN count \ {x} : Less(count[x], count[y])
  IN  IF Cardinality(DOMAIN count) > MaxLen
      THEN << [b EXCEPT !.count = Drop(count, evicted), !.t = @ + 1], evicted >>
      ELSE << [b EXCEPT !.count = count, !.t = @ + 1], None >>

(* Mutation: the evicted item is not returned.                             *)
FifoPutSilent(b, k, has) ==
  LET set == b.set \cup {k}
      d   == IF has THEN b.d ELSE <<k>> \o b.d
  IN  IF Cardinality(set) =< MaxLen THEN << [b EXCEPT !.set = set, !.d = d], None >>
      ELSE << [b EXCEPT !.set = set \ {d[Len(d)]}, !.d = SubSeq(d, 1, Len(d) - 1)], None >>

(* FifoCache: the test of the length is made for an item that was there,   *)
(* too; set.remove raises for an item the deque held twice.                *)
FifoPut(b, k, has) ==
  LET set     == b.set \cup {k}
      d       == IF has THEN b.d ELSE <<k>> \o b.d
      evicted == d[Len(d)]
      popped  == SubSeq(d, 1, Len(d) - 1)
  IN  IF Cardinality(set) =< MaxLen THEN << [b EXCEPT !.set = set, !.d = d], None >>
      ELSE IF evicted \in set THEN << [b EXCEPT !.set = set \ {evicted}, !.d = popped], evicted >>
      ELSE << [b EXCEPT !.set = set, !.d = popped], KeyError >>

(* RandEvictionCache: the first len places of the array are in use.        *)
RandPut(b, k) ==
  LET n == Cardinality(b.set) IN
    IF n = MaxLen
    THEN {<< [b EXCEPT !.a[i] = k, !.set = (@ \ {b.a[i]}) \cup {k}], b.a[i] >> : i \in 1 .. MaxLen}
    ELSE {<< [b EXCEPT !.a[n + 1] = k, !.set = @ \cup {k}], None >>}

RandRemove(b, k) ==
  LET n == Cardinality(b.set)
      i == FirstPlace(b.a, k)
  IN  [b EXCEPT !.a = [[b.a EXCEPT ![i] = b.a[n]] EXCEPT ![n] = None], !.set = @ \ {k}]
---------------------------------------------------------------------------
(* get: the answer, and the object after it.                               *)
GetHits(b, k, has) == IF b.policy \in {"LRU", "SLRU"} THEN k \in Held(b) ELSE has

Got(b, k, has) ==
  IF ~GetHits(b, k, has) THEN b
  ELSE CASE b.policy = "LRU"  -> [b EXCEPT !.list = MoveToTop(@, k)]
         [] b.policy = "SLRU" -> SlruHit(b, k)
         [] b.policy = "LFU"  -> [b EXCEPT !.count[k][1] = @ + 1]
         [] OTHER             -> b

(* Mutation: the length is tested before the item is appended.             *)
LruPutLong(b, k) ==
  LET list == AppendTop(b.list, k) IN
    IF k \in Items(b.list) THEN << [b EXCEPT !.list = MoveToTop(@, k)], None >>
    ELSE IF Cardinality(Items(b.list)) > MaxLen
    THEN << [b EXCEPT !.list = PopBottom(list)], list.bottom >>
    ELSE << [b EXCEPT !.list = list], None >>

LruPut(b, k) ==
  LET list == AppendTop(b.list, k) IN
    IF k \in Items(b.list) THEN << [b EXCEPT !.list = MoveToTop(@, k)], None >>
    ELSE IF Cardinality(Items(list)) > MaxLen
    THEN << [b EXCEPT !.list = PopBottom(list)], list.bottom >>
    ELSE << [b EXCEPT !.list = list], None >>

SlruPut(b, k) == IF k \in DOMAIN b.map THEN << SlruHit(b, k), None >> ELSE SlruInsert(b, k)

PutOutcomes(b, k, has) ==
  CASE b.policy = "LRU"  -> {LruPut(b, k)}
    [] b.policy = "SLRU" -> {SlruPut(b, k)}
    [] b.policy = "LFU"  -> {IF has THEN <<b, None>> ELSE LfuPut(b, k)}
    [] b.policy = "FIFO" -> {FifoPut(b, k, has)}
    [] b.policy = "RAND" -> IF has THEN {<<b, None>>} ELSE RandPut(b, k)
    [] b.policy = "NULL" -> {<<b, None>>}

(* remove(k), which changes nothing where k is not held.                   *)
Removed(b, k) ==
  IF k \notin Held(b) THEN b
  ELSE CASE b.policy = "LRU"  -> [b EXCEPT !.list = Remove(@, k)]
         [] b.policy = "SLRU" -> [b EXCEPT !.map = Drop(@, k), !.segment[b.map[k]] = Remove(@, k)]
         [] b.policy = "LFU"  -> [b EXCEPT !.count = Drop(@, k)]
         [] b.policy = "FIFO" -> [b EXCEPT !.set = @ \ {k}, !.d = RemovedAt(@, FirstPlace(@, k))]
         [] b.policy = "RAND" -> RandRemove(b, k)

(* clear keeps the clock of LfuCache and the array of RandEvictionCache.   *)
Cleared(b) ==
  CASE b.policy = "LFU"  -> [b EXCEPT !.count = <<>>]
    [] b.policy = "RAND" -> [b EXCEPT !.set = {}]
    [] OTHER             -> New(b.policy)

(* dump: the items from the last to be evicted to the first.  It has no    *)
(* such order for RandEvictionCache.                                       *)
Descending(count) ==
  CHOOSE q \in [1 .. Cardinality(DOMAIN count) -> DOMAIN count] :
    \A i, j \in DOMAIN q : i < j => Less(count[q[j]], count[q[i]])

Joined(segment) ==
  LET first[i \in 0 .. Segments] ==
        IF i = 0 THEN <<>> ELSE first[i - 1] \o Listing(segment[i])
  IN  first[Segments]

Dump(b) ==
  CASE b.policy = "LRU"  -> Listing(b.list)
    [] b.policy = "SLRU" -> Joined(b.segment)
    [] b.policy = "LFU"  -> Descending(b.count)
    [] b.policy = "FIFO" -> b.d
=============================================================================
