--------------------------- MODULE LruCacheProofs ---------------------------
(***************************************************************************)
(* The pointers of lru_cache are always those of one list, for every       *)
(* capacity, catalogue and memory, and implement the least-recently-used   *)
(* order.                                                                  *)
(***************************************************************************)
EXTENDS LruCache, WellFoundedInduction, FiniteSetTheorems, SequenceTheorems,
        FunctionTheorems, TLAPS

Elements(s) == {s[i] : i \in DOMAIN s}

Distinct(s) == \A i, j \in DOMAIN s : s[i] = s[j] => i = j

(* A sequence without repetition has as many elements as places.           *)
LEMMA DistinctCardinality ==
  ASSUME NEW S, NEW s \in Seq(S), Distinct(s)
  PROVE  IsFiniteSet(Elements(s)) /\ Cardinality(Elements(s)) = Len(s)
<1>1. Len(s) \in Nat /\ DOMAIN s = 1 .. Len(s) /\ s \in [1 .. Len(s) -> S]
  BY LenProperties
<1>2. s \in [1 .. Len(s) -> Elements(s)]
  BY <1>1 DEF Elements
<1>3. s \in Bijection(1 .. Len(s), Elements(s))
  BY <1>1, <1>2, Fun_IsBij DEF Elements, Distinct
<1>4. ExistsBijection(1 .. Len(s), Elements(s))
  BY <1>3 DEF ExistsBijection
<1> QED BY <1>1, <1>4, FS_CountingElements, FS_NatBijection

(* A nonempty set of numbers has a least one: of the intervals from 0 to   *)
(* its members one contains no other.  Induction along the list is by the  *)
(* least place where a claim would fail.                                   *)
LEMMA LeastNumber ==
  ASSUME NEW T \in SUBSET Nat, T # {}
  PROVE  \E x \in T : \A y \in T : x =< y
<1> DEFINE U == {0 .. n : n \in T}
<1>1. U \subseteq FiniteSubsetsOf(Nat) /\ U # {}
  <2>1. ASSUME NEW n \in T PROVE 0 .. n \in FiniteSubsetsOf(Nat)
    <3>1. n \in Int /\ 0 \in Int /\ 0 .. n \in SUBSET Nat
      OBVIOUS
    <3>2. IsFiniteSet(0 .. n)
      BY <3>1, FS_Interval
    <3> QED BY <3>1, <3>2 DEF FiniteSubsetsOf
  <2> QED BY <2>1
<1>2. PICK u \in U : \A w \in U : <<w, u>> \notin StrictSubsetOrdering(Nat)
  <2> HIDE DEF U
  <2> QED BY <1>1, FS_StrictSubsetOrderingWellFounded, WFMin
<1>3. PICK n \in T : u = 0 .. n
  OBVIOUS
<1>4. ASSUME NEW y \in T, y < n PROVE FALSE
  <2>1. /\ 0 .. y \in SUBSET Nat /\ 0 .. n \in SUBSET Nat
        /\ 0 .. y \subseteq 0 .. n /\ n \in 0 .. n /\ n \notin 0 .. y
    BY <1>4
  <2>2. <<0 .. y, 0 .. n>> \in StrictSubsetOrdering(Nat)
    BY <2>1 DEF StrictSubsetOrdering
  <2> QED BY <1>2, <1>3, <2>2
<1> QED BY <1>4
-----------------------------------------------------------------------------
(* The fields of a position.                                               *)
Fields == [older : Cell \cup {Null}, newer : Cell \cup {Null}, k : Chunk]

(* q lists n positions of the memory h from mru to lru, linked both ways,  *)
(* and no other position is allocated.                                     *)
Linked(q, n, h) ==
  /\ q \in [1 .. n -> Cell]
  /\ \A i, j \in 1 .. n : q[i] = q[j] => i = j
  /\ DOMAIN h = {q[i] : i \in 1 .. n}
  /\ \A i \in 1 .. n : h[q[i]] \in Fields
  /\ \A i \in 1 .. n : h[q[i]].older = IF i = n THEN Null ELSE q[i + 1]
  /\ \A i \in 1 .. n : h[q[i]].newer = IF i = 1 THEN Null ELSE q[i - 1]

(* m and l are the ends of q.                                              *)
Ends(q, n, l, m) == /\ m = IF n = 0 THEN Null ELSE q[1]
                    /\ l = IF n = 0 THEN Null ELSE q[n]

(* The map c sends each stored chunk to its position, and nothing else.    *)
Mapped(q, n, h, c) == /\ DOMAIN c = {h[q[i]].k : i \in 1 .. n}
                      /\ \A i \in 1 .. n : c[h[q[i]].k] = q[i]

(* q lists the positions of the cache.                                     *)
Line(q) == /\ actual_size \in 0 .. C
           /\ Linked(q, actual_size, heap)
           /\ Ends(q, actual_size, lru, mru)
           /\ Mapped(q, actual_size, heap, cache)

(* The inductive invariant: the pointers are those of some list.           *)
IsLine == \E q : Line(q)

(* The chunks at the positions of q.                                       *)
Chunks(q, n, h) == [i \in 1 .. n |-> h[q[i]].k]

(* The walk from mru finds the positions in order, and then nothing.       *)
LEMMA WalkIsLine ==
  ASSUME NEW q, Line(q)
  PROVE  \A i \in Nat \ {0} : Walk[i] = IF i =< actual_size THEN q[i] ELSE Null
<1> DEFINE n == actual_size
           g == [i \in Nat \ {0} |-> IF i =< n THEN q[i] ELSE Null]
<1>1. n \in Nat /\ Linked(q, n, heap) /\ Ends(q, n, lru, mru)
  BY CapacityAssumption DEF Line
<1>2. g = [i \in Nat \ {0} |->
             IF i = 1 THEN mru
             ELSE IF g[i - 1] \in DOMAIN heap THEN heap[g[i - 1]].older ELSE Null]
  <2> SUFFICES ASSUME NEW i \in Nat \ {0}
               PROVE  g[i] = IF i = 1 THEN mru
                             ELSE IF g[i - 1] \in DOMAIN heap THEN heap[g[i - 1]].older
                             ELSE Null
    OBVIOUS
  <2>1. CASE i = 1
    BY <1>1, <2>1 DEF Ends
  <2>2. CASE i # 1 /\ i - 1 =< n
    <3>1. i - 1 \in 1 .. n /\ i - 1 \in Nat \ {0} /\ g[i - 1] = q[i - 1]
      BY <1>1, <2>2
    <3>2. q[i - 1] \in DOMAIN heap
      BY <1>1, <3>1 DEF Linked
    <3>3. heap[q[i - 1]].older = IF i - 1 = n THEN Null ELSE q[(i - 1) + 1]
      BY <1>1, <3>1 DEF Linked
    <3>4. (i - 1) + 1 = i /\ (i =< n <=> i - 1 # n)
      BY <1>1, <2>2
    <3> QED BY <2>2, <3>1, <3>2, <3>3, <3>4
  <2>3. CASE i # 1 /\ ~(i - 1 =< n)
    <3>1. g[i - 1] = Null /\ g[i] = Null
      BY <1>1, <2>3
    <3>2. Null \notin DOMAIN heap
      BY <1>1, CellAssumption DEF Linked
    <3> QED BY <2>3, <3>1, <3>2
  <2> QED BY <2>1, <2>2, <2>3
<1>3. Walk = [i \in Nat \ {0} |->
                IF i = 1 THEN mru
                ELSE IF Walk[i - 1] \in DOMAIN heap THEN heap[Walk[i - 1]].older ELSE Null]
  <2> HIDE DEF g
  <2> QED BY <1>2 DEF Walk
<1> DEFINE W == Walk
           T == {i \in Nat \ {0} : W[i] # g[i]}
<1>4. W = [i \in Nat \ {0} |->
             IF i = 1 THEN mru
             ELSE IF W[i - 1] \in DOMAIN heap THEN heap[W[i - 1]].older ELSE Null]
  BY <1>3
<1>5. T = {}
  <2> SUFFICES ASSUME T # {} PROVE FALSE
    OBVIOUS
  <2> HIDE DEF W, g
  <2>1. PICK i \in T : \A j \in T : i =< j
    <3>1. T \in SUBSET Nat
      OBVIOUS
    <3> HIDE DEF T
    <3> QED BY <3>1, LeastNumber
  <2>2. CASE i = 1
    BY <1>2, <1>4, <2>2
  <2>3. CASE i # 1
    <3>1. i - 1 \in Nat \ {0} /\ i - 1 \notin T /\ i \in Nat \ {0}
      BY <2>1, <2>3
    <3>2. W[i - 1] = g[i - 1]
      BY <3>1
    <3>3. W[i] = IF W[i - 1] \in DOMAIN heap THEN heap[W[i - 1]].older ELSE Null
      BY <1>4, <2>3, <3>1
    <3>4. g[i] = IF g[i - 1] \in DOMAIN heap THEN heap[g[i - 1]].older ELSE Null
      BY <1>2, <2>3, <3>1
    <3> QED BY <3>2, <3>3, <3>4
  <2> QED BY <2>2, <2>3
<1> QED BY <1>5

(* The order of the abstract specification is that of the list.            *)
LEMMA OrderIsListed == \A q : Line(q) => Order = Chunks(q, actual_size, heap)
<1> SUFFICES ASSUME NEW q, Line(q) PROVE Order = Chunks(q, actual_size, heap)
  OBVIOUS
<1>1. \A i \in 1 .. actual_size :
        /\ i \in Nat \ {0} /\ i =< actual_size
        /\ q[i] \in DOMAIN heap
  BY CapacityAssumption DEF Line, Linked
<1>2. \A i \in 1 .. actual_size : Walk[i] = q[i]
  BY <1>1, WalkIsLine
<1> QED BY <1>1, <1>2 DEF Order, Chunks

(* The same of the next state.                                             *)
LEMMA NextOrderIsListed ==
  \A q : Line(q)' => Order' = Chunks(q, actual_size', heap')
<1>1. (\A q : Line(q) => Order = Chunks(q, actual_size, heap))'
  BY OrderIsListed, PTL
<1> QED BY <1>1 DEF Chunks
-----------------------------------------------------------------------------
(* The chunks of the list are those of the map, each once.                 *)
LEMMA ChunksDistinct ==
  ASSUME NEW q, NEW n \in Nat, NEW h, NEW c, Linked(q, n, h), Mapped(q, n, h, c)
  PROVE  /\ Chunks(q, n, h) \in Seq(Chunk)
         /\ Len(Chunks(q, n, h)) = n
         /\ Distinct(Chunks(q, n, h))
         /\ Elements(Chunks(q, n, h)) = DOMAIN c
<1> DEFINE s == Chunks(q, n, h)
<1>1. \A i \in 1 .. n : h[q[i]].k \in Chunk
  BY DEF Linked, Fields
<1>2. s \in [1 .. n -> Chunk]
  BY <1>1 DEF Chunks
<1>3. s \in Seq(Chunk) /\ Len(s) = n /\ DOMAIN s = 1 .. n
  BY <1>2
<1>4. \A i \in 1 .. n : s[i] = h[q[i]].k
  BY DEF Chunks
<1>5. Distinct(s)
  <2> SUFFICES ASSUME NEW i \in 1 .. n, NEW j \in 1 .. n, s[i] = s[j] PROVE i = j
    BY <1>3 DEF Distinct
  <2>1. c[s[i]] = q[i] /\ c[s[j]] = q[j]
    BY <1>4 DEF Mapped
  <2> QED BY <2>1 DEF Linked
<1>6. Elements(s) = DOMAIN c
  BY <1>3, <1>4 DEF Elements, Mapped
<1> QED BY <1>3, <1>5, <1>6

(* A list is well typed.                                                   *)
LEMMA LineIsTyped == ASSUME NEW q, Line(q) PROVE TypeOK
<1> DEFINE n == actual_size
<1>1. n \in Nat /\ n \in 0 .. C /\ Linked(q, n, heap) /\ Ends(q, n, lru, mru)
        /\ Mapped(q, n, heap, cache)
  BY CapacityAssumption DEF Line
<1> HIDE DEF n
<1>2. {lru, mru} \subseteq Cell \cup {Null}
  <2>1. n # 0 => 1 \in 1 .. n /\ n \in 1 .. n
    BY <1>1
  <2> QED BY <1>1, <2>1 DEF Linked, Ends
<1>3. \A p \in DOMAIN heap : heap[p] \in Fields /\ p \in Cell
  BY <1>1 DEF Linked
<1>4. \A ch \in DOMAIN cache : ch \in Chunk /\ cache[ch] \in Cell
  BY <1>1 DEF Linked, Mapped, Fields
<1>5. DOMAIN cache \subseteq Chunk /\ DOMAIN heap \subseteq Cell
  BY <1>3, <1>4
<1> QED BY <1>1, <1>2, <1>3, <1>4, <1>5 DEF TypeOK, Fields, n

(* Nothing of a list points out of it.                                     *)
LEMMA LineDoesNotDangle == ASSUME NEW q, Line(q) PROVE NoDanglingPointer
<1> DEFINE n == actual_size
<1>1. n \in Nat /\ Linked(q, n, heap) /\ Ends(q, n, lru, mru) /\ Mapped(q, n, heap, cache)
  BY CapacityAssumption DEF Line
<1> HIDE DEF n
<1>2. \A i \in 1 .. n : q[i] \in DOMAIN heap
  BY <1>1 DEF Linked
<1>3. {lru, mru} \subseteq DOMAIN heap \cup {Null}
  <2>1. n # 0 => 1 \in 1 .. n /\ n \in 1 .. n
    BY <1>1
  <2> QED BY <1>1, <1>2, <2>1 DEF Ends
<1>4. \A ch \in DOMAIN cache : cache[ch] \in DOMAIN heap
  BY <1>1, <1>2 DEF Mapped
<1>5. ASSUME NEW p \in DOMAIN heap
      PROVE  {heap[p].older, heap[p].newer} \subseteq DOMAIN heap \cup {Null}
  <2>1. PICK i \in 1 .. n : p = q[i]
    BY <1>1 DEF Linked
  <2>2. (i # n => i + 1 \in 1 .. n) /\ (i # 1 => i - 1 \in 1 .. n)
    BY <1>1
  <2>3. /\ heap[q[i]].older = IF i = n THEN Null ELSE q[i + 1]
        /\ heap[q[i]].newer = IF i = 1 THEN Null ELSE q[i - 1]
    BY <1>1 DEF Linked
  <2> QED BY <1>2, <2>1, <2>2, <2>3
<1> QED BY <1>3, <1>4, <1>5 DEF NoDanglingPointer

(* The map, the list and the counter of a list agree.                      *)
LEMMA LineAgrees == ASSUME NEW q, Line(q) PROVE MapAndListAgree
<1> DEFINE n == actual_size
<1>1. n \in Nat /\ Linked(q, n, heap) /\ Ends(q, n, lru, mru) /\ Mapped(q, n, heap, cache)
  BY CapacityAssumption DEF Line
<1> HIDE DEF n
<1>2. n = Cardinality(DOMAIN cache)
  BY <1>1, ChunksDistinct, DistinctCardinality
<1>3. DOMAIN heap = {cache[ch] : ch \in DOMAIN cache}
  <2>1. /\ \A i \in 1 .. n : heap[q[i]].k \in DOMAIN cache /\ cache[heap[q[i]].k] = q[i]
        /\ \A ch \in DOMAIN cache : \E i \in 1 .. n : ch = heap[q[i]].k
    BY <1>1 DEF Mapped
  <2>2. DOMAIN heap = {q[i] : i \in 1 .. n}
    BY <1>1 DEF Linked
  <2>3. DOMAIN heap \subseteq {cache[ch] : ch \in DOMAIN cache}
    BY <2>1, <2>2
  <2>4. {cache[ch] : ch \in DOMAIN cache} \subseteq DOMAIN heap
    BY <2>1, <2>2
  <2> QED BY <2>3, <2>4
<1>4. \A ch \in DOMAIN cache : heap[cache[ch]].k = ch
  BY <1>1 DEF Mapped
<1>5. ASSUME NEW p \in DOMAIN heap, NEW p2 \in DOMAIN heap
      PROVE  heap[p].older = p2 <=> heap[p2].newer = p
  <2>1. PICK i \in 1 .. n, j \in 1 .. n : p = q[i] /\ p2 = q[j]
    BY <1>1 DEF Linked
  <2>2. q[i] # Null /\ q[j] # Null
    BY <1>1, CellAssumption DEF Linked
  <2>3. heap[p].older = p2 <=> i + 1 = j
    <3>1. i # n => i + 1 \in 1 .. n
      BY <1>1
    <3>2. i = n => i + 1 # j
      BY <1>1
    <3> QED BY <1>1, <2>1, <2>2, <3>1, <3>2 DEF Linked
  <2>4. heap[p2].newer = p <=> i = j - 1
    <3>1. j # 1 => j - 1 \in 1 .. n
      BY <1>1
    <3>2. j = 1 => i # j - 1
      BY <1>1
    <3> QED BY <1>1, <2>1, <2>2, <3>1, <3>2 DEF Linked
  <2> QED BY <2>3, <2>4
<1>6. ASSUME NEW p \in DOMAIN heap
      PROVE  (heap[p].older = Null <=> p = lru) /\ (heap[p].newer = Null <=> p = mru)
  <2>1. PICK i \in 1 .. n : p = q[i]
    BY <1>1 DEF Linked
  <2>2. /\ n # 0 /\ 1 \in 1 .. n /\ n \in 1 .. n
        /\ (i # n => i + 1 \in 1 .. n) /\ (i # 1 => i - 1 \in 1 .. n)
    BY <1>1
  <2>3. \A j \in 1 .. n : q[j] # Null
    BY <1>1, CellAssumption DEF Linked
  <2>4. lru = q[n] /\ mru = q[1]
    BY <1>1, <2>2 DEF Ends
  <2>5. heap[p].older = Null <=> i = n
    BY <1>1, <2>1, <2>2, <2>3 DEF Linked
  <2>6. heap[p].newer = Null <=> i = 1
    BY <1>1, <2>1, <2>2, <2>3 DEF Linked
  <2> QED BY <1>1, <2>1, <2>2, <2>4, <2>5, <2>6 DEF Linked
<1> QED BY <1>2, <1>3, <1>4, <1>5, <1>6 DEF MapAndListAgree, n
-----------------------------------------------------------------------------
(* An empty cache is a list of nothing.                                    *)
LEMMA LineInit == Init => IsLine
<1> SUFFICES ASSUME Init PROVE Line(<<>>)
  BY DEF IsLine
<1>1. actual_size = 0 /\ lru = Null /\ mru = Null /\ DOMAIN cache = {} /\ DOMAIN heap = {}
  BY DEF Init, Empty
<1>2. 1 .. 0 = {} /\ <<>> \in [1 .. 0 -> Cell]
  OBVIOUS
<1> QED BY <1>1, <1>2, CapacityAssumption DEF Line, Linked, Ends, Mapped
-----------------------------------------------------------------------------
(* The assignments of the code to one field of a position.                 *)
OlderSet(h, a, x) == [h EXCEPT ![a].older = x]
NewerSet(h, a, x) == [h EXCEPT ![a].newer = x]

(* Every position of a memory has its fields.                              *)
Positions(h) == \A z \in DOMAIN h : h[z] \in Fields

(* g differs from h in the pointer older of a only, which is x.              *)
OlderOnly(h, a, x, g) ==
  /\ DOMAIN g = DOMAIN h /\ Positions(g)
  /\ \A z \in DOMAIN h : /\ g[z].older = IF z = a THEN x ELSE h[z].older
                         /\ g[z].newer = h[z].newer
                         /\ g[z].k = h[z].k

(* An assignment to older leaves everything else.                          *)
LEMMA OlderAssigned ==
  ASSUME NEW h, Positions(h), NEW a \in DOMAIN h, NEW x \in Cell \cup {Null},
         NEW g, g = OlderSet(h, a, x)
  PROVE  OlderOnly(h, a, x, g)
<1>1. DOMAIN g = DOMAIN h
  BY DEF OlderSet
<1>2. g[a] = [h[a] EXCEPT !.older = x] /\ h[a] \in Fields
  BY DEF OlderSet, Positions
<1>3. g[a] \in Fields /\ g[a].older = x /\ g[a].newer = h[a].newer /\ g[a].k = h[a].k
  BY <1>2 DEF Fields
<1>4. \A z \in DOMAIN h : z # a => g[z] = h[z]
  BY DEF OlderSet
<1> QED BY <1>1, <1>3, <1>4 DEF Positions, OlderOnly

(* g differs from h in the pointer newer of a only, which is x.              *)
NewerOnly(h, a, x, g) ==
  /\ DOMAIN g = DOMAIN h /\ Positions(g)
  /\ \A z \in DOMAIN h : /\ g[z].newer = IF z = a THEN x ELSE h[z].newer
                         /\ g[z].older = h[z].older
                         /\ g[z].k = h[z].k

(* An assignment to newer leaves everything else.                          *)
LEMMA NewerAssigned ==
  ASSUME NEW h, Positions(h), NEW a \in DOMAIN h, NEW x \in Cell \cup {Null},
         NEW g, g = NewerSet(h, a, x)
  PROVE  NewerOnly(h, a, x, g)
<1>1. DOMAIN g = DOMAIN h
  BY DEF NewerSet
<1>2. g[a] = [h[a] EXCEPT !.newer = x] /\ h[a] \in Fields
  BY DEF NewerSet, Positions
<1>3. g[a] \in Fields /\ g[a].newer = x /\ g[a].older = h[a].older /\ g[a].k = h[a].k
  BY <1>2 DEF Fields
<1>4. \A z \in DOMAIN h : z # a => g[z] = h[z]
  BY DEF NewerSet
<1> QED BY <1>1, <1>3, <1>4 DEF Positions, NewerOnly
-----------------------------------------------------------------------------
(* g is h after the position p, which is not m, has been taken from its    *)
(* place, with neighbours o and w, and put before m.                       *)
Moved(h, p, o, w, m, g) ==
  /\ DOMAIN g = DOMAIN h /\ Positions(g)
  /\ \A z \in DOMAIN h :
       /\ g[z].older = IF z = p THEN m ELSE IF z = w THEN o ELSE h[z].older
       /\ g[z].newer = IF z = m THEN p ELSE IF z = p THEN Null
                       ELSE IF z = o THEN w ELSE h[z].newer
       /\ g[z].k = h[z].k

(* g differs from h in the pointers of p, which is before m now.           *)
FrontOnly(h, p, m, g) ==
  /\ DOMAIN g = DOMAIN h /\ Positions(g)
  /\ \A z \in DOMAIN h :
       /\ g[z].older = IF z = p THEN m ELSE h[z].older
       /\ g[z].newer = IF z = m THEN p ELSE IF z = p THEN Null ELSE h[z].newer
       /\ g[z].k = h[z].k

(* The three assignments of a move to the front.                           *)
LEMMA FrontAssigned ==
  ASSUME NEW h, Positions(h), NEW p \in DOMAIN h, ToFront(h, p), mru \in DOMAIN h, mru \in Cell,
         p \in Cell, mru # p
  PROVE  FrontOnly(h, p, mru, heap')
<1>1. PICK a : a = OlderSet(h, p, mru)
  OBVIOUS
<1>2. PICK b : b = NewerSet(a, p, Null)
  OBVIOUS
<1>3. heap' = NewerSet(b, mru, p)
  BY <1>1, <1>2 DEF ToFront, OlderSet, NewerSet
<1>4. OlderOnly(h, p, mru, a)
  BY <1>1, OlderAssigned
<1>5. DOMAIN a = DOMAIN h /\ Positions(a)
  BY <1>4 DEF OlderOnly
<1>6. NewerOnly(a, p, Null, b)
  BY <1>2, <1>5, NewerAssigned
<1>7. DOMAIN b = DOMAIN h /\ Positions(b)
  BY <1>5, <1>6 DEF NewerOnly
<1>8. NewerOnly(b, mru, p, heap')
  BY <1>3, <1>7, NewerAssigned
<1> QED BY <1>4, <1>5, <1>6, <1>7, <1>8 DEF OlderOnly, NewerOnly, FrontOnly

(* A hit of a position that is not at the front moves it there, whether    *)
(* it has both neighbours or is the lru.                                   *)
LEMMA PromoteMoves ==
  ASSUME NEW q, Line(q), NEW i \in 2 .. actual_size, NEW p, p = q[i], Promote(p)
  PROVE  /\ Moved(heap, p, heap[p].older, q[i - 1], q[1], heap')
         /\ actual_size' = actual_size /\ cache' = cache /\ mru' = p
         /\ lru' = IF i = actual_size THEN q[i - 1] ELSE lru
<1> DEFINE n == actual_size
<1>1. n \in Nat /\ Linked(q, n, heap) /\ Ends(q, n, lru, mru)
  BY CapacityAssumption DEF Line
<1> HIDE DEF n
<1>2. 1 \in 1 .. n /\ i \in 1 .. n /\ i - 1 \in 1 .. n /\ n # 0 /\ i # 1 /\ i - 1 # i
  BY <1>1 DEF n
<1>3. \A j \in 1 .. n : q[j] \in DOMAIN heap /\ q[j] \in Cell /\ q[j] # Null
  BY <1>1, CellAssumption DEF Linked
<1>4. Positions(heap)
  BY <1>1 DEF Linked, Positions
<1>5. PICK w : w = q[i - 1]
  OBVIOUS
<1>6. PICK o : o = heap[p].older
  OBVIOUS
<1>7. /\ heap[p].newer = w /\ w # Null /\ w # p /\ w \in DOMAIN heap /\ w \in Cell
      /\ mru = q[1] /\ mru # p /\ mru \in DOMAIN heap /\ mru \in Cell
      /\ p \in DOMAIN heap /\ p \in Cell
  BY <1>1, <1>2, <1>3, <1>5 DEF Linked, Ends
<1>8. /\ i = n => o = Null
      /\ i # n => o \in DOMAIN heap /\ o \in Cell /\ o # Null /\ o # p /\ o # w /\ o # mru
  <2>1. i # n => i + 1 \in 1 .. n /\ i + 1 # i /\ i + 1 # i - 1 /\ i + 1 # 1
    BY <1>1, <1>2
  <2>2. heap[q[i]].older = IF i = n THEN Null ELSE q[i + 1]
    BY <1>1, <1>2 DEF Linked
  <2> QED BY <1>1, <1>2, <1>3, <1>5, <1>6, <1>7, <2>1, <2>2 DEF Linked
<1>9. CASE i # n
  <2>1. /\ ToFront(UnlinkMiddle(p), p) /\ lru' = lru
        /\ actual_size' = actual_size /\ cache' = cache
    BY <1>6, <1>7, <1>8, <1>9 DEF Promote, InMiddle
  <2>2. PICK a : a = OlderSet(heap, w, o)
    OBVIOUS
  <2>3. PICK b : b = NewerSet(a, o, w)
    OBVIOUS
  <2>4. UnlinkMiddle(p) = b
    BY <1>6, <1>7, <2>2, <2>3 DEF UnlinkMiddle, OlderSet, NewerSet
  <2>5. OlderOnly(heap, w, o, a)
    BY <1>4, <1>7, <1>8, <1>9, <2>2, OlderAssigned
  <2>6. NewerOnly(a, o, w, b) /\ Positions(b) /\ DOMAIN b = DOMAIN heap
    <3>1. Positions(a) /\ DOMAIN a = DOMAIN heap
      BY <2>5 DEF OlderOnly
    <3>2. NewerOnly(a, o, w, b)
      BY <1>7, <1>8, <1>9, <2>3, <3>1, NewerAssigned
    <3> QED BY <3>1, <3>2 DEF NewerOnly
  <2>7. ToFront(b, p)
    BY <2>1, <2>4
  <2>8. FrontOnly(b, p, mru, heap')
    BY <1>7, <2>6, <2>7, FrontAssigned
  <2>9. mru' = p
    BY <2>7 DEF ToFront
  <2>10. Moved(heap, p, o, w, mru, heap')
    BY <2>5, <2>6, <2>8 DEF Moved, OlderOnly, NewerOnly, FrontOnly
  <2> QED BY <1>5, <1>6, <1>7, <1>9, <2>1, <2>9, <2>10 DEF n
<1>10. CASE i = n
  <2>1. /\ ToFront(UnlinkLru(p), p) /\ lru' = w
        /\ actual_size' = actual_size /\ cache' = cache
    BY <1>6, <1>7, <1>8, <1>10 DEF Promote, InMiddle
  <2>2. PICK a : a = OlderSet(heap, w, o)
    OBVIOUS
  <2>4. UnlinkLru(p) = a
    BY <1>7, <1>8, <1>10, <2>2 DEF UnlinkLru, OlderSet
  <2>5. OlderOnly(heap, w, o, a)
    BY <1>4, <1>7, <1>8, <1>10, <2>2, OlderAssigned
  <2>7. ToFront(a, p)
    BY <2>1, <2>4
  <2>8. FrontOnly(a, p, mru, heap')
    <3>1. Positions(a) /\ DOMAIN a = DOMAIN heap
      BY <2>5 DEF OlderOnly
    <3> QED BY <1>7, <2>7, <3>1, FrontAssigned
  <2>9. mru' = p
    BY <2>7 DEF ToFront
  <2>10. \A z \in DOMAIN heap : z # o
    BY <1>1, <1>8, <1>10, CellAssumption DEF Linked
  <2>11. Moved(heap, p, o, w, mru, heap')
    BY <2>5, <2>8, <2>10 DEF Moved, OlderOnly, FrontOnly
  <2> QED BY <1>5, <1>6, <1>7, <1>10, <2>1, <2>9, <2>11 DEF n
<1> QED BY <1>9, <1>10
-----------------------------------------------------------------------------
(* q with its place i moved to the front.                                  *)
Fronted(q, n, i) ==
  [j \in 1 .. n |-> IF j = 1 THEN q[i] ELSE IF j =< i THEN q[j - 1] ELSE q[j]]

(* q and r list the same positions.                                        *)
SamePositions(q, r, n) == /\ \A j \in 1 .. n : \E j2 \in 1 .. n : r[j] = q[j2]
                          /\ \A j \in 1 .. n : \E j2 \in 1 .. n : q[j] = r[j2]

(* A move to the front loses no position.                                  *)
LEMMA FrontedPlaces ==
  ASSUME NEW n \in Nat, NEW i \in 1 .. n, NEW q, NEW r, r = Fronted(q, n, i)
  PROVE  SamePositions(q, r, n)
<1>1. ASSUME NEW j \in 1 .. n PROVE \E j2 \in 1 .. n : r[j] = q[j2]
  <2>1. j # 1 => j - 1 \in 1 .. n
    OBVIOUS
  <2>2. r[j] = IF j = 1 THEN q[i] ELSE IF j =< i THEN q[j - 1] ELSE q[j]
    BY DEF Fronted
  <2> QED BY <2>1, <2>2
<1>2. ASSUME NEW j \in 1 .. n PROVE \E j2 \in 1 .. n : q[j] = r[j2]
  <2>1. CASE j = i
    <3>1. 1 \in 1 .. n /\ r[1] = q[i]
      BY DEF Fronted
    <3> QED BY <2>1, <3>1
  <2>2. CASE j < i
    <3>1. j + 1 \in 1 .. n /\ j + 1 # 1 /\ j + 1 =< i /\ (j + 1) - 1 = j
      BY <2>2
    <3>2. r[j + 1] = q[j]
      BY <3>1 DEF Fronted
    <3> QED BY <3>1, <3>2
  <2>3. CASE j > i
    <3>1. j # 1 /\ ~(j =< i)
      BY <2>3
    <3>2. r[j] = q[j]
      BY <3>1 DEF Fronted
    <3> QED BY <3>2
  <2> QED BY <2>1, <2>2, <2>3
<1> QED BY <1>1, <1>2 DEF SamePositions

(* What Moved makes of a list is a list, with the moved place in front.    *)
LEMMA MovedIsLinked ==
  ASSUME NEW n \in Nat, NEW q, NEW h, Linked(q, n, h), NEW i \in 2 .. n,
         NEW g, Moved(h, q[i], h[q[i]].older, q[i - 1], q[1], g),
         NEW r, r = Fronted(q, n, i)
  PROVE  Linked(r, n, g)
<1>1. /\ q \in [1 .. n -> Cell]
      /\ \A a, b \in 1 .. n : q[a] = q[b] => a = b
      /\ DOMAIN h = {q[a] : a \in 1 .. n}
      /\ \A a \in 1 .. n : h[q[a]].older = IF a = n THEN Null ELSE q[a + 1]
      /\ \A a \in 1 .. n : h[q[a]].newer = IF a = 1 THEN Null ELSE q[a - 1]
  BY DEF Linked
<1>2. i \in 1 .. n /\ i - 1 \in 1 .. n /\ 1 \in 1 .. n /\ n # 1 /\ n # 0 /\ i # 1
  OBVIOUS
<1>3. PICK o : o = h[q[i]].older
  OBVIOUS
<1>4. o = IF i = n THEN Null ELSE q[i + 1]
  BY <1>1, <1>2, <1>3
<1>5. /\ DOMAIN g = DOMAIN h
      /\ \A z \in DOMAIN g : g[z] \in Fields
      /\ \A z \in DOMAIN h :
           /\ g[z].older = IF z = q[i] THEN q[1] ELSE IF z = q[i - 1] THEN o ELSE h[z].older
           /\ g[z].newer = IF z = q[1] THEN q[i] ELSE IF z = q[i] THEN Null
                           ELSE IF z = o THEN q[i - 1] ELSE h[z].newer
           /\ g[z].k = h[z].k
  BY <1>3 DEF Moved, Positions
<1>6. \A j \in 1 .. n : q[j] \in DOMAIN h /\ q[j] \in Cell /\ q[j] # Null
  BY <1>1, CellAssumption
<1>7. /\ SamePositions(q, r, n)
      /\ \A j \in 1 .. n : \E j2 \in 1 .. n : r[j] = q[j2]
      /\ \A j \in 1 .. n : \E j2 \in 1 .. n : q[j] = r[j2]
  <2>1. SamePositions(q, r, n)
    BY <1>2, FrontedPlaces
  <2> QED BY <2>1 DEF SamePositions
<1>8. /\ r[1] = q[i]
      /\ \A j \in 2 .. i : r[j] = q[j - 1]
      /\ \A j \in i + 1 .. n : r[j] = q[j]
  BY <1>2 DEF Fronted
<1>9. r \in [1 .. n -> Cell]
  BY <1>6, <1>7 DEF Fronted
<1>10. DOMAIN g = {r[j] : j \in 1 .. n}
  <2>1. {q[j] : j \in 1 .. n} = {r[j] : j \in 1 .. n}
    BY <1>7
  <2> QED BY <1>1, <1>5, <2>1
<1>11. \A a, b \in 1 .. n : r[a] = r[b] => a = b
  <2>1. \A a \in 1 .. n : \/ a = 1
                          \/ a \in 2 .. i /\ a - 1 \in 1 .. n /\ a - 1 # i
                          \/ a \in i + 1 .. n /\ a # i
    BY <1>2
  <2>2. \A a, b \in 2 .. i : r[a] = r[b] => a = b
    <3> SUFFICES ASSUME NEW a \in 2 .. i, NEW b \in 2 .. i, r[a] = r[b] PROVE a = b
      OBVIOUS
    <3>1. a - 1 \in 1 .. n /\ b - 1 \in 1 .. n /\ q[a - 1] = q[b - 1]
      BY <1>8
    <3>2. a - 1 = b - 1
      BY <1>1, <3>1
    <3> QED BY <3>2
  <2>3. \A a, b \in i + 1 .. n : r[a] = r[b] => a = b
    BY <1>1, <1>8
  <2>4. \A a \in 2 .. i : r[a] # r[1]
    BY <1>1, <1>2, <1>8, <2>1
  <2>5. \A a \in i + 1 .. n : r[a] # r[1]
    BY <1>1, <1>2, <1>8, <2>1
  <2>6. \A a \in 2 .. i, b \in i + 1 .. n : r[a] # r[b]
    <3> SUFFICES ASSUME NEW a \in 2 .. i, NEW b \in i + 1 .. n, r[a] = r[b] PROVE FALSE
      OBVIOUS
    <3>1. a - 1 \in 1 .. n /\ b \in 1 .. n /\ q[a - 1] = q[b] /\ a - 1 # b
      BY <1>8
    <3> QED BY <1>1, <3>1
  <2> QED BY <2>1, <2>2, <2>3, <2>4, <2>5, <2>6
<1>12. ASSUME NEW j \in 1 .. n
       PROVE  g[r[j]].older = IF j = n THEN Null ELSE r[j + 1]
  <2>1. CASE j = 1
    <3>1. r[2] = q[1] /\ j # n /\ j + 1 = 2
      BY <1>2, <1>8, <2>1
    <3> QED BY <1>2, <1>5, <1>6, <1>8, <2>1, <3>1
  <2>2. CASE j \in 2 .. i /\ j # i
    <3>1. /\ j - 1 \in 1 .. n /\ j - 1 # i /\ j - 1 # i - 1 /\ j - 1 # n /\ (j - 1) + 1 = j
          /\ j + 1 \in 2 .. i /\ (j + 1) - 1 = j /\ j # n
      BY <1>2, <2>2
    <3>2. q[j - 1] # q[i] /\ q[j - 1] # q[i - 1] /\ r[j] = q[j - 1] /\ r[j + 1] = q[j]
      BY <1>1, <1>2, <1>8, <2>2, <3>1
    <3>3. g[q[j - 1]].older = h[q[j - 1]].older
      BY <1>5, <1>6, <3>1, <3>2
    <3>4. h[q[j - 1]].older = q[j]
      BY <1>1, <3>1
    <3> QED BY <3>1, <3>2, <3>3, <3>4
  <2>3. CASE j = i
    <3>1. r[j] = q[i - 1] /\ q[i - 1] # q[i]
      BY <1>1, <1>2, <1>8, <2>3
    <3>2. g[q[i - 1]].older = o
      BY <1>2, <1>5, <1>6, <3>1
    <3>3. j # n => r[j + 1] = q[i + 1]
      <4>1. j # n => j + 1 \in i + 1 .. n
        BY <2>3
      <4> QED BY <1>8, <2>3, <4>1
    <3> QED BY <1>4, <2>3, <3>1, <3>2, <3>3
  <2>4. CASE j \in i + 1 .. n
    <3>1. r[j] = q[j] /\ j # i /\ j # i - 1 /\ (j # n => j + 1 \in i + 1 .. n)
      BY <1>8, <2>4
    <3>2. q[j] # q[i] /\ q[j] # q[i - 1]
      BY <1>1, <1>2, <3>1
    <3>3. g[q[j]].older = h[q[j]].older
      BY <1>5, <1>6, <3>2
    <3> QED BY <1>1, <1>8, <3>1, <3>3
  <2>5. j = 1 \/ (j \in 2 .. i /\ j # i) \/ j = i \/ j \in i + 1 .. n
    BY <1>2
  <2> QED BY <2>1, <2>2, <2>3, <2>4, <2>5
<1>13. ASSUME NEW j \in 1 .. n
       PROVE  g[r[j]].newer = IF j = 1 THEN Null ELSE r[j - 1]
  <2>1. CASE j = 1
    <3>1. q[i] # q[1]
      BY <1>1, <1>2
    <3> QED BY <1>2, <1>5, <1>6, <1>8, <2>1, <3>1
  <2>2. CASE j = 2
    <3>1. r[2] = q[1] /\ r[j - 1] = q[i] /\ j # 1
      BY <1>2, <1>8, <2>2
    <3> QED BY <1>2, <1>5, <1>6, <2>2, <3>1
  <2>3. CASE j \in 3 .. i
    <3>1. /\ j - 1 \in 1 .. n /\ j - 1 # 1 /\ j - 1 # i /\ (i # n => j - 1 # i + 1)
          /\ j \in 2 .. i /\ j - 1 \in 2 .. i /\ j # 1
      BY <1>2, <2>3
    <3>2. i # n => i + 1 \in 1 .. n
      BY <1>2
    <3>3. q[j - 1] # q[1] /\ q[j - 1] # q[i] /\ q[j - 1] # o
      BY <1>1, <1>2, <1>4, <1>6, <3>1, <3>2
    <3>4. g[q[j - 1]].newer = h[q[j - 1]].newer
      BY <1>5, <1>6, <3>1, <3>3
    <3>5. h[q[j - 1]].newer = q[(j - 1) - 1]
      BY <1>1, <3>1
    <3>6. r[j] = q[j - 1] /\ r[j - 1] = q[(j - 1) - 1]
      BY <1>8, <3>1
    <3> QED BY <3>1, <3>4, <3>5, <3>6
  <2>4. CASE j = i + 1
    <3>1. /\ j \in i + 1 .. n /\ j # 1 /\ j # i /\ i # n /\ j - 1 = i /\ i \in 2 .. i
      BY <1>2, <2>4
    <3>2. r[j] = q[j] /\ r[j - 1] = q[i - 1] /\ q[j] # q[1] /\ q[j] # q[i] /\ q[j] = o
      BY <1>1, <1>2, <1>4, <1>8, <2>4, <3>1
    <3> QED BY <1>5, <1>6, <3>1, <3>2
  <2>5. CASE j \in i + 2 .. n
    <3>1. /\ j \in i + 1 .. n /\ j - 1 \in i + 1 .. n /\ j # 1 /\ j # i /\ j # i + 1
          /\ i # n /\ i + 1 \in 1 .. n
      BY <1>2, <2>5
    <3>2. /\ r[j] = q[j] /\ r[j - 1] = q[j - 1]
          /\ q[j] # q[1] /\ q[j] # q[i] /\ q[j] # o
      BY <1>1, <1>2, <1>4, <1>8, <3>1
    <3>3. g[q[j]].newer = h[q[j]].newer
      BY <1>5, <1>6, <3>2
    <3> QED BY <1>1, <3>1, <3>2, <3>3
  <2>6. j = 1 \/ j = 2 \/ j \in 3 .. i \/ j = i + 1 \/ j \in i + 2 .. n
    BY <1>2
  <2> QED BY <2>1, <2>2, <2>3, <2>4, <2>5, <2>6
<1>14. \A j \in 1 .. n : g[r[j]] \in Fields
  BY <1>5, <1>10
<1> QED BY <1>5, <1>9, <1>10, <1>11, <1>12, <1>13, <1>14 DEF Linked

(* What Moved makes of the list of a cache, with the map as it was.        *)
LEMMA MovedIsMapped ==
  ASSUME NEW n \in Nat, NEW q, NEW h, Linked(q, n, h), NEW i \in 2 .. n,
         NEW g, Moved(h, q[i], h[q[i]].older, q[i - 1], q[1], g),
         NEW r, r = Fronted(q, n, i), NEW c, Mapped(q, n, h, c)
  PROVE  Mapped(r, n, g, c) /\ Chunks(r, n, g) = Fronted(Chunks(q, n, h), n, i)
<1>1. \A z \in DOMAIN h : g[z].k = h[z].k
  BY DEF Moved
<1>2. /\ \A j \in 1 .. n : \E j2 \in 1 .. n : r[j] = q[j2]
      /\ \A j \in 1 .. n : \E j2 \in 1 .. n : q[j] = r[j2]
  <2>1. i \in 1 .. n
    OBVIOUS
  <2>2. SamePositions(q, r, n)
    BY <2>1, FrontedPlaces
  <2> QED BY <2>2 DEF SamePositions
<1>3. \A j \in 1 .. n : q[j] \in DOMAIN h /\ r[j] \in DOMAIN h
  BY <1>2 DEF Linked
<1>4. \A j \in 1 .. n : g[r[j]].k = h[r[j]].k
  BY <1>1, <1>3
<1>5. DOMAIN c = {g[r[j]].k : j \in 1 .. n}
  <2>1. ASSUME NEW j \in 1 .. n PROVE g[r[j]].k \in DOMAIN c
    <3>1. PICK j2 \in 1 .. n : r[j] = q[j2]
      BY <1>2
    <3>2. h[q[j2]].k \in DOMAIN c
      BY DEF Mapped
    <3> QED BY <1>4, <3>1, <3>2
  <2>2. ASSUME NEW x \in DOMAIN c PROVE \E j \in 1 .. n : x = g[r[j]].k
    <3>1. PICK j2 \in 1 .. n : x = h[q[j2]].k
      BY DEF Mapped
    <3>2. PICK j \in 1 .. n : r[j] = q[j2]
      BY <1>2
    <3> QED BY <1>4, <3>1, <3>2
  <2> QED BY <2>1, <2>2
<1>6. ASSUME NEW j \in 1 .. n PROVE c[g[r[j]].k] = r[j]
  <2>1. PICK j2 \in 1 .. n : r[j] = q[j2]
    BY <1>2
  <2>2. c[h[q[j2]].k] = q[j2]
    BY DEF Mapped
  <2> QED BY <1>4, <2>1, <2>2
<1>7. Chunks(r, n, g) = Fronted(Chunks(q, n, h), n, i)
  <2> SUFFICES ASSUME NEW j \in 1 .. n
               PROVE  g[r[j]].k = IF j = 1 THEN Chunks(q, n, h)[i]
                                  ELSE IF j =< i THEN Chunks(q, n, h)[j - 1]
                                  ELSE Chunks(q, n, h)[j]
    BY DEF Chunks, Fronted
  <2>1. i \in 1 .. n /\ (j # 1 => j - 1 \in 1 .. n)
    OBVIOUS
  <2>2. r[j] = IF j = 1 THEN q[i] ELSE IF j =< i THEN q[j - 1] ELSE q[j]
    BY DEF Fronted
  <2> QED BY <1>4, <2>1, <2>2 DEF Chunks
<1> QED BY <1>5, <1>6, <1>7 DEF Mapped
-----------------------------------------------------------------------------
(* A hit moves its position to the front of the list, if it is not there.  *)
LEMMA HitKeepsLine ==
  ASSUME IsLine, NEW ch, Hit(ch)
  PROVE  IsLine' /\ [Abstract!Next]_Order
<1>1. PICK q : Line(q)
  BY DEF IsLine
<1> DEFINE n == actual_size
<1>2. n \in Nat /\ Linked(q, n, heap) /\ Ends(q, n, lru, mru) /\ Mapped(q, n, heap, cache)
  BY <1>1, CapacityAssumption DEF Line
<1>3. PICK i \in 1 .. n : cache[ch] = q[i]
  BY <1>2 DEF Hit, Mapped
<1>4. PICK p : p = q[i] /\ Promote(p)
  BY <1>3 DEF Hit
<1>5. Order = Chunks(q, n, heap)
  BY <1>1, OrderIsListed
<1>6. CASE i = 1
  <2>1. heap[p].newer = Null
    BY <1>2, <1>4, <1>6 DEF Linked
  <2>2. UNCHANGED vars
    BY <1>4, <2>1 DEF Promote, InMiddle, vars
  <2>3. Line(q)'
    BY <1>1, <2>2 DEF vars, Line
  <2>4. Order' = Order
    BY <1>5, <2>2, <2>3, NextOrderIsListed DEF vars
  <2> QED BY <2>3, <2>4 DEF IsLine
<1>7. CASE i # 1
  <2>0. PICK r : r = Fronted(q, n, i)
    OBVIOUS
  <2>1. i \in 2 .. n
    BY <1>2, <1>7
  <2>2. /\ Moved(heap, q[i], heap[q[i]].older, q[i - 1], q[1], heap')
        /\ actual_size' = actual_size /\ cache' = cache /\ mru' = q[i]
        /\ lru' = IF i = actual_size THEN q[i - 1] ELSE lru
    BY <1>1, <1>4, <2>1, PromoteMoves
  <2> HIDE DEF n
  <2>3. Linked(r, n, heap')
    BY <1>2, <2>0, <2>1, <2>2, MovedIsLinked
  <2>4. Mapped(r, n, heap', cache) /\ Chunks(r, n, heap') = Fronted(Chunks(q, n, heap), n, i)
    BY <1>2, <2>0, <2>1, <2>2, MovedIsMapped
  <2>5. Ends(r, n, lru', mru')
    <3>1. /\ 1 \in 1 .. n /\ n \in 1 .. n /\ n # 0 /\ n # 1
          /\ (n =< i <=> i = n) /\ (i = n => n - 1 = i - 1)
      BY <1>2, <2>1
    <3>2. r[1] = q[i]
      BY <2>0, <3>1 DEF Fronted
    <3>3. r[n] = IF n =< i THEN q[n - 1] ELSE q[n]
      BY <2>0, <3>1 DEF Fronted
    <3>4. lru = q[n] /\ lru' = IF i = n THEN q[i - 1] ELSE lru
      BY <1>2, <2>2, <3>1 DEF Ends, n
    <3> QED BY <2>2, <3>1, <3>2, <3>3, <3>4 DEF Ends
  <2>6. Line(r)'
    BY <1>1, <2>2, <2>3, <2>4, <2>5 DEF Line, n
  <2>7. Order' = Fronted(Order, n, i)
    BY <1>5, <2>2, <2>4, <2>6, NextOrderIsListed DEF n
  <2>8. DOMAIN Order = 1 .. n
    BY <1>5 DEF Chunks
  <2>9. Abstract!Use
    BY <2>1, <2>7, <2>8 DEF Abstract!Use, Abstract!Promoted, Fronted
  <2> QED BY <2>6, <2>9 DEF IsLine, Abstract!Next
<1> QED BY <1>6, <1>7
-----------------------------------------------------------------------------
(* q with p in front of it.                                                *)
Before(p, q, n) == [j \in 1 .. n + 1 |-> IF j = 1 THEN p ELSE q[j - 1]]

(* The places of the longer list.                                          *)
LEMMA BeforePlaces ==
  ASSUME NEW n \in Nat, NEW p, NEW q, NEW r, r = Before(p, q, n)
  PROVE  /\ r[1] = p
         /\ \A j \in 1 .. n : j + 1 \in 1 .. n + 1 /\ r[j + 1] = q[j]
<1>1. 1 \in 1 .. n + 1
  OBVIOUS
<1>2. \A j \in 1 .. n : j + 1 \in 1 .. n + 1 /\ j + 1 # 1 /\ (j + 1) - 1 = j
  OBVIOUS
<1> QED BY <1>1, <1>2 DEF Before

(* data_store links a new position p before the mru, which is q[1].        *)
LEMMA PushedIsLinked ==
  ASSUME NEW n \in Nat, n # 0, NEW q, NEW h, Linked(q, n, h),
         NEW p \in Cell, p \notin DOMAIN h, NEW ch \in Chunk,
         NEW g, g = Extended(NewerSet(h, q[1], p), p,
                             [older |-> q[1], newer |-> Null, k |-> ch]),
         NEW r, r = Before(p, q, n)
  PROVE  Linked(r, n + 1, g)
<1>1. /\ q \in [1 .. n -> Cell]
      /\ \A a, b \in 1 .. n : q[a] = q[b] => a = b
      /\ DOMAIN h = {q[a] : a \in 1 .. n}
      /\ \A a \in 1 .. n : h[q[a]] \in Fields
      /\ \A a \in 1 .. n : h[q[a]].older = IF a = n THEN Null ELSE q[a + 1]
      /\ \A a \in 1 .. n : h[q[a]].newer = IF a = 1 THEN Null ELSE q[a - 1]
  BY DEF Linked
<1>2. 1 \in 1 .. n
  OBVIOUS
<1>3. \A a \in 1 .. n : q[a] \in DOMAIN h /\ q[a] \in Cell /\ q[a] # p
  BY <1>1
<1>4. PICK b : b = NewerSet(h, q[1], p)
  OBVIOUS
<1>5. NewerOnly(h, q[1], p, b)
  <2>1. Positions(h) /\ q[1] \in DOMAIN h /\ p \in Cell \cup {Null}
    BY <1>1, <1>2, <1>3 DEF Positions
  <2> QED BY <1>4, <2>1, NewerAssigned
<1>6. PICK x : x = [older |-> q[1], newer |-> Null, k |-> ch]
  OBVIOUS
<1>7. x \in Fields /\ x.older = q[1] /\ x.newer = Null
  BY <1>2, <1>3, <1>6 DEF Fields
<1>8. /\ DOMAIN g = DOMAIN h \cup {p} /\ g[p] = x
      /\ \A z \in DOMAIN h : g[z] = b[z]
  <2>1. DOMAIN b = DOMAIN h
    BY <1>5 DEF NewerOnly
  <2>2. g = Extended(b, p, x)
    BY <1>4, <1>6
  <2> QED BY <2>1, <2>2 DEF Extended
<1>9. /\ r[1] = p
      /\ \A j \in 1 .. n : j + 1 \in 1 .. n + 1 /\ r[j + 1] = q[j]
  BY BeforePlaces
<1>10. \A j \in 1 .. n + 1 : j = 1 \/ (j - 1 \in 1 .. n /\ j = (j - 1) + 1)
  OBVIOUS
<1>11. \A j \in 1 .. n : /\ g[q[j]] \in Fields
                         /\ g[q[j]].older = IF j = n THEN Null ELSE q[j + 1]
                         /\ g[q[j]].newer = IF j = 1 THEN p ELSE q[j - 1]
  <2> SUFFICES ASSUME NEW j \in 1 .. n
               PROVE  /\ g[q[j]] \in Fields
                      /\ g[q[j]].older = IF j = n THEN Null ELSE q[j + 1]
                      /\ g[q[j]].newer = IF j = 1 THEN p ELSE q[j - 1]
    OBVIOUS
  <2>1. q[j] = q[1] <=> j = 1
    BY <1>1, <1>2
  <2>2. /\ g[q[j]] = b[q[j]] /\ b[q[j]] \in Fields
        /\ b[q[j]].older = h[q[j]].older
        /\ b[q[j]].newer = IF q[j] = q[1] THEN p ELSE h[q[j]].newer
    BY <1>3, <1>5, <1>8 DEF NewerOnly, Positions
  <2> QED BY <1>1, <2>1, <2>2
<1>12. r \in [1 .. n + 1 -> Cell]
  <2>1. \A j \in 1 .. n + 1 : j # 1 => q[j - 1] \in Cell
    BY <1>3, <1>10
  <2> QED BY <2>1 DEF Before
<1>13. \A i, j \in 1 .. n + 1 : r[i] = r[j] => i = j
  <2>1. \A i \in 1 .. n + 1 : i # 1 => i - 1 \in 1 .. n /\ r[i] = q[i - 1]
    BY <1>9, <1>10
  <2> SUFFICES ASSUME NEW i \in 1 .. n + 1, NEW j \in 1 .. n + 1, r[i] = r[j] PROVE i = j
    OBVIOUS
  <2>2. CASE i = 1 \/ j = 1
    BY <1>3, <1>9, <2>1, <2>2
  <2>3. CASE i # 1 /\ j # 1
    <3>1. i - 1 \in 1 .. n /\ j - 1 \in 1 .. n /\ q[i - 1] = q[j - 1]
      BY <2>1, <2>3
    <3>2. i - 1 = j - 1
      BY <1>1, <3>1
    <3> QED BY <3>2
  <2> QED BY <2>2, <2>3
<1>14. DOMAIN g = {r[j] : j \in 1 .. n + 1}
  <2>1. ASSUME NEW j \in 1 .. n + 1 PROVE r[j] \in DOMAIN g
    BY <1>3, <1>8, <1>9, <1>10
  <2>2. ASSUME NEW z \in DOMAIN g PROVE \E j \in 1 .. n + 1 : z = r[j]
    <3>1. CASE z = p
      BY <1>9, <3>1
    <3>2. CASE z \in DOMAIN h
      <4>1. PICK a \in 1 .. n : z = q[a]
        BY <1>1, <3>2
      <4> QED BY <1>9, <4>1
    <3> QED BY <1>8, <3>1, <3>2
  <2> QED BY <2>1, <2>2
<1>15. ASSUME NEW j \in 1 .. n + 1
       PROVE  /\ g[r[j]] \in Fields
              /\ g[r[j]].older = IF j = n + 1 THEN Null ELSE r[j + 1]
              /\ g[r[j]].newer = IF j = 1 THEN Null ELSE r[j - 1]
  <2>1. CASE j = 1
    <3>1. j # n + 1 /\ r[j + 1] = q[1]
      BY <1>2, <1>9, <2>1
    <3> QED BY <1>7, <1>8, <1>9, <2>1, <3>1
  <2>2. CASE j # 1
    <3>1. PICK a \in 1 .. n : a = j - 1 /\ j = a + 1
      BY <1>10, <2>2
    <3>2. r[j] = q[a]
      BY <1>9, <3>1
    <3>3. (j = n + 1 <=> a = n) /\ (a # n => a + 1 \in 1 .. n /\ r[j + 1] = q[a + 1])
      <4>1. a # n => a + 1 \in 1 .. n
        OBVIOUS
      <4> QED BY <1>9, <3>1, <4>1
    <3>4. r[j - 1] = IF a = 1 THEN p ELSE q[a - 1]
      <4>1. CASE a = 1
        BY <1>9, <3>1, <4>1
      <4>2. CASE a # 1
        <5>1. a - 1 \in 1 .. n /\ (a - 1) + 1 = a
          BY <4>2
        <5> QED BY <1>9, <3>1, <4>2, <5>1
      <4> QED BY <4>1, <4>2
    <3> QED BY <1>11, <2>2, <3>2, <3>3, <3>4
  <2> QED BY <2>1, <2>2
<1> QED BY <1>12, <1>13, <1>14, <1>15 DEF Linked
-----------------------------------------------------------------------------
(* The chunk of the new position joins the map and the order.              *)
LEMMA PushedIsMapped ==
  ASSUME NEW n \in Nat, n # 0, NEW q, NEW h, Linked(q, n, h),
         NEW p \in Cell, p \notin DOMAIN h, NEW ch \in Chunk,
         NEW g, g = Extended(NewerSet(h, q[1], p), p,
                             [older |-> q[1], newer |-> Null, k |-> ch]),
         NEW r, r = Before(p, q, n),
         NEW c, Mapped(q, n, h, c), ch \notin DOMAIN c,
         NEW d, d = Extended(c, ch, p)
  PROVE  Mapped(r, n + 1, g, d) /\ Chunks(r, n + 1, g) = Before(ch, Chunks(q, n, h), n)
<1>1. 1 \in 1 .. n /\ \A a \in 1 .. n : q[a] \in DOMAIN h /\ q[a] # p
  BY DEF Linked
<1>2. PICK b : b = NewerSet(h, q[1], p)
  OBVIOUS
<1>3. NewerOnly(h, q[1], p, b)
  <2>1. Positions(h) /\ q[1] \in DOMAIN h /\ p \in Cell \cup {Null}
    BY <1>1 DEF Positions, Linked
  <2> QED BY <1>2, <2>1, NewerAssigned
<1>4. PICK x : x = [older |-> q[1], newer |-> Null, k |-> ch]
  OBVIOUS
<1>5. x.k = ch
  BY <1>4
<1>6. g[p] = x /\ \A z \in DOMAIN h : g[z] = b[z]
  <2>1. DOMAIN b = DOMAIN h
    BY <1>3 DEF NewerOnly
  <2>2. g = Extended(b, p, x)
    BY <1>2, <1>4
  <2> QED BY <1>1, <2>1, <2>2 DEF Extended
<1>7. g[p].k = ch /\ \A z \in DOMAIN h : g[z].k = h[z].k
  BY <1>3, <1>5, <1>6 DEF NewerOnly
<1>8. /\ r[1] = p
      /\ \A j \in 1 .. n : j + 1 \in 1 .. n + 1 /\ r[j + 1] = q[j]
  BY BeforePlaces
<1>9. \A j \in 1 .. n + 1 : j = 1 \/ (j - 1 \in 1 .. n /\ j = (j - 1) + 1)
  OBVIOUS
<1>10. ASSUME NEW j \in 1 .. n + 1
       PROVE  g[r[j]].k = IF j = 1 THEN ch ELSE h[q[j - 1]].k
  <2>1. CASE j = 1
    BY <1>7, <1>8, <2>1
  <2>2. CASE j # 1
    <3>1. j - 1 \in 1 .. n /\ r[j] = q[j - 1]
      BY <1>8, <1>9, <2>2
    <3> QED BY <1>1, <1>7, <2>2, <3>1
  <2> QED BY <2>1, <2>2
<1>11. /\ DOMAIN d = DOMAIN c \cup {ch} /\ d[ch] = p
       /\ \A y \in DOMAIN c : d[y] = c[y]
  BY DEF Extended
<1>12. ASSUME NEW j \in 1 .. n + 1 PROVE g[r[j]].k \in DOMAIN d /\ d[g[r[j]].k] = r[j]
  <2>1. CASE j = 1
    BY <1>8, <1>10, <1>11, <2>1
  <2>2. CASE j # 1
    <3>1. j - 1 \in 1 .. n /\ r[j] = q[j - 1]
      BY <1>8, <1>9, <2>2
    <3>2. h[q[j - 1]].k \in DOMAIN c /\ c[h[q[j - 1]].k] = q[j - 1]
      BY <3>1 DEF Mapped
    <3> QED BY <1>10, <1>11, <2>2, <3>1, <3>2
  <2> QED BY <2>1, <2>2
<1>13. ASSUME NEW y \in DOMAIN d PROVE \E j \in 1 .. n + 1 : y = g[r[j]].k
  <2>1. CASE y = ch
    <3>1. 1 \in 1 .. n + 1
      OBVIOUS
    <3> QED BY <1>10, <2>1, <3>1
  <2>2. CASE y \in DOMAIN c
    <3>1. PICK a \in 1 .. n : y = h[q[a]].k
      BY <2>2 DEF Mapped
    <3>2. a + 1 \in 1 .. n + 1 /\ a + 1 # 1 /\ (a + 1) - 1 = a
      OBVIOUS
    <3> QED BY <1>10, <3>1, <3>2
  <2> QED BY <1>11, <2>1, <2>2
<1>14. Mapped(r, n + 1, g, d)
  <2>1. DOMAIN d = {g[r[j]].k : j \in 1 .. n + 1}
    BY <1>12, <1>13
  <2>2. \A j \in 1 .. n + 1 : d[g[r[j]].k] = r[j]
    BY <1>12
  <2> QED BY <2>1, <2>2 DEF Mapped
<1>15. Chunks(r, n + 1, g) = Before(ch, Chunks(q, n, h), n)
  <2>1. \A j \in 1 .. n + 1 : j # 1 => Chunks(q, n, h)[j - 1] = h[q[j - 1]].k
    BY <1>9 DEF Chunks
  <2> QED BY <1>10, <2>1 DEF Chunks, Before
<1> QED BY <1>14, <1>15
-----------------------------------------------------------------------------
(* The first n places of r.                                                *)
Cut(r, n) == [j \in 1 .. n |-> r[j]]

(* data_store frees the last position of a list, and makes the one before  *)
(* it the end of the list.                                                 *)
LEMMA DroppedIsLinked ==
  ASSUME NEW n \in Nat, n # 0, NEW r, NEW h, Linked(r, n + 1, h),
         NEW g, g = Without(OlderSet(h, h[r[n + 1]].newer, Null), r[n + 1]),
         NEW s, s = Cut(r, n)
  PROVE  /\ Linked(s, n, g)
         /\ h[r[n + 1]].newer = s[n]
<1>1. /\ r \in [1 .. n + 1 -> Cell]
      /\ \A a, b \in 1 .. n + 1 : r[a] = r[b] => a = b
      /\ DOMAIN h = {r[a] : a \in 1 .. n + 1}
      /\ \A a \in 1 .. n + 1 : h[r[a]] \in Fields
      /\ \A a \in 1 .. n + 1 : h[r[a]].older = IF a = n + 1 THEN Null ELSE r[a + 1]
      /\ \A a \in 1 .. n + 1 : h[r[a]].newer = IF a = 1 THEN Null ELSE r[a - 1]
  BY DEF Linked
<1>2. /\ n \in 1 .. n /\ n + 1 \in 1 .. n + 1 /\ n + 1 # 1 /\ (n + 1) - 1 = n
      /\ \A a \in 1 .. n : a \in 1 .. n + 1 /\ a # n + 1
      /\ \A a \in 1 .. n + 1 : a # n + 1 => a \in 1 .. n
  OBVIOUS
<1>3. \A a \in 1 .. n : s[a] = r[a]
  BY DEF Cut
<1>4. h[r[n + 1]].newer = r[n]
  BY <1>1, <1>2
<1>5. PICK b : b = OlderSet(h, r[n], Null)
  OBVIOUS
<1>6. OlderOnly(h, r[n], Null, b)
  <2>1. Positions(h) /\ r[n] \in DOMAIN h /\ Null \in Cell \cup {Null}
    BY <1>1, <1>2 DEF Positions
  <2> QED BY <1>5, <2>1, OlderAssigned
<1>7. g = Without(b, r[n + 1])
  BY <1>4, <1>5
<1>8. DOMAIN g = DOMAIN h \ {r[n + 1]} /\ \A z \in DOMAIN g : g[z] = b[z]
  <2>1. DOMAIN b = DOMAIN h
    BY <1>6 DEF OlderOnly
  <2> QED BY <1>7, <2>1 DEF Without
<1>9. \A a \in 1 .. n : r[a] \in DOMAIN g
  BY <1>1, <1>2, <1>8
<1>10. ASSUME NEW a \in 1 .. n
       PROVE  /\ g[s[a]] \in Fields
              /\ g[s[a]].older = IF a = n THEN Null ELSE s[a + 1]
              /\ g[s[a]].newer = IF a = 1 THEN Null ELSE s[a - 1]
  <2>1. /\ g[s[a]] = b[r[a]] /\ b[r[a]] \in Fields
        /\ b[r[a]].older = IF r[a] = r[n] THEN Null ELSE h[r[a]].older
        /\ b[r[a]].newer = h[r[a]].newer
    BY <1>3, <1>6, <1>8, <1>9 DEF OlderOnly, Positions
  <2>2. r[a] = r[n] <=> a = n
    BY <1>1, <1>2
  <2>3. /\ a # n => a + 1 \in 1 .. n /\ s[a + 1] = r[a + 1]
        /\ a # 1 => a - 1 \in 1 .. n /\ s[a - 1] = r[a - 1]
    <3>1. (a # n => a + 1 \in 1 .. n) /\ (a # 1 => a - 1 \in 1 .. n)
      OBVIOUS
    <3> QED BY <1>3, <3>1
  <2>4. /\ h[r[a]].older = IF a = n + 1 THEN Null ELSE r[a + 1]
        /\ h[r[a]].newer = IF a = 1 THEN Null ELSE r[a - 1]
    BY <1>1, <1>2
  <2> QED BY <1>2, <2>1, <2>2, <2>3, <2>4
<1>11. s \in [1 .. n -> Cell]
  BY <1>1, <1>2 DEF Cut
<1>12. \A a, c \in 1 .. n : s[a] = s[c] => a = c
  BY <1>1, <1>2, <1>3
<1>13. DOMAIN g = {s[a] : a \in 1 .. n}
  <2>1. \A a \in 1 .. n : s[a] \in DOMAIN g
    BY <1>3, <1>9
  <2>2. ASSUME NEW z \in DOMAIN g PROVE \E a \in 1 .. n : z = s[a]
    <3>1. PICK a \in 1 .. n + 1 : z = r[a]
      BY <1>1, <1>8
    <3> QED BY <1>2, <1>3, <1>8, <3>1
  <2> QED BY <2>1, <2>2
<1> QED BY <1>2, <1>3, <1>4, <1>10, <1>11, <1>12, <1>13 DEF Linked

(* The chunk of the freed position leaves the map and the order.           *)
LEMMA DroppedIsMapped ==
  ASSUME NEW n \in Nat, n # 0, NEW r, NEW h, Linked(r, n + 1, h),
         NEW g, g = Without(OlderSet(h, h[r[n + 1]].newer, Null), r[n + 1]),
         NEW s, s = Cut(r, n),
         NEW c, Mapped(r, n + 1, h, c),
         NEW d, d = Without(c, h[r[n + 1]].k)
  PROVE  Mapped(s, n, g, d) /\ Chunks(s, n, g) = Cut(Chunks(r, n + 1, h), n)
<1>1. /\ \A a, b \in 1 .. n + 1 : r[a] = r[b] => a = b
      /\ DOMAIN h = {r[a] : a \in 1 .. n + 1}
      /\ Positions(h)
      /\ \A a \in 1 .. n + 1 : h[r[a]].newer = IF a = 1 THEN Null ELSE r[a - 1]
  BY DEF Linked, Positions
<1>2. /\ n \in 1 .. n /\ n + 1 \in 1 .. n + 1 /\ n + 1 # 1 /\ (n + 1) - 1 = n
      /\ \A a \in 1 .. n : a \in 1 .. n + 1 /\ a # n + 1
      /\ \A a \in 1 .. n + 1 : a # n + 1 => a \in 1 .. n
  OBVIOUS
<1>3. \A a \in 1 .. n : s[a] = r[a]
  BY DEF Cut
<1>4. h[r[n + 1]].newer = r[n] /\ r[n] \in DOMAIN h
  BY <1>1, <1>2
<1>5. PICK b : b = OlderSet(h, r[n], Null)
  OBVIOUS
<1>6. OlderOnly(h, r[n], Null, b)
  BY <1>1, <1>4, <1>5, OlderAssigned
<1>7. g = Without(b, r[n + 1])
  BY <1>4, <1>5
<1>8. DOMAIN g = DOMAIN h \ {r[n + 1]} /\ \A z \in DOMAIN g : g[z] = b[z]
  <2>1. DOMAIN b = DOMAIN h
    BY <1>6 DEF OlderOnly
  <2> QED BY <1>7, <2>1 DEF Without
<1>9. \A a \in 1 .. n : r[a] \in DOMAIN g /\ r[a] \in DOMAIN h
  BY <1>1, <1>2, <1>8
<1>10. \A a \in 1 .. n : g[s[a]].k = h[r[a]].k
  BY <1>3, <1>6, <1>8, <1>9 DEF OlderOnly
<1>11. /\ DOMAIN c = {h[r[a]].k : a \in 1 .. n + 1}
       /\ \A a \in 1 .. n + 1 : c[h[r[a]].k] = r[a]
  BY DEF Mapped
<1>12. DOMAIN d = DOMAIN c \ {h[r[n + 1]].k} /\ \A y \in DOMAIN d : d[y] = c[y]
  BY DEF Without
<1>13. ASSUME NEW a \in 1 .. n PROVE g[s[a]].k \in DOMAIN d /\ d[g[s[a]].k] = s[a]
  <2>1. h[r[a]].k \in DOMAIN c /\ c[h[r[a]].k] = r[a] /\ c[h[r[n + 1]].k] = r[n + 1]
    BY <1>2, <1>11
  <2>2. r[a] # r[n + 1]
    BY <1>1, <1>2
  <2>3. h[r[a]].k # h[r[n + 1]].k
    BY <2>1, <2>2
  <2> QED BY <1>3, <1>10, <1>12, <2>1, <2>3
<1>14. ASSUME NEW y \in DOMAIN d PROVE \E a \in 1 .. n : y = g[s[a]].k
  <2>1. PICK a \in 1 .. n + 1 : y = h[r[a]].k
    BY <1>11, <1>12
  <2>2. a # n + 1
    BY <1>12, <2>1
  <2> QED BY <1>2, <1>10, <2>1, <2>2
<1>15. Mapped(s, n, g, d)
  <2>1. DOMAIN d = {g[s[a]].k : a \in 1 .. n}
    BY <1>13, <1>14
  <2>2. \A a \in 1 .. n : d[g[s[a]].k] = s[a]
    BY <1>13
  <2> QED BY <2>1, <2>2 DEF Mapped
<1>16. Chunks(s, n, g) = Cut(Chunks(r, n + 1, h), n)
  <2>1. \A a \in 1 .. n : Chunks(r, n + 1, h)[a] = h[r[a]].k
    BY <1>2 DEF Chunks
  <2> QED BY <1>10, <2>1 DEF Chunks, Cut
<1> QED BY <1>15, <1>16
-----------------------------------------------------------------------------
(* A chunk that is not in the map is not in the order.                     *)
LEMMA NotHeld ==
  ASSUME NEW q, Line(q), NEW ch, ch \notin DOMAIN cache
  PROVE  ch \notin Abstract!Held
<1>1. Linked(q, actual_size, heap) /\ Mapped(q, actual_size, heap, cache)
  BY DEF Line
<1>2. Order = Chunks(q, actual_size, heap)
  BY OrderIsListed
<1>3. \A i \in 1 .. actual_size : heap[q[i]].k \in DOMAIN cache
  BY <1>1 DEF Mapped
<1>4. \A i \in DOMAIN Order : Order[i] # ch
  BY <1>2, <1>3 DEF Chunks
<1> QED BY <1>4 DEF Abstract!Held

(* The order of a cache has a place for each chunk.                        *)
LEMMA OrderLength ==
  ASSUME NEW q, Line(q)
  PROVE  Len(Order) = actual_size /\ actual_size \in Nat /\ actual_size =< C
<1>1. actual_size \in Nat /\ actual_size =< C
  BY CapacityAssumption DEF Line
<1>2. Linked(q, actual_size, heap) /\ Mapped(q, actual_size, heap, cache)
  BY DEF Line
<1>3. Len(Chunks(q, actual_size, heap)) = actual_size
  BY <1>1, <1>2, ChunksDistinct
<1> QED BY <1>1, <1>3, OrderIsListed

(* The first chunk makes a list of one.                                    *)
LEMMA StoreFirstKeepsLine ==
  ASSUME IsLine, NEW ch \in Chunk, NEW p \in Cell, StoreFirst(ch, p)
  PROVE  IsLine' /\ Abstract!Insert(ch)
<1>1. PICK q : Line(q)
  BY DEF IsLine
<1>2. /\ actual_size = 0 /\ actual_size' = 1 /\ lru' = p /\ mru' = p
      /\ ch \notin DOMAIN cache
      /\ heap' = Extended(heap, p, [older |-> Null, newer |-> Null, k |-> ch])
      /\ cache' = Extended(cache, ch, p)
  BY DEF StoreFirst, New
<1>3. 1 .. 0 = {} /\ 1 .. 1 = {1}
  OBVIOUS
<1>4. DOMAIN heap = {} /\ DOMAIN cache = {}
  BY <1>1, <1>2, <1>3 DEF Line, Linked, Mapped
<1>5. PICK x : x = [older |-> Null, newer |-> Null, k |-> ch]
  OBVIOUS
<1>6. x \in Fields /\ x.older = Null /\ x.newer = Null /\ x.k = ch
  BY <1>5 DEF Fields
<1>7. DOMAIN heap' = {p} /\ heap'[p] = x /\ DOMAIN cache' = {ch} /\ cache'[ch] = p
  BY <1>2, <1>4, <1>5 DEF Extended
<1>8. PICK r : r = [j \in 1 .. 1 |-> p]
  OBVIOUS
<1>9. r \in [1 .. 1 -> Cell] /\ \A j \in 1 .. 1 : r[j] = p /\ j = 1
  BY <1>8
<1>10. {r[j] : j \in 1 .. 1} = {p}
  BY <1>3, <1>9
<1>11. Linked(r, 1, heap')
  BY <1>6, <1>7, <1>9, <1>10 DEF Linked
<1>12. Mapped(r, 1, heap', cache')
  <2>1. {heap'[r[j]].k : j \in 1 .. 1} = {ch}
    BY <1>3, <1>6, <1>7, <1>9
  <2> QED BY <1>6, <1>7, <1>9, <2>1 DEF Mapped
<1>13. Ends(r, 1, lru', mru')
  BY <1>2, <1>3, <1>9 DEF Ends
<1>14. 1 \in 0 .. C
  BY CapacityAssumption
<1>15. Line(r)'
  BY <1>2, <1>11, <1>12, <1>13, <1>14 DEF Line
<1>16. Order' = [j \in 1 .. 1 |-> ch]
  <2>1. \A j \in 1 .. 1 : heap'[r[j]].k = ch
    BY <1>6, <1>7, <1>9
  <2> QED BY <1>2, <1>15, <2>1, NextOrderIsListed DEF Chunks
<1>17. Len(Order) = 0 /\ C \in Nat /\ 0 < C
  BY <1>1, <1>2, OrderLength, CapacityAssumption
<1>18. Abstract!Insert(ch)
  <2>1. ch \notin Abstract!Held
    BY <1>1, <1>2, NotHeld
  <2>2. Order' = [j \in 1 .. 1 |-> IF j = 1 THEN ch ELSE Order[j - 1]]
    BY <1>3, <1>16
  <2>3. (IF Len(Order) < C THEN Len(Order) + 1 ELSE C) = 1
    BY <1>17
  <2> QED BY <2>1, <2>2, <2>3 DEF Abstract!Insert
<1> QED BY <1>15, <1>18 DEF IsLine

(* A chunk for which there is room goes in front.                          *)
LEMMA StoreMoreKeepsLine ==
  ASSUME IsLine, NEW ch \in Chunk, NEW p \in Cell, StoreMore(ch, p)
  PROVE  IsLine' /\ Abstract!Insert(ch)
<1>1. PICK q : Line(q)
  BY DEF IsLine
<1>2. PICK n : n = actual_size
  OBVIOUS
<1>3. /\ n \in Nat /\ n # 0 /\ n =< C /\ n # C /\ C \in Nat
      /\ Linked(q, n, heap) /\ Ends(q, n, lru, mru) /\ Mapped(q, n, heap, cache)
      /\ Len(Order) = n
  BY <1>1, <1>2, OrderLength, CapacityAssumption DEF Line, StoreMore
<1>4. /\ ch \notin DOMAIN cache /\ p \notin DOMAIN heap
      /\ actual_size' = n + 1 /\ lru' = lru /\ mru' = p
      /\ cache' = Extended(cache, ch, p)
  BY <1>2 DEF StoreMore, New
<1>5. mru = q[1] /\ lru = q[n]
  BY <1>3 DEF Ends
<1>6. heap' = Extended(NewerSet(heap, q[1], p), p,
                       [older |-> q[1], newer |-> Null, k |-> ch])
  BY <1>5 DEF StoreMore, Pushed, NewerSet
<1>7. PICK r : r = Before(p, q, n)
  OBVIOUS
<1>8. Linked(r, n + 1, heap')
  BY <1>3, <1>4, <1>6, <1>7, PushedIsLinked
<1>9. /\ Mapped(r, n + 1, heap', cache')
      /\ Chunks(r, n + 1, heap') = Before(ch, Chunks(q, n, heap), n)
  BY <1>3, <1>4, <1>6, <1>7, PushedIsMapped
<1>10. n + 1 \in 0 .. C /\ n + 1 # 0 /\ n \in 1 .. n
  BY <1>3
<1>11. Ends(r, n + 1, lru', mru')
  <2>1. r[1] = p /\ r[n + 1] = q[n]
    BY <1>3, <1>7, <1>10, BeforePlaces
  <2> QED BY <1>4, <1>5, <1>10, <2>1 DEF Ends
<1>12. Line(r)'
  BY <1>4, <1>8, <1>9, <1>10, <1>11 DEF Line
<1>13. Order' = Before(ch, Order, n)
  BY <1>1, <1>2, <1>4, <1>9, <1>12, OrderIsListed, NextOrderIsListed
<1>14. Abstract!Insert(ch)
  <2>1. ch \notin Abstract!Held
    BY <1>1, <1>4, NotHeld
  <2>2. (IF Len(Order) < C THEN Len(Order) + 1 ELSE C) = n + 1
    BY <1>3
  <2> QED BY <1>13, <2>1, <2>2 DEF Abstract!Insert, Before
<1> QED BY <1>12, <1>14 DEF IsLine

(* A chunk for which there is no room goes in front, and the lru leaves:   *)
(* with a capacity of one the new position is the new lru.                 *)
LEMMA StoreAndEvictKeepsLine ==
  ASSUME IsLine, NEW ch \in Chunk, NEW p \in Cell, StoreAndEvict(ch, p)
  PROVE  IsLine' /\ Abstract!Insert(ch)
<1>1. PICK q : Line(q)
  BY DEF IsLine
<1>2. PICK n : n = actual_size
  OBVIOUS
<1>3. /\ n \in Nat /\ n # 0 /\ n = C /\ C \in Nat
      /\ Linked(q, n, heap) /\ Ends(q, n, lru, mru) /\ Mapped(q, n, heap, cache)
      /\ Len(Order) = n
  BY <1>1, <1>2, OrderLength, CapacityAssumption DEF Line, StoreAndEvict
<1>4. PICK h : h = Pushed(ch, p)
  OBVIOUS
<1>5. /\ ch \notin DOMAIN cache /\ p \notin DOMAIN heap
      /\ actual_size' = n /\ lru' = h[lru].newer /\ mru' = p
      /\ heap' = Without(OlderSet(h, h[lru].newer, Null), lru)
      /\ cache' = Extended(Without(cache, heap[lru].k), ch, p)
  BY <1>2, <1>4 DEF StoreAndEvict, New, OlderSet
<1>6. mru = q[1] /\ lru = q[n]
  BY <1>3 DEF Ends
<1>7. h = Extended(NewerSet(heap, q[1], p), p,
                   [older |-> q[1], newer |-> Null, k |-> ch])
  BY <1>4, <1>6 DEF Pushed, NewerSet
<1>8. PICK r : r = Before(p, q, n)
  OBVIOUS
<1>9. PICK c : c = Extended(cache, ch, p)
  OBVIOUS
<1>10. Linked(r, n + 1, h)
  BY <1>3, <1>5, <1>7, <1>8, PushedIsLinked
<1>11. Mapped(r, n + 1, h, c) /\ Chunks(r, n + 1, h) = Before(ch, Chunks(q, n, heap), n)
  BY <1>3, <1>5, <1>7, <1>8, <1>9, PushedIsMapped
<1>12. 1 \in 1 .. n /\ n \in 1 .. n /\ n + 1 # 1 /\ (n + 1) - 1 = n /\ n + 1 \in 1 .. n + 1
  BY <1>3
<1>13. r[1] = p /\ r[n + 1] = q[n] /\ lru = r[n + 1]
  BY <1>3, <1>6, <1>8, <1>12, BeforePlaces
<1>14. h[lru].k = heap[lru].k /\ heap[lru].k \in DOMAIN cache
  <2>1. /\ Chunks(r, n + 1, h)[n + 1] = h[r[n + 1]].k
        /\ Chunks(q, n, heap)[n] = heap[q[n]].k
    BY <1>12 DEF Chunks
  <2>2. Before(ch, Chunks(q, n, heap), n)[n + 1] = Chunks(q, n, heap)[n]
    BY <1>12 DEF Before
  <2>3. heap[q[n]].k \in DOMAIN cache
    BY <1>3, <1>12 DEF Mapped
  <2> QED BY <1>6, <1>11, <1>13, <2>1, <2>2, <2>3
<1>15. cache' = Without(c, h[r[n + 1]].k)
  <2>1. PICK y : y = heap[lru].k
    OBVIOUS
  <2>2. y # ch
    BY <1>5, <1>14, <2>1
  <2>3. cache' = Extended(Without(cache, y), ch, p)
    BY <1>5, <2>1
  <2>4. Extended(Without(cache, y), ch, p) = Without(Extended(cache, ch, p), y)
    <3>1. (DOMAIN cache \ {y}) \cup {ch} = (DOMAIN cache \cup {ch}) \ {y}
      BY <2>2
    <3>2. /\ DOMAIN Extended(Without(cache, y), ch, p) = (DOMAIN cache \ {y}) \cup {ch}
          /\ DOMAIN Without(Extended(cache, ch, p), y) = (DOMAIN cache \cup {ch}) \ {y}
      BY DEF Extended, Without
    <3> QED BY <2>2, <3>1, <3>2 DEF Extended, Without
  <2> QED BY <1>9, <1>13, <1>14, <2>1, <2>3, <2>4
<1>16. PICK s : s = Cut(r, n)
  OBVIOUS
<1>17. heap' = Without(OlderSet(h, h[r[n + 1]].newer, Null), r[n + 1])
  BY <1>5, <1>13
<1>18. Linked(s, n, heap') /\ h[r[n + 1]].newer = s[n]
  BY <1>3, <1>10, <1>16, <1>17, DroppedIsLinked
<1>19. Mapped(s, n, heap', cache') /\ Chunks(s, n, heap') = Cut(Chunks(r, n + 1, h), n)
  BY <1>3, <1>10, <1>11, <1>15, <1>16, <1>17, DroppedIsMapped
<1>20. Ends(s, n, lru', mru')
  <2>1. s[1] = p
    BY <1>12, <1>13, <1>16 DEF Cut
  <2> QED BY <1>3, <1>5, <1>13, <1>18, <2>1 DEF Ends
<1>21. n \in 0 .. C
  BY <1>3
<1>22. Line(s)'
  BY <1>5, <1>18, <1>19, <1>20, <1>21 DEF Line
<1>23. Order' = Cut(Before(ch, Order, n), n)
  BY <1>1, <1>2, <1>5, <1>11, <1>19, <1>22, OrderIsListed, NextOrderIsListed
<1>24. Abstract!Insert(ch)
  <2>1. ch \notin Abstract!Held
    BY <1>1, <1>5, NotHeld
  <2>2. (IF Len(Order) < C THEN Len(Order) + 1 ELSE C) = n
    BY <1>3
  <2>3. Order' = [j \in 1 .. n |-> IF j = 1 THEN ch ELSE Order[j - 1]]
    <3>1. \A j \in 1 .. n : j \in 1 .. n + 1
      BY <1>3
    <3> QED BY <1>23, <3>1 DEF Cut, Before
  <2> QED BY <2>1, <2>2, <2>3 DEF Abstract!Insert
<1> QED BY <1>22, <1>24 DEF IsLine
-----------------------------------------------------------------------------
(* Every call keeps the list, and is a call of the abstract policy.        *)
LEMMA LineNext == IsLine /\ [Next]_vars => IsLine' /\ [Abstract!Next]_Order
<1> SUFFICES ASSUME IsLine, [Next]_vars PROVE IsLine' /\ [Abstract!Next]_Order
  OBVIOUS
<1>1. ASSUME NEW ch \in Chunk, Hit(ch) PROVE IsLine' /\ [Abstract!Next]_Order
  BY <1>1, HitKeepsLine
<1>2. ASSUME NEW ch \in Chunk, NEW p \in Cell, StoreFirst(ch, p)
      PROVE  IsLine' /\ [Abstract!Next]_Order
  BY <1>2, StoreFirstKeepsLine DEF Abstract!Next
<1>3. ASSUME NEW ch \in Chunk, NEW p \in Cell, StoreMore(ch, p)
      PROVE  IsLine' /\ [Abstract!Next]_Order
  BY <1>3, StoreMoreKeepsLine DEF Abstract!Next
<1>4. ASSUME NEW ch \in Chunk, NEW p \in Cell, StoreAndEvict(ch, p)
      PROVE  IsLine' /\ [Abstract!Next]_Order
  BY <1>4, StoreAndEvictKeepsLine DEF Abstract!Next
<1>5. CASE UNCHANGED vars
  <2>1. PICK q : Line(q)
    BY DEF IsLine
  <2>2. Line(q)'
    BY <1>5, <2>1 DEF Line, vars
  <2>3. Order' = Order
    BY <1>5, <2>1, <2>2, OrderIsListed, NextOrderIsListed DEF vars
  <2> QED BY <2>2, <2>3 DEF IsLine
<1> QED BY <1>1, <1>2, <1>3, <1>4, <1>5 DEF Next

(* Before anything is stored the order is empty.                           *)
LEMMA OrderInit == Init => Abstract!Init
<1> SUFFICES ASSUME Init PROVE Order = <<>>
  BY DEF Abstract!Init
<1>1. actual_size = 0 /\ 1 .. 0 = {}
  BY DEF Init
<1> QED BY <1>1 DEF Order

(* The pointers are always those of one list of the stored chunks.         *)
THEOREM PointersAreALine == Spec => []IsLine
<1>1. Init => IsLine
  BY LineInit
<1>2. IsLine /\ [Next]_vars => IsLine'
  BY LineNext
<1> QED BY <1>1, <1>2, PTL DEF Spec

(* Every variable of lru_cache keeps its type, whatever is stored and hit, *)
(* at every capacity.                                                      *)
THEOREM TypeCorrect == Spec => []TypeOK
<1>1. IsLine => TypeOK
  BY LineIsTyped DEF IsLine
<1> QED BY <1>1, PointersAreALine, PTL

(* data_lookup and data_store never follow a pointer to a freed position.  *)
THEOREM NothingDangles == Spec => []NoDanglingPointer
<1>1. IsLine => NoDanglingPointer
  BY LineDoesNotDangle DEF IsLine
<1> QED BY <1>1, PointersAreALine, PTL

(* The map, the list and the counter of lru_cache always agree.            *)
THEOREM MapAndListAlwaysAgree == Spec => []MapAndListAgree
<1>1. IsLine => MapAndListAgree
  BY LineAgrees DEF IsLine
<1> QED BY <1>1, PointersAreALine, PTL

(* The pointers of lru_cache implement the least-recently-used order: a    *)
(* walk from mru along older finds every stored chunk once, and what is    *)
(* evicted is what was stored or hit longest ago.                          *)
THEOREM LruCacheImplementsLruOrder == Spec => ImplementsLruOrder
<1>1. Init => Abstract!Init
  BY OrderInit
<1>2. IsLine /\ [Next]_vars => [Abstract!Next]_Order
  BY LineNext
<1> QED BY <1>1, <1>2, PointersAreALine, PTL
        DEF Spec, ImplementsLruOrder, Abstract!Spec
-----------------------------------------------------------------------------
(* The theorems of the abstract policy, about the order of the pointers.   *)
Policy == INSTANCE LruOrderProofs WITH order <- Order

(* The policy of those theorems is the one that is implemented.            *)
LEMMA OnePolicy == Abstract!Spec => Policy!Spec
<1>1. Abstract!Init => Policy!Init
  BY DEF Abstract!Init, Policy!Init
<1>2. [Abstract!Next]_Order => [Policy!Next]_Order
  BY DEF Abstract!Next, Policy!Next, Abstract!Use, Policy!Use, Abstract!Insert,
         Policy!Insert, Abstract!Promoted, Policy!Promoted, Abstract!Held, Policy!Held
<1> QED BY <1>1, <1>2, PTL DEF Abstract!Spec, Policy!Spec

(* Every store of lru_cache adds its chunk and removes one other at most,  *)
(* and a hit changes nothing of what is stored.                            *)
THEOREM LruCacheImplementsContentStore == Spec => Policy!ImplementsContentStore
<1>1. Policy!HasRoom
  BY CapacityAssumption DEF Policy!HasRoom
<1>2. Policy!Spec => Policy!ImplementsContentStore
  BY <1>1, Policy!LruOrderImplementsContentStore
<1>3. Spec => Abstract!Spec
  BY LruCacheImplementsLruOrder DEF ImplementsLruOrder
<1> QED BY <1>2, <1>3, OnePolicy
=============================================================================
