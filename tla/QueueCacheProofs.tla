-------------------------- MODULE QueueCacheProofs --------------------------
(***************************************************************************)
(* The content stores with a deque and a map, for every capacity and       *)
(* catalogue and all three policies: map and deque hold the same chunks,   *)
(* and the cache behaves as CcnSim assumes.                                *)
(***************************************************************************)
EXTENDS QueueCache, FiniteSetTheorems, SequenceTheorems,
        FunctionTheorems, TLAPS

Elements(s) == {s[i] : i \in DOMAIN s}

Distinct(s) == \A i, j \in DOMAIN s : s[i] = s[j] => i = j

(* A sequence without repetition has as many elements as places.           *)
LEMMA DistinctCardinality ==
  ASSUME NEW S, NEW s \in Seq(S), Distinct(s)
  PROVE  IsFiniteSet(Elements(s)) /\ Cardinality(Elements(s)) = Len(s)
<1>1. Len(s) \in Nat /\ DOMAIN s = 1 .. Len(s) /\ s \in [1 .. Len(s) -> S]
  BY LenProperties
<1>2. s \in [1 .. Len(s) -> Elements(s)]
  BY <1>1 DEF Elements
<1>3. s \in Bijection(1 .. Len(s), Elements(s))
  BY <1>1, <1>2, Fun_IsBij DEF Elements, Distinct
<1>4. ExistsBijection(1 .. Len(s), Elements(s))
  BY <1>3 DEF ExistsBijection
<1> QED BY <1>1, <1>4, FS_CountingElements, FS_NatBijection

(* A new element at the end.                                               *)
LEMMA DistinctAppend ==
  ASSUME NEW S, NEW s \in Seq(S), Distinct(s), NEW e \in S \ Elements(s)
  PROVE  /\ Append(s, e) \in Seq(S)
         /\ Distinct(Append(s, e))
         /\ Elements(Append(s, e)) = Elements(s) \cup {e}
         /\ Len(Append(s, e)) = Len(s) + 1
<1>1. /\ Append(s, e) \in Seq(S)
      /\ Len(Append(s, e)) = Len(s) + 1
      /\ \A i \in 1 .. Len(s) : Append(s, e)[i] = s[i]
      /\ Append(s, e)[Len(s) + 1] = e
      /\ DOMAIN Append(s, e) = 1 .. Len(s) + 1
      /\ DOMAIN s = 1 .. Len(s) /\ Len(s) \in Nat
  BY AppendProperties, LenProperties
<1>2. \A i \in DOMAIN Append(s, e) : i \in DOMAIN s \/ i = Len(s) + 1
  BY <1>1
<1>3. \A i \in DOMAIN s : s[i] # e
  BY DEF Elements
<1>4. Distinct(Append(s, e))
  BY <1>1, <1>2, <1>3 DEF Distinct
<1>5. Elements(Append(s, e)) = Elements(s) \cup {e}
  <2>1. Elements(Append(s, e)) \subseteq Elements(s) \cup {e}
    BY <1>1, <1>2 DEF Elements
  <2>2. Len(s) + 1 \in DOMAIN Append(s, e) /\ DOMAIN s \subseteq DOMAIN Append(s, e)
    BY <1>1
  <2>3. Elements(s) \cup {e} \subseteq Elements(Append(s, e))
    BY <1>1, <2>2 DEF Elements
  <2> QED BY <2>1, <2>3
<1> QED BY <1>1, <1>4, <1>5

(* t is s with e in place p.                                               *)
Replaced(s, p, e, t) ==
  /\ DOMAIN t = DOMAIN s
  /\ \A i \in DOMAIN s : t[i] = IF i = p THEN e ELSE s[i]

(* A new element in the place of another.                                  *)
LEMMA DistinctReplace ==
  ASSUME NEW s, Distinct(s), NEW e, e \notin Elements(s),
         NEW p \in DOMAIN s, NEW t, Replaced(s, p, e, t)
  PROVE  /\ Distinct(t)
         /\ Elements(t) = (Elements(s) \ {s[p]}) \cup {e}
<1>1. /\ DOMAIN t = DOMAIN s
      /\ \A i \in DOMAIN s : t[i] = IF i = p THEN e ELSE s[i]
  BY DEF Replaced
<1>2. \A i \in DOMAIN s : s[i] # e
  BY DEF Elements
<1>3. Distinct(t)
  BY <1>1, <1>2 DEF Distinct
<1>4. Elements(t) \subseteq (Elements(s) \ {s[p]}) \cup {e}
  BY <1>1 DEF Elements, Distinct
<1>5. (Elements(s) \ {s[p]}) \cup {e} \subseteq Elements(t)
  BY <1>1 DEF Elements
<1> QED BY <1>3, <1>4, <1>5

(* The first element leaves.                                               *)
LEMMA DistinctTail ==
  ASSUME NEW S, NEW s \in Seq(S), Distinct(s), s # <<>>
  PROVE  /\ Tail(s) \in Seq(S) /\ Distinct(Tail(s)) /\ Len(Tail(s)) = Len(s) - 1
         /\ Elements(Tail(s)) = Elements(s) \ {Head(s)}
<1>1. /\ Tail(s) \in Seq(S) /\ Len(Tail(s)) = Len(s) - 1
      /\ \A i \in 1 .. Len(Tail(s)) : Tail(s)[i] = s[i + 1]
      /\ Head(s) = s[1]
      /\ DOMAIN Tail(s) = 1 .. Len(s) - 1
      /\ DOMAIN s = 1 .. Len(s) /\ Len(s) \in Nat \ {0}
  BY HeadTailProperties, LenProperties, EmptySeq
<1>2. \A i \in DOMAIN Tail(s) : i + 1 \in DOMAIN s /\ Tail(s)[i] = s[i + 1] /\ i \in Nat
  BY <1>1
<1>3. Distinct(Tail(s))
  BY <1>1, <1>2 DEF Distinct
<1>4. Elements(Tail(s)) \subseteq Elements(s) \ {Head(s)}
  <2>1. \A i \in DOMAIN Tail(s) : i + 1 # 1
    BY <1>1
  <2>2. 1 \in DOMAIN s
    BY <1>1
  <2> QED BY <1>1, <1>2, <2>1, <2>2 DEF Elements, Distinct
<1>5. Elements(s) \ {Head(s)} \subseteq Elements(Tail(s))
  <2> SUFFICES ASSUME NEW i \in DOMAIN s, s[i] # s[1]
               PROVE  s[i] \in Elements(Tail(s))
    BY <1>1 DEF Elements
  <2>1. i - 1 \in DOMAIN Tail(s) /\ Tail(s)[i - 1] = s[i]
    BY <1>1
  <2> QED BY <2>1 DEF Elements
<1> QED BY <1>1, <1>3, <1>4, <1>5
-----------------------------------------------------------------------------
(* The two instances of Cardinality are one operator.                      *)
LEMMA SameCardinality == Store!Cardinality(cache) = Cardinality(cache)
BY DEF Cardinality, Store!Cardinality

(* MapMatchesDeque in the terms of these lemmas.                           *)
LEMMA MapMatchesDequeAgain ==
  MapMatchesDeque <=> /\ deq \in Seq(Chunk) /\ Len(deq) =< C
                      /\ cache = Elements(deq) /\ Distinct(deq)
BY DEF MapMatchesDeque, Held, Elements, Distinct

(* A new chunk that takes a free place, or the place of another chunk.     *)
LEMMA PlaceStores ==
  ASSUME MapMatchesDeque, NEW ch \in Chunk, ch \notin cache, Len(deq) < C,
         Place(ch)
  PROVE  MapMatchesDeque' /\ Store!Insert(ch)
<1>1. /\ deq \in Seq(Chunk) /\ Len(deq) =< C
      /\ cache = Elements(deq) /\ Distinct(deq)
  BY MapMatchesDequeAgain
<1>2. Cardinality(cache) = Len(deq) /\ Len(deq) \in Nat
  BY <1>1, DistinctCardinality, LenProperties
<1>3. /\ deq' \in Seq(Chunk) /\ Distinct(deq') /\ Len(deq') = Len(deq) + 1
      /\ cache' = Elements(deq')
  BY <1>1, DistinctAppend DEF Place
<1>4. MapMatchesDeque'
  BY <1>2, <1>3, CapacityAssumption DEF MapMatchesDeque, Held, Elements, Distinct
<1>5. Store!Insert(ch)
  BY <1>2, SameCardinality DEF Place, Store!Insert
<1> QED BY <1>4, <1>5

(* A chunk that takes the place of another is held instead of it.          *)
LEMMA ReplaceStores ==
  ASSUME MapMatchesDeque, NEW ch \in Chunk, ch \notin cache, Len(deq) = C,
         NEW pos \in DOMAIN deq, Replace(ch, pos)
  PROVE  MapMatchesDeque' /\ Store!Insert(ch)
<1>1. /\ deq \in Seq(Chunk) /\ Len(deq) =< C
      /\ cache = Elements(deq) /\ Distinct(deq)
  BY MapMatchesDequeAgain
<1>2. Cardinality(cache) = Len(deq)
  BY <1>1, DistinctCardinality
<1>3. deq[pos] \in cache /\ deq[pos] # ch
  BY <1>1 DEF Elements
<1>4. cache' = (cache \ {deq[pos]}) \cup {ch}
  BY <1>3 DEF Replace
<1>5. /\ deq' \in Seq(Chunk) /\ Distinct(deq') /\ Len(deq') = Len(deq)
      /\ cache' = Elements(deq')
  <2>1. deq' \in Seq(Chunk) /\ Len(deq') = Len(deq)
    BY <1>1, ExceptSeq DEF Replace
  <2>2. Replaced(deq, pos, ch, deq')
    BY <1>1, LenProperties DEF Replace, Replaced
  <2>3. ch \notin Elements(deq)
    BY <1>1
  <2>4. /\ Distinct(deq')
        /\ Elements(deq') = (Elements(deq) \ {deq[pos]}) \cup {ch}
    BY <1>1, <2>2, <2>3, DistinctReplace
  <2> QED BY <1>1, <1>4, <2>1, <2>4
<1>6. MapMatchesDeque'
  BY <1>1, <1>5 DEF MapMatchesDeque, Held, Elements, Distinct
<1>7. Store!Insert(ch)
  BY <1>2, <1>3, <1>4, SameCardinality, CapacityAssumption DEF Store!Insert
<1> QED BY <1>6, <1>7

(* fifo pushes before it pops: the chunk that leaves is the old front.     *)
LEMMA FifoStores ==
  ASSUME MapMatchesDeque, NEW ch \in Chunk, ch \notin cache, StoreFifo(ch)
  PROVE  MapMatchesDeque' /\ Store!Insert(ch)
<1> DEFINE d == Append(deq, ch)
<1>1. /\ deq \in Seq(Chunk) /\ Len(deq) =< C
      /\ cache = Elements(deq) /\ Distinct(deq)
  BY MapMatchesDequeAgain
<1>2. Cardinality(cache) = Len(deq) /\ Len(deq) \in Nat
  BY <1>1, DistinctCardinality, LenProperties
<1>3. /\ d \in Seq(Chunk) /\ Distinct(d) /\ Elements(d) = cache \cup {ch}
      /\ Len(d) = Len(deq) + 1
  BY <1>1, DistinctAppend
<1>4. CASE Len(d) =< C
  <2>1. Place(ch)
    BY <1>2, <1>3, <1>4, CapacityAssumption DEF StoreFifo, Place
  <2> QED BY <1>2, <1>3, <1>4, <2>1, CapacityAssumption, PlaceStores
<1>5. CASE Len(d) > C
  <2>1. Len(deq) = C /\ deq # <<>> /\ d # <<>>
    BY <1>1, <1>2, <1>3, <1>5, CapacityAssumption, EmptySeq
  <2>2. deq' = Tail(d) /\ cache' = (cache \cup {ch}) \ {Head(d)}
    BY <1>5 DEF StoreFifo
  <2>3. Head(d) = deq[1] /\ 1 \in DOMAIN deq
    BY <1>1, <1>2, <2>1, CapacityAssumption, AppendProperties, HeadTailAppend,
       HeadTailProperties, LenProperties
  <2>4. deq[1] \in cache /\ deq[1] # ch
    BY <1>1, <2>3 DEF Elements
  <2>5. /\ deq' \in Seq(Chunk) /\ Distinct(deq') /\ Len(deq') = C
        /\ cache' = Elements(deq')
    <3> HIDE DEF d
    <3>1. /\ Tail(d) \in Seq(Chunk) /\ Distinct(Tail(d)) /\ Len(Tail(d)) = Len(d) - 1
          /\ Elements(Tail(d)) = Elements(d) \ {Head(d)}
      BY <1>3, <2>1, DistinctTail
    <3> QED BY <1>2, <1>3, <2>1, <2>2, <3>1, CapacityAssumption
  <2>6. MapMatchesDeque'
    BY <2>5, CapacityAssumption DEF MapMatchesDeque, Held, Elements, Distinct
  <2>7. cache' = (cache \ {deq[1]}) \cup {ch}
    BY <2>2, <2>3, <2>4
  <2>8. Store!Insert(ch)
    BY <1>2, <2>1, <2>4, <2>7, SameCardinality, CapacityAssumption DEF Store!Insert
  <2> QED BY <2>6, <2>8
<1> QED BY <1>2, <1>3, <1>4, <1>5, CapacityAssumption

(* What every policy does with a chunk the core layer offers.              *)
LEMMA DataStoreStores ==
  ASSUME MapMatchesDeque, NEW ch \in Chunk, Offered(ch), DataStore(ch)
  PROVE  MapMatchesDeque' /\ Store!Insert(ch)
<1>1. ch \notin cache
  BY DEF Offered
<1>2. Len(deq) \in Nat /\ Len(deq) =< C
  BY LenProperties DEF MapMatchesDeque
<1>3. CASE policy = "fifo"
  BY <1>1, <1>3, FifoStores DEF DataStore
<1>4. CASE Len(deq) = C /\ \E pos \in DOMAIN deq : Replace(ch, pos)
  BY <1>1, <1>4, ReplaceStores
<1>5. CASE Len(deq) # C /\ Place(ch)
  BY <1>1, <1>2, <1>5, PlaceStores, CapacityAssumption
<1>6. CASE policy = "random"
  BY <1>4, <1>5, <1>6 DEF DataStore, StoreRandom
<1>7. CASE policy = "two"
  <2>1. \A pos1, pos2 \in DOMAIN deq : MorePopular(pos1, pos2) \subseteq DOMAIN deq
    BY DEF MorePopular
  <2>2. StoreTwo(ch)
    BY <1>7 DEF DataStore
  <2> QED BY <1>4, <1>5, <2>1, <2>2 DEF StoreTwo
<1> QED BY <1>3, <1>6, <1>7 DEF DataStore

(* An empty map matches an empty deque.                                    *)
LEMMA MapMatchesDequeInit == Init => MapMatchesDeque
BY EmptySeq, LenProperties, CapacityAssumption DEF Init, MapMatchesDeque, Held

(* The map never claims a chunk the deque does not hold, nor the reverse.  *)
THEOREM MapAlwaysMatchesDeque == Spec => []MapMatchesDeque
<1>1. MapMatchesDeque /\ [Next]_vars => MapMatchesDeque'
  <2>1. ASSUME MapMatchesDeque, Next PROVE MapMatchesDeque'
    BY <2>1, DataStoreStores DEF Next
  <2>2. ASSUME MapMatchesDeque, UNCHANGED vars PROVE MapMatchesDeque'
    BY <2>2 DEF MapMatchesDeque, Held, vars
  <2> QED BY <2>1, <2>2
<1> QED BY <1>1, MapMatchesDequeInit, PTL DEF Spec

(* Every policy is a content store: it stores every chunk it is offered,   *)
(* and evicts one chunk if it is full and none otherwise.                  *)
THEOREM QueueCacheImplementsContentStore == Spec => ImplementsContentStore
<1>1. Init => Store!Init
  BY DEF Init, Store!Init
<1>2. MapMatchesDeque /\ [Next]_vars => [Store!Next]_cache
  <2>1. ASSUME MapMatchesDeque, Next PROVE Store!Next
    BY <2>1, DataStoreStores DEF Next, Store!Next
  <2>2. UNCHANGED vars => UNCHANGED cache
    BY DEF vars
  <2> QED BY <2>1, <2>2
<1> QED BY <1>1, <1>2, MapAlwaysMatchesDeque, PTL
        DEF Spec, ImplementsContentStore, Store!Spec
=============================================================================
