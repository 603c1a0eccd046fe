--------------------------- MODULE LruOrderProofs ---------------------------
(***************************************************************************)
(* The least-recently-used policy is a content store, for every capacity   *)
(* and catalogue.                                                          *)
(***************************************************************************)
EXTENDS LruOrder, FiniteSetTheorems, SequenceTheorems,
        FunctionTheorems, TLAPS

Elements(s) == {s[i] : i \in DOMAIN s}

Distinct(s) == \A i, j \in DOMAIN s : s[i] = s[j] => i = j

(* A sequence without repetition has as many elements as places.           *)
LEMMA DistinctCardinality ==
  ASSUME NEW S, NEW s \in Seq(S), Distinct(s)
  PROVE  IsFiniteSet(Elements(s)) /\ Cardinality(Elements(s)) = Len(s)
<1>1. Len(s) \in Nat /\ DOMAIN s = 1 .. Len(s) /\ s \in [1 .. Len(s) -> S]
  BY LenProperties
<1>2. s \in [1 .. Len(s) -> Elements(s)]
  BY <1>1 DEF Elements
<1>3. s \in Bijection(1 .. Len(s), Elements(s))
  BY <1>1, <1>2, Fun_IsBij DEF Elements, Distinct
<1>4. ExistsBijection(1 .. Len(s), Elements(s))
  BY <1>3 DEF ExistsBijection
<1> QED BY <1>1, <1>4, FS_CountingElements, FS_NatBijection

(* A store without room is never asked to store anything.                  *)
HasRoom == C \in Nat \ {0}

(* The two instances of Cardinality are one operator.                      *)
LEMMA SameCardinality == Store!Cardinality(Held) = Cardinality(Held)
BY DEF Cardinality, Store!Cardinality

(* What OrderOK says of the places of order, and of their number.          *)
LEMMA OrderPlaces ==
  ASSUME HasRoom, OrderOK
  PROVE  /\ Len(order) \in 0 .. C
         /\ DOMAIN order = 1 .. Len(order)
         /\ order \in [1 .. Len(order) -> Chunk]
         /\ Cardinality(Held) = Len(order)
<1>1. order \in Seq(Chunk) /\ Distinct(order) /\ Held = Elements(order)
  BY DEF OrderOK, Distinct, Held, Elements
<1> QED BY <1>1, DistinctCardinality, LenProperties DEF HasRoom, OrderOK

(* A function on 1 .. k without repetition is a good order if k =< C.      *)
LEMMA NewOrder ==
  ASSUME NEW k \in Nat, k =< C, order' \in [1 .. k -> Chunk],
         \A i, j \in 1 .. k : order'[i] = order'[j] => i = j
  PROVE  OrderOK'
<1>1. order' \in Seq(Chunk) /\ Len(order') = k /\ DOMAIN order' = 1 .. k
  OBVIOUS
<1> QED BY <1>1 DEF OrderOK

(* A hit reorders the chunks.                                              *)
LEMMA UseReorders == HasRoom /\ OrderOK /\ Use => OrderOK' /\ Held' = Held
<1> SUFFICES ASSUME HasRoom, OrderOK, NEW i \in DOMAIN order, order' = Promoted(i)
             PROVE  OrderOK' /\ Held' = Held
  BY DEF Use
<1> DEFINE n == Len(order)
           from(j) == IF j = 1 THEN i ELSE IF j =< i THEN j - 1 ELSE j
           to(j) == IF j = i THEN 1 ELSE IF j < i THEN j + 1 ELSE j
<1>1. n \in 0 .. C /\ DOMAIN order = 1 .. n /\ order \in [1 .. n -> Chunk]
  BY OrderPlaces
<1>2. C \in Nat
  BY DEF HasRoom
<1>3. \A j \in 1 .. n : from(j) \in 1 .. n /\ to(j) \in 1 .. n /\ from(to(j)) = j
  BY <1>1, <1>2
<1>4. \A j, k \in 1 .. n : from(j) = from(k) => j = k
  BY <1>1, <1>2
<1>5. /\ DOMAIN order' = 1 .. n
      /\ \A j \in 1 .. n : order'[j] = order[from(j)]
      /\ order' \in [1 .. n -> Chunk]
  BY <1>1, <1>3 DEF Promoted
<1> HIDE DEF n, from, to
<1>6. \A j, k \in 1 .. n : order'[j] = order'[k] => j = k
  BY <1>1, <1>3, <1>4, <1>5 DEF OrderOK
<1>7. OrderOK'
  BY <1>1, <1>2, <1>5, <1>6, NewOrder, SMTT(30)
<1>8. Held' = Held
  <2>1. Held' \subseteq Held
    BY <1>1, <1>3, <1>5 DEF Held
  <2>2. Held \subseteq Held'
    BY <1>1, <1>3, <1>5 DEF Held
  <2> QED BY <2>1, <2>2
<1> QED BY <1>7, <1>8

(* An insertion adds the chunk, and removes the last one of a full store.  *)
LEMMA InsertStores ==
  ASSUME HasRoom, OrderOK, NEW ch \in Chunk, Insert(ch)
  PROVE  OrderOK' /\ Store!Insert(ch)
<1> DEFINE n == Len(order)
           k == IF n < C THEN n + 1 ELSE C
<1>1. /\ n \in 0 .. C /\ DOMAIN order = 1 .. n /\ order \in [1 .. n -> Chunk]
      /\ Cardinality(Held) = n
  BY OrderPlaces
<1>0. C \in Nat /\ C > 0 /\ n \in Nat /\ n =< C
  BY <1>1 DEF HasRoom
<1>2. /\ k \in Nat /\ 1 =< k /\ k =< C /\ k - 1 =< n
      /\ n < C => k = n + 1
      /\ n = C => k = C
  BY <1>0
<1>3. /\ DOMAIN order' = 1 .. k /\ order'[1] = ch
      /\ \A j \in 2 .. k : j - 1 \in 1 .. n /\ order'[j] = order[j - 1]
      /\ order' \in [1 .. k -> Chunk]
  <2>1. order' = [j \in 1 .. k |-> IF j = 1 THEN ch ELSE order[j - 1]]
    BY DEF Insert
  <2>2. \A j \in 1 .. k : j # 1 => j - 1 \in 1 .. n
    BY <1>0, <1>2
  <2>3. 1 \in 1 .. k /\ 2 .. k \subseteq 1 .. k \ {1}
    BY <1>2
  <2> HIDE DEF k, n
  <2> QED BY <1>1, <2>1, <2>2, <2>3
<1>4. ch \notin Held /\ \A j \in 1 .. n : order[j] # ch
  BY <1>1 DEF Insert, Held
<1>5. \A i, j \in 1 .. k : order'[i] = order'[j] => i = j
  <2>1. \A j \in 1 .. k : j = 1 \/ j \in 2 .. k
    BY <1>2
  <2>2. \A i, j \in 2 .. k : order'[i] = order'[j] => i = j
    <3>1. \A i, j \in 1 .. n : order[i] = order[j] => i = j
      BY <1>1 DEF OrderOK
    <3> QED BY <1>2, <1>3, <3>1, SMTT(30)
  <2> QED BY <1>3, <1>4, <2>1, <2>2
<1>6. OrderOK'
  <2> HIDE DEF k, n
  <2> QED BY <1>0, <1>2, <1>3, <1>5, NewOrder
<1>7. Held' = {ch} \cup {order[j] : j \in 1 .. k - 1}
  <2>1. \A j \in 1 .. k - 1 : j + 1 \in 2 .. k /\ order'[j + 1] = order[j]
    BY <1>2, <1>3
  <2>2. {ch} \cup {order[j] : j \in 1 .. k - 1} \subseteq Held'
    <3>1. 2 .. k \subseteq 1 .. k /\ 1 \in 1 .. k
      BY <1>2
    <3> QED BY <1>3, <2>1, <3>1 DEF Held
  <2>3. \A j \in 1 .. k : j = 1 \/ (j \in 2 .. k /\ j - 1 \in 1 .. k - 1)
    BY <1>2
  <2>4. Held' \subseteq {ch} \cup {order[j] : j \in 1 .. k - 1}
    BY <1>3, <2>3 DEF Held
  <2> QED BY <2>2, <2>4
<1>8. CASE n < C
  <2>1. 1 .. k - 1 = DOMAIN order
    <3>1. k - 1 = n
      BY <1>0, <1>2, <1>8
    <3> HIDE DEF k, n
    <3> QED BY <1>1, <3>1
  <2>2. Held' = Held \cup {ch}
    BY <1>7, <2>1 DEF Held
  <2> QED BY <1>1, <1>4, <1>6, <1>8, <2>2, SameCardinality DEF Store!Insert
<1>9. CASE n = C
  <2>1. C \in DOMAIN order /\ 1 .. k - 1 = DOMAIN order \ {C} /\ order[C] \in Held
    BY <1>0, <1>1, <1>2, <1>9 DEF Held
  <2>2. {order[j] : j \in 1 .. k - 1} = Held \ {order[C]}
    <3> HIDE DEF k
    <3> QED BY <2>1 DEF Held, OrderOK
  <2>3. Held' = (Held \ {order[C]}) \cup {ch}
    BY <1>7, <2>2
  <2> QED BY <1>0, <1>1, <1>4, <1>6, <1>9, <2>1, <2>3, SameCardinality
          DEF Store!Insert
<1> QED BY <1>0, <1>8, <1>9

(* The empty store is in order.                                            *)
LEMMA OrderOKInit == HasRoom /\ Init => OrderOK
BY EmptySeq, LenProperties DEF HasRoom, Init, OrderOK

(* No chunk is ever held twice, and no more than C are held.               *)
THEOREM OrderAlwaysOK ==
  ASSUME HasRoom
  PROVE  Spec => []OrderOK
<1>1. OrderOK /\ [Next]_order => OrderOK'
  <2>1. ASSUME OrderOK, Next PROVE OrderOK'
    BY <2>1, UseReorders, InsertStores DEF Next
  <2>2. ASSUME OrderOK, UNCHANGED order PROVE OrderOK'
    BY <2>2 DEF OrderOK
  <2> QED BY <2>1, <2>2
<1>2. Init => OrderOK
  BY OrderOKInit
<1> QED BY <1>1, <1>2, PTL DEF Spec

(* Least recently used is a way to choose the victim: everything CcnSim    *)
(* shows of content stores with any victim holds with this one.            *)
THEOREM LruOrderImplementsContentStore ==
  ASSUME HasRoom
  PROVE  Spec => ImplementsContentStore
<1>1. Init => Store!Init
  BY DEF Init, Store!Init, Held
<1>2. OrderOK /\ [Next]_order => [Store!Next]_Held
  <2>1. ASSUME OrderOK, Use PROVE UNCHANGED Held
    BY <2>1, UseReorders
  <2>2. ASSUME OrderOK, NEW ch \in Chunk, Insert(ch) PROVE Store!Next
    BY <2>2, InsertStores DEF Store!Next
  <2>3. UNCHANGED order => UNCHANGED Held
    BY DEF Held
  <2> QED BY <2>1, <2>2, <2>3 DEF Next
<1>3. Spec => []OrderOK
  BY OrderAlwaysOK
<1> QED BY <1>1, <1>2, <1>3, PTL
        DEF Spec, ImplementsContentStore, Store!Spec
=============================================================================
