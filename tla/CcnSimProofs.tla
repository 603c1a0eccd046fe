---------------------------- MODULE CcnSimProofs ----------------------------
(***************************************************************************)
(* Theorems about CcnSim, for every topology, catalogue, strategy and      *)
(* policy its assumptions admit.                                           *)
(***************************************************************************)
EXTENDS CcnSim, FiniteSetTheorems, SequenceTheorems, FunctionTheorems,
        WellFoundedInduction, TLAPS, CcnAccounting

Packet == Interest \cup Data

(* The elements of a sequence, of the packets on a link mostly.            *)
Elements(s) == {s[i] : i \in DOMAIN s}

(* The elements of a sequence of one, and of none.                         *)
LEMMA FewElements ==
  ASSUME NEW e
  PROVE  Elements(<<e>>) = {e} /\ Elements(<<>>) = {}
<1>1. DOMAIN <<e>> = {1} /\ <<e>>[1] = e
  OBVIOUS
<1>2. DOMAIN <<>> = {}
  OBVIOUS
<1> QED BY <1>1, <1>2 DEF Elements

(* The elements of two sequences, one behind the other.                    *)
LEMMA ConcatElements ==
  ASSUME NEW S, NEW s \in Seq(S), NEW t \in Seq(S)
  PROVE  Elements(s \o t) = Elements(s) \cup Elements(t)
<1>1. /\ DOMAIN s = 1 .. Len(s) /\ Len(s) \in Nat
      /\ DOMAIN t = 1 .. Len(t) /\ Len(t) \in Nat
      /\ DOMAIN (s \o t) = 1 .. Len(s) + Len(t)
      /\ \A i \in 1 .. Len(s) + Len(t) :
           (s \o t)[i] = IF i =< Len(s) THEN s[i] ELSE t[i - Len(s)]
  BY ConcatProperties, LenProperties
<1>2. \A i \in DOMAIN s : i \in DOMAIN (s \o t) /\ (s \o t)[i] = s[i]
  BY <1>1
<1>3. \A i \in DOMAIN t : i + Len(s) \in DOMAIN (s \o t) /\ (s \o t)[i + Len(s)] = t[i]
  <2> SUFFICES ASSUME NEW i \in DOMAIN t
               PROVE  i + Len(s) \in DOMAIN (s \o t) /\ (s \o t)[i + Len(s)] = t[i]
    OBVIOUS
  <2>1. /\ i + Len(s) \in 1 .. Len(s) + Len(t)
        /\ ~(i + Len(s) =< Len(s)) /\ i + Len(s) - Len(s) = i
    BY <1>1
  <2> QED BY <1>1, <2>1
<1>4. \A i \in DOMAIN (s \o t) :
        \/ (i \in DOMAIN s /\ (s \o t)[i] = s[i])
        \/ (i - Len(s) \in DOMAIN t /\ (s \o t)[i] = t[i - Len(s)])
  BY <1>1
<1>5. Elements(s) \subseteq Elements(s \o t)
  BY <1>2 DEF Elements
<1>6. Elements(t) \subseteq Elements(s \o t)
  BY <1>3 DEF Elements
<1>7. Elements(s \o t) \subseteq Elements(s) \cup Elements(t)
  BY <1>4 DEF Elements
<1> QED BY <1>5, <1>6, <1>7

(* What is left when the first element leaves.                             *)
LEMMA TailElements ==
  ASSUME NEW S, NEW s \in Seq(S), s # <<>>
  PROVE  /\ Elements(s) = Elements(Tail(s)) \cup {Head(s)}
         /\ Elements(s) \subseteq S
<1>1. /\ Tail(s) \in Seq(S) /\ Len(Tail(s)) = Len(s) - 1
      /\ \A i \in 1 .. Len(Tail(s)) : Tail(s)[i] = s[i + 1]
      /\ Head(s) = s[1]
      /\ DOMAIN Tail(s) = 1 .. Len(s) - 1
      /\ DOMAIN s = 1 .. Len(s) /\ Len(s) \in Nat \ {0}
  BY HeadTailProperties, LenProperties, EmptySeq
<1>2. \A i \in DOMAIN Tail(s) : i + 1 \in DOMAIN s /\ Tail(s)[i] = s[i + 1]
  BY <1>1
<1>3. \A i \in DOMAIN s : i = 1 \/ (i - 1 \in DOMAIN Tail(s) /\ Tail(s)[i - 1] = s[i])
  BY <1>1
<1>4. 1 \in DOMAIN s
  BY <1>1
<1>5. Elements(s) \subseteq S
  BY <1>1, ElementOfSeq DEF Elements
<1>6. Elements(s) \subseteq Elements(Tail(s)) \cup {Head(s)}
  BY <1>1, <1>3 DEF Elements
<1>7. Elements(Tail(s)) \subseteq Elements(s)
  BY <1>2 DEF Elements
<1>8. Head(s) \in Elements(s)
  BY <1>1, <1>4 DEF Elements
<1> QED BY <1>5, <1>6, <1>7, <1>8

(* Both ends of a link are nodes or clients, and its reverse is a link.    *)
LEMMA LinkEnds ==
  ASSUME NEW l \in Link
  PROVE  /\ l = <<l[1], l[2]>>
         /\ l[1] \in Node \cup Client
         /\ l[2] \in Node \cup Client
BY NodeAssumption DEF Link, Face

(* What a content store may hold after base_cache::store: finitely many    *)
(* chunks, no more than its capacity, and nothing new but the chunk stored. *)
LEMMA StoreOutcome ==
  ASSUME NEW s, IsFiniteSet(s), Cardinality(s) =< C, NEW ch, NEW h,
         NEW t \in Store(s, ch, h)
  PROVE  IsFiniteSet(t) /\ Cardinality(t) =< C /\ t \subseteq s \cup {ch}
<1>1. CASE t = s
  BY <1>1
<1>2. CASE C > 0 /\ t \in Inserted(s, ch)
  <2>1. CASE Cardinality(s) < C /\ t = s \cup {ch}
    <3>1. /\ IsFiniteSet(s \cup {ch})
          /\ Cardinality(s \cup {ch}) = IF ch \in s THEN Cardinality(s)
                                        ELSE Cardinality(s) + 1
      BY FS_AddElement
    <3> QED BY <2>1, <3>1, FS_CardinalityType, ParameterAssumption
  <2>2. CASE \E v \in s : t = (s \ {v}) \cup {ch}
    <3>1. PICK v \in s : t = (s \ {v}) \cup {ch}
      BY <2>2
    <3>2. IsFiniteSet(s \ {v}) /\ Cardinality(s \ {v}) = Cardinality(s) - 1
      BY FS_RemoveElement
    <3>3. /\ IsFiniteSet(t)
          /\ \/ Cardinality(t) = Cardinality(s \ {v})
             \/ Cardinality(t) = Cardinality(s \ {v}) + 1
      BY <3>1, <3>2, FS_AddElement
    <3> QED BY <3>1, <3>2, <3>3, FS_CardinalityType, ParameterAssumption
  <2> QED BY <1>2, <2>1, <2>2 DEF Inserted
<1> QED BY <1>1, <1>2 DEF Store

(* A strategy leaves the chunk of an interest alone, and its target is a   *)
(* node or NoTarget.                                                       *)
LEMMA NearestIsNode ==
  ASSUME NEW n \in Node, NEW ch \in Chunk
  PROVE  Nearest(n, ch) \subseteq Node /\ NearestCopies(n, ch) \subseteq Node
<1>1. ch[1] \in Name
  BY DEF Chunk
<1> QED BY <1>1, CatalogueAssumption DEF Nearest, NearestCopies

(* An interest that nrr retargets is an interest.                          *)
LEMMA RetargetedType ==
  ASSUME NEW n, NEW ds \in SUBSET Node, NEW m \in Interest,
         NEW d \in Retargeted(n, ds, m)
  PROVE  d.msg \in Interest
BY DEF Retargeted, Toward, Interest

(* Whatever get_decision does with an interest, it leaves an interest for  *)
(* the core layer to send.                                                 *)
LEMMA DecisionType ==
  ASSUME NEW n \in Node, NEW f, NEW m \in Interest, NEW d \in GetDecision(n, f, m)
  PROVE  d.msg \in Interest
<1>1. m.chunk \in Chunk
  BY DEF Interest
<1>2. CASE FS = "spr"
  BY <1>2 DEF GetDecision, ShortestPath, Toward
<1>3. CASE FS = "nrr"
  <2>1. [m EXCEPT !.aggregate = FALSE] \in Interest
    BY DEF Interest
  <2>2. d \in NearestReplica(n, m)
    BY <1>3 DEF GetDecision
  <2>3. CASE m.target = NoTarget
    <3> DEFINE ds == IF NearestCopies(n, m.chunk) # {}
                     THEN NearestCopies(n, m.chunk) ELSE Nearest(n, m.chunk)
    <3>1. ds \in SUBSET Node
      BY <1>1, NearestIsNode
    <3>2. d \in Retargeted(n, ds, m)
      BY <2>2, <2>3 DEF NearestReplica
    <3> HIDE DEF ds
    <3> QED BY <3>1, <3>2, RetargetedType
  <2>4. CASE m.target # NoTarget /\ m.target = n
    BY <1>1, <2>1, <2>2, <2>4, NearestIsNode, RetargetedType DEF NearestReplica
  <2>5. CASE m.target # NoTarget /\ m.target # n
    BY <2>2, <2>5 DEF NearestReplica, Toward
  <2> QED BY <2>3, <2>4, <2>5
<1>4. CASE FS = "nrr1"
  BY <1>4 DEF GetDecision, Flooding, ShortestPath, Toward
<1>5. CASE FS = "parallel"
  BY <1>5 DEF GetDecision, Toward
<1> QED BY <1>2, <1>3, <1>4, <1>5, ParameterAssumption

(* Transfer keeps the packets of every link typed.                         *)
LEMMA TransferType ==
  ASSUME NEW S, chan \in [Link -> Seq(S)], NEW l \in Link, chan[l] # <<>>,
         NEW dests, NEW msg \in S, Transfer(l, dests, msg)
  PROVE  chan' \in [Link -> Seq(S)]
<1> SUFFICES ASSUME NEW k \in Link
             PROVE  (IF k = l THEN Tail(chan[k]) ELSE chan[k])
                      \o (IF k \in dests THEN <<msg>> ELSE <<>>) \in Seq(S)
  BY DEF Transfer
<1>1. (IF k = l THEN Tail(chan[k]) ELSE chan[k]) \in Seq(S)
  BY HeadTailProperties
<1>2. (IF k \in dests THEN <<msg>> ELSE <<>>) \in Seq(S)
  OBVIOUS
<1> QED BY <1>1, <1>2, ConcatProperties

(* A client is linked to its node.                                         *)
LEMMA UpIsLink ==
  ASSUME NEW c \in Client
  PROVE  Up(c) \in Link
BY NodeAssumption DEF Up, Link, Face

(* A function on 1 .. k is a sequence.                                     *)
LEMMA FunctionIsSeq ==
  ASSUME NEW S, NEW k \in Nat, NEW q \in [1 .. k -> S]
  PROVE  q \in Seq(S)
OBVIOUS

(* The serial numbers of the downloads that advance are finitely many.     *)
LEMMA AdvancingFinite ==
  ASSUME NEW c, NEW ch
  PROVE  Cardinality(Advancing(c, ch)) \in Nat
<1>1. IsFiniteSet(Serial)
  BY FS_Interval, ParameterAssumption DEF Serial
<1>2. Advancing(c, ch) \in SUBSET Serial
  BY DEF Advancing
<1> QED BY <1>1, <1>2, FS_Subset, FS_CardinalityType

(* The head of a link is a packet of its kind.                             *)
LEMMA HeadType ==
  ASSUME TypeOK, NEW l \in Link, chan[l] # <<>>
  PROVE  /\ Head(chan[l]) \in Packet
         /\ Head(chan[l]).chunk \in Chunk
         /\ Head(chan[l]).kind = "interest" => Hopped(Head(chan[l])) \in Interest
         /\ Head(chan[l]).kind = "data" => Hopped(Head(chan[l])) \in Data
         /\ Hopped(Head(chan[l])).chunk = Head(chan[l]).chunk
<1>1. Head(chan[l]) \in Packet
  BY HeadTailProperties DEF TypeOK, Packet
<1> QED BY <1>1 DEF Packet, Interest, Data, Hopped

(* Storing keeps the content stores typed and within their capacity.       *)
LEMMA StoreType ==
  ASSUME TypeOK, NEW n \in Node, NEW ch \in Chunk, NEW h,
         NEW s \in Store(cs[n], ch, h), cs' = [cs EXCEPT ![n] = s]
  PROVE  /\ cs' \in [Node -> SUBSET Chunk]
         /\ \A m \in Node : IsFiniteSet(cs'[m]) /\ Cardinality(cs'[m]) =< C
<1>1. IsFiniteSet(s) /\ Cardinality(s) =< C /\ s \subseteq cs[n] \cup {ch}
  BY StoreOutcome DEF TypeOK
<1> QED BY <1>1 DEF TypeOK

(* Adding a face to the PIT, and erasing an entry, keep its type.          *)
LEMMA PitType ==
  ASSUME TypeOK, NEW n \in Node, NEW f \in Node \cup Client,
         NEW m, m.chunk \in Chunk
  PROVE  /\ AddToPit(n, f, m) => /\ pit' \in [Node -> [Chunk -> SUBSET (Node \cup Client)]]
                                /\ aged' \in [Node -> SUBSET Chunk]
         /\ ErasePit(n, m.chunk) => /\ pit' \in [Node -> [Chunk -> SUBSET (Node \cup Client)]]
                                   /\ aged' \in [Node -> SUBSET Chunk]
<1>1. /\ pit \in [Node -> [Chunk -> SUBSET (Node \cup Client)]]
      /\ aged \in [Node -> SUBSET Chunk]
  BY DEF TypeOK
<1>2. ASSUME AddToPit(n, f, m)
      PROVE  /\ pit' \in [Node -> [Chunk -> SUBSET (Node \cup Client)]]
             /\ aged' \in [Node -> SUBSET Chunk]
  <2>1. (IF EntryIsFresh(n, m) THEN {f} ELSE pit[n][m.chunk] \cup {f})
           \in SUBSET (Node \cup Client)
    BY <1>1
  <2> QED BY <1>1, <1>2, <2>1 DEF AddToPit
<1>3. ASSUME ErasePit(n, m.chunk)
      PROVE  /\ pit' \in [Node -> [Chunk -> SUBSET (Node \cup Client)]]
             /\ aged' \in [Node -> SUBSET Chunk]
  BY <1>1, <1>3 DEF ErasePit
<1> QED BY <1>2, <1>3

(* The packets the clients send are new interests: if these and all packets *)
(* in transit are in S, then so are all packets in transit afterwards.     *)
NewInterestsIn(S) ==
  \A ch \in Chunk, t \in Node \cup {NoTarget}, b \in BOOLEAN :
    NewInterest(ch, t, b) \in S

(* A first request adds one new interest to the link of its client.        *)
LEMMA RequestFilePackets ==
  ASSUME NEW S, chan \in [Link -> Seq(S)], NewInterestsIn(S),
         NEW c \in Client, RequestFile(c)
  PROVE  chan' \in [Link -> Seq(S)]
<1>1. PICK f \in Name :
        chan' = [chan EXCEPT ![Up(c)] =
                   Append(@, NewInterest(<<f, 0>>, NoTarget, FALSE))]
  BY DEF RequestFile
<1> DEFINE e == NewInterest(<<f, 0>>, NoTarget, FALSE)
<1>2. e \in S
  <2>1. <<f, 0>> \in Chunk
    BY CatalogueAssumption DEF Chunk
  <2> QED BY <2>1 DEF NewInterestsIn
<1>3. Append(chan[Up(c)], e) \in Seq(S)
  BY <1>2, UpIsLink, AppendProperties
<1>4. chan' = [chan EXCEPT ![Up(c)] = Append(@, e)]
  BY <1>1
<1> HIDE DEF e
<1> QED BY <1>3, <1>4

(* The retransmissions of a TIMER are new interests, one for each late     *)
(* download.                                                               *)
LEMMA TimerFiresPackets ==
  ASSUME NEW S, TypeOK, chan \in [Link -> Seq(S)], NewInterestsIn(S),
         NEW c \in Client, TimerFires(c)
  PROVE  chan' \in [Link -> Seq(S)]
<1> DEFINE k == Cardinality(late[c])
<1>1. PICK q \in [1 .. k -> late[c]] :
        chan' = [chan EXCEPT ![Up(c)] = @ \o
                   [i \in DOMAIN q |-> NewInterest(want[c][q[i]], NoTarget, TRUE)]]
  BY DEF TimerFires
<1> DEFINE s == [i \in 1 .. k |-> NewInterest(want[c][q[i]], NoTarget, TRUE)]
<1>2. k \in Nat
  <2>1. IsFiniteSet(Serial)
    BY FS_Interval, ParameterAssumption DEF Serial
  <2> QED BY <2>1, FS_Subset, FS_CardinalityType DEF TypeOK
<1>3. s \in Seq(S)
  <2>1. \A i \in 1 .. k : want[c][q[i]] \in Chunk
    BY DEF TypeOK
  <2>2. s \in [1 .. k -> S]
    BY <2>1 DEF NewInterestsIn
  <2> HIDE DEF s, k
  <2> QED BY <1>2, <2>2, FunctionIsSeq
<1>4. chan' = [chan EXCEPT ![Up(c)] = @ \o s]
  BY <1>1
<1>5. chan[Up(c)] \o s \in Seq(S)
  BY <1>3, UpIsLink, ConcatProperties
<1> HIDE DEF s
<1> QED BY <1>4, <1>5

(* The requests for the next chunk, sent when a chunk arrives, are new     *)
(* interests, one for each download that moves on.                         *)
LEMMA ChunkArrivesPackets ==
  ASSUME NEW S, TypeOK, chan \in [Link -> Seq(S)], NewInterestsIn(S),
         NEW l \in Link, ChunkArrives(l)
  PROVE  chan' \in [Link -> Seq(S)]
<1> DEFINE c    == l[2]
           m    == Head(chan[l])
           done == NextChunk(m.chunk) \notin Chunk
           new  == [j \in 1 .. Cardinality(Advancing(c, m.chunk)) |->
                      NewInterest(NextChunk(m.chunk), m.target, FALSE)]
<1>1. chan[l] # <<>> /\ m.kind = "data"
  BY DEF ChunkArrives, Arrives
<1>2. m.target \in Node
  BY <1>1, HeadType DEF Packet, Interest, Data
<1>3. ~done => new \in Seq(S)
  <2>1. ~done => NewInterest(NextChunk(m.chunk), m.target, FALSE) \in S
    BY <1>2 DEF NewInterestsIn
  <2>2. ~done => new \in [1 .. Cardinality(Advancing(c, m.chunk)) -> S]
    BY <2>1
  <2>3. Cardinality(Advancing(c, m.chunk)) \in Nat
    BY AdvancingFinite
  <2> HIDE DEF new, done
  <2> QED BY <2>2, <2>3, FunctionIsSeq
<1>4. Tail(chan[l]) \in Seq(S)
  BY <1>1, HeadTailProperties
<1>5. \A k \in Link : ~done => chan[k] \o new \in Seq(S)
  BY <1>3, ConcatProperties
<1>6. chan' = [k \in Link |-> IF k = l THEN Tail(chan[k])
                             ELSE IF k = Up(c) /\ ~done THEN chan[k] \o new
                             ELSE chan[k]]
  BY DEF ChunkArrives
<1> HIDE DEF new, done
<1> QED BY <1>4, <1>5, <1>6

(* After initialize the state is well typed.                               *)
LEMMA TypeInit == Init => TypeOK
<1> SUFFICES ASSUME Init PROVE TypeOK
  OBVIOUS
<1>1. \A n \in Node : IsFiniteSet(cs[n]) /\ Cardinality(cs[n]) =< C
  BY FS_EmptySet, ParameterAssumption DEF Init
<1>2. requested \in [Client -> 0 .. MaxRequests]
  BY ParameterAssumption DEF Init
<1> QED BY <1>1, <1>2 DEF Init, TypeOK

(* Every event keeps the state well typed.                                 *)
LEMMA TypeNext == TypeOK /\ [Next]_vars => TypeOK'
<1> SUFFICES ASSUME TypeOK, [Next]_vars PROVE TypeOK'
  OBVIOUS
<1> USE DEF Packet
<1>0. chan \in [Link -> Seq(Packet)] /\ NewInterestsIn(Packet)
  BY DEF TypeOK, NewInterestsIn, NewInterest, Interest
<1>1. ASSUME NEW l \in Link, DiscardInterest(l) PROVE TypeOK'
  <2>1. chan' \in [Link -> Seq(Packet)]
    BY <1>1, HeadType, TransferType DEF DiscardInterest, Arrives, TypeOK
  <2> QED BY <1>1, <2>1 DEF DiscardInterest, TypeOK
<1>2. ASSUME NEW l \in Link, CacheHit(l) PROVE TypeOK'
  <2>1. NewData(Head(chan[l]).chunk, 0, l[2]) \in Packet
    BY <1>2, HeadType DEF CacheHit, InterestArrives, Arrives, NewData, Data
  <2>2. chan' \in [Link -> Seq(Packet)]
    BY <1>2, <2>1, TransferType DEF CacheHit, InterestArrives, Arrives, TypeOK
  <2> QED BY <1>2, <2>2 DEF CacheHit, TypeOK
<1>3. ASSUME NEW l \in Link, RepoHit(l) PROVE TypeOK'
  <2> DEFINE n == l[2]
             ch == Head(chan[l]).chunk
  <2>1. n \in Node /\ ch \in Chunk
    BY <1>3, HeadType DEF RepoHit, InterestArrives, Arrives
  <2>2. NewData(ch, 1, n) \in Packet
    BY <2>1 DEF NewData, Data
  <2>3. chan' \in [Link -> Seq(Packet)]
    BY <1>3, <2>2, TransferType DEF RepoHit, InterestArrives, Arrives, TypeOK
  <2>4. /\ cs' \in [Node -> SUBSET Chunk]
        /\ \A m \in Node : IsFiniteSet(cs'[m]) /\ Cardinality(cs'[m]) =< C
    BY <1>3, <2>1, StoreType DEF RepoHit
  <2> QED BY <1>3, <2>3, <2>4 DEF RepoHit, TypeOK
<1>4. ASSUME NEW l \in Link, ForwardInterest(l) PROVE TypeOK'
  <2> DEFINE n == l[2]
             m == Hopped(Head(chan[l]))
  <2>1. n \in Node /\ l[1] \in Node \cup Client /\ chan[l] # <<>>
    BY <1>4, LinkEnds DEF ForwardInterest, Miss, InterestArrives, Arrives
  <2>2. m \in Interest /\ m.chunk \in Chunk
    BY <1>4, HeadType DEF ForwardInterest, Miss, InterestArrives, Arrives
  <2>3. AtTarget(n, m) \in Interest
    BY <2>2 DEF AtTarget, Interest
  <2>4. PICK d \in GetDecision(n, l[1], AtTarget(n, m)) :
          Transfer(l, {<<n, f>> : f \in d.out}, d.msg)
    BY <1>4 DEF ForwardInterest
  <2>5. chan' \in [Link -> Seq(Packet)]
    BY <2>1, <2>3, <2>4, DecisionType, TransferType DEF TypeOK
  <2>6. /\ pit' \in [Node -> [Chunk -> SUBSET (Node \cup Client)]]
        /\ aged' \in [Node -> SUBSET Chunk]
    BY <1>4, <2>1, <2>2, PitType DEF ForwardInterest
  <2> QED BY <1>4, <2>5, <2>6 DEF ForwardInterest, TypeOK
<1>5. ASSUME NEW l \in Link, AggregateInterest(l) PROVE TypeOK'
  <2> DEFINE n == l[2]
             m == Hopped(Head(chan[l]))
  <2>1. n \in Node /\ l[1] \in Node \cup Client /\ chan[l] # <<>>
    BY <1>5, LinkEnds DEF AggregateInterest, Miss, InterestArrives, Arrives
  <2>2. m.chunk \in Chunk
    BY <1>5, <2>1, HeadType
  <2>3. chan' \in [Link -> Seq(Packet)]
    BY <1>5, <2>1, HeadType, TransferType DEF AggregateInterest, TypeOK
  <2>4. /\ pit' \in [Node -> [Chunk -> SUBSET (Node \cup Client)]]
        /\ aged' \in [Node -> SUBSET Chunk]
    BY <1>5, <2>1, <2>2, PitType DEF AggregateInterest
  <2> QED BY <1>5, <2>3, <2>4 DEF AggregateInterest, TypeOK
<1>6. ASSUME NEW l \in Link, PendingData(l) PROVE TypeOK'
  <2> DEFINE n == l[2]
             m == Hopped(Head(chan[l]))
  <2>1. n \in Node /\ chan[l] # <<>>
    BY <1>6 DEF PendingData, Arrives
  <2>2. m \in Data /\ m.chunk \in Chunk
    BY <1>6, HeadType DEF PendingData, Arrives
  <2>3. chan' \in [Link -> Seq(Packet)]
    BY <1>6, <2>1, <2>2, TransferType DEF PendingData, TypeOK
  <2>4. /\ cs' \in [Node -> SUBSET Chunk]
        /\ \A k \in Node : IsFiniteSet(cs'[k]) /\ Cardinality(cs'[k]) =< C
    BY <1>6, <2>1, <2>2, StoreType DEF PendingData
  <2>5. /\ pit' \in [Node -> [Chunk -> SUBSET (Node \cup Client)]]
        /\ aged' \in [Node -> SUBSET Chunk]
    BY <1>6, <2>1, <2>2, PitType DEF PendingData
  <2> QED BY <1>6, <2>3, <2>4, <2>5 DEF PendingData, TypeOK
<1>7. ASSUME NEW l \in Link, UnsolicitedData(l) PROVE TypeOK'
  <2>1. chan' \in [Link -> Seq(Packet)]
    BY <1>7, HeadType, TransferType DEF UnsolicitedData, Arrives, TypeOK
  <2> QED BY <1>7, <2>1 DEF UnsolicitedData, TypeOK
<1>8. ASSUME NEW l \in Link, ChunkArrives(l) PROVE TypeOK'
  <2>1. l[2] \in Client
    BY <1>8 DEF ChunkArrives
  <2>2. chan' \in [Link -> Seq(Packet)]
    BY <1>0, <1>8, ChunkArrivesPackets
  <2>3. want' \in [Client -> [Serial -> Chunk \cup {Idle}]]
    BY <1>8, <2>1 DEF ChunkArrives, TypeOK
  <2>4. late' \in [Client -> SUBSET Serial]
    BY <1>8, <2>1 DEF ChunkArrives, TypeOK
  <2> QED BY <1>8, <2>2, <2>3, <2>4 DEF ChunkArrives, TypeOK
<1>9. ASSUME NEW c \in Client, RequestFile(c) PROVE TypeOK'
  <2>1. PICK f \in Name :
          want' = [want EXCEPT ![c][requested[c] + 1] = <<f, 0>>]
    BY <1>9 DEF RequestFile
  <2>2. <<f, 0>> \in Chunk
    BY CatalogueAssumption DEF Chunk
  <2>3. chan' \in [Link -> Seq(Packet)]
    BY <1>0, <1>9, RequestFilePackets
  <2>4. want' \in [Client -> [Serial -> Chunk \cup {Idle}]]
    BY <2>1, <2>2 DEF TypeOK
  <2>5. requested' \in [Client -> 0 .. MaxRequests]
    BY <1>9, ParameterAssumption DEF RequestFile, TypeOK
  <2>6. \A d \in Client : \A i \in late[d] : want'[d][i] \in Chunk
    BY <2>1, <2>2 DEF TypeOK
  <2> QED BY <1>9, <2>3, <2>4, <2>5, <2>6 DEF RequestFile, TypeOK
<1>10. ASSUME NEW c \in Client, TimerFires(c) PROVE TypeOK'
  <2>1. chan' \in [Link -> Seq(Packet)]
    BY <1>0, <1>10, TimerFiresPackets
  <2> QED BY <1>10, <2>1 DEF TimerFires, TypeOK
<1>11. ASSUME NEW c \in Client, NEW i \in Serial, BecomeLate(c, i) PROVE TypeOK'
  BY <1>11 DEF BecomeLate, TypeOK
<1>12. ASSUME NEW n \in Node, NEW ch \in Chunk, BecomeAged(n, ch) PROVE TypeOK'
  BY <1>12 DEF BecomeAged, TypeOK
<1>13. CASE UNCHANGED vars
  BY <1>13 DEF vars, TypeOK
<1> QED
  BY <1>1, <1>2, <1>3, <1>4, <1>5, <1>6, <1>7, <1>8, <1>9, <1>10, <1>11, <1>12,
     <1>13 DEF Next, Deliver

(* Every reachable state is well typed, no content store is overfull, and  *)
(* only downloads that wait for a chunk are late.                          *)
THEOREM TypeCorrect == Spec => []TypeOK
BY TypeInit, TypeNext, PTL DEF Spec
-----------------------------------------------------------------------------
(* What is stored at a node without a PIT entry, or erased from the PIT in *)
(* the same step, keeps content stores and PITs apart.                     *)
LEMMA StoreKeepsApart ==
  ASSUME TypeOK, PitCsDisjoint, NEW n \in Node, NEW ch \in Chunk, NEW h,
         NEW s \in Store(cs[n], ch, h), cs' = [cs EXCEPT ![n] = s],
         \/ pit[n][ch] = {} /\ pit' = pit
         \/ pit' = [pit EXCEPT ![n][ch] = {}]
  PROVE  PitCsDisjoint'
<1>1. s \subseteq cs[n] \cup {ch}
  BY StoreOutcome DEF TypeOK
<1>2. \A m \in Node, x \in Chunk : x \in cs'[m] => x \in cs[m] \/ (m = n /\ x = ch)
  BY <1>1 DEF TypeOK
<1>3. \A m \in Node, x \in Chunk :
        /\ pit'[m][x] # {} => pit[m][x] # {}
        /\ m = n /\ x = ch => pit'[m][x] = {}
  BY DEF TypeOK
<1> QED BY <1>2, <1>3 DEF PitCsDisjoint

(* A node never waits for a chunk of its own repository: handle_interest   *)
(* answers from the repository before it looks at the PIT.                 *)
OwnersNeverWait ==
  \A n \in Node, ch \in Chunk : n \in Repos[ch[1]] => pit[n][ch] = {}

(* After initialize all PITs and content stores are empty.                 *)
LEMMA PitCsDisjointInit == Init => OwnersNeverWait /\ PitCsDisjoint
BY DEF Init, OwnersNeverWait, PitCsDisjoint

(* Only an interest that missed adds a face to the PIT, and an owner of the *)
(* file never misses.                                                      *)
LEMMA OwnersNeverWaitNext ==
  TypeOK /\ OwnersNeverWait /\ [Next]_vars => OwnersNeverWait'
<1> SUFFICES ASSUME TypeOK, OwnersNeverWait, [Next]_vars
             PROVE  OwnersNeverWait'
  OBVIOUS
<1>1. ASSUME NEW l \in Link, Miss(l), AddToPit(l[2], l[1], Hopped(Head(chan[l])))
      PROVE  OwnersNeverWait'
  <2> DEFINE n  == l[2]
             ch == Head(chan[l]).chunk
  <2>1. n \in Node /\ chan[l] # <<>> /\ n \notin Repos[ch[1]]
    BY <1>1 DEF Miss, InterestArrives, Arrives
  <2>2. Hopped(Head(chan[l])).chunk = ch
    BY <2>1, HeadType
  <2>3. \A m \in Node, x \in Chunk :
          pit'[m][x] # {} => pit[m][x] # {} \/ (m = n /\ x = ch)
    BY <1>1, <2>1, <2>2 DEF AddToPit, TypeOK
  <2> QED BY <2>1, <2>3 DEF OwnersNeverWait
<1>2. ASSUME NEW l \in Link, ForwardInterest(l) \/ AggregateInterest(l)
      PROVE  OwnersNeverWait'
  BY <1>1, <1>2 DEF ForwardInterest, AggregateInterest
<1>3. ASSUME NEW l \in Link, PendingData(l) PROVE OwnersNeverWait'
  BY <1>3 DEF PendingData, ErasePit, OwnersNeverWait, TypeOK
<1>4. CASE UNCHANGED pit
  BY <1>4 DEF OwnersNeverWait
<1>5. ASSUME NEW l \in Link,
             \/ DiscardInterest(l) \/ CacheHit(l) \/ RepoHit(l)
             \/ UnsolicitedData(l) \/ ChunkArrives(l)
      PROVE  UNCHANGED pit
  BY <1>5 DEF DiscardInterest, CacheHit, RepoHit, UnsolicitedData, ChunkArrives
<1>6. ASSUME NEW c, NEW i, \/ RequestFile(c) \/ TimerFires(c)
                           \/ BecomeLate(c, i) \/ BecomeAged(c, i)
      PROVE  UNCHANGED pit
  BY <1>6 DEF RequestFile, TimerFires, BecomeLate, BecomeAged
<1> QED BY <1>2, <1>3, <1>4, <1>5, <1>6 DEF Next, Deliver, vars

(* No event lets a node wait for what it holds.  That the chunk offered by *)
(* a repository is not pending is OwnersNeverWait.                         *)
LEMMA PitCsDisjointNext ==
  TypeOK /\ OwnersNeverWait /\ PitCsDisjoint /\ [Next]_vars => PitCsDisjoint'
<1> SUFFICES ASSUME TypeOK, OwnersNeverWait, PitCsDisjoint, [Next]_vars
             PROVE  PitCsDisjoint'
  OBVIOUS
<1>1. ASSUME NEW l \in Link, Miss(l),
             AddToPit(l[2], l[1], Hopped(Head(chan[l]))), cs' = cs
      PROVE  PitCsDisjoint'
  <2> DEFINE n  == l[2]
             ch == Head(chan[l]).chunk
  <2>1. n \in Node /\ chan[l] # <<>> /\ ch \notin cs[n]
    BY <1>1 DEF Miss, InterestArrives, Arrives
  <2>2. Hopped(Head(chan[l])).chunk = ch /\ ch \in Chunk
    BY <2>1, HeadType
  <2>3. \A m \in Node, x \in Chunk :
          pit'[m][x] # {} => pit[m][x] # {} \/ (m = n /\ x = ch)
    BY <1>1, <2>1, <2>2 DEF AddToPit, TypeOK
  <2> QED BY <1>1, <2>1, <2>3 DEF PitCsDisjoint
<1>2. ASSUME NEW l \in Link, ForwardInterest(l) PROVE PitCsDisjoint'
  BY <1>1, <1>2 DEF ForwardInterest
<1>3. ASSUME NEW l \in Link, AggregateInterest(l) PROVE PitCsDisjoint'
  BY <1>1, <1>3 DEF AggregateInterest
<1>4. ASSUME NEW l \in Link, RepoHit(l) PROVE PitCsDisjoint'
  <2> DEFINE n  == l[2]
             ch == Head(chan[l]).chunk
  <2>1. n \in Node /\ ch \in Chunk
    BY <1>4, HeadType DEF RepoHit, InterestArrives, Arrives
  <2>2. pit[n][ch] = {} /\ pit' = pit
    BY <1>4, <2>1 DEF RepoHit, OwnersNeverWait
  <2> QED BY <1>4, <2>1, <2>2, StoreKeepsApart DEF RepoHit
<1>5. ASSUME NEW l \in Link, PendingData(l) PROVE PitCsDisjoint'
  <2> DEFINE n == l[2]
             m == Hopped(Head(chan[l]))
  <2>1. n \in Node /\ m.chunk \in Chunk
    BY <1>5, HeadType DEF PendingData, Arrives
  <2> QED BY <1>5, <2>1, StoreKeepsApart DEF PendingData, ErasePit
<1>6. CASE UNCHANGED <<pit, cs>>
  BY <1>6 DEF PitCsDisjoint
<1>7. CASE UNCHANGED vars
  BY <1>6, <1>7 DEF vars
<1>8. ASSUME NEW l \in Link,
             \/ DiscardInterest(l) \/ CacheHit(l) \/ UnsolicitedData(l) \/ ChunkArrives(l)
      PROVE  PitCsDisjoint'
  BY <1>6, <1>8 DEF DiscardInterest, CacheHit, UnsolicitedData, ChunkArrives
<1>9. ASSUME NEW c \in Client, RequestFile(c) \/ TimerFires(c) PROVE PitCsDisjoint'
  BY <1>6, <1>9 DEF RequestFile, TimerFires
<1>10. ASSUME NEW c, NEW i, BecomeLate(c, i) \/ BecomeAged(c, i) PROVE PitCsDisjoint'
  BY <1>6, <1>10 DEF BecomeLate, BecomeAged
<1> QED BY <1>2, <1>3, <1>4, <1>5, <1>7, <1>8, <1>9, <1>10 DEF Next, Deliver

(* No node ever waits for a chunk it holds.                                *)
THEOREM PitCsApart == Spec => []PitCsDisjoint
BY TypeCorrect, PitCsDisjointInit, OwnersNeverWaitNext, PitCsDisjointNext, PTL
   DEF Spec
-----------------------------------------------------------------------------
(* The packets RetargetedOnce allows on a link.                            *)
Settled ==
  {p \in Packet : p.kind = "interest" /\ ~p.aggregate
                     => p.target \in Repos[p.chunk[1]]}

(* An interest that nrr turns away from a cache heads for an owner of the  *)
(* file, and one that it sends on keeps what it was.                       *)
LEMMA RetargetedSettled ==
  ASSUME NEW n, NEW ch \in Chunk, NEW m \in Interest, m.chunk = ch,
         NEW d \in Retargeted(n, Nearest(n, ch), m)
  PROVE  d.msg \in Settled
<1>1. PICK r \in Nearest(n, ch) : d.msg = [m EXCEPT !.target = r]
  BY DEF Retargeted, Toward
<1>2. r \in Repos[ch[1]] /\ r \in Node
  BY CatalogueAssumption DEF Nearest, Chunk
<1> QED BY <1>1, <1>2 DEF Settled, Packet, Interest

(* nrr leaves every interest settled, whether it aims it at a cache, at a  *)
(* repository, or lets it pass.                                            *)
LEMMA NearestReplicaSettled ==
  ASSUME NEW n \in Node, NEW m \in Settled \cap Interest,
         NEW d \in NearestReplica(n, AtTarget(n, m))
  PROVE  d.msg \in Settled
<1>1. m.chunk \in Chunk /\ m.target \in Node \cup {NoTarget}
  BY DEF Interest
<1>2. CASE m.target = NoTarget
  <2>1. m.aggregate /\ AtTarget(n, m) = m
    <3>1. Repos[m.chunk[1]] \subseteq Node
      BY <1>1, CatalogueAssumption DEF Chunk
    <3> QED BY <1>2, <3>1, NodeAssumption DEF Settled, AtTarget, Interest
  <2>2. d.msg \in Interest /\ d.msg.aggregate = m.aggregate
    <3> DEFINE ds == IF NearestCopies(n, m.chunk) # {}
                     THEN NearestCopies(n, m.chunk) ELSE Nearest(n, m.chunk)
    <3>1. ds \in SUBSET Node
      BY <1>1, NearestIsNode
    <3>2. d \in Retargeted(n, ds, m)
      BY <1>2, <2>1 DEF NearestReplica
    <3> HIDE DEF ds
    <3> QED BY <3>1, <3>2 DEF Retargeted, Toward, Interest
  <2> QED BY <2>1, <2>2 DEF Settled, Packet, Interest
<1>3. CASE m.target = n
  <2> DEFINE u == [m EXCEPT !.aggregate = FALSE]
  <2>1. u \in Interest /\ u.chunk = m.chunk
    BY DEF Interest
  <2>2. AtTarget(n, m) = u /\ u.target = n /\ [u EXCEPT !.aggregate = FALSE] = u
    BY <1>3 DEF AtTarget, Interest
  <2>3. n # NoTarget
    BY NodeAssumption
  <2>4. NearestReplica(n, u) = Retargeted(n, Nearest(n, u.chunk), u)
    BY <2>2, <2>3 DEF NearestReplica
  <2> HIDE DEF u
  <2> QED BY <1>1, <2>1, <2>2, <2>4, RetargetedSettled
<1>4. CASE m.target # NoTarget /\ m.target # n
  BY <1>4 DEF NearestReplica, AtTarget, Toward
<1> QED BY <1>2, <1>3, <1>4

(* Under nrr every event leaves only settled packets on the links.         *)
LEMMA SettledNext ==
  ASSUME FS = "nrr", TypeOK, chan \in [Link -> Seq(Settled)], [Next]_vars
  PROVE  chan' \in [Link -> Seq(Settled)]
<1>1. NewInterestsIn(Settled)
  BY DEF NewInterestsIn, NewInterest, Settled, Packet, Interest
<1>2. ASSUME NEW l \in Link, chan[l] # <<>>
      PROVE  Head(chan[l]) \in Settled /\ Hopped(Head(chan[l])) \in Settled
  <2>1. Head(chan[l]) \in Settled
    BY <1>2, HeadTailProperties
  <2> QED BY <2>1 DEF Settled, Packet, Interest, Data, Hopped
<1>3. ASSUME NEW ch \in Chunk, NEW h \in Int, NEW n \in Node
      PROVE  NewData(ch, h, n) \in Settled
  BY DEF NewData, Data, Settled, Packet
<1>4. ASSUME NEW l \in Link, CacheHit(l) \/ RepoHit(l)
      PROVE  chan' \in [Link -> Seq(Settled)]
  <2>1. chan[l] # <<>> /\ l[2] \in Node
    BY <1>4 DEF CacheHit, RepoHit, InterestArrives, Arrives
  <2>2. PICK h \in Int :
          Transfer(l, {<<l[2], l[1]>>}, NewData(Head(chan[l]).chunk, h, l[2]))
    BY <1>4 DEF CacheHit, RepoHit
  <2> QED BY <1>3, <2>1, <2>2, HeadType, TransferType
<1>5. ASSUME NEW l \in Link, ForwardInterest(l)
      PROVE  chan' \in [Link -> Seq(Settled)]
  <2> DEFINE n == l[2]
             m == Hopped(Head(chan[l]))
  <2>1. n \in Node /\ chan[l] # <<>> /\ m \in Settled \cap Interest
    BY <1>2, <1>5, HeadType DEF ForwardInterest, Miss, InterestArrives, Arrives
  <2>2. PICK d \in GetDecision(n, l[1], AtTarget(n, m)) :
          Transfer(l, {<<n, f>> : f \in d.out}, d.msg)
    BY <1>5 DEF ForwardInterest
  <2>3. d.msg \in Settled
    BY <2>1, NearestReplicaSettled DEF GetDecision
  <2> QED BY <2>1, <2>2, <2>3, TransferType
<1>6. ASSUME NEW l \in Link,
             DiscardInterest(l) \/ AggregateInterest(l) \/ UnsolicitedData(l)
      PROVE  chan' \in [Link -> Seq(Settled)]
  <2>1. chan[l] # <<>> /\ Transfer(l, {}, Head(chan[l]))
    BY <1>6 DEF DiscardInterest, AggregateInterest, Miss, InterestArrives,
                UnsolicitedData, Arrives
  <2> QED BY <1>2, <2>1, TransferType
<1>11. ASSUME NEW l \in Link, PendingData(l)
       PROVE  chan' \in [Link -> Seq(Settled)]
  <2>1. chan[l] # <<>>
    BY <1>11 DEF PendingData, Arrives
  <2>2. PICK dests : Transfer(l, dests, Hopped(Head(chan[l])))
    BY <1>11 DEF PendingData
  <2> QED BY <1>2, <2>1, <2>2, TransferType
<1>7. ASSUME NEW l \in Link, ChunkArrives(l)
      PROVE  chan' \in [Link -> Seq(Settled)]
  BY <1>1, <1>7, ChunkArrivesPackets
<1>8. ASSUME NEW c \in Client, RequestFile(c) \/ TimerFires(c)
      PROVE  chan' \in [Link -> Seq(Settled)]
  BY <1>1, <1>8, RequestFilePackets, TimerFiresPackets
<1>9. ASSUME NEW c, NEW i, BecomeLate(c, i) \/ BecomeAged(c, i)
      PROVE  chan' \in [Link -> Seq(Settled)]
  BY <1>9 DEF BecomeLate, BecomeAged
<1>10. CASE UNCHANGED vars
  BY <1>10 DEF vars
<1> QED BY <1>4, <1>5, <1>6, <1>7, <1>8, <1>9, <1>10, <1>11 DEF Next, Deliver

(* RetargetedOnce says that all packets in transit are settled.            *)
LEMMA SettledImpliesRetargetedOnce ==
  ASSUME chan \in [Link -> Seq(Settled)]
  PROVE  RetargetedOnce
<1> SUFFICES ASSUME NEW l \in Link, NEW i \in DOMAIN chan[l]
             PROVE  chan[l][i] \in Settled
  BY DEF RetargetedOnce, Settled
<1>1. chan[l] \in Seq(Settled)
  OBVIOUS
<1> QED BY <1>1, ElementOfSeq, LenProperties

(* Under nrr, in every network: an interest that is no longer aggregated   *)
(* is bound for a repository, so no two caches pass it back and forth.     *)
THEOREM NrrRetargetsOnce == FS = "nrr" /\ Spec => []RetargetedOnce
<1> SUFFICES ASSUME FS = "nrr" PROVE Spec => []RetargetedOnce
  OBVIOUS
<1> DEFINE AllSettled == chan \in [Link -> Seq(Settled)]
<1>1. Init => AllSettled
  BY DEF Init
<1>2. TypeOK /\ AllSettled /\ [Next]_vars => AllSettled'
  BY SettledNext
<1>3. AllSettled => RetargetedOnce
  BY SettledImpliesRetargetedOnce
<1> QED BY <1>1, <1>2, <1>3, TypeCorrect, PTL DEF Spec
-----------------------------------------------------------------------------
(* Who is owed what.                                                       *)

(* x sent an interest for ch that is on its way, a PIT entry for ch names  *)
(* x, or data for ch is on its way to x: p is the PITs, h the packets of   *)
(* the links.                                                              *)
Asks(x, ch, h) == \E k \in Link : /\ k[1] = x
                                  /\ \E m \in Elements(h[k]) :
                                       m.kind = "interest" /\ m.chunk = ch

Waits(x, ch, p) == \E n \in Node : x \in p[n][ch]

Gets(x, ch, h) == \E k \in Link : /\ k[2] = x
                                  /\ \E m \in Elements(h[k]) :
                                       m.kind = "data" /\ m.chunk = ch

Owed(x, ch, p, h) == Asks(x, ch, h) \/ Waits(x, ch, p) \/ Gets(x, ch, h)

(* There are finitely many links.                                          *)
LEMMA LinkFinite == IsFiniteSet(Link)
<1>1. IsFiniteSet(Node \cup Client)
  BY FinitenessAssumption, FS_Union
<1>2. IsFiniteSet((Node \cup Client) \X (Node \cup Client))
  BY <1>1, FS_Product
<1> QED BY <1>2, FS_Subset DEF Link

(* The places of h, which gives the packets of every link, on the links of *)
(* K and with a packet of S.                                               *)
Places(h, K, S) == {p \in Link \X Nat : /\ p[1] \in K
                                        /\ p[2] \in DOMAIN h[p[1]]
                                        /\ h[p[1]][p[2]] \in S}

(* There are finitely many packets in transit.                             *)
LEMMA PlacesFinite ==
  ASSUME NEW T, NEW h \in [Link -> Seq(T)], NEW K, NEW S
  PROVE  IsFiniteSet(Places(h, K, S)) /\ Cardinality(Places(h, K, S)) \in Nat
<1> DEFINE on == [l \in Link |-> {l} \X DOMAIN h[l]]
           all == {on[l] : l \in Link}
<1>1. on \in Surjection(Link, all)
  BY DEF Surjection
<1>2. IsFiniteSet(all)
  BY <1>1, LinkFinite, FS_Surjection
<1>3. ASSUME NEW l \in Link PROVE IsFiniteSet(on[l])
  <2>1. h[l] \in Seq(T)
    OBVIOUS
  <2>2. DOMAIN h[l] = 1 .. Len(h[l]) /\ Len(h[l]) \in Nat
    BY <2>1, LenProperties
  <2>3. IsFiniteSet(1 .. Len(h[l]))
    BY <2>2, FS_Interval
  <2>4. IsFiniteSet({l})
    BY FS_Singleton
  <2>5. IsFiniteSet({l} \X DOMAIN h[l])
    BY <2>2, <2>3, <2>4, FS_Product
  <2> QED BY <2>5
<1>4. IsFiniteSet(UNION all)
  <2>1. \A t \in all : IsFiniteSet(t)
    BY <1>3
  <2> HIDE DEF all
  <2> QED BY <1>2, <2>1, FS_UNION
<1>5. Places(h, K, S) \subseteq UNION all
  BY DEF Places
<1> HIDE DEF all
<1> QED BY <1>4, <1>5, FS_Subset, FS_CardinalityType

(* All packets in transit are finitely many.                               *)
LEMMA InTransitFinite ==
  ASSUME TypeOK
  PROVE  IsFiniteSet(InTransit)
<1>1. chan \in [Link -> Seq(Packet)]
  BY DEF TypeOK, Packet
<1>2. IsFiniteSet(Places(chan, Link, Packet))
  BY <1>1, PlacesFinite
<1>3. InTransit \subseteq Places(chan, Link, Packet)
  <2> SUFFICES ASSUME NEW l \in Link, NEW i \in DOMAIN chan[l]
               PROVE  <<l, i>> \in Places(chan, Link, Packet)
    BY DEF InTransit
  <2>1. chan[l] \in Seq(Packet)
    BY <1>1
  <2>2. i \in Nat /\ chan[l][i] \in Packet
    BY <2>1, LenProperties, ElementOfSeq
  <2> QED BY <2>2 DEF Places
<1> QED BY <1>2, <1>3, FS_Subset

(* A finite set has a cardinality of at least one iff it has an element.   *)
LEMMA SomeOrNone ==
  ASSUME NEW S, IsFiniteSet(S)
  PROVE  Cardinality(S) \in Nat /\ (Cardinality(S) >= 1 <=> S # {})
BY FS_CardinalityType, FS_EmptySet

(* NobodyForgotten counts; that the count is not zero is to be owed.       *)
LEMMA OwedIsOutstanding ==
  ASSUME TypeOK, NEW x, NEW ch
  PROVE  Outstanding(x, ch) >= 1 <=> Owed(x, ch, pit, chan)
<1>1. /\ IsFiniteSet(InterestsFrom(x, ch))
      /\ IsFiniteSet(CrumbsOf(x, ch))
      /\ IsFiniteSet(DataTo(x, ch))
  <2>1. IsFiniteSet(InTransit)
    BY InTransitFinite
  <2> QED BY <2>1, FinitenessAssumption, FS_Subset DEF InterestsFrom, CrumbsOf, DataTo
<1>2. Waits(x, ch, pit) <=> CrumbsOf(x, ch) # {}
  BY DEF Waits, CrumbsOf
<1>3. ASSUME NEW l, NEW i
      PROVE  <<l, i>> \in InTransit <=> l \in Link /\ i \in DOMAIN chan[l]
  BY DEF InTransit
<1>4. \A p \in InTransit : p = <<p[1], p[2]>>
  BY DEF InTransit
<1>5. Asks(x, ch, chan) <=> InterestsFrom(x, ch) # {}
  <2>1. Asks(x, ch, chan) => InterestsFrom(x, ch) # {}
    <3> SUFFICES ASSUME NEW k \in Link, k[1] = x, NEW i \in DOMAIN chan[k],
                        chan[k][i].kind = "interest", chan[k][i].chunk = ch
                 PROVE  <<k, i>> \in InterestsFrom(x, ch)
      BY DEF Asks, Elements
    <3> QED BY <1>3 DEF InterestsFrom
  <2>2. InterestsFrom(x, ch) # {} => Asks(x, ch, chan)
    BY <1>3, <1>4 DEF Asks, Elements, InterestsFrom
  <2> QED BY <2>1, <2>2
<1>6. Gets(x, ch, chan) <=> DataTo(x, ch) # {}
  <2>1. Gets(x, ch, chan) => DataTo(x, ch) # {}
    <3> SUFFICES ASSUME NEW k \in Link, k[2] = x, NEW i \in DOMAIN chan[k],
                        chan[k][i].kind = "data", chan[k][i].chunk = ch
                 PROVE  <<k, i>> \in DataTo(x, ch)
      BY DEF Gets, Elements
    <3> QED BY <1>3 DEF DataTo
  <2>2. DataTo(x, ch) # {} => Gets(x, ch, chan)
    BY <1>3, <1>4 DEF Gets, Elements, DataTo
  <2> QED BY <2>1, <2>2
<1> DEFINE a == Cardinality(InterestsFrom(x, ch))
           b == Cardinality(CrumbsOf(x, ch))
           c == Cardinality(DataTo(x, ch))
<1>7. /\ a \in Nat /\ b \in Nat /\ c \in Nat
      /\ a >= 1 <=> Asks(x, ch, chan)
      /\ b >= 1 <=> Waits(x, ch, pit)
      /\ c >= 1 <=> Gets(x, ch, chan)
  BY <1>1, <1>2, <1>5, <1>6, SomeOrNone
<1>8. Outstanding(x, ch) = a + b + c
  BY DEF Outstanding
<1>9. Owed(x, ch, pit, chan) <=> a >= 1 \/ b >= 1 \/ c >= 1
  BY <1>7 DEF Owed
<1> HIDE DEF a, b, c
<1>10. a + b + c >= 1 <=> a >= 1 \/ b >= 1 \/ c >= 1
  BY <1>7
<1> QED BY <1>8, <1>9, <1>10
-----------------------------------------------------------------------------
(* What is on the links after a packet is taken from l and msg sent.       *)
LEMMA TransferElements ==
  ASSUME NEW S, chan \in [Link -> Seq(S)], NEW l \in Link, chan[l] # <<>>,
         NEW dests, NEW msg \in S, Transfer(l, dests, msg), NEW k \in Link
  PROVE  /\ Elements(chan'[k]) \subseteq
              Elements(chan[k]) \cup (IF k \in dests THEN {msg} ELSE {})
         /\ Elements(chan[k]) \subseteq
              Elements(chan'[k]) \cup (IF k = l THEN {Head(chan[l])} ELSE {})
         /\ k \in dests => msg \in Elements(chan'[k])
<1> DEFINE s == IF k = l THEN Tail(chan[k]) ELSE chan[k]
           t == IF k \in dests THEN <<msg>> ELSE <<>>
<1>1. chan'[k] = s \o t
  BY DEF Transfer
<1>2. chan[k] \in Seq(S)
  OBVIOUS
<1>3. s \in Seq(S)
  BY <1>2, HeadTailProperties
<1>4. t \in Seq(S)
  OBVIOUS
<1>5. Elements(chan'[k]) = Elements(s) \cup Elements(t)
  <2> HIDE DEF s, t
  <2> QED BY <1>1, <1>3, <1>4, ConcatElements
<1>6. Elements(t) = IF k \in dests THEN {msg} ELSE {}
  BY FewElements
<1>7. /\ Elements(s) \subseteq Elements(chan[k])
      /\ Elements(chan[k]) \subseteq
           Elements(s) \cup (IF k = l THEN {Head(chan[l])} ELSE {})
  BY <1>2, TailElements
<1> HIDE DEF s, t
<1> QED BY <1>5, <1>6, <1>7

(* What is on the links after a client asked for a file.                   *)
LEMMA RequestFileElements ==
  ASSUME TypeOK, NEW c \in Client, RequestFile(c)
  PROVE  \E f \in Name :
           /\ want' = [want EXCEPT ![c][requested[c] + 1] = <<f, 0>>]
           /\ \A k \in Link :
                Elements(chan'[k]) = Elements(chan[k])
                  \cup (IF k = Up(c) THEN {NewInterest(<<f, 0>>, NoTarget, FALSE)}
                        ELSE {})
<1>1. PICK f \in Name :
        /\ want' = [want EXCEPT ![c][requested[c] + 1] = <<f, 0>>]
        /\ chan' = [chan EXCEPT ![Up(c)] =
                      Append(@, NewInterest(<<f, 0>>, NoTarget, FALSE))]
  BY DEF RequestFile
<1> DEFINE e == NewInterest(<<f, 0>>, NoTarget, FALSE)
<1>2. e \in Packet
  <2>1. <<f, 0>> \in Chunk
    BY CatalogueAssumption DEF Chunk
  <2> QED BY <2>1 DEF NewInterest, Interest, Packet
<1>3. ASSUME NEW k \in Link
      PROVE  Elements(chan'[k]) = Elements(chan[k]) \cup (IF k = Up(c) THEN {e} ELSE {})
  <2>1. CASE k # Up(c)
    <3>1. chan'[k] = chan[k]
      BY <1>1, <2>1 DEF TypeOK
    <3> QED BY <2>1, <3>1
  <2>2. CASE k = Up(c)
    <3>1. chan'[k] = Append(chan[k], e)
      BY <1>1, <2>2 DEF TypeOK
    <3> DEFINE t == <<e>>
    <3> HIDE DEF e
    <3>2. chan[k] \in Seq(Packet) /\ t \in Seq(Packet)
      BY <1>2 DEF TypeOK, Packet
    <3>3. chan'[k] = chan[k] \o t
      BY <1>2, <3>1, <3>2, AppendIsConcat
    <3>4. Elements(t) = {e}
      BY FewElements
    <3> HIDE DEF t
    <3>5. Elements(chan[k] \o t) = Elements(chan[k]) \cup Elements(t)
      BY <3>2, ConcatElements
    <3> QED BY <2>2, <3>3, <3>4, <3>5
  <2> QED BY <2>1, <2>2
<1> QED BY <1>1, <1>3

(* What is on the links after a chunk reached a client: the requests for   *)
(* the next chunk join the link of the client.                             *)
LEMMA ChunkArrivesElements ==
  ASSUME TypeOK, NEW l \in Link, ChunkArrives(l), NEW k \in Link
  PROVE  LET m == Head(chan[l])
             e == NewInterest(NextChunk(m.chunk), m.target, FALSE)
             more == k = Up(l[2]) /\ NextChunk(m.chunk) \in Chunk
         IN  /\ Elements(chan'[k]) \subseteq
                  Elements(chan[k]) \cup (IF more THEN {e} ELSE {})
             /\ Elements(chan[k]) \subseteq
                  Elements(chan'[k]) \cup (IF k = l THEN {m} ELSE {})
             /\ more /\ Advancing(l[2], m.chunk) # {} => e \in Elements(chan'[k])
<1> DEFINE m == Head(chan[l])
           c == l[2]
           e == NewInterest(NextChunk(m.chunk), m.target, FALSE)
           more == k = Up(c) /\ NextChunk(m.chunk) \in Chunk
           a == Cardinality(Advancing(c, m.chunk))
           new == [j \in 1 .. a |-> e]
<1>1. /\ chan[l] # <<>> /\ m.kind = "data" /\ c \in Client
      /\ chan'[k] = IF k = l THEN Tail(chan[k])
                    ELSE IF more THEN chan[k] \o new ELSE chan[k]
  BY DEF ChunkArrives, Arrives
<1>2. chan[k] \in Seq(Packet) /\ chan[l] \in Seq(Packet)
  BY DEF TypeOK, Packet
<1>3. m \in Packet /\ m.target \in Node
  BY <1>1, HeadType DEF Packet, Interest, Data
<1>4. a \in Nat
  BY AdvancingFinite
<1>5. Advancing(c, m.chunk) # {} => a >= 1
  <2>1. IsFiniteSet(Serial)
    BY FS_Interval, ParameterAssumption DEF Serial
  <2>2. IsFiniteSet(Advancing(c, m.chunk))
    BY <2>1, FS_Subset DEF Advancing
  <2> QED BY <2>2, SomeOrNone
<1>6. more => k # l
  BY <1>1, NodeAssumption DEF Up
<1>7. CASE k = l
  <2>1. ~more
    BY <1>6, <1>7
  <2>2. chan'[k] = Tail(chan[k])
    BY <1>1, <1>7
  <2>3. Elements(chan[k]) = Elements(chan'[k]) \cup {m}
    BY <1>1, <1>2, <1>7, <2>2, TailElements
  <2> HIDE DEF m, more, e
  <2> QED BY <1>7, <2>1, <2>3 DEF m, more, e
<1>8. CASE more
  <2>1. e \in Packet
    BY <1>3, <1>8 DEF NewInterest, Packet, Interest
  <2> HIDE DEF e
  <2>2. new \in [1 .. a -> Packet]
    BY <2>1
  <2>3. new \in Seq(Packet)
    <3> HIDE DEF new, a
    <3> QED BY <1>4, <2>2, FunctionIsSeq
  <2>4. Elements(new) \subseteq {e} /\ (a >= 1 => e \in Elements(new))
    BY <1>4 DEF Elements
  <2>5. chan'[k] = chan[k] \o new
    BY <1>1, <1>6, <1>8
  <2>6. Elements(chan'[k]) = Elements(chan[k]) \cup Elements(new)
    <3> HIDE DEF new
    <3> QED BY <1>2, <2>3, <2>5, ConcatElements
  <2> HIDE DEF new, a, m, more
  <2> QED BY <1>5, <1>8, <2>4, <2>6 DEF m, e, more
<1>9. CASE k # l /\ ~more
  <2>1. chan'[k] = chan[k]
    BY <1>1, <1>9
  <2> HIDE DEF m, more, e
  <2> QED BY <1>9, <2>1 DEF m, e, more
<1> QED BY <1>7, <1>8, <1>9

(* What is on the links after a client retransmitted.                      *)
LEMMA TimerFiresElements ==
  ASSUME TypeOK, NEW c \in Client, TimerFires(c), NEW k \in Link
  PROVE  Elements(chan'[k]) \subseteq Elements(chan[k])
           \cup (IF k = Up(c) THEN {NewInterest(ch, NoTarget, TRUE) : ch \in Chunk}
                 ELSE {})
<1> DEFINE a   == Cardinality(late[c])
           New == {NewInterest(ch, NoTarget, TRUE) : ch \in Chunk}
<1>1. PICK q \in [1 .. a -> late[c]] :
        chan' = [chan EXCEPT ![Up(c)] = @ \o
                   [i \in DOMAIN q |-> NewInterest(want[c][q[i]], NoTarget, TRUE)]]
  BY DEF TimerFires
<1> DEFINE s == [i \in 1 .. a |-> NewInterest(want[c][q[i]], NoTarget, TRUE)]
<1>2. a \in Nat
  <2>1. IsFiniteSet(Serial)
    BY FS_Interval, ParameterAssumption DEF Serial
  <2> QED BY <2>1, FS_Subset, FS_CardinalityType DEF TypeOK
<1>3. s \in [1 .. a -> New]
  BY DEF TypeOK
<1>4. CASE k # Up(c)
  <2>1. chan'[k] = chan[k]
    BY <1>1, <1>4 DEF TypeOK
  <2> QED BY <1>4, <2>1
<1>5. CASE k = Up(c)
  <2>1. chan'[k] = chan[k] \o s
    BY <1>1, <1>5 DEF TypeOK
  <2>2. New \subseteq Packet
    <3>1. \A ch \in Chunk : NewInterest(ch, NoTarget, TRUE) \in Packet
      BY DEF NewInterest, Interest, Packet
    <3> QED BY <3>1
  <2> HIDE DEF s, a, New
  <2>3. chan[k] \in Seq(Packet) /\ s \in Seq(Packet)
    BY <1>2, <1>3, <2>2, FunctionIsSeq DEF TypeOK, Packet
  <2>4. Elements(s) \subseteq New
    BY <1>3 DEF Elements
  <2>5. Elements(chan[k] \o s) = Elements(chan[k]) \cup Elements(s)
    BY <2>3, ConcatElements
  <2> QED BY <1>5, <2>1, <2>4, <2>5 DEF New
<1> QED BY <1>4, <1>5
-----------------------------------------------------------------------------
(* Every packet on a link is one that Q allows there; Q is a set of pairs  *)
(* of a link and a packet.                                                 *)
OnLinks(Q, h) == \A k \in Link : \A m \in Elements(h[k]) : <<k, m>> \in Q

(* What the strategy makes of the interest at the head of l.               *)
DecisionsOn(l) ==
  GetDecision(l[2], l[1], AtTarget(l[2], Hopped(Head(chan[l]))))

(* The head of a link is an element of it.                                 *)
LEMMA HeadElement ==
  ASSUME TypeOK, NEW l \in Link, chan[l] # <<>>
  PROVE  Head(chan[l]) \in Elements(chan[l])
<1>1. chan[l] \in Seq(Interest \cup Data)
  BY DEF TypeOK
<1> QED BY <1>1, TailElements

(* The reverse of a link is a link.                                        *)
LEMMA LinkReverse ==
  ASSUME NEW l \in Link
  PROVE  <<l[2], l[1]>> \in Link
BY DEF Link

(* What a forwarding node hands to its links is an interest.               *)
LEMMA ForwardedType ==
  ASSUME TypeOK, NEW l \in Link, Miss(l), NEW d \in DecisionsOn(l)
  PROVE  d.msg \in Interest
<1>1. /\ l[2] \in Node /\ chan[l] # <<>> /\ Head(chan[l]).kind = "interest"
  BY DEF Miss, InterestArrives, Arrives
<1>2. Hopped(Head(chan[l])) \in Interest
  BY <1>1, HeadType
<1>3. AtTarget(l[2], Hopped(Head(chan[l]))) \in Interest
  BY <1>2 DEF AtTarget, Interest
<1> QED BY <1>1, <1>3, DecisionType DEF DecisionsOn

(* If Q admits all data, the new interests of the clients, and what the    *)
(* strategy makes of an interest that Q admits, every step keeps to Q.     *)
LEMMA OnLinksNext ==
  ASSUME TypeOK, [Next]_vars, NEW Q, OnLinks(Q, chan),
         \A k \in Link, m \in Data : <<k, m>> \in Q,
         \A c \in Client, ch \in Chunk, t \in Node \cup {NoTarget} :
           t = NoTarget \/ ch[2] > 0 => <<Up(c), NewInterest(ch, t, FALSE)>> \in Q,
         \A c \in Client, ch \in Chunk :
           late[c] # {} => <<Up(c), NewInterest(ch, NoTarget, TRUE)>> \in Q,
         \A l \in Link : Miss(l) =>
           \A d \in DecisionsOn(l) : \A f \in d.out :
             <<l[2], f>> \in Link => <<<<l[2], f>>, d.msg>> \in Q
  PROVE  OnLinks(Q, chan')
<1>0. chan \in [Link -> Seq(Packet)]
  BY DEF TypeOK, Packet
<1>1. ASSUME NEW l \in Link, chan[l] # <<>>, NEW dests, NEW msg \in Packet,
             Transfer(l, dests, msg),
             \A k \in dests \cap Link : <<k, msg>> \in Q
      PROVE  OnLinks(Q, chan')
  <2> SUFFICES ASSUME NEW k \in Link, NEW m \in Elements(chan'[k])
               PROVE  <<k, m>> \in Q
    BY DEF OnLinks
  <2>1. m \in Elements(chan[k]) \cup (IF k \in dests THEN {msg} ELSE {})
    BY <1>0, <1>1, TransferElements
  <2> QED BY <1>1, <2>1 DEF OnLinks
<1>2. ASSUME NEW l \in Link, DiscardInterest(l) \/ AggregateInterest(l) \/ UnsolicitedData(l)
      PROVE  OnLinks(Q, chan')
  <2>1. chan[l] # <<>> /\ Transfer(l, {}, Head(chan[l]))
    BY <1>2 DEF DiscardInterest, AggregateInterest, UnsolicitedData, Miss,
                InterestArrives, Arrives
  <2> QED BY <1>1, <2>1, HeadType
<1>3. ASSUME NEW l \in Link, CacheHit(l) \/ RepoHit(l)
      PROVE  OnLinks(Q, chan')
  <2>1. chan[l] # <<>> /\ l[2] \in Node
    BY <1>3 DEF CacheHit, RepoHit, InterestArrives, Arrives
  <2>2. PICK h \in Int :
          Transfer(l, {<<l[2], l[1]>>}, NewData(Head(chan[l]).chunk, h, l[2]))
    BY <1>3 DEF CacheHit, RepoHit
  <2>3. NewData(Head(chan[l]).chunk, h, l[2]) \in Data
    BY <2>1, HeadType DEF NewData, Data
  <2> QED BY <1>1, <2>1, <2>2, <2>3 DEF Packet
<1>4. ASSUME NEW l \in Link, ForwardInterest(l) PROVE OnLinks(Q, chan')
  <2>1. chan[l] # <<>> /\ l[2] \in Node /\ Miss(l)
    BY <1>4 DEF ForwardInterest, Miss, InterestArrives, Arrives
  <2>2. PICK d \in DecisionsOn(l) : Transfer(l, {<<l[2], f>> : f \in d.out}, d.msg)
    BY <1>4 DEF ForwardInterest, DecisionsOn
  <2>3. d.msg \in Packet
    BY <2>1, ForwardedType DEF Packet
  <2>4. \A k \in {<<l[2], f>> : f \in d.out} \cap Link : <<k, d.msg>> \in Q
    BY <2>1
  <2> QED BY <1>1, <2>1, <2>2, <2>3, <2>4
<1>5. ASSUME NEW l \in Link, PendingData(l) PROVE OnLinks(Q, chan')
  <2>1. chan[l] # <<>> /\ l[2] \in Node /\ Hopped(Head(chan[l])) \in Data
    BY <1>5, HeadType DEF PendingData, Arrives
  <2>2. PICK dests : Transfer(l, dests, Hopped(Head(chan[l])))
    BY <1>5 DEF PendingData
  <2> QED BY <1>1, <2>1, <2>2 DEF Packet
<1>6. ASSUME NEW l \in Link, ChunkArrives(l) PROVE OnLinks(Q, chan')
  <2> DEFINE m == Head(chan[l])
             e == NewInterest(NextChunk(m.chunk), m.target, FALSE)
  <2>1. l[2] \in Client /\ chan[l] # <<>> /\ m.kind = "data"
    BY <1>6 DEF ChunkArrives, Arrives
  <2>2. m.target \in Node
    BY <2>1, HeadType DEF Packet, Interest, Data
  <2>3. NextChunk(m.chunk) \in Chunk => <<Up(l[2]), e>> \in Q
    <3>1. NextChunk(m.chunk)[2] > 0
      <4>1. m.chunk[2] \in Nat
        BY <2>1, HeadType, CatalogueAssumption DEF Chunk
      <4> QED BY <4>1 DEF NextChunk
    <3> QED BY <2>1, <2>2, <3>1
  <2>4. ASSUME NEW k \in Link
        PROVE  Elements(chan'[k]) \subseteq
                 Elements(chan[k])
                   \cup (IF k = Up(l[2]) /\ NextChunk(m.chunk) \in Chunk
                         THEN {e} ELSE {})
    BY <1>6, ChunkArrivesElements
  <2> HIDE DEF e
  <2> QED BY <2>3, <2>4 DEF OnLinks
<1>7. ASSUME NEW c \in Client, RequestFile(c) PROVE OnLinks(Q, chan')
  <2>1. PICK f \in Name : \A k \in Link :
          Elements(chan'[k]) = Elements(chan[k])
            \cup (IF k = Up(c) THEN {NewInterest(<<f, 0>>, NoTarget, FALSE)} ELSE {})
    BY <1>7, RequestFileElements
  <2>2. <<f, 0>> \in Chunk
    BY CatalogueAssumption DEF Chunk
  <2>3. <<Up(c), NewInterest(<<f, 0>>, NoTarget, FALSE)>> \in Q
    BY <2>2
  <2> QED BY <2>1, <2>3 DEF OnLinks
<1>8. ASSUME NEW c \in Client, TimerFires(c) PROVE OnLinks(Q, chan')
  <2> SUFFICES ASSUME NEW k \in Link, NEW m \in Elements(chan'[k])
               PROVE  <<k, m>> \in Q
    BY DEF OnLinks
  <2>1. m \in Elements(chan[k])
          \cup (IF k = Up(c) THEN {NewInterest(ch, NoTarget, TRUE) : ch \in Chunk} ELSE {})
    BY <1>8, TimerFiresElements
  <2>2. late[c] # {}
    BY <1>8 DEF TimerFires
  <2> QED BY <2>1, <2>2 DEF OnLinks
<1>9. CASE UNCHANGED chan
  BY <1>9 DEF OnLinks
<1>10. ASSUME NEW c, NEW i, BecomeLate(c, i) \/ BecomeAged(c, i)
       PROVE  UNCHANGED chan
  BY <1>10 DEF BecomeLate, BecomeAged
<1> QED BY <1>2, <1>3, <1>4, <1>5, <1>6, <1>7, <1>8, <1>9, <1>10
        DEF Next, Deliver, vars
-----------------------------------------------------------------------------
(* Hop counts.                                                             *)

(* The packets spr has on a link: an interest bound for node b is at most  *)
(* D hops old when it gets to some repository of its file.                 *)
SprBudget(D) ==
  {p \in Link \X Packet :
     (p[1][2] \in Node /\ p[2].kind = "interest") =>
       \E r \in Repos[p[2].chunk[1]] : p[2].hops + 1 + Dist[p[1][2]][r] =< D}

(* Those of nrr: at most D hops to the first target and 2 * D to the       *)
(* repository it turns to when the target fails it.                        *)
NrrBudget(D) ==
  {p \in Link \X Packet :
     (p[1][2] \in Node /\ p[2].kind = "interest") =>
       IF p[2].target = NoTarget THEN p[2].hops = -1
       ELSE p[2].hops + 1 + Dist[p[1][2]][p[2].target]
              =< IF p[2].aggregate THEN D ELSE 2 * D}

(* The first hop of a route is a neighbour, at the end of a link.          *)
LEMMA RouteIsLink ==
  ASSUME NEW n \in Node, NEW d \in Node \ {n}
  PROVE  <<n, Fib[n][d]>> \in Link /\ Fib[n][d] \in Node
<1>1. Fib[n][d] \in Neighbour[n] /\ Neighbour[n] \subseteq Node
  BY RoutingAssumption, NodeAssumption
<1> QED BY <1>1 DEF Link, Face

(* The interest at the head of a link, as the strategy gets it.            *)
LEMMA MissFacts ==
  ASSUME TypeOK, NEW l \in Link, Miss(l)
  PROVE  LET n == l[2]
             h == Head(chan[l])
             m == AtTarget(n, Hopped(h))
         IN  /\ n \in Node /\ chan[l] # <<>> /\ h \in Interest
             /\ h \in Elements(chan[l])
             /\ h.kind = "interest" /\ h.hops \in Int /\ h.chunk \in Chunk
             /\ h.target \in Node \cup {NoTarget}
             /\ n \notin Repos[h.chunk[1]]
             /\ Repos[h.chunk[1]] \subseteq Node
             /\ m \in Interest /\ m.hops = h.hops + 1 /\ m.chunk = h.chunk
             /\ m.target = h.target /\ m.nfound = h.nfound
             /\ m.aggregate = (h.aggregate /\ h.target # n)
<1>1. /\ l[2] \in Node /\ chan[l] # <<>> /\ Head(chan[l]).kind = "interest"
      /\ l[2] \notin Repos[Head(chan[l]).chunk[1]]
  BY DEF Miss, InterestArrives, Arrives
<1>2. Head(chan[l]) \in Interest
  BY <1>1, HeadType DEF Packet, Interest, Data
<1>3. Head(chan[l]) \in Elements(chan[l])
  BY <1>1, HeadElement
<1>4. \A ch \in Chunk : Repos[ch[1]] \subseteq Node
  BY CatalogueAssumption DEF Chunk
<1> DEFINE n == l[2]
           h == Head(chan[l])
           m == AtTarget(n, Hopped(h))
<1> HIDE DEF n, h
<1>5. h \in Interest
  BY <1>2 DEF h
<1>6. /\ h.kind = "interest" /\ h.hops \in Int /\ h.chunk \in Chunk
      /\ h.target \in Node \cup {NoTarget}
  BY <1>5 DEF Interest
<1>7. /\ Hopped(h) \in Interest /\ Hopped(h).hops = h.hops + 1
      /\ Hopped(h).chunk = h.chunk /\ Hopped(h).target = h.target
  BY <1>5 DEF Hopped, Interest
<1>8. /\ Hopped(h).nfound = h.nfound /\ Hopped(h).aggregate = h.aggregate
      /\ h.aggregate \in BOOLEAN
  BY <1>5 DEF Hopped, Interest
<1>9. m.aggregate = (h.aggregate /\ h.target # n)
  <2>2. CASE h.target = n
    <3>1. m.aggregate = FALSE
      BY <1>7, <2>2 DEF AtTarget, Interest
    <3> QED BY <2>2, <3>1
  <2>3. CASE h.target # n
    <3>1. m = Hopped(h)
      BY <1>7, <2>3 DEF AtTarget
    <3> QED BY <1>8, <2>3, <3>1
  <2> QED BY <2>2, <2>3
<1>10. /\ m \in Interest /\ m.hops = h.hops + 1 /\ m.chunk = h.chunk
       /\ m.target = h.target
  BY <1>7 DEF AtTarget, Interest
<1>11. m.nfound = h.nfound
  BY <1>7, <1>8 DEF AtTarget, Interest
<1> QED BY <1>1, <1>3, <1>4, <1>5, <1>6, <1>9, <1>10, <1>11 DEF n, h

(* Arithmetic of one hop towards d.                                        *)
LEMMA OneHop ==
  ASSUME RoutesShorten, NEW n \in Node, NEW d \in Node \ {n}, NEW h \in Int, NEW b \in Int,
         h + 1 + Dist[n][d] =< b
  PROVE  h + 1 + 1 + Dist[Fib[n][d]][d] =< b
<1>1. Dist[Fib[n][d]][d] = Dist[n][d] - 1 /\ Dist[n][d] \in Nat
  BY RoutingAssumption DEF RoutesShorten
<1> QED BY <1>1

(* Under spr every step keeps to the budget.                               *)
LEMMA SprBudgetNext ==
  ASSUME FS = "spr", RoutesShorten, NEW D, Diameter(D), TypeOK,
         OnLinks(SprBudget(D), chan), [Next]_vars
  PROVE  OnLinks(SprBudget(D), chan')
<1> DEFINE Q == SprBudget(D)
<1>1. \A k \in Link, m \in Data : <<k, m>> \in Q
  BY DEF SprBudget, Data, Packet
<1>2. ASSUME NEW c \in Client, NEW ch \in Chunk, NEW t \in Node \cup {NoTarget},
             NEW b \in BOOLEAN
      PROVE  <<Up(c), NewInterest(ch, t, b)>> \in Q
  <2>1. PICK r : r \in Repos[ch[1]] /\ r \in Node
    BY CatalogueAssumption DEF Chunk
  <2>2. At[c] \in Node
    BY NodeAssumption
  <2>3. -1 + 1 + Dist[At[c]][r] =< D
    BY <2>1, <2>2, RoutingAssumption DEF Diameter
  <2>4. NewInterest(ch, t, b) \in Packet
    BY DEF NewInterest, Interest, Packet
  <2>5. Up(c)[2] = At[c] /\ NewInterest(ch, t, b).hops = -1
          /\ NewInterest(ch, t, b).chunk = ch
    BY DEF Up, NewInterest
  <2> QED BY <2>1, <2>3, <2>4, <2>5, UpIsLink DEF SprBudget
<1>3. ASSUME NEW l \in Link, Miss(l), NEW d \in DecisionsOn(l), NEW f \in d.out
      PROVE  <<<<l[2], f>>, d.msg>> \in Q
  <2> DEFINE n == l[2]
             h == Head(chan[l])
             m == AtTarget(n, Hopped(h))
             R == Repos[h.chunk[1]]
  <2>1. /\ n \in Node /\ h \in Elements(chan[l]) /\ h.kind = "interest"
        /\ h.hops \in Int /\ n \notin R /\ R \subseteq Node
        /\ m \in Interest /\ m.hops = h.hops + 1 /\ m.chunk = h.chunk
    BY <1>3, MissFacts
  <2>2. PICK s \in Nearest(n, h.chunk) : d.out = {Fib[n][s]} /\ d.msg = m
    BY <1>3, <2>1 DEF DecisionsOn, GetDecision, ShortestPath, Toward
  <2>3. PICK r \in R : h.hops + 1 + Dist[n][r] =< D
    BY <2>1 DEF OnLinks, SprBudget
  <2>4. s \in R /\ s \in Node \ {n} /\ Dist[n][s] =< Dist[n][r]
    BY <2>1 DEF Nearest
  <2>5. h.hops + 1 + Dist[n][s] =< D
    <3>1. Dist[n][s] \in Nat /\ Dist[n][r] \in Nat /\ D \in Nat
      BY <2>1, <2>4, RoutingAssumption DEF Diameter
    <3> QED BY <2>1, <2>3, <2>4, <3>1
  <2>6. h.hops + 1 + 1 + Dist[Fib[n][s]][s] =< D
    BY <2>1, <2>4, <2>5, OneHop DEF Diameter
  <2>7. <<n, Fib[n][s]>> \in Link /\ f = Fib[n][s]
    BY <2>1, <2>2, <2>4, RouteIsLink
  <2> HIDE DEF n, h, m, R
  <2>8. <<<<n, f>>, m>> \in Q
    BY <2>1, <2>4, <2>6, <2>7 DEF SprBudget, Packet, R
  <2> QED BY <2>2, <2>8 DEF n
<1> HIDE DEF Q
<1> QED BY <1>1, <1>2, <1>3, OnLinksNext DEF Q

(* An interest that nrr aims at d, and the node it goes to.                *)
LEMMA RetargetedFacts ==
  ASSUME NEW n, NEW ds \in SUBSET Node, NEW m \in Interest,
         NEW t \in Retargeted(n, ds, m)
  PROVE  \E d \in ds : /\ t.out = {Fib[n][d]} /\ t.msg \in Interest
                       /\ t.msg.target = d /\ t.msg.hops = m.hops
                       /\ t.msg.aggregate = m.aggregate
BY DEF Retargeted, Toward, Interest

(* Under nrr every step keeps to the budget: an interest on its way to its *)
(* target comes nearer, one that finds its target without the chunk starts *)
(* its second and last journey.                                            *)
LEMMA NrrBudgetNext ==
  ASSUME FS = "nrr", RoutesShorten, NEW D, Diameter(D), TypeOK,
         chan \in [Link -> Seq(Settled)],
         OnLinks(NrrBudget(D), chan), [Next]_vars
  PROVE  OnLinks(NrrBudget(D), chan')
<1> DEFINE Q == NrrBudget(D)
<1>1. \A k \in Link, m \in Data : <<k, m>> \in Q
  BY DEF NrrBudget, Data, Packet
<1>2. ASSUME NEW c \in Client, NEW ch \in Chunk, NEW t \in Node \cup {NoTarget},
             NEW b \in BOOLEAN
      PROVE  <<Up(c), NewInterest(ch, t, b)>> \in Q
  <2>1. At[c] \in Node /\ Up(c)[2] = At[c]
    BY NodeAssumption DEF Up
  <2> DEFINE e == NewInterest(ch, t, b)
  <2>2. e \in Packet /\ e.hops = -1 /\ e.target = t /\ e.aggregate = TRUE
    BY DEF NewInterest, Interest, Packet
  <2>3. t # NoTarget => e.hops + 1 + Dist[At[c]][t] =< D
    BY <2>1, <2>2, RoutingAssumption DEF Diameter
  <2> HIDE DEF e
  <2> QED BY <2>1, <2>2, <2>3, UpIsLink DEF NrrBudget, e
<1>3. ASSUME NEW l \in Link, Miss(l), NEW d \in DecisionsOn(l), NEW f \in d.out
      PROVE  <<<<l[2], f>>, d.msg>> \in Q
  <2> DEFINE n == l[2]
             h == Head(chan[l])
             m == AtTarget(n, Hopped(h))
             R == Repos[h.chunk[1]]
  <2>1. /\ n \in Node /\ h \in Elements(chan[l]) /\ h.kind = "interest"
        /\ h.hops \in Int /\ n \notin R /\ R \subseteq Node /\ h.chunk \in Chunk
        /\ h.target \in Node \cup {NoTarget}
        /\ m \in Interest /\ m.hops = h.hops + 1 /\ m.chunk = h.chunk
        /\ m.target = h.target /\ m.aggregate = (h.aggregate /\ h.target # n)
    BY <1>3, MissFacts
  <2>2. IF h.target = NoTarget THEN h.hops = -1
        ELSE h.hops + 1 + Dist[n][h.target] =< IF h.aggregate THEN D ELSE 2 * D
    BY <2>1 DEF OnLinks, NrrBudget
  <2>3. d \in NearestReplica(n, m)
    BY <1>3 DEF DecisionsOn, GetDecision
  <2>4. D \in Nat /\ \A a, b \in Node : Dist[a][b] \in Nat /\ Dist[a][b] =< D
    BY RoutingAssumption DEF Diameter
  <2>5. ~h.aggregate => h.target \in R
    <3>1. chan[l] \in Seq(Settled) /\ chan[l] # <<>>
      BY <1>3, MissFacts
    <3>2. h \in Settled
      BY <3>1, HeadTailProperties
    <3> QED BY <2>1, <3>2 DEF Settled
  <2>6. n # NoTarget
    BY <2>1, NodeAssumption
  <2> SUFFICES <<<<n, f>>, d.msg>> \in Q
    OBVIOUS
  <2> HIDE DEF n, h, m, R
  <2>7. ASSUME NEW s \in Node \ {n}, d.out = {Fib[n][s]}, d.msg \in Interest,
               d.msg.target = s, d.msg.hops = h.hops + 1,
               h.hops + 1 + Dist[n][s] =< IF d.msg.aggregate THEN D ELSE 2 * D
        PROVE  <<<<n, f>>, d.msg>> \in Q
    <3> DEFINE b == IF d.msg.aggregate THEN D ELSE 2 * D
    <3>1. b \in Int
      BY <2>4
    <3> HIDE DEF b
    <3>2. h.hops + 1 + 1 + Dist[Fib[n][s]][s] =< b
      BY <2>1, <2>7, <3>1, OneHop DEF b
    <3>3. <<n, f>> \in Link /\ f = Fib[n][s]
      BY <2>1, <2>7, RouteIsLink
    <3>4. s # NoTarget
      BY NodeAssumption
    <3> QED BY <2>7, <3>2, <3>3, <3>4 DEF NrrBudget, Packet, b
  <2>8. CASE h.target = NoTarget
    <3> DEFINE ds == IF NearestCopies(n, h.chunk) # {}
                     THEN NearestCopies(n, h.chunk) ELSE Nearest(n, h.chunk)
    <3>1. ds \in SUBSET (Node \ {n})
      BY <2>1 DEF NearestCopies, Nearest, R
    <3>2. d \in Retargeted(n, ds, m)
      BY <2>1, <2>3, <2>8 DEF NearestReplica
    <3> HIDE DEF ds
    <3>3. PICK s \in ds : /\ d.out = {Fib[n][s]} /\ d.msg \in Interest
                          /\ d.msg.target = s /\ d.msg.hops = m.hops
      BY <2>1, <3>1, <3>2, RetargetedFacts
    <3>4. h.hops + 1 + Dist[n][s] =< D /\ h.hops + 1 + Dist[n][s] =< 2 * D
      BY <2>1, <2>2, <2>4, <2>8, <3>1
    <3> QED BY <2>1, <2>7, <3>1, <3>3, <3>4
  <2>9. CASE h.target = n
    <3> DEFINE u == [m EXCEPT !.aggregate = FALSE]
    <3>1. /\ u \in Interest /\ u.hops = h.hops + 1 /\ u.chunk = h.chunk
          /\ u.aggregate = FALSE
      BY <2>1 DEF Interest
    <3>2. d \in Retargeted(n, Nearest(n, h.chunk), u)
      BY <2>1, <2>3, <2>6, <2>9 DEF NearestReplica
    <3>3. Nearest(n, h.chunk) \in SUBSET (Node \ {n})
      BY <2>1 DEF Nearest, R
    <3> HIDE DEF u
    <3>4. PICK s \in Nearest(n, h.chunk) :
             /\ d.out = {Fib[n][s]} /\ d.msg \in Interest
             /\ d.msg.target = s /\ d.msg.hops = u.hops
             /\ d.msg.aggregate = u.aggregate
      BY <3>1, <3>2, <3>3, RetargetedFacts
    <3>5. h.aggregate
      BY <2>1, <2>5, <2>9
    <3>6. h.hops + 1 + Dist[n][s] =< 2 * D
      <4>1. h.hops + 1 + Dist[n][n] =< D
        BY <2>2, <2>6, <2>9, <3>5
      <4>2. Dist[n][n] \in Nat /\ Dist[n][s] \in Nat /\ Dist[n][s] =< D /\ D \in Nat
        BY <2>1, <2>4, <3>3
      <4> QED BY <2>1, <4>1, <4>2
    <3>7. ~d.msg.aggregate /\ d.msg.hops = h.hops + 1 /\ s \in Node \ {n}
      BY <3>1, <3>3, <3>4
    <3> QED BY <2>7, <3>4, <3>6, <3>7
  <2>10. CASE h.target # NoTarget /\ h.target # n
    <3>1. d.out = {Fib[n][h.target]} /\ d.msg = m
      BY <2>1, <2>3, <2>10 DEF NearestReplica, Toward
    <3>2. m.aggregate = h.aggregate
      <4>1. m.aggregate \in BOOLEAN /\ h.aggregate \in BOOLEAN
        BY <1>3, <2>1, MissFacts DEF Interest, h
      <4> QED BY <2>1, <2>10, <4>1
    <3> QED BY <2>1, <2>2, <2>7, <2>10, <3>1, <3>2
  <2> QED BY <2>8, <2>9, <2>10
<1> HIDE DEF Q
<1> QED BY <1>1, <1>2, <1>3, OnLinksNext DEF Q
-----------------------------------------------------------------------------
(* Without packets any Q is kept to.                                       *)
LEMMA OnLinksInit == ASSUME NEW Q, Init PROVE OnLinks(Q, chan)
<1>1. \A k \in Link : chan[k] = <<>>
  BY DEF Init
<1> QED BY <1>1, FewElements DEF OnLinks

(* With shortest paths, and a TTL above the diameter, no interest of spr   *)
(* ever dies on the way.                                                   *)
THEOREM SprNeverExpires ==
  ASSUME FS = "spr", RoutesShorten, NEW D, Diameter(D), D < TTL
  PROVE  Spec => []NoneExpires
<1> DEFINE InBudget == OnLinks(SprBudget(D), chan)
<1>1. Init => InBudget
  BY OnLinksInit
<1>2. TypeOK /\ InBudget /\ [Next]_vars => InBudget'
  <2> SUFFICES ASSUME TypeOK, InBudget, [Next]_vars PROVE OnLinks(SprBudget(D), chan')
    OBVIOUS
  <2> QED BY SprBudgetNext
<1>3. TypeOK /\ InBudget => NoneExpires
  <2> SUFFICES ASSUME TypeOK, InBudget, NEW l \in Link, l[2] \in Node,
                      Arrives(l, "interest")
               PROVE  Hopped(Head(chan[l])).hops # TTL
    BY DEF NoneExpires
  <2> DEFINE h == Head(chan[l])
  <2>1. h \in Elements(chan[l]) /\ h \in Interest
    BY HeadElement, HeadType DEF Arrives, Packet, Interest, Data
  <2>2. h.hops \in Int /\ h.kind = "interest" /\ Hopped(h).hops = h.hops + 1
          /\ h.chunk[1] \in Name
    BY <2>1 DEF Interest, Hopped, Chunk
  <2>3. PICK r \in Repos[h.chunk[1]] : h.hops + 1 + Dist[l[2]][r] =< D
    BY <2>1, <2>2 DEF OnLinks, SprBudget
  <2>4. Dist[l[2]][r] \in Nat /\ D \in Nat /\ TTL \in Nat
    BY <2>2, CatalogueAssumption, RoutingAssumption, ParameterAssumption DEF Diameter
  <2> HIDE DEF h
  <2>5. h.hops + 1 # TTL
    BY <2>2, <2>3, <2>4
  <2> QED BY <2>2, <2>5 DEF h
<1> HIDE DEF InBudget
<1> QED BY <1>1, <1>2, <1>3, TypeCorrect, PTL DEF Spec

(* Under nrr an interest makes two journeys at most: none dies on the way  *)
(* if the TTL is above twice the diameter.                                 *)
THEOREM NrrNeverExpires ==
  ASSUME FS = "nrr", RoutesShorten, NEW D, Diameter(D), 2 * D < TTL
  PROVE  Spec => []NoneExpires
<1> DEFINE AllSettled == chan \in [Link -> Seq(Settled)]
           InBudget == OnLinks(NrrBudget(D), chan)
<1>1. Init => InBudget /\ AllSettled
  BY OnLinksInit DEF Init
<1>2. TypeOK /\ AllSettled /\ [Next]_vars => AllSettled'
  BY SettledNext
<1>3. TypeOK /\ AllSettled /\ InBudget /\ [Next]_vars => InBudget'
  <2> SUFFICES ASSUME TypeOK, AllSettled, InBudget, [Next]_vars
               PROVE  OnLinks(NrrBudget(D), chan')
    OBVIOUS
  <2> QED BY NrrBudgetNext
<1>4. TypeOK /\ InBudget => NoneExpires
  <2> SUFFICES ASSUME TypeOK, InBudget, NEW l \in Link, l[2] \in Node,
                      Arrives(l, "interest")
               PROVE  Hopped(Head(chan[l])).hops # TTL
    BY DEF NoneExpires
  <2> DEFINE h == Head(chan[l])
  <2>1. h \in Elements(chan[l]) /\ h \in Interest
    BY HeadElement, HeadType DEF Arrives, Packet, Interest, Data
  <2>2. /\ h.hops \in Int /\ h.kind = "interest" /\ Hopped(h).hops = h.hops + 1
        /\ h.target \in Node \cup {NoTarget}
    BY <2>1 DEF Interest, Hopped
  <2>3. IF h.target = NoTarget THEN h.hops = -1
        ELSE h.hops + 1 + Dist[l[2]][h.target] =< IF h.aggregate THEN D ELSE 2 * D
    BY <2>1, <2>2 DEF OnLinks, NrrBudget
  <2>4. /\ D \in Nat /\ TTL \in Nat
        /\ h.target # NoTarget => Dist[l[2]][h.target] \in Nat
    BY <2>2, RoutingAssumption, ParameterAssumption DEF Diameter
  <2> HIDE DEF h
  <2>5. h.hops + 1 # TTL
    BY <2>2, <2>3, <2>4
  <2> QED BY <2>2, <2>5 DEF h
<1> HIDE DEF InBudget, AllSettled
<1> QED BY <1>1, <1>2, <1>3, <1>4, TypeCorrect, PTL DEF Spec
-----------------------------------------------------------------------------
(* Nobody is forgotten.                                                    *)

(* A face in the PIT is the end of a link.                                 *)
FacesLinked ==
  \A n \in Node, ch \in Chunk : \A x \in pit[n][ch] : <<n, x>> \in Link

(* No interest is a retransmission.                                        *)
FirstAsked == {p \in Link \X Packet : p[2].kind = "interest" => ~p[2].nfound}

(* No timer has fired and no PIT entry is old.                             *)
Calm == /\ \A c \in Client : late[c] = {}
        /\ \A n \in Node : aged[n] = {}
        /\ OnLinks(FirstAsked, chan)

(* An entry that is not old, met by an interest that is not a              *)
(* retransmission, keeps its faces.                                        *)
LEMMA CalmKeepsFaces ==
  ASSUME TypeOK, Calm, NEW l \in Link, Miss(l),
         AddToPit(l[2], l[1], Hopped(Head(chan[l])))
  PROVE  LET n  == l[2]
             ch == Head(chan[l]).chunk
         IN  /\ pit' = [pit EXCEPT ![n][ch] = @ \cup {l[1]}]
             /\ \A m \in Node, x \in Chunk :
                  pit'[m][x] = IF m = n /\ x = ch THEN pit[m][x] \cup {l[1]} ELSE pit[m][x]
             /\ aged' = aged
             /\ EntryIsFresh(n, Hopped(Head(chan[l]))) <=> pit[n][ch] = {}
<1> DEFINE n == l[2]
           h == Head(chan[l])
           m == Hopped(h)
           ch == h.chunk
<1>1. /\ n \in Node /\ h \in Elements(chan[l]) /\ h.kind = "interest" /\ h \in Interest
      /\ ch \in Chunk
  BY MissFacts
<1>2. m.chunk = ch /\ m.nfound = h.nfound
  BY <1>1 DEF Hopped, Interest
<1>3. ~h.nfound
  BY <1>1 DEF Calm, OnLinks, FirstAsked
<1>4. aged[n] = {} /\ aged \in [Node -> SUBSET Chunk]
  BY <1>1 DEF Calm, TypeOK
<1>5. EntryIsFresh(n, m) <=> pit[n][ch] = {}
  BY <1>2, <1>3, <1>4 DEF EntryIsFresh
<1>6. pit' = [pit EXCEPT ![n][ch] = IF EntryIsFresh(n, m) THEN {l[1]} ELSE @ \cup {l[1]}]
  BY <1>2 DEF AddToPit
<1>7. aged' = aged
  BY <1>4 DEF AddToPit
<1>8. pit \in [Node -> [Chunk -> SUBSET (Node \cup Client)]]
  BY DEF TypeOK
<1> HIDE DEF n, h, m, ch
<1>9. pit' = [pit EXCEPT ![n][ch] = @ \cup {l[1]}]
  BY <1>5, <1>6
<1>10. \A k \in Node, x \in Chunk :
         pit'[k][x] = IF k = n /\ x = ch THEN pit[k][x] \cup {l[1]} ELSE pit[k][x]
  BY <1>1, <1>8, <1>9
<1> QED BY <1>5, <1>7, <1>9, <1>10 DEF n, h, m, ch

(* Erasing an entry.                                                       *)
LEMMA ErasedFaces ==
  ASSUME TypeOK, NEW n \in Node, NEW ch \in Chunk, ErasePit(n, ch)
  PROVE  /\ \A m \in Node, x \in Chunk :
              pit'[m][x] = IF m = n /\ x = ch THEN {} ELSE pit[m][x]
         /\ \A m \in Node : aged'[m] \subseteq aged[m]
BY DEF ErasePit, TypeOK

(* A strategy leaves nfound alone.                                         *)
LEMMA DecisionKeeps ==
  ASSUME NEW n, NEW f, NEW m \in Interest, NEW d \in GetDecision(n, f, m)
  PROVE  d.msg.nfound = m.nfound /\ d.msg.chunk = m.chunk /\ d.msg.kind = m.kind
<1>1. CASE FS = "spr" \/ FS = "nrr1" \/ FS = "parallel"
  <2>1. d.msg = m
    BY <1>1 DEF GetDecision, ShortestPath, Flooding, Toward
  <2> QED BY <2>1
<1>2. CASE FS = "nrr"
  <2>1. d \in NearestReplica(n, m)
    BY <1>2 DEF GetDecision
  <2> DEFINE u == [m EXCEPT !.aggregate = FALSE]
  <2>2. u \in Interest /\ u.nfound = m.nfound /\ u.chunk = m.chunk /\ u.kind = m.kind
    BY DEF Interest
  <2>3. ASSUME NEW ds, NEW w \in {m, u}, d \in Retargeted(n, ds, w)
        PROVE  d.msg.nfound = w.nfound /\ d.msg.chunk = w.chunk /\ d.msg.kind = w.kind
    <3>1. PICK t \in ds : d.msg = [w EXCEPT !.target = t]
      BY <2>3 DEF Retargeted, Toward
    <3>2. w \in Interest
      BY <2>2
    <3> HIDE DEF u
    <3> QED BY <3>1, <3>2 DEF Interest
  <2>4. \/ \E ds : d \in Retargeted(n, ds, m)
        \/ \E ds : d \in Retargeted(n, ds, u)
        \/ d.msg = m
    BY <2>1 DEF NearestReplica, Toward
  <2> HIDE DEF u
  <2> QED BY <2>2, <2>3, <2>4
<1> QED BY <1>1, <1>2, ParameterAssumption

(* While no timer fires, the calm lasts.                                   *)
LEMMA CalmNext ==
  ASSUME SlowLinks = FALSE, TypeOK, Calm, [Next]_vars
  PROVE  Calm'
<1>1. OnLinks(FirstAsked, chan')
  <2>1. \A k \in Link, m \in Data : <<k, m>> \in FirstAsked
    BY DEF FirstAsked, Data, Packet
  <2>2. \A c \in Client, ch \in Chunk, t \in Node \cup {NoTarget} :
          <<Up(c), NewInterest(ch, t, FALSE)>> \in FirstAsked
    <3> SUFFICES ASSUME NEW c \in Client, NEW ch \in Chunk,
                        NEW t \in Node \cup {NoTarget}
                 PROVE  <<Up(c), NewInterest(ch, t, FALSE)>> \in FirstAsked
      OBVIOUS
    <3> DEFINE e == NewInterest(ch, t, FALSE)
    <3>1. e \in Packet /\ ~e.nfound
      BY DEF NewInterest, Interest, Packet
    <3> HIDE DEF e
    <3> QED BY <3>1, UpIsLink DEF FirstAsked, e
  <2>3. ASSUME NEW l \in Link, Miss(l), NEW d \in DecisionsOn(l), NEW f \in d.out,
               <<l[2], f>> \in Link
        PROVE  <<<<l[2], f>>, d.msg>> \in FirstAsked
    <3> DEFINE h == Head(chan[l])
               m == AtTarget(l[2], Hopped(h))
    <3>1. /\ h \in Elements(chan[l]) /\ h.kind = "interest"
          /\ m \in Interest /\ m.nfound = h.nfound
      BY <2>3, MissFacts
    <3>2. ~h.nfound
      BY <3>1 DEF Calm, OnLinks, FirstAsked
    <3>3. d.msg \in Interest /\ d.msg.nfound = m.nfound
      BY <2>3, <3>1, ForwardedType, DecisionKeeps DEF DecisionsOn
    <3> HIDE DEF h, m
    <3> QED BY <2>3, <3>1, <3>2, <3>3 DEF FirstAsked, Packet
  <2>4. OnLinks(FirstAsked, chan)
    BY DEF Calm
  <2> QED BY <2>1, <2>2, <2>3, <2>4, OnLinksNext DEF Calm
<1>2. \A c \in Client : late'[c] = {}
  <2>1. ASSUME NEW l \in Link, ChunkArrives(l)
        PROVE  \A c \in Client : late'[c] = {}
    BY <2>1 DEF ChunkArrives, Calm, TypeOK
  <2>2. CASE late' = late
    BY <2>2 DEF Calm
  <2>3. ASSUME NEW l \in Link,
               \/ DiscardInterest(l) \/ CacheHit(l) \/ RepoHit(l) \/ ForwardInterest(l)
               \/ AggregateInterest(l) \/ PendingData(l) \/ UnsolicitedData(l)
        PROVE  late' = late
    BY <2>3 DEF DiscardInterest, CacheHit, RepoHit, ForwardInterest, AggregateInterest,
                PendingData, UnsolicitedData
  <2>4. ASSUME NEW c, NEW i, \/ RequestFile(c) \/ TimerFires(c)
                             \/ BecomeLate(c, i) \/ BecomeAged(c, i)
        PROVE  late' = late
    BY <2>4 DEF RequestFile, TimerFires, BecomeLate, BecomeAged
  <2> QED BY <2>1, <2>2, <2>3, <2>4 DEF Next, Deliver, vars
<1>3. \A n \in Node : aged'[n] = {}
  <2>1. ASSUME NEW l \in Link, ForwardInterest(l) \/ AggregateInterest(l)
        PROVE  aged' = aged
    BY <2>1, CalmKeepsFaces DEF ForwardInterest, AggregateInterest
  <2>2. ASSUME NEW l \in Link, PendingData(l) PROVE \A n \in Node : aged'[n] = {}
    <3>1. l[2] \in Node /\ Hopped(Head(chan[l])).chunk \in Chunk
      BY <2>2, HeadType DEF PendingData, Arrives
    <3> QED BY <2>2, <3>1, ErasedFaces DEF PendingData, Calm
  <2>3. CASE aged' = aged
    BY <2>3 DEF Calm
  <2> QED BY <2>1, <2>2, <2>3 DEF Next, Deliver, vars, DiscardInterest, CacheHit, RepoHit,
         UnsolicitedData, ChunkArrives, RequestFile, TimerFires, BecomeLate, BecomeAged
<1> QED BY <1>1, <1>2, <1>3 DEF Calm
-----------------------------------------------------------------------------
(* Faces come from links, so they lead back over links.                    *)
LEMMA FacesLinkedNext ==
  ASSUME TypeOK, Calm, FacesLinked, [Next]_vars
  PROVE  FacesLinked'
<1>1. ASSUME NEW l \in Link, ForwardInterest(l) \/ AggregateInterest(l)
      PROVE  FacesLinked'
  <2>1. Miss(l) /\ AddToPit(l[2], l[1], Hopped(Head(chan[l])))
    BY <1>1 DEF ForwardInterest, AggregateInterest
  <2>2. \A m \in Node, x \in Chunk :
          pit'[m][x] = IF m = l[2] /\ x = Head(chan[l]).chunk
                       THEN pit[m][x] \cup {l[1]} ELSE pit[m][x]
    BY <2>1, CalmKeepsFaces
  <2>3. <<l[2], l[1]>> \in Link
    BY LinkReverse
  <2> SUFFICES ASSUME NEW m \in Node, NEW ch \in Chunk, NEW x \in pit'[m][ch]
               PROVE  <<m, x>> \in Link
    BY DEF FacesLinked
  <2>4. CASE m = l[2] /\ ch = Head(chan[l]).chunk
    <3>1. x \in pit[m][ch] \cup {l[1]}
      BY <2>2, <2>4
    <3> QED BY <2>3, <2>4, <3>1 DEF FacesLinked
  <2>5. CASE ~(m = l[2] /\ ch = Head(chan[l]).chunk)
    <3>1. x \in pit[m][ch]
      BY <2>2, <2>5
    <3> QED BY <3>1 DEF FacesLinked
  <2> QED BY <2>4, <2>5
<1>2. ASSUME NEW l \in Link, PendingData(l) PROVE FacesLinked'
  <2>1. l[2] \in Node /\ Hopped(Head(chan[l])).chunk \in Chunk
    BY <1>2, HeadType DEF PendingData, Arrives
  <2>2. \A m \in Node, ch \in Chunk : pit'[m][ch] \subseteq pit[m][ch]
    <3>1. ErasePit(l[2], Hopped(Head(chan[l])).chunk)
      BY <1>2 DEF PendingData
    <3>2. \A m \in Node, x \in Chunk :
            pit'[m][x] = IF m = l[2] /\ x = Hopped(Head(chan[l])).chunk
                         THEN {} ELSE pit[m][x]
      BY <2>1, <3>1, ErasedFaces
    <3> QED BY <3>2
  <2> QED BY <2>2 DEF FacesLinked
<1>3. CASE pit' = pit
  BY <1>3 DEF FacesLinked
<1> QED BY <1>1, <1>2, <1>3 DEF Next, Deliver, vars, DiscardInterest, CacheHit, RepoHit,
        UnsolicitedData, ChunkArrives, RequestFile, TimerFires, BecomeLate, BecomeAged

(* A strategy other than nrr1 sends an interest that missed over at least  *)
(* one link.                                                               *)
LEMMA ForwardsSomewhere ==
  ASSUME FS # "nrr1", TypeOK, NEW l \in Link, Miss(l), NEW d \in DecisionsOn(l)
  PROVE  \E f \in d.out : <<l[2], f>> \in Link
<1> DEFINE n == l[2]
           h == Head(chan[l])
           m == AtTarget(n, Hopped(h))
           R == Repos[h.chunk[1]]
<1>1. /\ n \in Node /\ n \notin R /\ R \subseteq Node /\ h.chunk \in Chunk
      /\ h.target \in Node \cup {NoTarget}
      /\ m \in Interest /\ m.chunk = h.chunk /\ m.target = h.target
  BY MissFacts
<1>2. d \in GetDecision(n, l[1], m)
  BY DEF DecisionsOn
<1> SUFFICES \E f \in d.out : <<n, f>> \in Link
  OBVIOUS
<1> HIDE DEF n, h, m
<1>3. \A ds \in SUBSET (Node \ {n}) : \A s \in ds : <<n, Fib[n][s]>> \in Link
  BY <1>1, RouteIsLink
<1>4. /\ Nearest(n, h.chunk) \in SUBSET (Node \ {n})
      /\ NearestCopies(n, h.chunk) \in SUBSET (Node \ {n})
  BY <1>1 DEF Nearest, NearestCopies
<1>5. CASE FS = "spr"
  <2>1. PICK s \in Nearest(n, h.chunk) : d.out = {Fib[n][s]}
    BY <1>1, <1>2, <1>5 DEF GetDecision, ShortestPath, Toward
  <2> QED BY <1>3, <1>4, <2>1
<1>6. CASE FS = "parallel"
  <2>1. d.out = {Fib[n][s] : s \in R}
    BY <1>1, <1>2, <1>6 DEF GetDecision, Toward
  <2>2. R # {} /\ R \in SUBSET (Node \ {n})
    BY <1>1, CatalogueAssumption DEF Chunk
  <2> HIDE DEF R
  <2> QED BY <1>3, <2>1, <2>2
<1>7. CASE FS = "nrr"
  <2>1. d \in NearestReplica(n, m)
    BY <1>2, <1>7 DEF GetDecision
  <2>2. \/ \E ds \in SUBSET (Node \ {n}) : \E u : d \in Retargeted(n, ds, u)
        \/ h.target # n /\ h.target # NoTarget /\ d.out = {Fib[n][h.target]}
    BY <1>1, <1>4, <2>1 DEF NearestReplica, Toward
  <2>3. ASSUME NEW ds \in SUBSET (Node \ {n}), NEW u, d \in Retargeted(n, ds, u)
        PROVE  \E f \in d.out : <<n, f>> \in Link
    <3>1. PICK s \in ds : d.out = {Fib[n][s]}
      BY <2>3 DEF Retargeted, Toward
    <3> QED BY <1>3, <3>1
  <2> QED BY <1>1, <2>2, <2>3, RouteIsLink
<1> QED BY <1>5, <1>6, <1>7, ParameterAssumption

(* An exchange of the head of l for msg, sent to dests: it takes the       *)
(* interest or the data at the head of l from one who may be owed by it,   *)
(* and gives msg to those at the ends of dests.                            *)
LEMMA Exchange ==
  ASSUME TypeOK, NEW l \in Link, chan[l] # <<>>, NEW dests, NEW msg \in Packet,
         Transfer(l, dests, msg)
  PROVE  /\ \A x, ch : Asks(x, ch, chan) =>
              \/ Asks(x, ch, chan')
              \/ x = l[1] /\ Head(chan[l]).kind = "interest" /\ ch = Head(chan[l]).chunk
         /\ \A x, ch : Gets(x, ch, chan) =>
              \/ Gets(x, ch, chan')
              \/ x = l[2] /\ Head(chan[l]).kind = "data" /\ ch = Head(chan[l]).chunk
         /\ \A k \in dests \cap Link :
              /\ msg.kind = "interest" => Asks(k[1], msg.chunk, chan')
              /\ msg.kind = "data" => Gets(k[2], msg.chunk, chan')
<1> DEFINE h == Head(chan[l])
<1>1. ASSUME NEW k \in Link
      PROVE  /\ Elements(chan[k]) \subseteq
                  Elements(chan'[k]) \cup (IF k = l THEN {h} ELSE {})
             /\ k \in dests => msg \in Elements(chan'[k])
  <2>1. chan \in [Link -> Seq(Packet)]
    BY DEF TypeOK, Packet
  <2> QED BY <2>1, TransferElements
<1> HIDE DEF h
<1>2. ASSUME NEW x, NEW ch, Asks(x, ch, chan)
      PROVE  Asks(x, ch, chan') \/ (x = l[1] /\ h.kind = "interest" /\ ch = h.chunk)
  <2>1. PICK k \in Link : k[1] = x /\ \E m \in Elements(chan[k]) :
                                      m.kind = "interest" /\ m.chunk = ch
    BY <1>2 DEF Asks
  <2>2. PICK m \in Elements(chan[k]) : m.kind = "interest" /\ m.chunk = ch
    BY <2>1
  <2>3. m \in Elements(chan'[k]) \/ (k = l /\ m = h)
    BY <1>1
  <2> QED BY <2>1, <2>2, <2>3 DEF Asks
<1>3. ASSUME NEW x, NEW ch, Gets(x, ch, chan)
      PROVE  Gets(x, ch, chan') \/ (x = l[2] /\ h.kind = "data" /\ ch = h.chunk)
  <2>1. PICK k \in Link : k[2] = x /\ \E m \in Elements(chan[k]) :
                                      m.kind = "data" /\ m.chunk = ch
    BY <1>3 DEF Gets
  <2>2. PICK m \in Elements(chan[k]) : m.kind = "data" /\ m.chunk = ch
    BY <2>1
  <2>3. m \in Elements(chan'[k]) \/ (k = l /\ m = h)
    BY <1>1
  <2> QED BY <2>1, <2>2, <2>3 DEF Gets
<1>4. ASSUME NEW k \in dests \cap Link
      PROVE  /\ msg.kind = "interest" => Asks(k[1], msg.chunk, chan')
             /\ msg.kind = "data" => Gets(k[2], msg.chunk, chan')
  BY <1>1 DEF Asks, Gets
<1> QED BY <1>2, <1>3, <1>4 DEF h

(* Everyone who waits is owed.                                             *)
AllOwed ==
  /\ \A n \in Node, ch \in Chunk : pit[n][ch] # {} => Owed(n, ch, pit, chan)
  /\ \A c \in Client, i \in Serial : want[c][i] # Idle => Owed(c, want[c][i], pit, chan)

(* What a client still owes to a download it keeps, when only the PITs and *)
(* links change.                                                           *)
LEMMA OwedUnchanged ==
  ASSUME AllOwed, want' = want,
         \A n \in Node, ch \in Chunk : pit'[n][ch] # {} =>
           \/ Owed(n, ch, pit', chan')
           \/ pit[n][ch] # {} /\ (Owed(n, ch, pit, chan) => Owed(n, ch, pit', chan')),
         \A c \in Client, i \in Serial :
           want[c][i] # Idle /\ Owed(c, want[c][i], pit, chan) => Owed(c, want[c][i], pit', chan')
  PROVE  AllOwed'
BY DEF AllOwed

(* A hit answers whoever asked.                                            *)
LEMMA AllOwedHit ==
  ASSUME TypeOK, AllOwed, NEW l \in Link, CacheHit(l) \/ RepoHit(l)
  PROVE  AllOwed'
<1> DEFINE h == Head(chan[l])
<1>1. chan[l] # <<>> /\ l[2] \in Node /\ h.kind = "interest"
  BY DEF CacheHit, RepoHit, InterestArrives, Arrives
<1>2. PICK n \in Int : Transfer(l, {<<l[2], l[1]>>}, NewData(h.chunk, n, l[2]))
  BY DEF CacheHit, RepoHit
<1> DEFINE d == NewData(h.chunk, n, l[2])
<1>3. d \in Packet /\ d.kind = "data" /\ d.chunk = h.chunk
  BY <1>1, HeadType DEF NewData, Data, Packet
<1>4. <<l[2], l[1]>> \in {<<l[2], l[1]>>} \cap Link
  BY LinkReverse
<1>5. Transfer(l, {<<l[2], l[1]>>}, d)
  BY <1>2
<1> HIDE DEF h, d
<1>6. /\ \A x, ch : Asks(x, ch, chan) =>
           Asks(x, ch, chan') \/ (x = l[1] /\ h.kind = "interest" /\ ch = h.chunk)
      /\ \A x, ch : Gets(x, ch, chan) =>
           Gets(x, ch, chan') \/ (x = l[2] /\ h.kind = "data" /\ ch = h.chunk)
      /\ Gets(l[1], h.chunk, chan')
  BY <1>1, <1>3, <1>4, <1>5, Exchange DEF h
<1>7. ASSUME NEW x, NEW ch, Owed(x, ch, pit, chan) PROVE Owed(x, ch, pit', chan')
  <2>1. pit' = pit
    BY DEF CacheHit, RepoHit
  <2>2. h.kind # "data"
    BY <1>1 DEF h
  <2> QED BY <1>6, <1>7, <2>1, <2>2 DEF Owed, Waits
<1>8. want' = want /\ pit' = pit
  BY DEF CacheHit, RepoHit
<1> QED BY <1>7, <1>8, OwedUnchanged

(* An interest that misses leaves its sender in the PIT, and a node that   *)
(* starts to wait asks in its turn.                                        *)
LEMMA AllOwedMiss ==
  ASSUME FS # "nrr1", TypeOK, Calm, AllOwed,
         NEW l \in Link, ForwardInterest(l) \/ AggregateInterest(l)
  PROVE  AllOwed'
<1> DEFINE h == Head(chan[l])
           n == l[2]
<1>1. /\ Miss(l) /\ AddToPit(n, l[1], Hopped(h)) /\ chan[l] # <<>> /\ n \in Node
      /\ h.kind = "interest" /\ h \in Interest /\ h.chunk \in Chunk /\ want' = want
  BY MissFacts DEF ForwardInterest, AggregateInterest
<1>2. /\ \A m \in Node, x \in Chunk :
           pit'[m][x] = IF m = n /\ x = h.chunk THEN pit[m][x] \cup {l[1]} ELSE pit[m][x]
      /\ EntryIsFresh(n, Hopped(h)) <=> pit[n][h.chunk] = {}
  BY <1>1, CalmKeepsFaces
<1>3. \E dests : \E msg \in Packet :
        /\ Transfer(l, dests, msg)
        /\ \/ pit[n][h.chunk] # {}
           \/ \E k \in dests \cap Link :
                k[1] = n /\ msg.kind = "interest" /\ msg.chunk = h.chunk
  <2>1. CASE AggregateInterest(l)
    <3>1. Transfer(l, {}, h) /\ pit[n][h.chunk] # {}
      BY <1>2, <2>1 DEF AggregateInterest, WillForward
    <3> QED BY <1>1, <3>1 DEF Packet
  <2>2. CASE ForwardInterest(l)
    <3>1. PICK d \in DecisionsOn(l) : Transfer(l, {<<n, f>> : f \in d.out}, d.msg)
      BY <2>2 DEF ForwardInterest, DecisionsOn
    <3>2. d.msg \in Interest
      BY <1>1, ForwardedType
    <3>3. d.msg.chunk = h.chunk
      <4>1. AtTarget(n, Hopped(h)) \in Interest /\ AtTarget(n, Hopped(h)).chunk = h.chunk
        BY <1>1, MissFacts
      <4> QED BY <4>1, DecisionKeeps DEF DecisionsOn
    <3>4. PICK f \in d.out : <<n, f>> \in Link
      BY <1>1, ForwardsSomewhere
    <3>5. <<n, f>> \in {<<n, g>> : g \in d.out} \cap Link /\ <<n, f>>[1] = n
      BY <3>4
    <3>6. d.msg.kind = "interest" /\ d.msg \in Packet
      BY <3>2 DEF Interest, Packet
    <3> QED BY <3>1, <3>3, <3>5, <3>6
  <2> QED BY <2>1, <2>2
<1> HIDE DEF h, n
<1>9. PICK dests : \E msg \in Packet :
        /\ Transfer(l, dests, msg)
        /\ \/ pit[n][h.chunk] # {}
           \/ \E k \in dests \cap Link :
                k[1] = n /\ msg.kind = "interest" /\ msg.chunk = h.chunk
  BY <1>3
<1>10. PICK msg \in Packet :
         /\ Transfer(l, dests, msg)
         /\ \/ pit[n][h.chunk] # {}
            \/ \E k \in dests \cap Link :
                 k[1] = n /\ msg.kind = "interest" /\ msg.chunk = h.chunk
  BY <1>9
<1>4. /\ \A x, ch : Asks(x, ch, chan) =>
           Asks(x, ch, chan') \/ (x = l[1] /\ h.kind = "interest" /\ ch = h.chunk)
      /\ \A x, ch : Gets(x, ch, chan) =>
           Gets(x, ch, chan') \/ (x = l[2] /\ h.kind = "data" /\ ch = h.chunk)
      /\ pit[n][h.chunk] # {} \/ Asks(n, h.chunk, chan')
  BY <1>1, <1>10, Exchange DEF h
<1>5. ASSUME NEW x, NEW ch \in Chunk, Owed(x, ch, pit, chan) PROVE Owed(x, ch, pit', chan')
  <2>1. l[1] \in pit'[n][h.chunk] /\ \A m \in Node : pit[m][ch] \subseteq pit'[m][ch]
    BY <1>1, <1>2
  <2>2. Waits(l[1], h.chunk, pit')
    BY <1>1, <2>1 DEF Waits
  <2>3. Waits(x, ch, pit) => Waits(x, ch, pit')
    BY <2>1 DEF Waits
  <2>4. h.kind # "data"
    BY <1>1
  <2> QED BY <1>4, <1>5, <2>2, <2>3, <2>4 DEF Owed
<1>6. ASSUME NEW m \in Node, NEW ch \in Chunk, pit'[m][ch] # {}
      PROVE  Owed(m, ch, pit', chan') \/ (pit[m][ch] # {} /\ (Owed(m, ch, pit, chan) => Owed(m, ch, pit', chan')))
  <2>1. CASE m = n /\ ch = h.chunk
    BY <1>4, <1>5, <2>1 DEF Owed
  <2>2. CASE ~(m = n /\ ch = h.chunk)
    BY <1>2, <1>5, <1>6, <2>2
  <2> QED BY <2>1, <2>2
<1>7. ASSUME NEW c \in Client, NEW i \in Serial, want[c][i] # Idle, Owed(c, want[c][i], pit, chan)
      PROVE  Owed(c, want[c][i], pit', chan')
  BY <1>5, <1>7 DEF TypeOK
<1> QED BY <1>1, <1>6, <1>7, OwedUnchanged
-----------------------------------------------------------------------------
(* Data that is awaited goes to every face of the entry it erases, and     *)
(* data that nobody awaits was owed to nobody who waits.                   *)
LEMMA AllOwedData ==
  ASSUME TypeOK, FacesLinked, AllOwed,
         NEW l \in Link, PendingData(l) \/ UnsolicitedData(l)
  PROVE  AllOwed'
<1> DEFINE h == Head(chan[l])
           n == l[2]
           dests == {<<n, f>> : f \in pit[n][h.chunk]}
<1>1. /\ chan[l] # <<>> /\ n \in Node /\ h.kind = "data" /\ want' = want
  BY DEF PendingData, UnsolicitedData, Arrives
<1>2. /\ h \in Packet /\ h.chunk \in Chunk /\ Hopped(h).chunk = h.chunk
      /\ Hopped(h) \in Data
  BY <1>1, HeadType
<1>3. \A m \in Node, x \in Chunk :
        pit'[m][x] = IF m = n /\ x = h.chunk THEN {} ELSE pit[m][x]
  <2>1. CASE PendingData(l)
    <3>1. ErasePit(n, h.chunk)
      BY <1>2, <2>1 DEF PendingData
    <3> HIDE DEF h, n
    <3> QED BY <1>1, <1>2, <3>1, ErasedFaces
  <2>2. CASE UnsolicitedData(l)
    BY <1>1, <1>2, <2>2 DEF UnsolicitedData
  <2> QED BY <2>1, <2>2
<1>4. \E msg \in Packet : msg.kind = "data" /\ msg.chunk = h.chunk /\ Transfer(l, dests, msg)
  <2>1. CASE PendingData(l)
    <3>1. Transfer(l, dests, Hopped(h))
      BY <1>2, <2>1 DEF PendingData, WaitingFaces
    <3>2. Hopped(h) \in Packet /\ Hopped(h).kind = "data"
      BY <1>2 DEF Packet, Data
    <3> QED BY <1>2, <3>1, <3>2
  <2>2. CASE UnsolicitedData(l)
    <3>1. Transfer(l, {}, h) /\ pit[n][h.chunk] = {}
      BY <2>2 DEF UnsolicitedData
    <3>2. dests = {}
      BY <3>1
    <3> QED BY <1>1, <1>2, <3>1, <3>2
  <2> QED BY <2>1, <2>2
<1>5. PICK msg \in Packet :
        msg.kind = "data" /\ msg.chunk = h.chunk /\ Transfer(l, dests, msg)
  BY <1>4
<1>6. \A f \in pit[n][h.chunk] : <<n, f>> \in dests \cap Link
  BY <1>1, <1>2 DEF FacesLinked
<1> HIDE DEF dests
<1>7. /\ \A x, ch : Asks(x, ch, chan) =>
           Asks(x, ch, chan') \/ (x = l[1] /\ h.kind = "interest" /\ ch = h.chunk)
      /\ \A x, ch : Gets(x, ch, chan) =>
           Gets(x, ch, chan') \/ (x = n /\ h.kind = "data" /\ ch = h.chunk)
      /\ \A k \in dests \cap Link : Gets(k[2], h.chunk, chan')
  BY <1>1, <1>5, Exchange
<1> HIDE DEF h, n
<1>8. ASSUME NEW f \in pit[n][h.chunk] PROVE Gets(f, h.chunk, chan')
  <2>1. <<n, f>> \in dests \cap Link /\ <<n, f>>[2] = f
    BY <1>6
  <2> QED BY <1>7, <2>1
<1>9. ASSUME NEW x, NEW ch \in Chunk, Owed(x, ch, pit, chan), ~(x = n /\ ch = h.chunk)
      PROVE  Owed(x, ch, pit', chan')
  <2>1. CASE Asks(x, ch, chan)
    BY <1>1, <1>7, <2>1 DEF Owed
  <2>2. CASE Gets(x, ch, chan)
    BY <1>7, <1>9, <2>2 DEF Owed
  <2>3. CASE Waits(x, ch, pit)
    <3>1. PICK m \in Node : x \in pit[m][ch]
      BY <2>3 DEF Waits
    <3>2. CASE m = n /\ ch = h.chunk
      BY <1>8, <3>1, <3>2 DEF Owed
    <3>3. CASE ~(m = n /\ ch = h.chunk)
      <4>1. x \in pit'[m][ch]
        BY <1>3, <3>1, <3>3
      <4> QED BY <4>1 DEF Owed, Waits
    <3> QED BY <3>2, <3>3
  <2> QED BY <1>9, <2>1, <2>2, <2>3 DEF Owed
<1>10. ASSUME NEW m \in Node, NEW ch \in Chunk, pit'[m][ch] # {}
       PROVE  pit[m][ch] # {} /\ ~(m = n /\ ch = h.chunk)
  BY <1>3, <1>10
<1>11. ASSUME NEW c \in Client, NEW i \in Serial, want[c][i] # Idle,
              Owed(c, want[c][i], pit, chan)
       PROVE  Owed(c, want[c][i], pit', chan')
  <2>1. want[c][i] \in Chunk /\ c # n
    BY <1>1, <1>11, NodeAssumption DEF TypeOK
  <2> QED BY <1>9, <1>11, <2>1
<1> QED BY <1>1, <1>9, <1>10, <1>11, OwedUnchanged

(* A client that got its chunk has asked for the next.                     *)
LEMMA AllOwedChunk ==
  ASSUME TypeOK, AllOwed, NEW l \in Link, ChunkArrives(l)
  PROVE  AllOwed'
<1> DEFINE c == l[2]
           h == Head(chan[l])
           next == NextChunk(h.chunk)
           e == NewInterest(next, h.target, FALSE)
<1>1. /\ c \in Client /\ chan[l] # <<>> /\ h.kind = "data" /\ pit' = pit
      /\ want' = [want EXCEPT ![c] = [i \in Serial |->
                    IF i \notin Advancing(c, h.chunk) THEN want[c][i]
                    ELSE IF next \notin Chunk THEN Idle ELSE next]]
  BY DEF ChunkArrives, Arrives
<1>2. e.kind = "interest" /\ e.chunk = next
  BY DEF NewInterest
<1>3. Up(c) \in Link /\ Up(c)[1] = c
  BY <1>1, UpIsLink DEF Up
<1>4. ASSUME NEW k \in Link
      PROVE  /\ Elements(chan[k]) \subseteq
                  Elements(chan'[k]) \cup (IF k = l THEN {h} ELSE {})
             /\ k = Up(c) /\ next \in Chunk /\ Advancing(c, h.chunk) # {}
                  => e \in Elements(chan'[k])
  BY ChunkArrivesElements
<1>5. want \in [Client -> [Serial -> Chunk \cup {Idle}]]
  BY DEF TypeOK
<1> HIDE DEF c, h, next, e
<1>6. ASSUME NEW x, NEW ch, Owed(x, ch, pit, chan), ~(x = c /\ ch = h.chunk)
      PROVE  Owed(x, ch, pit', chan')
  <2>1. CASE Asks(x, ch, chan)
    <3>1. PICK k \in Link : k[1] = x /\ \E m \in Elements(chan[k]) :
                                          m.kind = "interest" /\ m.chunk = ch
      BY <2>1 DEF Asks
    <3>2. PICK m \in Elements(chan[k]) : m.kind = "interest" /\ m.chunk = ch
      BY <3>1
    <3>3. m \in Elements(chan'[k])
      BY <1>1, <1>4, <3>2
    <3> QED BY <3>1, <3>2, <3>3 DEF Asks, Owed
  <2>2. CASE Gets(x, ch, chan)
    <3>1. PICK k \in Link : k[2] = x /\ \E m \in Elements(chan[k]) :
                                          m.kind = "data" /\ m.chunk = ch
      BY <2>2 DEF Gets
    <3>2. PICK m \in Elements(chan[k]) : m.kind = "data" /\ m.chunk = ch
      BY <3>1
    <3>3. m \in Elements(chan'[k])
      BY <1>4, <1>6, <3>1, <3>2 DEF c
    <3> QED BY <3>1, <3>2, <3>3 DEF Gets, Owed
  <2>3. CASE Waits(x, ch, pit)
    BY <1>1, <2>3 DEF Waits, Owed
  <2> QED BY <1>6, <2>1, <2>2, <2>3 DEF Owed
<1>7. ASSUME NEW n \in Node, NEW ch \in Chunk, pit'[n][ch] # {}
      PROVE  Owed(n, ch, pit', chan')
  BY <1>1, <1>6, <1>7, NodeAssumption DEF AllOwed
<1>8. ASSUME NEW d \in Client, NEW i \in Serial, want'[d][i] # Idle
      PROVE  Owed(d, want'[d][i], pit', chan')
  <2>1. CASE d = c /\ i \in Advancing(c, h.chunk)
    <3>1. want'[d][i] = next /\ next \in Chunk
      BY <1>1, <1>5, <1>8, <2>1
    <3>2. e \in Elements(chan'[Up(c)])
      BY <1>3, <1>4, <2>1, <3>1
    <3>3. Asks(c, next, chan')
      BY <1>2, <1>3, <3>2 DEF Asks
    <3> QED BY <2>1, <3>1, <3>3 DEF Owed
  <2>2. CASE ~(d = c /\ i \in Advancing(c, h.chunk))
    <3>1. want'[d][i] = want[d][i]
      BY <1>1, <1>5, <2>2
    <3>2. ~(d = c /\ want[d][i] = h.chunk)
      BY <2>2 DEF Advancing
    <3>3. Owed(d, want[d][i], pit, chan)
      BY <1>8, <3>1 DEF AllOwed
    <3> QED BY <1>6, <3>1, <3>2, <3>3
  <2> QED BY <2>1, <2>2
<1> QED BY <1>7, <1>8 DEF AllOwed

(* A client that wants a file has asked for it.                            *)
LEMMA AllOwedRequest ==
  ASSUME TypeOK, AllOwed, NEW c \in Client, RequestFile(c)
  PROVE  AllOwed'
<1>1. PICK f \in Name :
        /\ want' = [want EXCEPT ![c][requested[c] + 1] = <<f, 0>>]
        /\ \A k \in Link :
             Elements(chan'[k]) = Elements(chan[k])
               \cup (IF k = Up(c) THEN {NewInterest(<<f, 0>>, NoTarget, FALSE)} ELSE {})
  BY RequestFileElements
<1> DEFINE e == NewInterest(<<f, 0>>, NoTarget, FALSE)
<1>2. pit' = pit /\ want \in [Client -> [Serial -> Chunk \cup {Idle}]]
  BY DEF RequestFile, TypeOK
<1>3. Asks(c, <<f, 0>>, chan')
  <2>1. e.kind = "interest" /\ e.chunk = <<f, 0>>
    BY DEF NewInterest
  <2>2. Up(c) \in Link /\ Up(c)[1] = c
    BY UpIsLink DEF Up
  <2>3. e \in Elements(chan'[Up(c)])
    BY <1>1, <2>2
  <2> HIDE DEF e
  <2> QED BY <2>1, <2>2, <2>3 DEF Asks
<1>4. ASSUME NEW x, NEW ch, Owed(x, ch, pit, chan) PROVE Owed(x, ch, pit', chan')
  <2>1. \A k \in Link : Elements(chan[k]) \subseteq Elements(chan'[k])
    BY <1>1
  <2> QED BY <1>2, <1>4, <2>1 DEF Owed, Asks, Waits, Gets
<1>5. ASSUME NEW d \in Client, NEW i \in Serial, want'[d][i] # Idle
      PROVE  Owed(d, want'[d][i], pit', chan')
  <2>1. CASE d = c /\ i = requested[c] + 1
    BY <1>1, <1>2, <1>3, <2>1 DEF Owed
  <2>2. CASE ~(d = c /\ i = requested[c] + 1)
    <3>1. want'[d][i] = want[d][i]
      BY <1>1, <1>2, <2>2
    <3> QED BY <1>4, <1>5, <3>1 DEF AllOwed
  <2> QED BY <2>1, <2>2
<1> QED BY <1>2, <1>4, <1>5 DEF AllOwed

(* No step forgets anybody.                                                *)
LEMMA AllOwedNext ==
  ASSUME FS # "nrr1", SlowLinks = FALSE, NoneExpires, TypeOK, Calm, FacesLinked, AllOwed,
         [Next]_vars
  PROVE  AllOwed'
<1>1. ASSUME NEW l \in Link PROVE ~DiscardInterest(l)
  BY DEF NoneExpires, DiscardInterest
<1>2. ASSUME NEW c \in Client PROVE ~TimerFires(c)
  BY DEF Calm, TimerFires
<1>3. ASSUME NEW c, NEW i PROVE ~BecomeLate(c, i) /\ ~BecomeAged(c, i)
  BY DEF BecomeLate, BecomeAged
<1>4. CASE UNCHANGED vars
  BY <1>4 DEF vars, AllOwed
<1> QED BY <1>1, <1>2, <1>3, <1>4, AllOwedHit, AllOwedMiss, AllOwedData, AllOwedChunk,
           AllOwedRequest DEF Next, Deliver

(* NobodyForgotten is AllOwed, counted.                                    *)
LEMMA AllOwedCounts == TypeOK => (AllOwed <=> NobodyForgotten)
BY OwedIsOutstanding DEF AllOwed, NobodyForgotten

(* While no timer fires and no interest dies of its hop count, every node  *)
(* and every client that waits for a chunk has an answer on its way: under *)
(* any strategy but flooding, aggregation loses no requester.              *)
THEOREM NobodyForgottenWhileNoneExpires ==
  ASSUME FS # "nrr1", SlowLinks = FALSE
  PROVE  Spec /\ []NoneExpires => []NobodyForgotten
<1>1. Init => Calm /\ FacesLinked /\ AllOwed
  <2> SUFFICES ASSUME Init PROVE Calm /\ FacesLinked /\ AllOwed
    OBVIOUS
  <2>1. Calm
    BY OnLinksInit DEF Init, Calm
  <2>2. FacesLinked /\ AllOwed
    BY DEF Init, FacesLinked, AllOwed
  <2> QED BY <2>1, <2>2
<1>2. TypeOK /\ Calm /\ [Next]_vars => Calm'
  BY CalmNext
<1>3. TypeOK /\ Calm /\ FacesLinked /\ [Next]_vars => FacesLinked'
  BY FacesLinkedNext
<1>4. NoneExpires /\ TypeOK /\ Calm /\ FacesLinked /\ AllOwed /\ [Next]_vars => AllOwed'
  BY AllOwedNext
<1>5. TypeOK /\ AllOwed => NobodyForgotten
  BY AllOwedCounts
<1> QED BY <1>1, <1>2, <1>3, <1>4, <1>5, TypeCorrect, PTL DEF Spec

(* Under spr and nrr, with shortest paths and a TTL above the hops an      *)
(* interest may take, nobody is forgotten.                                 *)
THEOREM NobodyIsForgotten ==
  ASSUME SlowLinks = FALSE, RoutesShorten, NEW D, Diameter(D),
         \/ FS = "spr" /\ D < TTL
         \/ FS = "nrr" /\ 2 * D < TTL
  PROVE  Spec => []NobodyForgotten
<1>1. CASE FS = "spr" /\ D < TTL
  <2>1. Spec => []NoneExpires
    BY <1>1, SprNeverExpires
  <2>2. Spec /\ []NoneExpires => []NobodyForgotten
    BY <1>1, NobodyForgottenWhileNoneExpires
  <2> QED BY <2>1, <2>2, PTL
<1>2. CASE FS = "nrr" /\ 2 * D < TTL
  <2>1. Spec => []NoneExpires
    BY <1>2, NrrNeverExpires
  <2>2. Spec /\ []NoneExpires => []NobodyForgotten
    BY <1>2, NobodyForgottenWhileNoneExpires
  <2> QED BY <2>1, <2>2, PTL
<1> QED BY <1>1, <1>2
-----------------------------------------------------------------------------
(* Counting what is in transit.                                            *)

(* What the links may hold.                                                *)
Channels == [Link -> Seq(Packet)]

(* The packet at the head of a link is taken: its place is lost if it is   *)
(* among those counted, and the others move up.                            *)
Taken(h, l, g) == \A k \in Link : g[k] = IF k = l THEN Tail(h[k]) ELSE h[k]

Loss(h, l, K, S) == IF l \in K /\ Head(h[l]) \in S THEN 1 ELSE 0

(* A packet taken from l is one place less if it is among those counted.   *)
LEMMA TakenPlaces ==
  ASSUME NEW h \in Channels, NEW g \in Channels,
         NEW l \in Link, h[l] # <<>>, Taken(h, l, g), NEW K, NEW S
  PROVE  Cardinality(Places(g, K, S)) = Cardinality(Places(h, K, S)) - Loss(h, l, K, S)
<1> USE DEF Channels
<1> DEFINE P == Places(h, K, S)
           Q == Places(g, K, S)
           R == P \ {<<l, 1>>}
           f == [p \in R |-> <<p[1], IF p[1] = l THEN p[2] - 1 ELSE p[2]>>]
<1>1. \A k \in Link : h[k] \in Seq(Packet) /\ Len(h[k]) \in Nat /\ DOMAIN h[k] = 1 .. Len(h[k])
  BY LenProperties
<1>2. /\ Tail(h[l]) \in Seq(Packet) /\ Len(Tail(h[l])) = Len(h[l]) - 1
      /\ DOMAIN Tail(h[l]) = 1 .. Len(h[l]) - 1
      /\ \A i \in 1 .. Len(h[l]) - 1 : Tail(h[l])[i] = h[l][i + 1]
      /\ Head(h[l]) = h[l][1] /\ Len(h[l]) >= 1
  <2>1. h[l] \in Seq(Packet)
    OBVIOUS
  <2>2. Tail(h[l]) \in Seq(Packet) /\ Len(Tail(h[l])) = Len(h[l]) - 1
    BY <2>1, HeadTailProperties
  <2> QED BY <2>1, <2>2, HeadTailProperties, LenProperties, EmptySeq
<1>4. /\ \A k \in Link \ {l} : g[k] = h[k]
      /\ g[l] = Tail(h[l])
  BY DEF Taken
<1>5. \A k \in Link, i \in Nat :
        <<k, i>> \in P <=> k \in K /\ i \in 1 .. Len(h[k]) /\ h[k][i] \in S
  BY <1>1 DEF Places
<1>6. /\ \A k \in Link \ {l}, i \in Nat :
           <<k, i>> \in Q <=> k \in K /\ i \in 1 .. Len(h[k]) /\ h[k][i] \in S
      /\ \A i \in Nat :
           <<l, i>> \in Q <=> l \in K /\ i \in 1 .. Len(h[l]) - 1 /\ h[l][i + 1] \in S
  BY <1>1, <1>2, <1>4 DEF Places
<1>7. P \subseteq Link \X Nat /\ Q \subseteq Link \X Nat
  BY DEF Places
<1> HIDE DEF P, Q
<1>8. f \in Bijection(R, Q)
  <2>1. f \in [R -> Q]
    <3> SUFFICES ASSUME NEW p \in R PROVE f[p] \in Q
      OBVIOUS
    <3>1. PICK k \in Link, i \in Nat : p = <<k, i>>
      BY <1>7
    <3>2. CASE k = l
      <4>1. i \in 1 .. Len(h[l]) /\ i # 1 /\ h[l][i] \in S /\ l \in K
        BY <1>5, <3>1, <3>2
      <4>2. i - 1 \in Nat /\ i - 1 \in 1 .. Len(h[l]) - 1 /\ i - 1 + 1 = i
        BY <1>1, <4>1
      <4> QED BY <1>6, <3>1, <3>2, <4>1, <4>2
    <3>3. CASE k # l
      BY <1>5, <1>6, <3>1, <3>3
    <3> QED BY <3>2, <3>3
  <2>2. ASSUME NEW a \in R, NEW b \in R, f[a] = f[b] PROVE a = b
    <3>1. PICK k \in Link, i \in Nat : a = <<k, i>>
      BY <1>7
    <3>2. PICK m \in Link, j \in Nat : b = <<m, j>>
      BY <1>7
    <3>3. k = m
      BY <2>2, <3>1, <3>2
    <3>4. (IF k = l THEN i - 1 ELSE i) = (IF k = l THEN j - 1 ELSE j)
      BY <2>2, <3>1, <3>2, <3>3
    <3>5. i = j
      BY <3>4
    <3> QED BY <3>1, <3>2, <3>3, <3>5
  <2>3. ASSUME NEW q \in Q PROVE \E p \in R : f[p] = q
    <3>1. PICK k \in Link, i \in Nat : q = <<k, i>>
      BY <1>7
    <3>2. CASE k = l
      <4>1. l \in K /\ i \in 1 .. Len(h[l]) - 1 /\ h[l][i + 1] \in S
        BY <1>6, <3>1, <3>2
      <4>2. i + 1 \in 1 .. Len(h[l]) /\ i + 1 \in Nat /\ i + 1 # 1 /\ i + 1 - 1 = i
        BY <1>1, <4>1
      <4>3. <<l, i + 1>> \in R
        BY <1>5, <4>1, <4>2
      <4> QED BY <3>1, <3>2, <4>2, <4>3
    <3>3. CASE k # l
      <4>1. <<k, i>> \in R
        BY <1>5, <1>6, <3>1, <3>3
      <4> QED BY <3>1, <3>3, <4>1
    <3> QED BY <3>2, <3>3
  <2> HIDE DEF f, R
  <2> QED BY <2>1, <2>2, <2>3, Fun_IsBij
<1>9. IsFiniteSet(P)
  BY PlacesFinite DEF P
<1>10. /\ IsFiniteSet(R)
       /\ Cardinality(R) = IF <<l, 1>> \in P THEN Cardinality(P) - 1 ELSE Cardinality(P)
  BY <1>9, FS_RemoveElement
<1>11. Cardinality(Q) = Cardinality(R)
  <2> HIDE DEF f, R
  <2> QED BY <1>8, <1>10, FS_Bijection DEF ExistsBijection
<1>12. <<l, 1>> \in P <=> l \in K /\ Head(h[l]) \in S
  BY <1>1, <1>2, <1>5
<1>13. Cardinality(P) \in Nat
  BY <1>9, FS_CardinalityType
<1> QED BY <1>10, <1>11, <1>12, <1>13 DEF P, Q, Loss

(* Packets join the links: those that were there keep their places, and    *)
(* the new ones come behind them.                                          *)
Joined(h, g, K, S) == {p \in Places(g, K, S) : p[2] > Len(h[p[1]])}

Appended(h, new, g) == \A k \in Link : g[k] = h[k] \o new[k]

(* The places of g are those of h and those that joined.                   *)
LEMMA JoinedPlaces ==
  ASSUME NEW h \in Channels, NEW new \in Channels,
         NEW g \in Channels, Appended(h, new, g), NEW K, NEW S
  PROVE  /\ IsFiniteSet(Joined(h, g, K, S))
         /\ Cardinality(Joined(h, g, K, S)) \in Nat
         /\ Joined(h, g, K, S) \subseteq Link \X Nat
         /\ \A k \in Link, i \in Nat :
              <<k, i>> \in Joined(h, g, K, S) <=> /\ k \in K
                                                 /\ i - Len(h[k]) \in DOMAIN new[k]
                                                 /\ new[k][i - Len(h[k])] \in S
         /\ Cardinality(Places(g, K, S)) =
              Cardinality(Places(h, K, S)) + Cardinality(Joined(h, g, K, S))
<1> USE DEF Channels
<1> DEFINE P == Places(h, K, S)
           Q == Places(g, K, S)
           J == Joined(h, g, K, S)
<1>1. ASSUME NEW k \in Link
      PROVE  /\ h[k] \in Seq(Packet) /\ Len(h[k]) \in Nat /\ DOMAIN h[k] = 1 .. Len(h[k])
             /\ new[k] \in Seq(Packet) /\ Len(new[k]) \in Nat /\ DOMAIN new[k] = 1 .. Len(new[k])
             /\ g[k] \in Seq(Packet) /\ DOMAIN g[k] = 1 .. Len(h[k]) + Len(new[k])
             /\ \A i \in 1 .. Len(h[k]) + Len(new[k]) :
                  g[k][i] = IF i =< Len(h[k]) THEN h[k][i] ELSE new[k][i - Len(h[k])]
  <2>1. h[k] \in Seq(Packet) /\ new[k] \in Seq(Packet) /\ g[k] = h[k] \o new[k]
    BY DEF Appended
  <2>2. g[k] \in Seq(Packet) /\ Len(g[k]) = Len(h[k]) + Len(new[k])
    BY <2>1, ConcatProperties
  <2> QED BY <2>1, <2>2, ConcatProperties, LenProperties
<1>3. Q = P \cup J /\ P \cap J = {}
  <2>1. ASSUME NEW k \in Link, NEW i \in Nat
        PROVE  /\ <<k, i>> \in Q <=> <<k, i>> \in P \/ <<k, i>> \in J
               /\ ~(<<k, i>> \in P /\ <<k, i>> \in J)
    <3>1. CASE i =< Len(h[k])
      <4>1. i \in DOMAIN g[k] <=> i \in DOMAIN h[k]
        BY <1>1, <3>1
      <4>2. i \in DOMAIN h[k] => g[k][i] = h[k][i]
        BY <1>1, <3>1
      <4>3. ~(i > Len(h[k]))
        BY <1>1, <3>1
      <4> QED BY <4>1, <4>2, <4>3 DEF Places, Joined
    <3>2. CASE i > Len(h[k])
      <4>1. i \notin DOMAIN h[k]
        BY <1>1, <3>2
      <4> QED BY <3>2, <4>1 DEF Places, Joined
    <3> QED BY <1>1, <3>1, <3>2
  <2>2. P \subseteq Link \X Nat /\ Q \subseteq Link \X Nat /\ J \subseteq Link \X Nat
    BY DEF Places, Joined
  <2> HIDE DEF P, Q, J
  <2> QED BY <2>1, <2>2
<1>4. IsFiniteSet(P) /\ IsFiniteSet(Q) /\ Cardinality(P) \in Nat
  BY PlacesFinite
<1>5. J \in SUBSET Q
  BY DEF Joined
<1>6. IsFiniteSet(J) /\ Cardinality(J) \in Nat
  <2> HIDE DEF J, Q
  <2> QED BY <1>4, <1>5, FS_Subset, FS_CardinalityType
<1>7. Cardinality(Q) = Cardinality(P) + Cardinality(J)
  <2> HIDE DEF J, Q, P
  <2>1. Cardinality(P \cap J) = 0
    BY <1>3, FS_EmptySet
  <2>2. Cardinality(P \cup J)
          = Cardinality(P) + Cardinality(J) - Cardinality(P \cap J)
    BY <1>4, <1>6, FS_Union
  <2> QED BY <1>3, <1>4, <1>6, <2>1, <2>2
<1>8. ASSUME NEW k \in Link, NEW i \in Nat
      PROVE  <<k, i>> \in J <=> /\ k \in K
                                /\ i - Len(h[k]) \in DOMAIN new[k]
                                /\ new[k][i - Len(h[k])] \in S
  <2>1. <<k, i>> \in J <=> k \in K /\ i \in DOMAIN g[k] /\ g[k][i] \in S /\ i > Len(h[k])
    BY DEF Joined, Places
  <2>2. i > Len(h[k]) /\ i \in DOMAIN g[k] <=> i - Len(h[k]) \in DOMAIN new[k]
    BY <1>1
  <2>3. i > Len(h[k]) /\ i \in DOMAIN g[k] => g[k][i] = new[k][i - Len(h[k])]
    <3>1. i > Len(h[k]) => ~(i =< Len(h[k]))
      BY <1>1
    <3> QED BY <1>1, <3>1
  <2> QED BY <2>1, <2>2, <2>3
<1>9. J \subseteq Link \X Nat
  BY DEF Joined, Places
<1> HIDE DEF J, P, Q
<1> QED BY <1>6, <1>7, <1>8, <1>9 DEF J, P, Q
-----------------------------------------------------------------------------
(* One answer for each request.                                            *)

From(x) == {l \in Link : l[1] = x}
To(x)   == {l \in Link : l[2] = x}

Asking(ch)   == {m \in Packet : m.kind = "interest" /\ m.chunk = ch}
Carrying(ch) == {m \in Packet : m.kind = "data" /\ m.chunk = ch}

(* The three parts of Outstanding.                                         *)
Asked(x, ch, h)   == Cardinality(Places(h, From(x), Asking(ch)))
Crumbs(x, ch, p)  == Cardinality({n \in Node : x \in p[n][ch]})
Coming(x, ch, h)  == Cardinality(Places(h, To(x), Carrying(ch)))

(* Outstanding is the sum of three natural numbers.                        *)
LEMMA OutstandingParts ==
  ASSUME TypeOK, NEW x, NEW ch
  PROVE  /\ Outstanding(x, ch) = Asked(x, ch, chan) + Crumbs(x, ch, pit) + Coming(x, ch, chan)
         /\ Asked(x, ch, chan) \in Nat /\ Crumbs(x, ch, pit) \in Nat
         /\ Coming(x, ch, chan) \in Nat
<1>1. chan \in [Link -> Seq(Packet)]
  BY DEF TypeOK, Packet
<1>2. ASSUME NEW l \in Link, NEW i \in DOMAIN chan[l]
      PROVE  i \in Nat /\ chan[l][i] \in Packet
  <2>1. chan[l] \in Seq(Packet)
    BY <1>1
  <2> QED BY <2>1, LenProperties, ElementOfSeq
<1>3. \A l, i : <<l, i>> \in InTransit <=> l \in Link /\ i \in DOMAIN chan[l]
  BY DEF InTransit
<1>4. \A p \in InTransit : \E l \in Link : \E i \in DOMAIN chan[l] : p = <<l, i>>
  BY DEF InTransit
<1>5. InterestsFrom(x, ch) = Places(chan, From(x), Asking(ch))
  <2>1. InterestsFrom(x, ch) \subseteq Places(chan, From(x), Asking(ch))
    BY <1>2, <1>4 DEF InterestsFrom, Places, From, Asking
  <2>2. ASSUME NEW p \in Places(chan, From(x), Asking(ch)) PROVE p \in InterestsFrom(x, ch)
    BY <1>3 DEF InterestsFrom, Places, From, Asking
  <2> QED BY <2>1, <2>2
<1>6. DataTo(x, ch) = Places(chan, To(x), Carrying(ch))
  <2>1. DataTo(x, ch) \subseteq Places(chan, To(x), Carrying(ch))
    BY <1>2, <1>4 DEF DataTo, Places, To, Carrying
  <2>2. ASSUME NEW p \in Places(chan, To(x), Carrying(ch)) PROVE p \in DataTo(x, ch)
    BY <1>3 DEF DataTo, Places, To, Carrying
  <2> QED BY <2>1, <2>2
<1>7. IsFiniteSet({n \in Node : x \in pit[n][ch]})
  BY FinitenessAssumption, FS_Subset
<1>8. Outstanding(x, ch) = Asked(x, ch, chan) + Crumbs(x, ch, pit) + Coming(x, ch, chan)
  BY <1>5, <1>6 DEF Outstanding, CrumbsOf, Asked, Crumbs, Coming
<1> QED BY <1>1, <1>7, <1>8, PlacesFinite, FS_CardinalityType DEF Asked, Crumbs, Coming

(* One message joins every link of dests.                                  *)
Sends(dests, msg, new) ==
  \A k \in Link : new[k] = IF k \in dests THEN <<msg>> ELSE <<>>

Gain(dests, msg, K, S) == IF msg \in S THEN Cardinality(dests \cap K) ELSE 0

(* A message sent to dests is one place more for each counted link of      *)
(* dests, if it is among the messages counted.                             *)
LEMMA SentPlaces ==
  ASSUME NEW h \in Channels, NEW new \in Channels,
         NEW g \in Channels, Appended(h, new, g),
         NEW dests, NEW msg, Sends(dests, msg, new), NEW K \in SUBSET Link, NEW S
  PROVE  Cardinality(Places(g, K, S)) =
           Cardinality(Places(h, K, S)) + Gain(dests, msg, K, S)
<1> DEFINE D == dests \cap K
           J == Joined(h, g, K, S)
<1>1. /\ IsFiniteSet(J) /\ Cardinality(J) \in Nat
      /\ J \subseteq Link \X Nat
      /\ Cardinality(Places(g, K, S)) = Cardinality(Places(h, K, S)) + Cardinality(J)
  BY JoinedPlaces
<1>2. ASSUME NEW k \in Link, NEW i \in Nat
      PROVE  <<k, i>> \in J <=> k \in D /\ i = Len(h[k]) + 1 /\ msg \in S
  <2>1. <<k, i>> \in J <=> /\ k \in K
                           /\ i - Len(h[k]) \in DOMAIN new[k]
                           /\ new[k][i - Len(h[k])] \in S
    BY JoinedPlaces
  <2>2. Len(h[k]) \in Nat
    BY LenProperties DEF Channels
  <2>3. CASE k \in dests
    <3>1. new[k] = <<msg>>
      BY <2>3 DEF Sends
    <3>2. DOMAIN new[k] = {1} /\ new[k][1] = msg
      BY <3>1
    <3>3. i - Len(h[k]) = 1 <=> i = Len(h[k]) + 1
      BY <2>2
    <3> HIDE DEF J
    <3> QED BY <2>1, <2>3, <3>2, <3>3
  <2>4. CASE k \notin dests
    <3>1. new[k] = <<>>
      BY <2>4 DEF Sends
    <3>2. DOMAIN new[k] = {}
      BY <3>1
    <3> HIDE DEF J
    <3> QED BY <2>1, <2>4, <3>2
  <2> QED BY <2>3, <2>4
<1>3. IsFiniteSet(D) /\ Cardinality(D) \in Nat
  <2>1. D \subseteq Link
    OBVIOUS
  <2> QED BY <2>1, LinkFinite, FS_Subset, FS_CardinalityType
<1>4. Cardinality(Places(h, K, S)) \in Nat
  BY PlacesFinite DEF Channels
<1>5. \A k \in Link : Len(h[k]) \in Nat
  BY LenProperties DEF Channels
<1>6. D \subseteq Link
  OBVIOUS
<1> HIDE DEF D, J
<1>7. CASE msg \in S
  <2> DEFINE f == [k \in D |-> <<k, Len(h[k]) + 1>>]
  <2>1. f \in Bijection(D, J)
    <3>1. f \in [D -> J]
      BY <1>2, <1>5, <1>6, <1>7
    <3>2. \A a, b \in D : f[a] = f[b] => a = b
      OBVIOUS
    <3>3. ASSUME NEW j \in J PROVE \E a \in D : f[a] = j
      <4>1. PICK k \in Link, i \in Nat : j = <<k, i>>
        BY <1>1
      <4> QED BY <1>2, <4>1
    <3> HIDE DEF f
    <3> QED BY <3>1, <3>2, <3>3, Fun_IsBij
  <2>2. ExistsBijection(D, J)
    BY <2>1 DEF ExistsBijection
  <2>3. Cardinality(J) = Cardinality(D)
    BY <1>1, <1>3, <2>2, FS_Bijection
  <2> QED BY <1>1, <1>3, <1>7, <2>3 DEF D, Gain
<1>8. CASE msg \notin S
  <2>1. J = {}
    BY <1>1, <1>2, <1>8
  <2>2. Cardinality(J) = 0
    BY <2>1, FS_EmptySet
  <2> QED BY <1>1, <1>3, <1>4, <1>8, <2>2 DEF D, Gain
<1> QED BY <1>7, <1>8

(* The packet at the head of l is exchanged for msg, sent to dests: what   *)
(* becomes of a count.                                                     *)
LEMMA ExchangeCount ==
  ASSUME TypeOK, NEW l \in Link, chan[l] # <<>>, NEW dests, NEW msg \in Packet,
         Transfer(l, dests, msg), NEW K \in SUBSET Link, NEW S
  PROVE  Cardinality(Places(chan', K, S)) =
           Cardinality(Places(chan, K, S)) - Loss(chan, l, K, S) + Gain(dests, msg, K, S)
<1>1. chan \in Channels
  BY DEF TypeOK, Packet, Channels
<1>2. PICK h \in Channels : Taken(chan, l, h)
  <2> DEFINE h == [k \in Link |-> IF k = l THEN Tail(chan[k]) ELSE chan[k]]
  <2>1. Taken(chan, l, h)
    BY DEF Taken
  <2>2. h \in [Link -> Seq(Packet)]
    <3> SUFFICES ASSUME NEW k \in Link
                 PROVE  (IF k = l THEN Tail(chan[k]) ELSE chan[k]) \in Seq(Packet)
      OBVIOUS
    <3> QED BY <1>1, HeadTailProperties DEF Channels
  <2> QED BY <2>1, <2>2 DEF Channels
<1>3. PICK new \in Channels : Sends(dests, msg, new)
  <2> DEFINE new == [k \in Link |-> IF k \in dests THEN <<msg>> ELSE <<>>]
  <2>1. Sends(dests, msg, new)
    BY DEF Sends
  <2>2. <<msg>> \in Seq(Packet) /\ <<>> \in Seq(Packet)
    OBVIOUS
  <2>3. new \in [Link -> Seq(Packet)]
    BY <2>2
  <2> QED BY <2>1, <2>3 DEF Channels
<1>4. chan' = [k \in Link |-> h[k] \o new[k]]
  BY <1>2, <1>3 DEF Transfer, Taken, Sends
<1>5. chan' \in Channels
  <2> SUFFICES ASSUME NEW k \in Link PROVE h[k] \o new[k] \in Seq(Packet)
    BY <1>4 DEF Channels
  <2> QED BY ConcatProperties DEF Channels
<1>6. Appended(h, new, chan')
  BY <1>4 DEF Appended
<1>7. Cardinality(Places(h, K, S)) = Cardinality(Places(chan, K, S)) - Loss(chan, l, K, S)
  BY <1>1, <1>2, TakenPlaces
<1>8. Cardinality(Places(chan', K, S)) =
        Cardinality(Places(h, K, S)) + Gain(dests, msg, K, S)
  BY <1>3, <1>5, <1>6, SentPlaces
<1> QED BY <1>7, <1>8
-----------------------------------------------------------------------------
(* What an exchange does to the interests x sent and to the data going to  *)
(* x: it takes the packet at the head of l and adds a message of dests.    *)
LEMMA HeadLoss ==
  ASSUME TypeOK, NEW l \in Link, chan[l] # <<>>, NEW x, NEW ch
  PROVE  LET h == Head(chan[l])
         IN  /\ Loss(chan, l, From(x), Asking(ch)) =
                  IF l[1] = x /\ h.kind = "interest" /\ h.chunk = ch THEN 1 ELSE 0
             /\ Loss(chan, l, To(x), Carrying(ch)) =
                  IF l[2] = x /\ h.kind = "data" /\ h.chunk = ch THEN 1 ELSE 0
<1>1. Head(chan[l]) \in Packet
  BY HeadType
<1> QED BY <1>1 DEF Loss, From, To, Asking, Carrying

(* Nothing sent adds nothing.                                              *)
LEMMA NoGain == ASSUME NEW msg, NEW K, NEW S PROVE Gain({}, msg, K, S) = 0
<1>1. {} \cap K = {}
  OBVIOUS
<1> QED BY <1>1, FS_EmptySet DEF Gain

(* A message sent on one link adds at most one place.                      *)
LEMMA OneGain ==
  ASSUME NEW k, NEW msg, NEW K, NEW S
  PROVE  Gain({k}, msg, K, S) = IF k \in K /\ msg \in S THEN 1 ELSE 0
<1>1. CASE k \in K
  <2>1. {k} \cap K = {k}
    BY <1>1
  <2>2. Cardinality({k}) = 1
    BY FS_Singleton
  <2> QED BY <1>1, <2>1, <2>2 DEF Gain
<1>2. CASE k \notin K
  <2>1. {k} \cap K = {}
    BY <1>2
  <2> QED BY <1>2, <2>1, FS_EmptySet DEF Gain
<1> QED BY <1>1, <1>2

(* The sum for x when nothing but the links changes.                       *)
LEMMA ExchangeAsked ==
  ASSUME TypeOK, NEW l \in Link, chan[l] # <<>>, NEW dests, NEW msg \in Packet,
         Transfer(l, dests, msg), NEW x, NEW ch
  PROVE  /\ Asked(x, ch, chan') =
              Asked(x, ch, chan) - Loss(chan, l, From(x), Asking(ch))
                                 + Gain(dests, msg, From(x), Asking(ch))
         /\ Coming(x, ch, chan') =
              Coming(x, ch, chan) - Loss(chan, l, To(x), Carrying(ch))
                                  + Gain(dests, msg, To(x), Carrying(ch))
<1>1. From(x) \in SUBSET Link /\ To(x) \in SUBSET Link
  BY DEF From, To
<1> QED BY <1>1, ExchangeCount DEF Asked, Coming

(* The PITs, pointwise.                                                    *)
FaceAdded(p, q, n, c0, f) ==
  \A m \in Node, y \in Chunk : q[m][y] = IF m = n /\ y = c0 THEN p[m][y] \cup {f} ELSE p[m][y]

FacesErased(p, q, n, c0) ==
  \A m \in Node, y \in Chunk : q[m][y] = IF m = n /\ y = c0 THEN {} ELSE p[m][y]

(* The nodes that wait for ch to forward it to x are a finite set, which   *)
(* their number 0 makes empty.                                             *)
LEMMA CrumbsAre ==
  ASSUME NEW p, NEW x, NEW ch
  PROVE  /\ IsFiniteSet({n \in Node : x \in p[n][ch]})
         /\ Crumbs(x, ch, p) \in Nat
         /\ Crumbs(x, ch, p) = 0 => \A n \in Node : x \notin p[n][ch]
<1> DEFINE S == {n \in Node : x \in p[n][ch]}
<1>1. IsFiniteSet(S)
  BY FinitenessAssumption, FS_Subset
<1>2. Cardinality(S) = 0 => S = {}
  <2> HIDE DEF S
  <2> QED BY <1>1, FS_EmptySet
<1>3. Cardinality(S) \in Nat
  <2> HIDE DEF S
  <2> QED BY <1>1, FS_CardinalityType
<1> QED BY <1>1, <1>2, <1>3 DEF Crumbs

(* add_to_pit leaves a breadcrumb for f if there was none.                 *)
LEMMA CrumbAdded ==
  ASSUME NEW p, NEW q, NEW n \in Node, NEW c0 \in Chunk, NEW f, FaceAdded(p, q, n, c0, f),
         NEW x, NEW ch \in Chunk
  PROVE  Crumbs(x, ch, q) = Crumbs(x, ch, p)
           + IF x = f /\ ch = c0 /\ f \notin p[n][c0] THEN 1 ELSE 0
<1> DEFINE P == {m \in Node : x \in p[m][ch]}
           Q == {m \in Node : x \in q[m][ch]}
<1>1. IsFiniteSet(P) /\ Cardinality(P) \in Nat
  BY CrumbsAre DEF Crumbs
<1>2. Q = IF x = f /\ ch = c0 THEN P \cup {n} ELSE P
  <2>1. ASSUME NEW m \in Node
        PROVE  x \in q[m][ch] <=> x \in p[m][ch] \/ (m = n /\ ch = c0 /\ x = f)
    BY DEF FaceAdded
  <2> QED BY <2>1
<1>3. n \in P <=> x \in p[n][ch]
  OBVIOUS
<1> HIDE DEF P, Q
<1>4. Cardinality(P \cup {n}) = IF n \in P THEN Cardinality(P) ELSE Cardinality(P) + 1
  BY <1>1, FS_AddElement
<1>5. Cardinality(Q) = Cardinality(P) + IF x = f /\ ch = c0 /\ f \notin p[n][c0] THEN 1 ELSE 0
  <2>1. CASE x = f /\ ch = c0 /\ f \notin p[n][c0]
    BY <1>2, <1>3, <1>4, <2>1
  <2>2. CASE x = f /\ ch = c0 /\ f \in p[n][c0]
    BY <1>1, <1>2, <1>3, <1>4, <2>2
  <2>3. CASE ~(x = f /\ ch = c0)
    BY <1>1, <1>2, <2>3
  <2> QED BY <2>1, <2>2, <2>3
<1> QED BY <1>5 DEF P, Q, Crumbs

(* erase_pit takes away the breadcrumb of every face of the entry.         *)
LEMMA CrumbsErased ==
  ASSUME NEW p, NEW q, NEW n \in Node, NEW c0 \in Chunk, FacesErased(p, q, n, c0),
         NEW x, NEW ch \in Chunk
  PROVE  /\ ch = c0 /\ x \in p[n][c0] => Crumbs(x, ch, q) = Crumbs(x, ch, p) - 1
         /\ x \notin p[n][c0] => Crumbs(x, ch, q) = Crumbs(x, ch, p)
<1> DEFINE P == {m \in Node : x \in p[m][ch]}
           Q == {m \in Node : x \in q[m][ch]}
<1>1. IsFiniteSet(P) /\ Cardinality(P) \in Nat
  BY CrumbsAre DEF Crumbs
<1>2. Q = IF ch = c0 THEN P \ {n} ELSE P
  <2>1. ASSUME NEW m \in Node
        PROVE  x \in q[m][ch] <=> x \in p[m][ch] /\ ~(m = n /\ ch = c0)
    BY DEF FacesErased
  <2> QED BY <2>1
<1>3. n \in P <=> x \in p[n][ch]
  OBVIOUS
<1> HIDE DEF P, Q
<1>4. Cardinality(P \ {n}) = IF n \in P THEN Cardinality(P) - 1 ELSE Cardinality(P)
  BY <1>1, FS_RemoveElement
<1>5. /\ ch = c0 /\ x \in p[n][c0] => Cardinality(Q) = Cardinality(P) - 1
      /\ x \notin p[n][c0] => Cardinality(Q) = Cardinality(P)
  BY <1>1, <1>2, <1>3, <1>4
<1> QED BY <1>5 DEF P, Q, Crumbs
-----------------------------------------------------------------------------
(* The sum that OneAnswerPerRequest is about.                              *)
Weight(x, ch, p, h) == Asked(x, ch, h) + Crumbs(x, ch, p) + Coming(x, ch, h)

OneEach ==
  \A x \in Node, ch \in Chunk :
    Weight(x, ch, pit, chan) = IF pit[x][ch] = {} THEN 0 ELSE 1

(* Every interest is as its client made it: without a target and open to   *)
(* aggregation.                                                            *)
Plain == {p \in Link \X Packet :
            p[2].kind = "interest" => p[2].target = NoTarget /\ p[2].aggregate}

(* The three parts are numbers.                                            *)
LEMMA PartsType ==
  ASSUME TypeOK, NEW x, NEW ch
  PROVE  /\ Asked(x, ch, chan) \in Nat /\ Coming(x, ch, chan) \in Nat
         /\ Crumbs(x, ch, pit) \in Nat
BY OutstandingParts

(* A hit turns a request of l[1] into an answer to it.                     *)
LEMMA OneEachHit ==
  ASSUME TypeOK, OneEach, NEW l \in Link, CacheHit(l) \/ RepoHit(l)
  PROVE  OneEach'
<1> DEFINE h == Head(chan[l])
           n == l[2]
<1>1. /\ chan[l] # <<>> /\ n \in Node /\ h.kind = "interest" /\ h \in Interest
      /\ pit' = pit
  BY HeadType DEF CacheHit, RepoHit, InterestArrives, Arrives, Packet, Data
<1>2. \E msg \in Packet : /\ msg.kind = "data" /\ msg.chunk = h.chunk
                          /\ Transfer(l, {<<n, l[1]>>}, msg)
  <2>1. \A k \in Int : NewData(h.chunk, k, n) \in Packet
    BY <1>1 DEF NewData, Packet, Data, Interest
  <2>2. \E k \in Int : Transfer(l, {<<n, l[1]>>}, NewData(h.chunk, k, n))
    BY DEF CacheHit, RepoHit
  <2>3. PICK k \in Int : Transfer(l, {<<n, l[1]>>}, NewData(h.chunk, k, n))
    BY <2>2
  <2>4. NewData(h.chunk, k, n).kind = "data" /\ NewData(h.chunk, k, n).chunk = h.chunk
    BY DEF NewData
  <2> QED BY <2>1, <2>3, <2>4
<1>3. PICK msg \in Packet : /\ msg.kind = "data" /\ msg.chunk = h.chunk
                            /\ Transfer(l, {<<n, l[1]>>}, msg)
  BY <1>2
<1>4. <<n, l[1]>> \in Link
  BY LinkReverse
<1> SUFFICES ASSUME NEW x \in Node, NEW ch \in Chunk
             PROVE  Weight(x, ch, pit', chan') = IF pit'[x][ch] = {} THEN 0 ELSE 1
  BY DEF OneEach
<1>5. /\ Asked(x, ch, chan') =
           Asked(x, ch, chan) - Loss(chan, l, From(x), Asking(ch))
                              + Gain({<<n, l[1]>>}, msg, From(x), Asking(ch))
      /\ Coming(x, ch, chan') =
           Coming(x, ch, chan) - Loss(chan, l, To(x), Carrying(ch))
                               + Gain({<<n, l[1]>>}, msg, To(x), Carrying(ch))
  BY <1>1, <1>3, ExchangeAsked
<1>6. /\ Loss(chan, l, From(x), Asking(ch)) = IF l[1] = x /\ h.chunk = ch THEN 1 ELSE 0
      /\ Loss(chan, l, To(x), Carrying(ch)) = 0
  BY <1>1, HeadLoss
<1>7. /\ Gain({<<n, l[1]>>}, msg, From(x), Asking(ch)) = 0
      /\ Gain({<<n, l[1]>>}, msg, To(x), Carrying(ch)) = IF l[1] = x /\ h.chunk = ch THEN 1 ELSE 0
  <2>1. msg \notin Asking(ch)
    BY <1>3 DEF Asking
  <2>2. <<n, l[1]>> \in To(x) /\ msg \in Carrying(ch) <=> l[1] = x /\ h.chunk = ch
    BY <1>3, <1>4 DEF To, Carrying
  <2>3. Gain({<<n, l[1]>>}, msg, From(x), Asking(ch)) =
          IF <<n, l[1]>> \in From(x) /\ msg \in Asking(ch) THEN 1 ELSE 0
    BY OneGain
  <2>4. Gain({<<n, l[1]>>}, msg, To(x), Carrying(ch)) =
          IF <<n, l[1]>> \in To(x) /\ msg \in Carrying(ch) THEN 1 ELSE 0
    BY OneGain
  <2> QED BY <2>1, <2>2, <2>3, <2>4
<1>8. Weight(x, ch, pit, chan) = IF pit[x][ch] = {} THEN 0 ELSE 1
  BY DEF OneEach
<1>9. Weight(x, ch, pit', chan') = Weight(x, ch, pit, chan)
  <2> HIDE DEF h, n
  <2>1. Crumbs(x, ch, pit') = Crumbs(x, ch, pit)
    BY <1>1
  <2> QED BY <1>5, <1>6, <1>7, <2>1, PartsType DEF Weight
<1> QED BY <1>1, <1>8, <1>9

(* A node that starts to wait sends one interest; the sender of the        *)
(* interest it got waits for it in the PIT.                                *)
LEMMA OneEachForward ==
  ASSUME FS = "spr", TypeOK, Calm, OneEach, NEW l \in Link, ForwardInterest(l),
         pit[l[2]][Head(chan[l]).chunk] = {}
  PROVE  OneEach'
<1> DEFINE h == Head(chan[l])
           n == l[2]
<1>1. /\ Miss(l) /\ AddToPit(n, l[1], Hopped(h)) /\ chan[l] # <<>> /\ n \in Node
      /\ h.kind = "interest" /\ h \in Interest /\ h.chunk \in Chunk
      /\ n \notin Repos[h.chunk[1]] /\ Repos[h.chunk[1]] \subseteq Node
      /\ AtTarget(n, Hopped(h)).chunk = h.chunk /\ AtTarget(n, Hopped(h)) \in Interest
  BY MissFacts DEF ForwardInterest
<1>2. FaceAdded(pit, pit', n, h.chunk, l[1])
  BY <1>1, CalmKeepsFaces DEF FaceAdded
<1>3. \E b \in Node : \E msg \in Packet :
        /\ <<n, b>> \in Link /\ msg.kind = "interest" /\ msg.chunk = h.chunk
        /\ Transfer(l, {<<n, b>>}, msg)
  <2>1. PICK d \in DecisionsOn(l) : Transfer(l, {<<n, f>> : f \in d.out}, d.msg)
    BY DEF ForwardInterest, DecisionsOn
  <2>2. PICK r \in Repos[h.chunk[1]] : d = Toward(n, {r}, AtTarget(n, Hopped(h)))
    BY <1>1, <2>1 DEF DecisionsOn, GetDecision, ShortestPath, Nearest
  <2>3. r \in Node \ {n}
    BY <1>1
  <2>4. d.out = {Fib[n][r]} /\ d.msg = AtTarget(n, Hopped(h))
    BY <2>2 DEF Toward
  <2>5. {<<n, f>> : f \in d.out} = {<<n, Fib[n][r]>>}
    BY <2>4
  <2>6. <<n, Fib[n][r]>> \in Link /\ Fib[n][r] \in Node
    BY <1>1, <2>3, RouteIsLink
  <2>7. d.msg \in Packet /\ d.msg.kind = "interest" /\ d.msg.chunk = h.chunk
    BY <1>1, <2>4 DEF Packet, Interest
  <2> QED BY <2>1, <2>5, <2>6, <2>7
<1>4. PICK b \in Node : \E msg \in Packet :
        /\ <<n, b>> \in Link /\ msg.kind = "interest" /\ msg.chunk = h.chunk
        /\ Transfer(l, {<<n, b>>}, msg)
  BY <1>3
<1>5. PICK msg \in Packet :
        /\ <<n, b>> \in Link /\ msg.kind = "interest" /\ msg.chunk = h.chunk
        /\ Transfer(l, {<<n, b>>}, msg)
  BY <1>4
<1> SUFFICES ASSUME NEW x \in Node, NEW ch \in Chunk
             PROVE  Weight(x, ch, pit', chan') = IF pit'[x][ch] = {} THEN 0 ELSE 1
  BY DEF OneEach
<1>6. /\ Asked(x, ch, chan') =
           Asked(x, ch, chan) - Loss(chan, l, From(x), Asking(ch))
                              + Gain({<<n, b>>}, msg, From(x), Asking(ch))
      /\ Coming(x, ch, chan') =
           Coming(x, ch, chan) - Loss(chan, l, To(x), Carrying(ch))
                               + Gain({<<n, b>>}, msg, To(x), Carrying(ch))
  BY <1>1, <1>5, ExchangeAsked
<1>7. /\ Loss(chan, l, From(x), Asking(ch)) = IF l[1] = x /\ h.chunk = ch THEN 1 ELSE 0
      /\ Loss(chan, l, To(x), Carrying(ch)) = 0
  BY <1>1, HeadLoss
<1>8. /\ Gain({<<n, b>>}, msg, From(x), Asking(ch)) = IF n = x /\ h.chunk = ch THEN 1 ELSE 0
      /\ Gain({<<n, b>>}, msg, To(x), Carrying(ch)) = 0
  <2>1. msg \notin Carrying(ch)
    BY <1>5 DEF Carrying
  <2>2. <<n, b>> \in From(x) /\ msg \in Asking(ch) <=> n = x /\ h.chunk = ch
    BY <1>5 DEF From, Asking
  <2> QED BY <2>1, <2>2, OneGain
<1>9. Crumbs(x, ch, pit') = Crumbs(x, ch, pit)
        + IF x = l[1] /\ ch = h.chunk /\ l[1] \notin pit[n][h.chunk] THEN 1 ELSE 0
  BY <1>1, <1>2, CrumbAdded
<1>10. Weight(x, ch, pit, chan) = IF pit[x][ch] = {} THEN 0 ELSE 1
  BY DEF OneEach
<1>11. pit'[x][ch] = IF x = n /\ ch = h.chunk THEN pit[x][ch] \cup {l[1]} ELSE pit[x][ch]
  BY <1>2 DEF FaceAdded
<1> HIDE DEF h, n
<1>12. pit[n][h.chunk] = {}
  BY DEF h, n
<1>13. Weight(x, ch, pit', chan')
         = Weight(x, ch, pit, chan) + IF x = n /\ ch = h.chunk THEN 1 ELSE 0
  BY <1>6, <1>7, <1>8, <1>9, <1>12, PartsType DEF Weight
<1> QED BY <1>10, <1>11, <1>12, <1>13

(* An interest that is aggregated is the one thing on its way for its      *)
(* sender, which therefore is not in the PIT yet.                          *)
LEMMA OneEachAggregate ==
  ASSUME TypeOK, Calm, OneEach, NEW l \in Link, AggregateInterest(l)
  PROVE  OneEach'
<1> DEFINE h == Head(chan[l])
           n == l[2]
<1>1. /\ Miss(l) /\ AddToPit(n, l[1], Hopped(h)) /\ chan[l] # <<>> /\ n \in Node
      /\ h.kind = "interest" /\ h \in Packet /\ h.chunk \in Chunk
      /\ Transfer(l, {}, h)
  BY MissFacts DEF AggregateInterest, Packet
<1>2. /\ FaceAdded(pit, pit', n, h.chunk, l[1])
      /\ pit[n][h.chunk] # {}
  BY <1>1, CalmKeepsFaces DEF FaceAdded, AggregateInterest, WillForward
<1> SUFFICES ASSUME NEW x \in Node, NEW ch \in Chunk
             PROVE  Weight(x, ch, pit', chan') = IF pit'[x][ch] = {} THEN 0 ELSE 1
  BY DEF OneEach
<1>3. /\ Asked(x, ch, chan') =
           Asked(x, ch, chan) - Loss(chan, l, From(x), Asking(ch))
                              + Gain({}, h, From(x), Asking(ch))
      /\ Coming(x, ch, chan') =
           Coming(x, ch, chan) - Loss(chan, l, To(x), Carrying(ch))
                               + Gain({}, h, To(x), Carrying(ch))
  BY <1>1, ExchangeAsked
<1>4. /\ Loss(chan, l, From(x), Asking(ch)) = IF l[1] = x /\ h.chunk = ch THEN 1 ELSE 0
      /\ Loss(chan, l, To(x), Carrying(ch)) = 0
  BY <1>1, HeadLoss
<1>5. /\ Gain({}, h, From(x), Asking(ch)) = 0
      /\ Gain({}, h, To(x), Carrying(ch)) = 0
  BY NoGain
<1>6. Crumbs(x, ch, pit') = Crumbs(x, ch, pit)
        + IF x = l[1] /\ ch = h.chunk /\ l[1] \notin pit[n][h.chunk] THEN 1 ELSE 0
  BY <1>1, <1>2, CrumbAdded
<1>7. Weight(x, ch, pit, chan) = IF pit[x][ch] = {} THEN 0 ELSE 1
  BY DEF OneEach
<1>8. pit'[x][ch] = {} <=> pit[x][ch] = {}
  BY <1>2 DEF FaceAdded
<1>9. x = l[1] /\ ch = h.chunk => l[1] \notin pit[n][h.chunk]
  <2> SUFFICES ASSUME x = l[1], ch = h.chunk PROVE x \notin pit[n][ch]
    OBVIOUS
  <2>1. Asked(x, ch, chan') \in Nat
    <3>1. chan' \in [Link -> Seq(Packet)]
      BY TypeNext DEF TypeOK, Packet, Next, Deliver
    <3> QED BY <3>1, PlacesFinite DEF Asked
  <2>2. Asked(x, ch, chan) >= 1
    BY <1>3, <1>4, <1>5, <2>1, PartsType
  <2>3. Crumbs(x, ch, pit) = 0
    BY <1>7, <2>2, PartsType DEF Weight
  <2> QED BY <1>1, <2>3, CrumbsAre
<1> HIDE DEF h, n
<1> QED BY <1>3, <1>4, <1>5, <1>6, <1>7, <1>8, <1>9, PartsType DEF Weight
-----------------------------------------------------------------------------
(* What the faces F of n gain when a message goes to all of them.          *)
ToFaces(n, F) == {<<n, f>> : f \in F}

(* A message sent to the faces F is one place more towards x if x is one   *)
(* of them.                                                                *)
LEMMA FacesGain ==
  ASSUME NEW n \in Node, NEW F, \A f \in F : <<n, f>> \in Link, NEW msg, NEW S, NEW x
  PROVE  Gain(ToFaces(n, F), msg, To(x), S) = IF x \in F /\ msg \in S THEN 1 ELSE 0
<1> DEFINE dests == ToFaces(n, F)
<1>1. CASE x \in F
  <2>1. dests \cap To(x) = {<<n, x>>}
    BY <1>1 DEF To, ToFaces
  <2>2. Cardinality({<<n, x>>}) = 1
    BY FS_Singleton
  <2> QED BY <1>1, <2>1, <2>2 DEF Gain
<1>2. CASE x \notin F
  <2>1. dests \cap To(x) = {}
    BY <1>2 DEF To, ToFaces
  <2> QED BY <1>2, <2>1, FS_EmptySet DEF Gain
<1> QED BY <1>1, <1>2

(* Data for an entry turns the crumbs of its faces into answers, and no    *)
(* other data is on its way to the node.                                   *)
LEMMA OneEachData ==
  ASSUME TypeOK, FacesLinked, OneEach, NEW l \in Link, PendingData(l)
  PROVE  OneEach'
<1> DEFINE h == Head(chan[l])
           n == l[2]
           F == pit[n][h.chunk]
           dests == ToFaces(n, F)
<1>1. /\ chan[l] # <<>> /\ n \in Node /\ h.kind = "data" /\ h.chunk \in Chunk
      /\ Hopped(h) \in Data /\ Hopped(h).chunk = h.chunk
  BY HeadType DEF PendingData, Arrives
<1>2. Hopped(h) \in Packet /\ Hopped(h).kind = "data"
  BY <1>1 DEF Packet, Data
<1>3. FacesErased(pit, pit', n, h.chunk)
  <2>1. ErasePit(n, h.chunk)
    BY <1>1 DEF PendingData
  <2> HIDE DEF h, n
  <2> QED BY <1>1, <2>1, ErasedFaces DEF FacesErased
<1>4. Transfer(l, dests, Hopped(h)) /\ F # {}
  BY <1>1 DEF PendingData, WaitingFaces, ToFaces
<1>5. \A f \in F : <<n, f>> \in Link
  BY <1>1 DEF FacesLinked
<1> SUFFICES ASSUME NEW x \in Node, NEW ch \in Chunk
             PROVE  Weight(x, ch, pit', chan') = IF pit'[x][ch] = {} THEN 0 ELSE 1
  BY DEF OneEach
<1> HIDE DEF dests
<1>6. /\ Asked(x, ch, chan') =
           Asked(x, ch, chan) - Loss(chan, l, From(x), Asking(ch))
                              + Gain(dests, Hopped(h), From(x), Asking(ch))
      /\ Coming(x, ch, chan') =
           Coming(x, ch, chan) - Loss(chan, l, To(x), Carrying(ch))
                               + Gain(dests, Hopped(h), To(x), Carrying(ch))
  BY <1>1, <1>2, <1>4, ExchangeAsked
<1>7. /\ Loss(chan, l, From(x), Asking(ch)) = 0
      /\ Loss(chan, l, To(x), Carrying(ch)) = IF n = x /\ h.chunk = ch THEN 1 ELSE 0
  BY <1>1, HeadLoss
<1>8. Gain(dests, Hopped(h), From(x), Asking(ch)) = 0
  <2>1. Hopped(h) \notin Asking(ch)
    BY <1>2 DEF Asking
  <2> QED BY <2>1 DEF Gain
<1>9. Gain(dests, Hopped(h), To(x), Carrying(ch)) = IF x \in F /\ h.chunk = ch THEN 1 ELSE 0
  <2>1. Hopped(h) \in Carrying(ch) <=> h.chunk = ch
    BY <1>1, <1>2 DEF Carrying
  <2>2. Gain(dests, Hopped(h), To(x), Carrying(ch)) =
          IF x \in F /\ Hopped(h) \in Carrying(ch) THEN 1 ELSE 0
    BY <1>1, <1>5, FacesGain DEF dests
  <2> QED BY <2>1, <2>2
<1>10. Crumbs(x, ch, pit') = Crumbs(x, ch, pit) - IF ch = h.chunk /\ x \in F THEN 1 ELSE 0
  <2>1. PICK c0 \in Chunk : c0 = h.chunk
    BY <1>1
  <2>2. PICK n0 \in Node : n0 = n
    BY <1>1
  <2>3. FacesErased(pit, pit', n0, c0) /\ F = pit[n0][c0]
    BY <1>3, <2>1, <2>2
  <2> HIDE DEF F
  <2>4. CASE ch = c0 /\ x \in pit[n0][c0]
    <3>1. Crumbs(x, ch, pit') = Crumbs(x, ch, pit) - 1
      BY <2>3, <2>4, CrumbsErased
    <3> QED BY <2>1, <2>3, <2>4, <3>1
  <2>5. CASE ch # c0
    <3>1. {m \in Node : x \in pit'[m][ch]} = {m \in Node : x \in pit[m][ch]}
      <4>1. \A m \in Node : pit'[m][ch] = pit[m][ch]
        BY <2>3, <2>5 DEF FacesErased
      <4> QED BY <4>1
    <3>2. Crumbs(x, ch, pit') = Crumbs(x, ch, pit)
      BY <3>1 DEF Crumbs
    <3> QED BY <2>1, <2>5, <3>2, PartsType
  <2>6. CASE x \notin pit[n0][c0]
    <3>1. Crumbs(x, ch, pit') = Crumbs(x, ch, pit)
      BY <2>3, <2>6, CrumbsErased
    <3> QED BY <2>3, <2>6, <3>1, PartsType
  <2> QED BY <2>4, <2>5, <2>6
<1>11. Weight(x, ch, pit, chan) = IF pit[x][ch] = {} THEN 0 ELSE 1
  BY DEF OneEach
<1>12. pit'[x][ch] = IF x = n /\ ch = h.chunk THEN {} ELSE pit[x][ch]
  BY <1>3 DEF FacesErased
<1>13. Weight(x, ch, pit', chan')
         = Weight(x, ch, pit, chan) - IF x = n /\ ch = h.chunk THEN 1 ELSE 0
  <2> HIDE DEF h, n, F
  <2> QED BY <1>6, <1>7, <1>8, <1>9, <1>10, PartsType DEF Weight
<1>14. x = n /\ ch = h.chunk => pit[x][ch] # {}
  BY <1>4
<1> HIDE DEF h, n, F
<1> QED BY <1>11, <1>12, <1>13, <1>14

(* No data arrives that nobody waits for.                                  *)
LEMMA NoneUnsolicited ==
  ASSUME TypeOK, OneEach, NEW l \in Link
  PROVE  ~UnsolicitedData(l)
<1> DEFINE h == Head(chan[l])
           n == l[2]
<1> SUFFICES ASSUME UnsolicitedData(l) PROVE FALSE
  OBVIOUS
<1>1. /\ chan[l] # <<>> /\ n \in Node /\ h.kind = "data" /\ h.chunk \in Chunk
      /\ h \in Packet /\ Transfer(l, {}, h) /\ pit[n][h.chunk] = {}
  BY HeadType DEF UnsolicitedData, Arrives
<1>2. Coming(n, h.chunk, chan') = Coming(n, h.chunk, chan)
                                    - Loss(chan, l, To(n), Carrying(h.chunk))
                                    + Gain({}, h, To(n), Carrying(h.chunk))
  BY <1>1, ExchangeAsked
<1>3. Loss(chan, l, To(n), Carrying(h.chunk)) = 1
  BY <1>1, HeadLoss
<1>4. Gain({}, h, To(n), Carrying(h.chunk)) = 0
  BY NoGain
<1>5. Coming(n, h.chunk, chan') \in Nat
  <2>1. chan' \in [Link -> Seq(Packet)]
    BY TypeNext DEF TypeOK, Packet, Next, Deliver
  <2> QED BY <2>1, PlacesFinite DEF Coming
<1>6. Weight(n, h.chunk, pit, chan) = 0
  BY <1>1 DEF OneEach
<1> HIDE DEF h, n
<1> QED BY <1>2, <1>3, <1>4, <1>5, <1>6, PartsType DEF Weight

(* The client only takes the chunk from its link: there is no next one.    *)
LEMMA OneEachChunk ==
  ASSUME \A f \in Name : Size[f] = 1, TypeOK, OneEach, NEW l \in Link, ChunkArrives(l)
  PROVE  OneEach'
<1> DEFINE h == Head(chan[l])
<1>1. /\ chan[l] # <<>> /\ l[2] \in Client /\ h.kind = "data" /\ h.chunk \in Chunk
      /\ h \in Packet /\ pit' = pit
  BY HeadType DEF ChunkArrives, Arrives
<1>2. NextChunk(h.chunk) \notin Chunk
  BY <1>1 DEF NextChunk, Chunk
<1>3. Transfer(l, {}, h)
  <2>1. chan' = [k \in Link |-> IF k = l THEN Tail(chan[k]) ELSE chan[k]]
    BY <1>2 DEF ChunkArrives
  <2>2. \A k \in Link : (IF k = l THEN Tail(chan[k]) ELSE chan[k]) \o <<>>
                          = IF k = l THEN Tail(chan[k]) ELSE chan[k]
    <3>1. \A k \in Link : chan[k] \in Seq(Packet)
      BY DEF TypeOK, Packet
    <3> QED BY <1>1, <3>1, HeadTailProperties, ConcatEmptySeq
  <2> QED BY <2>1, <2>2 DEF Transfer
<1> SUFFICES ASSUME NEW x \in Node, NEW ch \in Chunk
             PROVE  Weight(x, ch, pit', chan') = IF pit'[x][ch] = {} THEN 0 ELSE 1
  BY DEF OneEach
<1>4. /\ Asked(x, ch, chan') =
           Asked(x, ch, chan) - Loss(chan, l, From(x), Asking(ch))
                              + Gain({}, h, From(x), Asking(ch))
      /\ Coming(x, ch, chan') =
           Coming(x, ch, chan) - Loss(chan, l, To(x), Carrying(ch))
                               + Gain({}, h, To(x), Carrying(ch))
  BY <1>1, <1>3, ExchangeAsked
<1>5. l[2] # x
  BY <1>1, NodeAssumption
<1>6. Loss(chan, l, From(x), Asking(ch)) = 0 /\ Loss(chan, l, To(x), Carrying(ch)) = 0
  BY <1>1, <1>5, HeadLoss
<1>7. Gain({}, h, From(x), Asking(ch)) = 0 /\ Gain({}, h, To(x), Carrying(ch)) = 0
  BY NoGain
<1>8. Weight(x, ch, pit, chan) = IF pit[x][ch] = {} THEN 0 ELSE 1
  BY DEF OneEach
<1>9. Weight(x, ch, pit', chan') = Weight(x, ch, pit, chan)
  <2> HIDE DEF h
  <2>1. Crumbs(x, ch, pit') = Crumbs(x, ch, pit)
    BY <1>1
  <2> QED BY <1>4, <1>6, <1>7, <2>1, PartsType DEF Weight
<1> QED BY <1>1, <1>8, <1>9

(* A client's request is on its way for the client and for no node.        *)
LEMMA OneEachRequest ==
  ASSUME TypeOK, OneEach, NEW c \in Client, RequestFile(c)
  PROVE  OneEach'
<1>1. PICK f \in Name :
        chan' = [chan EXCEPT ![Up(c)] = Append(@, NewInterest(<<f, 0>>, NoTarget, FALSE))]
  BY DEF RequestFile
<1> DEFINE e == NewInterest(<<f, 0>>, NoTarget, FALSE)
           new == [k \in Link |-> IF k \in {Up(c)} THEN <<e>> ELSE <<>>]
<1>2. e \in Packet /\ e.kind = "interest" /\ pit' = pit
  BY CatalogueAssumption DEF RequestFile, NewInterest, Packet, Interest, Chunk
<1>3. chan \in Channels /\ chan' \in Channels
  BY TypeNext DEF TypeOK, Packet, Next, Channels
<1>4. Sends({Up(c)}, e, new)
  BY DEF Sends
<1>5. new \in Channels
  <2>1. <<e>> \in Seq(Packet) /\ <<>> \in Seq(Packet)
    <3> HIDE DEF e
    <3> QED BY <1>2
  <2> QED BY <2>1 DEF Channels
<1>6. Appended(chan, new, chan')
  <2> SUFFICES ASSUME NEW k \in Link PROVE chan'[k] = chan[k] \o new[k]
    BY DEF Appended
  <2>1. chan[k] \in Seq(Packet) /\ e \in Packet
    BY <1>2, <1>3 DEF Channels
  <2>2. chan'[k] = IF k = Up(c) THEN Append(chan[k], e) ELSE chan[k]
    BY <1>1, <1>3 DEF Channels
  <2>3. Append(chan[k], e) = chan[k] \o <<e>> /\ chan[k] \o <<>> = chan[k]
    BY <2>1, AppendIsConcat, ConcatEmptySeq
  <2> QED BY <2>2, <2>3
<1> SUFFICES ASSUME NEW x \in Node, NEW ch \in Chunk
             PROVE  Weight(x, ch, pit', chan') = IF pit'[x][ch] = {} THEN 0 ELSE 1
  BY DEF OneEach
<1> HIDE DEF e, new
<1>7. From(x) \in SUBSET Link /\ To(x) \in SUBSET Link
  BY DEF From, To
<1>8. /\ Asked(x, ch, chan') = Asked(x, ch, chan) + Gain({Up(c)}, e, From(x), Asking(ch))
      /\ Coming(x, ch, chan') = Coming(x, ch, chan) + Gain({Up(c)}, e, To(x), Carrying(ch))
  <2>1. \A K \in SUBSET Link : \A S :
          Cardinality(Places(chan', K, S)) =
            Cardinality(Places(chan, K, S)) + Gain({Up(c)}, e, K, S)
    BY <1>3, <1>4, <1>5, <1>6, SentPlaces
  <2> QED BY <1>7, <2>1 DEF Asked, Coming
<1>9. Up(c) \notin From(x) /\ e \notin Carrying(ch)
  BY <1>2, NodeAssumption DEF Up, From, Carrying
<1>10. /\ Gain({Up(c)}, e, From(x), Asking(ch)) =
            IF Up(c) \in From(x) /\ e \in Asking(ch) THEN 1 ELSE 0
       /\ Gain({Up(c)}, e, To(x), Carrying(ch)) =
            IF Up(c) \in To(x) /\ e \in Carrying(ch) THEN 1 ELSE 0
  BY OneGain
<1>11. Weight(x, ch, pit', chan') = Weight(x, ch, pit, chan)
  <2>1. Crumbs(x, ch, pit') = Crumbs(x, ch, pit)
    BY <1>2
  <2> QED BY <1>8, <1>9, <1>10, <2>1, PartsType DEF Weight
<1> QED BY <1>2, <1>11 DEF OneEach
-----------------------------------------------------------------------------
(* Without a second chunk no interest gets a target under spr, and none is *)
(* barred from aggregation.                                                *)
LEMMA PlainNext ==
  ASSUME FS = "spr", \A f \in Name : Size[f] = 1, TypeOK, OnLinks(Plain, chan), [Next]_vars
  PROVE  OnLinks(Plain, chan')
<1>1. ASSUME NEW k \in Link, NEW m \in Data PROVE <<k, m>> \in Plain
  BY DEF Plain, Data, Packet
<1>2. ASSUME NEW c \in Client, NEW ch \in Chunk, NEW t \in Node \cup {NoTarget},
             t = NoTarget \/ ch[2] > 0
      PROVE  <<Up(c), NewInterest(ch, t, FALSE)>> \in Plain
  <2>1. ch[2] = 0
    BY DEF Chunk
  <2>2. Up(c) \in Link
    BY UpIsLink DEF Up
  <2>3. NewInterest(ch, NoTarget, FALSE) \in Packet
    BY DEF NewInterest, Interest, Packet
  <2>4. t = NoTarget
    BY <1>2, <2>1
  <2>5. LET e == NewInterest(ch, t, FALSE) IN e.target = t /\ e.aggregate
    BY DEF NewInterest
  <2> QED BY <2>2, <2>3, <2>4, <2>5 DEF Plain
<1>3. ASSUME NEW c \in Client, NEW ch \in Chunk
      PROVE  <<Up(c), NewInterest(ch, NoTarget, TRUE)>> \in Plain
  <2>1. Up(c) \in Link
    BY UpIsLink DEF Up
  <2>2. NewInterest(ch, NoTarget, TRUE) \in Packet
    BY DEF NewInterest, Interest, Packet
  <2> QED BY <2>1, <2>2 DEF Plain, NewInterest
<1>4. ASSUME NEW l \in Link, Miss(l), NEW d \in DecisionsOn(l), NEW f \in d.out,
             <<l[2], f>> \in Link
      PROVE  <<<<l[2], f>>, d.msg>> \in Plain
  <2> DEFINE h == Head(chan[l])
             m == AtTarget(l[2], Hopped(h))
  <2>1. /\ m \in Interest /\ m.target = h.target /\ m.aggregate = (h.aggregate /\ h.target # l[2])
        /\ h \in Elements(chan[l]) /\ h.kind = "interest" /\ l[2] \in Node
    BY <1>4, MissFacts
  <2>2. h.target = NoTarget /\ h.aggregate
    BY <2>1 DEF OnLinks, Plain
  <2>3. m.target = NoTarget /\ m.aggregate
    BY <2>1, <2>2, NodeAssumption
  <2>4. d.msg = m
    BY DEF DecisionsOn, GetDecision, ShortestPath, Toward
  <2> HIDE DEF m
  <2> QED BY <1>4, <2>1, <2>3, <2>4 DEF Plain, Packet
<1> QED BY <1>1, <1>2, <1>3, <1>4, OnLinksNext

(* Then an interest is forwarded if, and only if, nobody waits yet.        *)
LEMMA PlainForwards ==
  ASSUME Aggregation = TRUE, TypeOK, Calm, OnLinks(Plain, chan), NEW l \in Link,
         ForwardInterest(l)
  PROVE  pit[l[2]][Head(chan[l]).chunk] = {}
<1> DEFINE h == Head(chan[l])
           n == l[2]
           m == AtTarget(n, Hopped(h))
<1>1. /\ Miss(l) /\ AddToPit(n, l[1], Hopped(h)) /\ WillForward(n, Hopped(h))
  BY DEF ForwardInterest
<1>2. /\ m.aggregate = (h.aggregate /\ h.target # n)
      /\ h \in Elements(chan[l]) /\ h.kind = "interest" /\ n \in Node
  BY <1>1, MissFacts
<1>3. h.target = NoTarget /\ h.aggregate
  BY <1>2 DEF OnLinks, Plain
<1>4. m.aggregate
  BY <1>2, <1>3, NodeAssumption
<1>5. EntryIsFresh(n, Hopped(h))
  BY <1>1, <1>4 DEF WillForward
<1>6. EntryIsFresh(n, Hopped(h)) <=> pit[n][h.chunk] = {}
  BY <1>1, CalmKeepsFaces
<1> QED BY <1>5, <1>6

(* No step adds an answer nobody waits for or takes away the only one.     *)
LEMMA OneEachNext ==
  ASSUME FS = "spr", Aggregation = TRUE, SlowLinks = FALSE, \A f \in Name : Size[f] = 1,
         NoneExpires, TypeOK, Calm, FacesLinked, OnLinks(Plain, chan), OneEach, [Next]_vars
  PROVE  OneEach'
<1>1. ASSUME NEW l \in Link PROVE ~DiscardInterest(l)
  BY DEF NoneExpires, DiscardInterest
<1>2. ASSUME NEW c \in Client PROVE ~TimerFires(c)
  BY DEF Calm, TimerFires
<1>3. ASSUME NEW c, NEW i PROVE ~BecomeLate(c, i) /\ ~BecomeAged(c, i)
  BY DEF BecomeLate, BecomeAged
<1>4. CASE UNCHANGED vars
  BY <1>4 DEF vars, OneEach
<1>5. ASSUME NEW l \in Link, ForwardInterest(l) PROVE OneEach'
  BY <1>5, PlainForwards, OneEachForward
<1> QED BY <1>1, <1>2, <1>3, <1>4, <1>5, OneEachHit, OneEachAggregate, OneEachData,
           NoneUnsolicited, OneEachChunk, OneEachRequest DEF Next, Deliver

(* Without packets and entries every sum is zero.                          *)
LEMMA OneEachInit == Init => OneEach
<1> SUFFICES ASSUME Init, NEW x \in Node, NEW ch \in Chunk
             PROVE  Weight(x, ch, pit, chan) = 0 /\ pit[x][ch] = {}
  BY DEF OneEach
<1>1. \A n \in Node : pit[n][ch] = {}
  BY DEF Init
<1>2. \A K, S : Cardinality(Places(chan, K, S)) = 0
  <2> SUFFICES ASSUME NEW K, NEW S PROVE Cardinality(Places(chan, K, S)) = 0
    OBVIOUS
  <2>1. Places(chan, K, S) = {}
    BY DEF Init, Places
  <2> QED BY <2>1, FS_EmptySet
<1>3. Crumbs(x, ch, pit) = 0
  <2>1. {n \in Node : x \in pit[n][ch]} = {}
    BY <1>1
  <2> QED BY <2>1, FS_EmptySet DEF Crumbs
<1> QED BY <1>1, <1>2, <1>3 DEF Weight, Asked, Coming

(* With files of one chunk, shortest-path routing and no timer, exactly    *)
(* one answer is on its way to a node that waits and none to one that does *)
(* not: no chunk is fetched twice, and no data arrives unsolicited.        *)
THEOREM OneAnswer ==
  ASSUME FS = "spr", Aggregation = TRUE, SlowLinks = FALSE, \A f \in Name : Size[f] = 1,
         RoutesShorten, NEW D, Diameter(D), D < TTL
  PROVE  Spec => []OneAnswerPerRequest
<1>1. Init => Calm /\ FacesLinked /\ OnLinks(Plain, chan) /\ OneEach
  <2> SUFFICES ASSUME Init PROVE Calm /\ FacesLinked /\ OnLinks(Plain, chan)
    BY OneEachInit
  <2>1. Calm
    BY OnLinksInit DEF Init, Calm
  <2>2. FacesLinked
    BY DEF Init, FacesLinked
  <2> QED BY <2>1, <2>2, OnLinksInit
<1>2. TypeOK /\ Calm /\ [Next]_vars => Calm'
  BY CalmNext
<1>3. TypeOK /\ Calm /\ FacesLinked /\ [Next]_vars => FacesLinked'
  BY FacesLinkedNext
<1>4. TypeOK /\ OnLinks(Plain, chan) /\ [Next]_vars => OnLinks(Plain, chan)'
  <2>1. TypeOK /\ OnLinks(Plain, chan) /\ [Next]_vars => OnLinks(Plain, chan')
    BY PlainNext
  <2> QED BY <2>1 DEF OnLinks, Plain
<1>5. NoneExpires /\ TypeOK /\ Calm /\ FacesLinked /\ OnLinks(Plain, chan) /\ OneEach /\ [Next]_vars
        => OneEach'
  BY OneEachNext
<1>6. TypeOK /\ OneEach => OneAnswerPerRequest
  BY OutstandingParts DEF OneEach, Weight, OneAnswerPerRequest
<1>7. Spec => []NoneExpires
  BY SprNeverExpires
<1> QED BY <1>1, <1>2, <1>3, <1>4, <1>5, <1>6, <1>7, TypeCorrect, PTL DEF Spec
-----------------------------------------------------------------------------
(* The counters and statistics: CcnAccounting.                             *)

(* Taken without their counters, the steps are steps of CcnSim.            *)
THEOREM AccountingImplementsCcnSim == AccSpec => Spec
<1>1. AccInit => Init
  BY DEF AccInit
<1>2. [AccNext]_accVars => [Next]_vars
  <2> SUFFICES ASSUME AccNext, ~ UNCHANGED vars PROVE Next
    BY DEF accVars
  <2>1. ASSUME NEW l \in Link, CountInterest(l) \/ CountData(l) \/ CountChunk(l)
        PROVE  Deliver(l)
    BY <2>1 DEF CountInterest, CountData, CountChunk, Deliver
  <2>2. CASE CountNothing
    BY <2>2 DEF CountNothing, Next
  <2>3. CASE CachesFull \/ TenHoursPassed \/ HitRatesStable \/ End
    BY <2>3 DEF CachesFull, TenHoursPassed, HitRatesStable, End, ClearStat
  <2> QED BY <2>1, <2>2, <2>3 DEF AccNext, Next
<1> QED BY <1>1, <1>2, PTL DEF AccSpec, Spec
-----------------------------------------------------------------------------
(* The counters are natural numbers, and CountersAgree.                    *)
CountersOK == count \in [Node -> [Counter -> Nat]] /\ CountersAgree

(* What one event does to the counters of its node, if they agreed before, *)
(* keeps them in agreement: it is one of six sets that are counted.        *)
LEMMA CountedAgree ==
  ASSUME CountersOK, NEW n \in Node, NEW xs, Counted(n, xs),
         \/ xs = {"interests", "discarded_interests"}
         \/ xs = {"interests", "hit", "interests_satisfied_by_cache"}
         \/ xs = {"interests", "miss", "unsatisfied_interests"}
         \/ xs = {"data", "unsolicited_data"}
         \/ \E d \in {"decision_yes", "decision_no"} : xs = {"data", d}
         \/ \E d \in {"decision_yes", "decision_no"} :
              /\ xs = {"interests", "miss", "repo_load", d}
              /\ \E f \in Name : n \in Repos[f]
  PROVE  CountersOK'
<1> DEFINE step(x) == IF x \in xs THEN count[n][x] + 1 ELSE count[n][x]
<1>1. count' \in [Node -> [Counter -> Nat]]
  BY DEF Counted, CountersOK
<1>2. \A m \in Node \ {n} : count'[m] = count[m]
  BY DEF Counted, CountersOK
<1>3. \A x \in Counter : count'[n][x] = step(x) /\ count[n][x] \in Nat
  BY DEF Counted, CountersOK
<1>4. CountersAgree'
  <2> SUFFICES ASSUME NEW m \in Node
               PROVE  /\ count'[m]["repo_load"] = count'[m]["interests"]
                             - count'[m]["discarded_interests"]
                             - count'[m]["unsatisfied_interests"]
                             - count'[m]["interests_satisfied_by_cache"]
                      /\ (\A f \in Name : m \notin Repos[f])
                           => count'[m]["repo_load"] = 0
                      /\ count'[m]["decision_yes"] + count'[m]["decision_no"]
                           + count'[m]["unsolicited_data"]
                         = count'[m]["data"] + count'[m]["repo_load"]
    BY DEF CountersAgree
  <2>1. CASE m # n
    BY <1>2, <2>1 DEF CountersOK, CountersAgree
  <2>2. CASE m = n
    BY <1>3, <2>2 DEF CountersOK, CountersAgree, Counter
  <2> QED BY <2>1, <2>2
<1> QED BY <1>1, <1>4 DEF CountersOK

(* Every step of the accounting keeps the counters in agreement.           *)
LEMMA CountersOKNext == TypeOK /\ CountersOK /\ [AccNext]_accVars => CountersOK'
<1> SUFFICES ASSUME TypeOK, CountersOK, [AccNext]_accVars PROVE CountersOK'
  OBVIOUS
<1>1. ASSUME NEW n, NEW ch
      PROVE  Decided(n, ch) \in {"decision_yes", "decision_no"}
  BY DEF Decided
<1>2. ASSUME NEW l \in Link, RepoHit(l)
      PROVE  \E f \in Name : l[2] \in Repos[f]
  <2>1. chan[l] # <<>> /\ l[2] \in Repos[Head(chan[l]).chunk[1]]
    BY <1>2 DEF RepoHit, InterestArrives, Arrives
  <2>2. Head(chan[l]).chunk \in Chunk
    BY <2>1, HeadType
  <2> QED BY <2>1, <2>2 DEF Chunk
<1>3. ASSUME NEW l \in Link, CountInterest(l) PROVE CountersOK'
  <2>1. l[2] \in Node
    BY <1>3 DEF CountInterest, DiscardInterest, CacheHit, RepoHit,
                ForwardInterest, AggregateInterest, Miss, InterestArrives
  <2>2. CASE RepoHit(l) /\ Counted(l[2], {"interests", "miss", "repo_load",
                                    Decided(l[2], Head(chan[l]).chunk)})
    <3> DEFINE d == Decided(l[2], Head(chan[l]).chunk)
    <3>1. d \in {"decision_yes", "decision_no"}
      BY <1>1
    <3> HIDE DEF d
    <3> QED BY <1>2, <2>1, <2>2, <3>1, CountedAgree DEF d
  <2> QED BY <1>3, <2>1, <2>2, CountedAgree DEF CountInterest
<1>4. ASSUME NEW l \in Link, CountData(l) PROVE CountersOK'
  <2>1. l[2] \in Node
    BY <1>4 DEF CountData, PendingData, UnsolicitedData
  <2>2. CASE Counted(l[2], {"data", Decided(l[2], Head(chan[l]).chunk)})
    <3> DEFINE d == Decided(l[2], Head(chan[l]).chunk)
    <3>1. d \in {"decision_yes", "decision_no"}
      BY <1>1
    <3>2. Counted(l[2], {"data", d})
      BY <2>2
    <3> HIDE DEF d
    <3> QED BY <2>1, <3>1, <3>2, CountedAgree
  <2> QED BY <1>4, <2>1, <2>2, CountedAgree DEF CountData
<1>5. CASE UNCHANGED count
  BY <1>5 DEF CountersOK, CountersAgree
<1>6. CASE ClearStat
  BY <1>6 DEF ClearStat, ClearedCounts, CountersOK, CountersAgree, Counter
<1>7. ASSUME NEW l \in Link, CountChunk(l) PROVE UNCHANGED count
  BY <1>7 DEF CountChunk
<1> QED
  BY <1>3, <1>4, <1>5, <1>6, <1>7
     DEF AccNext, CachesFull, TenHoursPassed, HitRatesStable, End, CountNothing,
         counters, accVars

(* The assertions of check_if_correct hold at every event of every run,    *)
(* however often the statistics are cleared.                               *)
THEOREM CountersAlwaysAgree == AccSpec => []CountersAgree
<1>1. AccInit => CountersOK
  BY DEF AccInit, CountersOK, CountersAgree, Counter
<1>2. CountersOK => CountersAgree
  BY DEF CountersOK
<1> QED BY <1>1, <1>2, CountersOKNext, AccountingImplementsCcnSim, TypeCorrect, PTL
        DEF AccSpec
-----------------------------------------------------------------------------
(* Sums over the nodes, which the model takes with a fold.                 *)
(* A nonempty set of numbers has a least one.                              *)
LEMMA LeastNumber ==
  ASSUME NEW T \in SUBSET Nat, T # {}
  PROVE  \E x \in T : \A y \in T : x =< y
<1> DEFINE U == {0 .. n : n \in T}
<1>1. U \subseteq FiniteSubsetsOf(Nat) /\ U # {}
  <2>1. ASSUME NEW n \in T PROVE 0 .. n \in FiniteSubsetsOf(Nat)
    <3>1. n \in Int /\ 0 \in Int /\ 0 .. n \in SUBSET Nat
      OBVIOUS
    <3>2. IsFiniteSet(0 .. n)
      BY <3>1, FS_Interval
    <3> QED BY <3>1, <3>2 DEF FiniteSubsetsOf
  <2> QED BY <2>1
<1>2. PICK u \in U : \A w \in U : <<w, u>> \notin StrictSubsetOrdering(Nat)
  <2> HIDE DEF U
  <2> QED BY <1>1, FS_StrictSubsetOrderingWellFounded, WFMin
<1>3. PICK n \in T : u = 0 .. n
  OBVIOUS
<1>4. ASSUME NEW y \in T, y < n PROVE FALSE
  <2>1. /\ 0 .. y \in SUBSET Nat /\ 0 .. n \in SUBSET Nat
        /\ 0 .. y \subseteq 0 .. n /\ n \in 0 .. n /\ n \notin 0 .. y
    BY <1>4
  <2>2. <<0 .. y, 0 .. n>> \in StrictSubsetOrdering(Nat)
    BY <2>1 DEF StrictSubsetOrdering
  <2> QED BY <1>2, <1>3, <2>2
<1> QED BY <1>4

(* The element the fold over a set takes first.                            *)
First(T) == CHOOSE x \in T : TRUE

(* One step of the fold that adds up a load.                               *)
Added(S, load, g) ==
  [T \in SUBSET S |-> IF T = {} THEN 0 ELSE load[First(T)] + g[T \ {First(T)}]]

IsSum(S, load, g) == g = Added(S, load, g)

(* A set shrinks when its first element is taken.                          *)
LEMMA FirstTaken ==
  ASSUME NEW S, IsFiniteSet(S), NEW T \in SUBSET S, T # {}
  PROVE  /\ First(T) \in T /\ First(T) \in S /\ T \ {First(T)} \in SUBSET S
         /\ Cardinality(T) \in Nat /\ Cardinality(T) > 0
         /\ Cardinality(T \ {First(T)}) = Cardinality(T) - 1
<1>1. First(T) \in T
  BY DEF First
<1>2. IsFiniteSet(T)
  BY FS_Subset
<1>3. Cardinality(T \ {First(T)}) = Cardinality(T) - 1
  BY <1>1, <1>2, FS_RemoveElement
<1>4. Cardinality(T) \in Nat /\ Cardinality(T) # 0
  BY <1>2, FS_CardinalityType, FS_EmptySet
<1> QED BY <1>1, <1>3, <1>4

(* Such a sum exists: one that is right for sets of k elements makes one   *)
(* that is right for k + 1.                                                *)
LEMMA SumExists ==
  ASSUME NEW S, IsFiniteSet(S), NEW load \in [S -> Nat]
  PROVE  \E g \in [SUBSET S -> Nat] : IsSum(S, load, g)
<1> DEFINE UpTo(g, k) == \A T \in SUBSET S : Cardinality(T) =< k => g[T] = Added(S, load, g)[T]
           K == {k \in Nat : ~\E g \in [SUBSET S -> Nat] : UpTo(g, k)}
<1>1. \A T \in SUBSET S : IsFiniteSet(T) /\ Cardinality(T) \in Nat /\ (Cardinality(T) = 0 <=> T = {})
  BY FS_Subset, FS_CardinalityType, FS_EmptySet
<1>2. 0 \notin K
  <2> DEFINE g == [T \in SUBSET S |-> 0]
  <2>1. g \in [SUBSET S -> Nat]
    OBVIOUS
  <2>2. ASSUME NEW T \in SUBSET S, Cardinality(T) =< 0 PROVE g[T] = Added(S, load, g)[T]
    <3>1. T = {}
      BY <1>1, <2>2
    <3> QED BY <3>1 DEF Added
  <2> QED BY <2>1, <2>2
<1>3. ASSUME NEW k \in Nat, k \notin K PROVE k + 1 \notin K
  <2>1. PICK g \in [SUBSET S -> Nat] : UpTo(g, k)
    BY <1>3
  <2> DEFINE h == Added(S, load, g)
  <2>2. h \in [SUBSET S -> Nat]
    <3>1. ASSUME NEW T \in SUBSET S, T # {} PROVE load[First(T)] + g[T \ {First(T)}] \in Nat
      <4>1. load[First(T)] \in Nat /\ g[T \ {First(T)}] \in Nat
        BY <3>1, FirstTaken
      <4> QED BY <4>1
    <3> QED BY <3>1 DEF Added
  <2>3. ASSUME NEW T \in SUBSET S, Cardinality(T) =< k + 1 PROVE h[T] = Added(S, load, h)[T]
    <3>1. CASE T = {}
      BY <3>1 DEF Added
    <3>2. CASE T # {}
      <4> DEFINE U == T \ {First(T)}
      <4>1. U \in SUBSET S /\ Cardinality(U) =< k
        BY <2>3, <3>2, FirstTaken
      <4>2. g[U] = h[U]
        BY <2>1, <4>1
      <4>3. h[T] = load[First(T)] + g[U]
        BY <3>2 DEF Added
      <4>4. Added(S, load, h)[T] = load[First(T)] + h[U]
        BY <3>2 DEF Added
      <4> QED BY <4>2, <4>3, <4>4
    <3> QED BY <3>1, <3>2
  <2> HIDE DEF h
  <2>4. k + 1 \in Nat /\ UpTo(h, k + 1)
    BY <2>3
  <2> QED BY <2>2, <2>4
<1>4. K = {}
  <2> SUFFICES ASSUME K # {} PROVE FALSE
    OBVIOUS
  <2>1. K \in SUBSET Nat
    OBVIOUS
  <2> HIDE DEF K
  <2>2. PICK k \in K : \A j \in K : k =< j
    BY <2>1, LeastNumber
  <2>3. k - 1 \in Nat /\ k - 1 \notin K /\ k - 1 + 1 = k
    BY <1>2, <2>1, <2>2
  <2>4. k - 1 + 1 \notin K
    BY <1>3, <2>3
  <2> QED BY <2>2, <2>3, <2>4
<1>5. Cardinality(S) \in Nat /\ \A T \in SUBSET S : Cardinality(T) =< Cardinality(S)
  BY FS_CardinalityType, FS_Subset
<1>6. PICK g \in [SUBSET S -> Nat] : UpTo(g, Cardinality(S))
  BY <1>4, <1>5
<1>7. \A T \in SUBSET S : g[T] = Added(S, load, g)[T]
  BY <1>5, <1>6
<1>8. g = Added(S, load, g)
  <2>1. Added(S, load, g) = [T \in SUBSET S |-> Added(S, load, g)[T]]
    BY DEF Added
  <2>2. g = [T \in SUBSET S |-> g[T]]
    OBVIOUS
  <2> QED BY <1>7, <2>1, <2>2
<1> QED BY <1>8 DEF IsSum

(* Where the load of one element grows by one, so do the sums over the     *)
(* sets it is in.                                                          *)
OneMore(S, load, more, n) ==
  /\ IsFiniteSet(S) /\ load \in [S -> Nat] /\ more \in [S -> Nat]
  /\ \A m \in S : more[m] = IF m = n THEN load[m] + 1 ELSE load[m]

OneMoreIn(S, g, h, n) ==
  \A T \in SUBSET S : h[T] = IF n \in T THEN g[T] + 1 ELSE g[T]

LEMMA SumGrows ==
  ASSUME NEW S, NEW load, NEW more, NEW n, OneMore(S, load, more, n),
         NEW g, g \in [SUBSET S -> Nat], IsSum(S, load, g), NEW h, IsSum(S, more, h)
  PROVE  OneMoreIn(S, g, h, n)
<1> DEFINE Wrong == {T \in SUBSET S : h[T] # IF n \in T THEN g[T] + 1 ELSE g[T]}
           K == {Cardinality(T) : T \in Wrong}
<1> SUFFICES ASSUME Wrong # {} PROVE FALSE
  BY DEF OneMoreIn
<1>1. K \in SUBSET Nat /\ K # {}
  BY FS_Subset, FS_CardinalityType DEF OneMore
<1>2. PICK k \in K : \A j \in K : k =< j
  <2> HIDE DEF K
  <2> QED BY <1>1, LeastNumber
<1>3. PICK T \in Wrong : k = Cardinality(T)
  OBVIOUS
<1>4. /\ g[{}] = 0 /\ h[{}] = 0
      /\ T # {} => /\ g[T] = load[First(T)] + g[T \ {First(T)}]
                   /\ h[T] = more[First(T)] + h[T \ {First(T)}]
  BY DEF IsSum, Added
<1>5. T # {}
  BY <1>4
<1> DEFINE x == First(T)
           U == T \ {x}
<1>6. /\ x \in T /\ x \in S /\ U \in SUBSET S
      /\ Cardinality(T) \in Nat /\ Cardinality(U) = Cardinality(T) - 1
  BY <1>5, FirstTaken DEF OneMore
<1> HIDE DEF x
<1>7. U \notin Wrong
  <2>1. ASSUME U \in Wrong PROVE FALSE
    <3>1. Cardinality(U) \in K
      BY <2>1
    <3>2. Cardinality(T) =< Cardinality(T) - 1
      BY <1>2, <1>3, <1>6, <3>1
    <3> QED BY <1>6, <3>2
  <2> QED BY <2>1
<1>8. h[U] = IF n \in U THEN g[U] + 1 ELSE g[U]
  BY <1>6, <1>7
<1>9. g[T] = load[x] + g[U] /\ h[T] = more[x] + h[U]
  BY <1>4, <1>5 DEF x
<1>10. load[x] \in Nat /\ more[x] = (IF x = n THEN load[x] + 1 ELSE load[x]) /\ g[U] \in Nat
  BY <1>6 DEF OneMore
<1>11. h[T] = IF n \in T THEN g[T] + 1 ELSE g[T]
  <2>1. CASE x = n
    BY <1>6, <1>8, <1>9, <1>10, <2>1
  <2>2. CASE x # n
    <3>1. n \in U <=> n \in T
      BY <2>2
    <3> QED BY <1>8, <1>9, <1>10, <2>2, <3>1
  <2> QED BY <2>1, <2>2
<1> QED BY <1>11

(* There is one sum of a load only.                                        *)
LEMMA SumIsUnique ==
  ASSUME NEW S, IsFiniteSet(S), NEW load \in [S -> Nat],
         NEW g \in [SUBSET S -> Nat], IsSum(S, load, g), NEW h, IsSum(S, load, h)
  PROVE  h = g
<1>1. PICK n : n \notin S
  <2> DEFINE R == {x \in S : x \notin x}
  <2>1. R \notin S
    OBVIOUS
  <2> QED BY <2>1
<1>2. OneMoreIn(S, g, h, n)
  <2>1. OneMore(S, load, load, n)
    BY <1>1 DEF OneMore
  <2> QED BY <2>1, SumGrows
<1>3. \A T \in SUBSET S : h[T] = g[T]
  BY <1>1, <1>2 DEF OneMoreIn
<1>4. h = [T \in SUBSET S |-> h[T]]
  <2>1. h = Added(S, load, h)
    BY DEF IsSum
  <2> QED BY <2>1 DEF Added
<1>5. g = [T \in SUBSET S |-> g[T]]
  OBVIOUS
<1> QED BY <1>3, <1>4, <1>5

(* The load of the repositories in the counters c, and its sum.            *)
LoadIn(c) == [n \in Node |-> c[n]["repo_load"]]

TotalIn(c) == (CHOOSE g : IsSum(Node, LoadIn(c), g))[Node]

(* RepoLoad is such a sum.                                                 *)
LEMMA RepoLoadIsTotal == RepoLoad = TotalIn(count) /\ RepoLoad' = TotalIn(count')
<1>1. ASSUME NEW c
      PROVE  TotalIn(c) = MapThenSumSet(LAMBDA n : c[n]["repo_load"], Node)
  <2> DEFINE Fold(g) == [T \in SUBSET Node |->
               IF T = {} THEN 0
               ELSE LET x == CHOOSE y \in T : TRUE IN c[x]["repo_load"] + g[T \ {x}]]
  <2>1. \A g : Added(Node, LoadIn(c), g) = Fold(g)
    <3> SUFFICES ASSUME NEW g PROVE Added(Node, LoadIn(c), g) = Fold(g)
      OBVIOUS
    <3>1. ASSUME NEW T \in SUBSET Node, T # {}
          PROVE  LoadIn(c)[First(T)] = c[First(T)]["repo_load"]
      <4>1. First(T) \in Node
        BY <3>1 DEF First
      <4> QED BY <4>1 DEF LoadIn
    <3>2. ASSUME NEW T \in SUBSET Node
          PROVE  Added(Node, LoadIn(c), g)[T] = Fold(g)[T]
      BY <3>1, <3>2 DEF Added, First
    <3> QED BY <3>2 DEF Added
  <2>2. (CHOOSE g : IsSum(Node, LoadIn(c), g)) = CHOOSE g : g = Fold(g)
    <3>1. \A g : IsSum(Node, LoadIn(c), g) <=> g = Fold(g)
      BY <2>1 DEF IsSum
    <3> QED BY <3>1
  <2> QED BY <2>2 DEF TotalIn, MapThenSumSet, MapThenFoldSet
<1>2. RepoLoad = MapThenSumSet(LAMBDA n : count[n]["repo_load"], Node)
  BY DEF RepoLoad
<1>3. RepoLoad' = MapThenSumSet(LAMBDA n : count'[n]["repo_load"], Node)
  BY DEF RepoLoad, MapThenSumSet, MapThenFoldSet
<1> QED BY <1>1, <1>2, <1>3

(* The total of natural numbers, of none of them but zeros, and where one  *)
(* of them grows.                                                          *)
LEMMA Totals ==
  ASSUME NEW c \in [Node -> [Counter -> Nat]], NEW d \in [Node -> [Counter -> Nat]], NEW n
  PROVE  /\ TotalIn(c) \in Nat
         /\ (\A m \in Node : c[m]["repo_load"] = 0) => TotalIn(c) = 0
         /\ (\A m \in Node : d[m]["repo_load"] =
                IF m = n THEN c[m]["repo_load"] + 1 ELSE c[m]["repo_load"])
              => TotalIn(d) = IF n \in Node THEN TotalIn(c) + 1 ELSE TotalIn(c)
<1>1. IsFiniteSet(Node)
  BY FinitenessAssumption
<1>2. LoadIn(c) \in [Node -> Nat] /\ LoadIn(d) \in [Node -> Nat]
  BY DEF LoadIn, Counter
<1>3. PICK g \in [SUBSET Node -> Nat] : IsSum(Node, LoadIn(c), g)
  BY <1>1, <1>2, SumExists
<1>4. PICK h \in [SUBSET Node -> Nat] : IsSum(Node, LoadIn(d), h)
  BY <1>1, <1>2, SumExists
<1>5. TotalIn(c) = g[Node]
  <2>1. \A f : IsSum(Node, LoadIn(c), f) => f = g
    BY <1>1, <1>2, <1>3, SumIsUnique
  <2> QED BY <1>3, <2>1 DEF TotalIn
<1>6. TotalIn(d) = h[Node]
  <2>1. \A f : IsSum(Node, LoadIn(d), f) => f = h
    BY <1>1, <1>2, <1>4, SumIsUnique
  <2> QED BY <1>4, <2>1 DEF TotalIn
<1>7. ASSUME \A m \in Node : c[m]["repo_load"] = 0 PROVE TotalIn(c) = 0
  <2> DEFINE z == [T \in SUBSET Node |-> 0]
  <2>1. z \in [SUBSET Node -> Nat]
    OBVIOUS
  <2>2. IsSum(Node, LoadIn(c), z)
    <3>1. ASSUME NEW T \in SUBSET Node, T # {}
          PROVE  LoadIn(c)[First(T)] + z[T \ {First(T)}] = 0
      <4>1. First(T) \in Node /\ T \ {First(T)} \in SUBSET Node
        BY <1>1, <3>1, FirstTaken
      <4> QED BY <1>7, <4>1 DEF LoadIn
    <3> HIDE DEF z
    <3>2. Added(Node, LoadIn(c), z) = [T \in SUBSET Node |-> 0]
      BY <3>1 DEF Added
    <3> QED BY <3>2 DEF IsSum, z
  <2> HIDE DEF z
  <2>3. g = z
    BY <1>1, <1>2, <1>3, <2>1, <2>2, SumIsUnique
  <2> QED BY <1>5, <2>3 DEF z
<1>8. ASSUME \A m \in Node : d[m]["repo_load"] =
               IF m = n THEN c[m]["repo_load"] + 1 ELSE c[m]["repo_load"]
      PROVE  TotalIn(d) = IF n \in Node THEN TotalIn(c) + 1 ELSE TotalIn(c)
  <2>1. OneMore(Node, LoadIn(c), LoadIn(d), n)
    BY <1>1, <1>2, <1>8 DEF LoadIn, OneMore
  <2>2. OneMoreIn(Node, g, h, n)
    BY <1>3, <1>4, <2>1, SumGrows
  <2> QED BY <1>5, <1>6, <2>2 DEF OneMoreIn
<1> QED BY <1>3, <1>5, <1>7, <1>8

(* The scalars are of all nodes, and nothing is counted after the end.     *)
ScalarsOK == repo_int \in [Node -> Nat] /\ repo_interest \in Nat

(* What is counted as an answer of a repository by its node is counted by  *)
(* the counter the nodes share.                                            *)
LEMMA CountedTotal ==
  ASSUME CountersOK, NEW n \in Node, NEW xs, Counted(n, xs), SharedCounterIsSum,
         phase # "ended", ScalarsOK,
         repo_interest' = IF "repo_load" \in xs THEN repo_interest + 1 ELSE repo_interest
  PROVE  ScalarsOK' /\ SharedCounterIsSum'
<1>1. /\ count \in [Node -> [Counter -> Nat]] /\ count' \in [Node -> [Counter -> Nat]]
      /\ UNCHANGED <<phase, repo_int>>
  BY DEF Counted, CountersOK
<1>2. \A m \in Node : count'[m]["repo_load"] =
        IF m = n /\ "repo_load" \in xs THEN count[m]["repo_load"] + 1 ELSE count[m]["repo_load"]
  BY DEF Counted, CountersOK, Counter
<1>3. ScalarsOK'
  BY <1>1 DEF ScalarsOK
<1>4. TotalIn(count) = repo_interest
  BY RepoLoadIsTotal DEF SharedCounterIsSum
<1>5. TotalIn(count') = repo_interest'
  <2>1. CASE "repo_load" \in xs
    <3>1. \A m \in Node : count'[m]["repo_load"] =
            IF m = n THEN count[m]["repo_load"] + 1 ELSE count[m]["repo_load"]
      BY <1>2, <2>1
    <3>2. TotalIn(count') = IF n \in Node THEN TotalIn(count) + 1 ELSE TotalIn(count)
      BY <1>1, <3>1, Totals
    <3> QED BY <1>4, <2>1, <3>2
  <2>2. CASE "repo_load" \notin xs
    <3>1. LoadIn(count') = LoadIn(count)
      BY <1>2, <2>2 DEF LoadIn
    <3> QED BY <1>4, <2>2, <3>1 DEF TotalIn
  <2> QED BY <2>1, <2>2
<1> QED BY <1>1, <1>3, <1>5, RepoLoadIsTotal DEF SharedCounterIsSum

(* Clearing clears both.                                                   *)
LEMMA ClearedTotal ==
  ASSUME ClearStat, phase' # "ended", ScalarsOK
  PROVE  ScalarsOK' /\ SharedCounterIsSum'
<1>1. /\ count' \in [Node -> [Counter -> Nat]] /\ repo_interest' = 0 /\ UNCHANGED repo_int
      /\ \A m \in Node : count'[m]["repo_load"] = 0
  BY DEF ClearStat, ClearedCounts, Counter
<1>2. TotalIn(count') = 0
  BY <1>1, Totals
<1> QED BY <1>1, <1>2, RepoLoadIsTotal DEF SharedCounterIsSum, ScalarsOK

(* Every step keeps the shared counter the sum.                            *)
LEMMA SharedCounterStep ==
  CountersOK /\ ScalarsOK /\ SharedCounterIsSum /\ [AccNext]_accVars
    => ScalarsOK' /\ SharedCounterIsSum'
<1> SUFFICES ASSUME CountersOK, ScalarsOK, SharedCounterIsSum, [AccNext]_accVars
             PROVE  ScalarsOK' /\ SharedCounterIsSum'
  OBVIOUS
<1>1. ASSUME UNCHANGED <<count, repo_interest, phase, repo_int>>
      PROVE  ScalarsOK' /\ SharedCounterIsSum'
  BY <1>1, RepoLoadIsTotal DEF ScalarsOK, SharedCounterIsSum
<1>2. ASSUME NEW l \in Link, CountInterest(l), phase # "ended"
      PROVE  ScalarsOK' /\ SharedCounterIsSum'
  <2>1. l[2] \in Node
    BY <1>2 DEF CountInterest, DiscardInterest, CacheHit, RepoHit,
                ForwardInterest, AggregateInterest, Miss, InterestArrives
  <2>2. ASSUME NEW xs, Counted(l[2], xs),
               repo_interest' = IF "repo_load" \in xs THEN repo_interest + 1 ELSE repo_interest
        PROVE  ScalarsOK' /\ SharedCounterIsSum'
    BY <1>2, <2>1, <2>2, CountedTotal
  <2>3. CASE /\ RepoHit(l)
             /\ Counted(l[2], {"interests", "miss", "repo_load", Decided(l[2], Head(chan[l]).chunk)})
             /\ repo_interest' = repo_interest + 1
    BY <2>2, <2>3
  <2>4. CASE /\ UNCHANGED repo_interest
             /\ \/ Counted(l[2], {"interests", "discarded_interests"})
                \/ Counted(l[2], {"interests", "hit", "interests_satisfied_by_cache"})
                \/ Counted(l[2], {"interests", "miss", "unsatisfied_interests"})
    BY <2>2, <2>4
  <2> QED BY <1>2, <2>3, <2>4 DEF CountInterest
<1>3. ASSUME NEW l \in Link, CountData(l), phase # "ended"
      PROVE  ScalarsOK' /\ SharedCounterIsSum'
  <2>1. l[2] \in Node /\ UNCHANGED repo_interest
    BY <1>3 DEF CountData, PendingData, UnsolicitedData
  <2>2. PICK xs : Counted(l[2], xs) /\ "repo_load" \notin xs
    BY <1>3 DEF CountData, Decided
  <2> QED BY <1>3, <2>1, <2>2, CountedTotal
<1>4. CASE CachesFull \/ TenHoursPassed \/ HitRatesStable
  BY <1>4, ClearedTotal DEF CachesFull, TenHoursPassed, HitRatesStable
<1>5. CASE End
  <2>1. /\ phase = "steady" /\ phase' = "ended" /\ UNCHANGED count /\ repo_interest' = 0
        /\ repo_int' \in [Node -> Nat] /\ repo_int'[FirstNode] = repo_interest
    BY <1>5, StatisticsAssumption DEF End, ScalarsOK
  <2>2. TotalIn(count) = repo_interest
    BY <2>1, RepoLoadIsTotal DEF SharedCounterIsSum
  <2> QED BY <2>1, <2>2, RepoLoadIsTotal DEF SharedCounterIsSum, ScalarsOK
<1>6. ASSUME NEW l \in Link, CountChunk(l)
      PROVE  UNCHANGED <<count, repo_interest, phase, repo_int>>
  BY <1>6 DEF CountChunk
<1> QED
  BY <1>1, <1>2, <1>3, <1>4, <1>5, <1>6 DEF AccNext, CountNothing, counters, accVars

(* The counter that all core layers share is the sum of what the nodes     *)
(* counted, whichever of them answers and whenever it is cleared, and this *)
(* sum is recorded at the end.                                             *)
THEOREM SharedCounterIsAlwaysSum == AccSpec => []SharedCounterIsSum
<1>1. AccInit => CountersOK
  BY DEF AccInit, CountersOK, CountersAgree, Counter
<1>2. AccInit => ScalarsOK /\ SharedCounterIsSum
  <2> SUFFICES ASSUME AccInit PROVE ScalarsOK /\ SharedCounterIsSum
    OBVIOUS
  <2>1. /\ count \in [Node -> [Counter -> Nat]] /\ repo_interest = 0 /\ phase # "ended"
        /\ \A m \in Node : count[m]["repo_load"] = 0
        /\ repo_int \in [Node -> Nat]
    BY DEF AccInit, Counter
  <2>2. TotalIn(count) = 0
    BY <2>1, Totals
  <2> QED BY <2>1, <2>2, RepoLoadIsTotal DEF SharedCounterIsSum, ScalarsOK
<1> QED BY <1>1, <1>2, CountersOKNext, SharedCounterStep, AccountingImplementsCcnSim,
           TypeCorrect, PTL DEF AccSpec
=============================================================================
