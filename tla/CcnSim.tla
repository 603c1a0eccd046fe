------------------------------- MODULE CcnSim -------------------------------
(***************************************************************************)
(* A network of ccnSim nodes and clients: the core layer of every node     *)
(* (PIT, content store, forwarding strategy), the client modules that      *)
(* download files chunk by chunk, and the links between them.              *)
(*                                                                         *)
(* One action is one event of the simulator: the arrival of one packet at  *)
(* a module, or one timer of a client.  A link delivers in order; how long *)
(* a packet is on it is left open, so the events of different links        *)
(* interleave freely.                                                      *)
(***************************************************************************)
EXTENDS Integers, Sequences, FiniteSets

CONSTANTS
  Node,          \* the nodes of the topology
  Client,        \* the active clients
  At,            \* At[c]: the node client c is attached to
  Neighbour,     \* Neighbour[n]: the nodes n has a face to
  Fib,           \* Fib[n][d]: the neighbour n uses to reach d # n
  Dist,          \* Dist[n][d]: the length of that path
  Name,          \* the catalogue: the files, numbered by popularity rank
  Size,          \* Size[f]: the number of chunks of file f
  Repos,         \* Repos[f]: the nodes whose repository holds file f
  C,             \* capacity of every content store, in chunks
  DS,            \* decision policy: "lce", "lcd", "never" or "fix"
  FS,            \* forwarding strategy: "spr", "nrr", "nrr1", "parallel"
  Aggregation,   \* the parameter interest_aggregation of core_layer
  TTL,           \* hops after which an interest is discarded
  TTL1,          \* radius of the flooding of nrr1
  TTL2,          \* radius in which nrr looks into remote caches
  NoTarget,      \* the target -1 of an interest
  SlowLinks,     \* may a round trip exceed the RTT the timers are set to?
  MaxRequests,   \* bound: the files a client ever requests
  MaxInFlight    \* bound: a client retransmits only below this many packets

ASSUME NodeAssumption ==
  /\ Client \cap Node = {}
  /\ NoTarget \notin Node
  /\ At \in [Client -> Node]
  /\ Neighbour \in [Node -> SUBSET Node]
  /\ \A n \in Node : \A m \in Neighbour[n] : n \in Neighbour[m]

ASSUME FinitenessAssumption == IsFiniteSet(Node) /\ IsFiniteSet(Client)

ASSUME RoutingAssumption ==
  /\ \A n \in Node : \A d \in Node \ {n} : Fib[n][d] \in Neighbour[n]
  /\ \A n, d \in Node : Dist[n][d] \in Nat

ASSUME CatalogueAssumption ==
  /\ Name \subseteq Nat
  /\ Size \in [Name -> Nat \ {0}]
  /\ Repos \in [Name -> (SUBSET Node) \ {{}}]

ASSUME ParameterAssumption ==
  /\ C \in Nat
  /\ DS \in {"lce", "lcd", "never", "fix"}
  /\ FS \in {"spr", "nrr", "nrr1", "parallel"}
  /\ Aggregation \in BOOLEAN /\ SlowLinks \in BOOLEAN
  /\ TTL \in Nat /\ TTL1 \in Nat /\ TTL2 \in Nat
  /\ MaxRequests \in Nat /\ MaxInFlight \in Nat

(* Routes as populate_routing_table computes them: every first hop leads   *)
(* nearer to the destination, and no two nodes are more than d hops apart. *)
(* The routes read by populate_from_file may be others.                    *)
RoutesShorten ==
  \A n \in Node : \A d \in Node \ {n} : Dist[Fib[n][d]][d] = Dist[n][d] - 1

Diameter(d) == d \in Nat /\ \A n, m \in Node : Dist[n][m] =< d

VARIABLES
  pit,        \* pit[n][ch]: the faces waiting for ch, {} when n has no entry
  aged,       \* aged[n]: the chunks whose entry is older than 2 * RTT
  cs,         \* cs[n]: the chunks in the content store of n
  want,       \* want[c][i]: the chunk the i-th download of c waits for, or Idle
  late,       \* late[c]: the downloads without a chunk for more than RTT
  requested,  \* requested[c]: the number of files c has requested
  chan        \* chan[<<a, b>>]: the packets on the way from a to b

vars == <<pit, aged, cs, want, late, requested, chan>>
-----------------------------------------------------------------------------
(* A chunk is a pair <<file, number>>.                                     *)
Chunk == UNION {{<<f, k>> : k \in 0 .. (Size[f] - 1)} : f \in Name}

NextChunk(ch) == <<ch[1], ch[2] + 1>>

Serial == 1 .. MaxRequests
Idle   == <<>>

(* The faces of a node lead to its neighbours and to its clients.          *)
Face(n) == Neighbour[n] \cup {c \in Client : At[c] = n}

Link == {l \in (Node \cup Client) \X (Node \cup Client) :
           \/ l[1] \in Node /\ l[2] \in Face(l[1])
           \/ l[2] \in Node /\ l[1] \in Face(l[2])}

Interest == [kind : {"interest"}, chunk : Chunk, hops : Int,
             target : Node \cup {NoTarget},
             nfound : BOOLEAN, aggregate : BOOLEAN]

Data == [kind : {"data"}, chunk : Chunk, hops : Int, target : Node]

(* Mutation: the message starts with a hop, as if the link to the node     *)
(* of the client were one.                                                 *)
NewInterestOld(ch, tgt, nf) ==
  [kind |-> "interest", chunk |-> ch, hops |-> 0, target |-> tgt,
   nfound |-> nf, aggregate |-> TRUE]

NewInterest(ch, tgt, nf) ==
  [kind |-> "interest", chunk |-> ch, hops |-> -1, target |-> tgt,
   nfound |-> nf, aggregate |-> TRUE]

NewData(ch, h, n) == [kind |-> "data", chunk |-> ch, hops |-> h, target |-> n]
-----------------------------------------------------------------------------
(* The content store of a node, up to the choice of the victim: what       *)
(* base_cache::store may leave of s when a packet for ch with h hops comes *)
(* in.  "fix" stands for every policy that draws a random number.          *)
Decision(h) == CASE DS = "lce"   -> {TRUE}
                 [] DS = "lcd"   -> {h = 1}
                 [] DS = "never" -> {FALSE}
                 [] DS = "fix"   -> {TRUE, FALSE}

(* Mutation: nothing is evicted from a full cache.                         *)
InsertedUnbounded(s, ch) == {s \cup {ch}}

Inserted(s, ch) == IF Cardinality(s) < C
                   THEN {s \cup {ch}}
                   ELSE {(s \ {v}) \cup {ch} : v \in s}

Store(s, ch, h) ==
  (IF C = 0 \/ FALSE \in Decision(h) THEN {s} ELSE {})
    \cup (IF C > 0 /\ TRUE \in Decision(h) THEN Inserted(s, ch) ELSE {})

(* The repositories of ch at the least distance from n.                    *)
Nearest(n, ch) == {r \in Repos[ch[1]] :
                     \A q \in Repos[ch[1]] : Dist[n][r] =< Dist[n][q]}

(* What strategy->get_decision may do with interest m at node n: the faces *)
(* it chooses, and the interest as the strategy leaves it.                 *)
Toward(n, ds, m) == [out |-> {Fib[n][d] : d \in ds}, msg |-> m]

ShortestPath(n, m) == {Toward(n, {r}, m) : r \in Nearest(n, m.chunk)}

Retargeted(n, ds, m) == {Toward(n, {d}, [m EXCEPT !.target = d]) : d \in ds}

(* The caches within TTL2 that hold the chunk now, those nearest to n, if  *)
(* they are no more than one hop beyond the nearest repository.            *)
NearestCopies(n, ch) ==
  LET holders == {h \in Node \ {n} : ch \in cs[h] /\ Dist[n][h] =< TTL2}
  IN  {h \in holders : /\ \A g \in holders : Dist[n][h] =< Dist[n][g]
                       /\ \A r \in Nearest(n, ch) :
                            Dist[n][h] =< Dist[n][r] + 1}

(* Mutation: an interest that misses at its target looks for another copy. *)
NearestReplicaAgain(n, m) ==
  IF m.target \in {NoTarget, n}
  THEN Retargeted(n, IF NearestCopies(n, m.chunk) # {}
                     THEN NearestCopies(n, m.chunk)
                     ELSE Nearest(n, m.chunk), m)
  ELSE {Toward(n, {m.target}, m)}

NearestReplica(n, m) ==
  IF m.target = NoTarget
  THEN Retargeted(n, IF NearestCopies(n, m.chunk) # {}
                     THEN NearestCopies(n, m.chunk)
                     ELSE Nearest(n, m.chunk), m)
  ELSE IF m.target = n
  THEN Retargeted(n, Nearest(n, m.chunk), [m EXCEPT !.aggregate = FALSE])
  ELSE {Toward(n, {m.target}, m)}

Flooding(n, f, m) ==
  IF m.nfound THEN ShortestPath(n, m)
  ELSE {[out |-> IF m.hops >= TTL1 THEN {} ELSE Neighbour[n] \ {f}, msg |-> m]}

GetDecision(n, f, m) ==
  CASE FS = "spr"      -> ShortestPath(n, m)
    [] FS = "nrr"      -> NearestReplica(n, m)
    [] FS = "nrr1"     -> Flooding(n, f, m)
    [] FS = "parallel" -> {Toward(n, Repos[m.chunk[1]], m)}
-----------------------------------------------------------------------------
(* The packet at the head of link l is consumed; msg leaves on every link  *)
(* of dests.                                                               *)
Transfer(l, dests, msg) ==
  chan' = [k \in Link |->
             (IF k = l THEN Tail(chan[k]) ELSE chan[k])
               \o (IF k \in dests THEN <<msg>> ELSE <<>>)]

Arrives(l, kind) == chan[l] # <<>> /\ Head(chan[l]).kind = kind

Hopped(m) == [m EXCEPT !.hops = @ + 1]

(* The arrival of an interest that survives its hop count.                 *)
InterestArrives(l) ==
  l[2] \in Node /\ Arrives(l, "interest") /\ Hopped(Head(chan[l])).hops # TTL

(* core_layer::handleMessage drops an interest whose hop count is TTL.     *)
DiscardInterest(l) ==
  /\ l[2] \in Node /\ Arrives(l, "interest")
  /\ Hopped(Head(chan[l])).hops = TTL
  /\ Transfer(l, {}, Head(chan[l]))
  /\ UNCHANGED <<pit, aged, cs, want, late, requested>>

(* handle_interest a): the content store answers.                          *)
CacheHit(l) ==
  /\ InterestArrives(l)
  /\ LET n == l[2]  ch == Head(chan[l]).chunk IN
       /\ ch \in cs[n]
       /\ Transfer(l, {<<n, l[1]>>}, NewData(ch, 0, n))
  /\ UNCHANGED <<pit, aged, cs, want, late, requested>>

(* handle_interest b): the repository of the node answers, and the content *)
(* store is offered the chunk.                                             *)
RepoHit(l) ==
  /\ InterestArrives(l)
  /\ LET n == l[2]  ch == Head(chan[l]).chunk IN
       /\ ch \notin cs[n]
       /\ n \in Repos[ch[1]]
       /\ \E s \in Store(cs[n], ch, 1) : cs' = [cs EXCEPT ![n] = s]
       /\ Transfer(l, {<<n, l[1]>>}, NewData(ch, 1, n))
  /\ UNCHANGED <<pit, aged, want, late, requested>>

(* handle_interest c): the face enters the PIT.  The entry starts anew,    *)
(* and its earlier faces are lost, when the interest is a retransmission   *)
(* or the entry is older than 2 * RTT.                                     *)
Miss(l) == /\ InterestArrives(l)
           /\ Head(chan[l]).chunk \notin cs[l[2]]
           /\ l[2] \notin Repos[Head(chan[l]).chunk[1]]

(* Mutation: a retransmission is an interest like any other.               *)
EntryIsFreshByAge(n, m) == pit[n][m.chunk] = {} \/ m.chunk \in aged[n]

EntryIsFresh(n, m) == pit[n][m.chunk] = {} \/ m.nfound \/ m.chunk \in aged[n]

AtTarget(n, m) == IF m.target = n THEN [m EXCEPT !.aggregate = FALSE] ELSE m

(* Mutation: the face replaces those the entry already has.                *)
AddToPitAlone(n, f, m) ==
  /\ pit' = [pit EXCEPT ![n][m.chunk] = {f}]
  /\ aged' = IF EntryIsFresh(n, m)
             THEN [aged EXCEPT ![n] = @ \ {m.chunk}] ELSE aged

AddToPit(n, f, m) ==
  /\ pit' = [pit EXCEPT ![n][m.chunk] =
               IF EntryIsFresh(n, m) THEN {f} ELSE @ \cup {f}]
  /\ aged' = IF EntryIsFresh(n, m)
             THEN [aged EXCEPT ![n] = @ \ {m.chunk}] ELSE aged

(* Mutation: no interest is aggregated.                                    *)
WillForwardAlways(n, m) == TRUE

WillForward(n, m) ==
  EntryIsFresh(n, m) \/ ~Aggregation \/ ~AtTarget(n, m).aggregate

ForwardInterest(l) ==
  /\ Miss(l)
  /\ LET n == l[2]  m == Hopped(Head(chan[l])) IN
       /\ WillForward(n, m)
       /\ AddToPit(n, l[1], m)
       /\ \E d \in GetDecision(n, l[1], AtTarget(n, m)) :
            Transfer(l, {<<n, f>> : f \in d.out}, d.msg)
  /\ UNCHANGED <<cs, want, late, requested>>

AggregateInterest(l) ==
  /\ Miss(l)
  /\ LET n == l[2]  m == Hopped(Head(chan[l])) IN
       /\ ~WillForward(n, m)
       /\ AddToPit(n, l[1], m)
  /\ Transfer(l, {}, Head(chan[l]))
  /\ UNCHANGED <<cs, want, late, requested>>

(* Mutation: the entry survives the data that consumes it.                 *)
ErasePitNot(n, ch) == UNCHANGED <<pit, aged>>

ErasePit(n, ch) ==
  /\ pit' = [pit EXCEPT ![n][ch] = {}]
  /\ aged' = [aged EXCEPT ![n] = @ \ {ch}]

WaitingFaces(n, ch) == pit[n][ch]

(* handle_data: a chunk somebody waits for is offered to the content store *)
(* and sent to every face of its PIT entry, which disappears.              *)
PendingData(l) ==
  /\ l[2] \in Node /\ Arrives(l, "data")
  /\ LET n == l[2]  m == Hopped(Head(chan[l])) IN
       /\ pit[n][m.chunk] # {}
       /\ \E s \in Store(cs[n], m.chunk, m.hops) : cs' = [cs EXCEPT ![n] = s]
       /\ Transfer(l, {<<n, f>> : f \in WaitingFaces(n, m.chunk)}, m)
       /\ ErasePit(n, m.chunk)
  /\ UNCHANGED <<want, late, requested>>

(* handle_data: a chunk nobody waits for is dropped.                       *)
UnsolicitedData(l) ==
  /\ l[2] \in Node /\ Arrives(l, "data")
  /\ pit[l[2]][Head(chan[l]).chunk] = {}
  /\ Transfer(l, {}, Head(chan[l]))
  /\ UNCHANGED <<pit, aged, cs, want, late, requested>>
-----------------------------------------------------------------------------
Up(c)   == <<c, At[c]>>
Down(c) == <<At[c], c>>

(* request_file: a download of any file starts, at its first chunk.        *)
RequestFile(c) ==
  /\ requested[c] < MaxRequests
  /\ requested' = [requested EXCEPT ![c] = @ + 1]
  /\ \E f \in Name :
       /\ want' = [want EXCEPT ![c][requested[c] + 1] = <<f, 0>>]
       /\ chan' = [chan EXCEPT ![Up(c)] =
                     Append(@, NewInterest(<<f, 0>>, NoTarget, FALSE))]
  /\ UNCHANGED <<pit, aged, cs, late>>

(* handle_incoming_chunk: every download that waits for this very chunk    *)
(* moves on, and asks for its next chunk, towards the node the data came   *)
(* from, or ends.                                                          *)
Advancing(c, ch) == {i \in Serial : want[c][i] = ch}

ChunkArrives(l) ==
  /\ l[2] \in Client /\ Arrives(l, "data")
  /\ LET c    == l[2]
         m    == Head(chan[l])
         done == NextChunk(m.chunk) \notin Chunk
     IN  /\ want' = [want EXCEPT ![c] = [i \in Serial |->
                       IF i \notin Advancing(c, m.chunk) THEN want[c][i]
                       ELSE IF done THEN Idle ELSE NextChunk(m.chunk)]]
         /\ late' = [late EXCEPT ![c] = @ \ Advancing(c, m.chunk)]
         /\ chan' = [k \in Link |->
              IF k = l THEN Tail(chan[k])
              ELSE IF k = Up(c) /\ ~done
              THEN chan[k] \o
                     [j \in 1 .. Cardinality(Advancing(c, m.chunk)) |->
                        NewInterest(NextChunk(m.chunk), m.target, FALSE)]
              ELSE chan[k]]
  /\ UNCHANGED <<pit, aged, cs, requested>>

(* handle_timers, TIMER: every late download asks again, in the order of   *)
(* the multimap.  It stays late until a chunk arrives.                     *)
Before(c, i, j) == \/ want[c][i][1] < want[c][j][1]
                   \/ want[c][i][1] = want[c][j][1] /\ i < j

InTransit == UNION {{l} \X DOMAIN chan[l] : l \in Link}

TimerFires(c) ==
  /\ late[c] # {}
  /\ Cardinality(InTransit) + Cardinality(late[c]) =< MaxInFlight
  /\ \E q \in [1 .. Cardinality(late[c]) -> late[c]] :
       /\ \A i, j \in DOMAIN q : i < j => Before(c, q[i], q[j])
       /\ chan' = [chan EXCEPT ![Up(c)] = @ \o
                     [i \in DOMAIN q |->
                        NewInterest(want[c][q[i]], NoTarget, TRUE)]]
  /\ UNCHANGED <<pit, aged, cs, want, late, requested>>
-----------------------------------------------------------------------------
(* The passing of time: RTT without a chunk for a download, 2 * RTT since  *)
(* a PIT entry was made.                                                   *)
BecomeLate(c, i) ==
  /\ SlowLinks /\ want[c][i] # Idle /\ i \notin late[c]
  /\ late' = [late EXCEPT ![c] = @ \cup {i}]
  /\ UNCHANGED <<pit, aged, cs, want, requested, chan>>

BecomeAged(n, ch) ==
  /\ SlowLinks /\ pit[n][ch] # {} /\ ch \notin aged[n]
  /\ aged' = [aged EXCEPT ![n] = @ \cup {ch}]
  /\ UNCHANGED <<pit, cs, want, late, requested, chan>>
-----------------------------------------------------------------------------
Init == /\ pit = [n \in Node |-> [ch \in Chunk |-> {}]]
        /\ aged = [n \in Node |-> {}]
        /\ cs = [n \in Node |-> {}]
        /\ want = [c \in Client |-> [i \in Serial |-> Idle]]
        /\ late = [c \in Client |-> {}]
        /\ requested = [c \in Client |-> 0]
        /\ chan = [l \in Link |-> <<>>]

Deliver(l) == \/ DiscardInterest(l)
              \/ CacheHit(l)
              \/ RepoHit(l)
              \/ ForwardInterest(l)
              \/ AggregateInterest(l)
              \/ PendingData(l)
              \/ UnsolicitedData(l)
              \/ ChunkArrives(l)

Next == \/ \E l \in Link : Deliver(l)
        \/ \E c \in Client : RequestFile(c) \/ TimerFires(c)
        \/ \E c \in Client, i \in Serial : BecomeLate(c, i)
        \/ \E n \in Node, ch \in Chunk : BecomeAged(n, ch)

Spec == Init /\ [][Next]_vars

(* Every packet sent is delivered, and the timers of the clients keep      *)
(* firing; MaxInFlight may switch TimerFires off and on, hence SF.         *)
Fairness == /\ \A l \in Link : WF_vars(Deliver(l))
            /\ \A c \in Client : SF_vars(TimerFires(c))
            /\ \A c \in Client, i \in Serial : WF_vars(BecomeLate(c, i))

FairSpec == Spec /\ Fairness

(* base.ned gives the faces between a client and its node a delay of 0:    *)
(* nothing else happens while a packet is on one of them.                  *)
ClientFacesFirst ==
  (\E c \in Client : chan[Up(c)] # <<>> \/ chan[Down(c)] # <<>>)
    => \E c \in Client : Deliver(Up(c)) \/ Deliver(Down(c))

ZeroDelaySpec == Init /\ [][Next /\ ClientFacesFirst]_vars
-----------------------------------------------------------------------------
(* Every variable has its type, and no content store exceeds its capacity. *)
TypeOK ==
  /\ pit \in [Node -> [Chunk -> SUBSET (Node \cup Client)]]
  /\ aged \in [Node -> SUBSET Chunk]
  /\ cs \in [Node -> SUBSET Chunk]
  /\ \A n \in Node : IsFiniteSet(cs[n]) /\ Cardinality(cs[n]) =< C
  /\ want \in [Client -> [Serial -> Chunk \cup {Idle}]]
  /\ late \in [Client -> SUBSET Serial]
  /\ \A c \in Client : \A i \in late[c] : want[c][i] \in Chunk
  /\ requested \in [Client -> 0 .. MaxRequests]
  /\ chan \in [Link -> Seq(Interest \cup Data)]

(* No node waits for a chunk it holds.  The fifo, random and two caches    *)
(* rely on it: their data_store never looks whether the chunk is there.    *)
PitCsDisjoint ==
  \A n \in Node, ch \in Chunk : pit[n][ch] # {} => ch \notin cs[n]

(* What is on its way to x as an answer for ch: the interests x sent, the  *)
(* PIT entries that name x, and the data going to x.                       *)
InterestsFrom(x, ch) ==
  {p \in InTransit : /\ p[1][1] = x
                     /\ chan[p[1]][p[2]].kind = "interest"
                     /\ chan[p[1]][p[2]].chunk = ch}

DataTo(x, ch) ==
  {p \in InTransit : /\ p[1][2] = x
                     /\ chan[p[1]][p[2]].kind = "data"
                     /\ chan[p[1]][p[2]].chunk = ch}

CrumbsOf(x, ch) == {n \in Node : x \in pit[n][ch]}

Outstanding(x, ch) == Cardinality(InterestsFrom(x, ch))
                        + Cardinality(CrumbsOf(x, ch))
                        + Cardinality(DataTo(x, ch))

(* No interest dies of its hop count: spr and nrr lead every interest to a *)
(* copy before the TTL is used up.                                         *)
NoneExpires ==
  \A l \in Link : (l[2] \in Node /\ Arrives(l, "interest"))
                    => Hopped(Head(chan[l])).hops # TTL

(* While no timer fires, a node that waits for a chunk always has an       *)
(* answer on the way, and so has a client: aggregation loses no requester. *)
NobodyForgotten ==
  /\ \A n \in Node, ch \in Chunk : pit[n][ch] # {} => Outstanding(n, ch) >= 1
  /\ \A c \in Client, i \in Serial :
       want[c][i] # Idle => Outstanding(c, want[c][i]) >= 1

(* While no timer fires, a network without a packet owes nobody a chunk.   *)
QuietMeansDone ==
  (\A l \in Link : chan[l] = <<>>)
    => \A c \in Client, i \in Serial : want[c][i] = Idle

(* Under nrr an interest is turned away by at most one cache: once it has  *)
(* found its target without the chunk, it heads for a repository.          *)
RetargetedOnce ==
  \A l \in Link : \A i \in DOMAIN chan[l] :
    (chan[l][i].kind = "interest" /\ ~chan[l][i].aggregate)
      => chan[l][i].target \in Repos[chan[l][i].chunk[1]]

(* With files of one chunk, shortest-path routing and no timer, exactly    *)
(* one answer is on its way to a node that waits and none to one that does *)
(* not: no chunk is fetched twice, and no data arrives unsolicited.        *)
OneAnswerPerRequest ==
  \A n \in Node, ch \in Chunk :
    Outstanding(n, ch) = IF pit[n][ch] = {} THEN 0 ELSE 1

(* Every download comes to its end.                                        *)
EveryDownloadEnds ==
  \A c \in Client : \A i \in Serial : want[c][i] # Idle ~> want[c][i] = Idle
=============================================================================
