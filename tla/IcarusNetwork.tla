--------------------------- MODULE IcarusNetwork ---------------------------
(***************************************************************************)
(* The simulation of Icarus: the strategies (models/strategy.py) serve the *)
(* requests of a workload on the caches of a network, through the          *)
(* controller (execution/network.py), which reports to the collectors      *)
(* (execution/collectors.py).                                              *)
(*                                                                         *)
(* A request is one step: the engine hands the next event to the strategy  *)
(* when it has returned from the last one.  All look-ups of a strategy     *)
(* come before its first insertion, so a strategy is described by the      *)
(* plans it may follow: the nodes it asks for the content, the node it     *)
(* takes it from, the hops of the request and of the content, the nodes    *)
(* told to store it, and whether it calls end_session.                     *)
(*                                                                         *)
(* Bound: MaxSessions bounds the measured requests, not the warm-up.       *)
(***************************************************************************)
EXTENDS IcarusPolicies

CONSTANTS
  NodeOrder,    \* the nodes, in the order of the dictionary of paths
  RawPath,      \* all-pairs shortest paths as networkx returns them
  CacheOrder,   \* the nodes with a cache, in the order of cache_size
  Receiver,
  Source,       \* Source[c]: the node that stores content c for good
  Betweenness,  \* of every node
  Delay,        \* Delay[<<u, v>>] of every link
  MaxStretch,   \* the extra hops HR_HYBRID_AM accepts
  Policy,       \* the policy of the caches
  Strategies,   \* the strategies to look at
  MaxSessions

SX == INSTANCE SequencesExt

Node == {NodeOrder[i] : i \in DOMAIN NodeOrder}

CacheNode == {CacheOrder[i] : i \in DOMAIN CacheOrder}

IsPath(p, u, v) == p \in Seq(Node) /\ p # <<>> /\ p[1] = u /\ p[Len(p)] = v

(* The keys of a dictionary are distinct, and the network is connected: a  *)
(* path leads from every node to every node, and none from a node to       *)
(* itself but the node alone.                                              *)
ASSUME PathAssumption ==
  /\ NodeOrder \in Seq(Node)
  /\ \A i, j \in DOMAIN NodeOrder : NodeOrder[i] = NodeOrder[j] => i = j
  /\ RawPath \in [Node -> [Node -> Seq(Node)]]
  /\ \A u, v \in Node : IsPath(RawPath[u][v], u, v)
  /\ \A u \in Node : RawPath[u][u] = <<u>>

(* A node of the topology has one application: it is a receiver, a source  *)
(* or a router, and only routers have a cache.  The contents are numbers.  *)
(* Of the betweenness, a fraction, only the order counts.                  *)
ASSUME PlacementAssumption ==
  /\ Item \subseteq Nat
  /\ CacheOrder \in Seq(Node) /\ CacheOrder # <<>>
  /\ Source \in [Item -> Node]
  /\ Receiver \subseteq Node \ CacheNode
  /\ \A c \in Item : Source[c] \notin Receiver \cup CacheNode
  /\ Betweenness \in [Node -> Nat]

(* The caches are of one of the classes of models/cache.py.                *)
ASSUME NetworkPolicy == Policy \in {"NULL", "LRU", "SLRU", "LFU", "FIFO", "RAND"}

ASSUME BoundAssumption == MaxSessions \in Nat

(* The strategies of models/strategy.py.                                   *)
Strategy ==
  {"NO_CACHE", "EDGE", "LCE", "LCD", "PROB_CACHE", "RAND_BERNOULLI", "RAND_CHOICE", "CL4M",
   "NRR_LCE", "NRR_LCD",
   "HR_SYMM", "HR_ASYMM", "HR_MULTICAST", "HR_HYBRID_AM", "HR_HYBRID_SM"}

ASSUME StrategyAssumption == Strategies \subseteq Strategy

(* Mutation: the paths stay as networkx returns them.                      *)
PathAsComputed == RawPath

(* symmetrify_paths: while it runs through the pairs it reads what it has  *)
(* written.                                                                *)
Symmetrified[i \in 0 .. Len(NodeOrder) * Len(NodeOrder)] ==
  IF i = 0 THEN RawPath
  ELSE LET u == NodeOrder[((i - 1) \div Len(NodeOrder)) + 1]
           v == NodeOrder[((i - 1) % Len(NodeOrder)) + 1]
           paths == Symmetrified[i - 1]
       IN  [paths EXCEPT ![u][v] = SX!Reverse(paths[v][u])]

Path == Symmetrified[Len(NodeOrder) * Len(NodeOrder)]

path_links(p) == [i \in 1 .. Len(p) - 1 |-> <<p[i], p[i + 1]>>]

Hops(u, v) == path_links(Path[u][v])

Link == UNION {{Hops(u, v)[i] : i \in DOMAIN Hops(u, v)} : u, v \in Node}

VARIABLES
  strategy,  \* the strategy of the experiment
  cache,     \* the cache object of every node that has one
  log,       \* the events are measured, the warm-up is over
  last,      \* the last measured session, as TestCollector records it
  stats      \* what the other collectors have counted

vars == <<strategy, cache, log, last, stats>>

Init ==
  /\ strategy \in Strategies
  /\ cache = [v \in CacheNode |-> New(Policy)]
  /\ log = FALSE
  /\ last = <<>>
  /\ stats = [sess_count |-> 0, ended |-> 0, cache_hits |-> 0, serv_hits |-> 0,
              off_path |-> 0, latency |-> 0,
              req_count |-> [l \in Link |-> 0], cont_count |-> [l \in Link |-> 0]]

Holds(v, c) == v \in CacheNode /\ c \in Held(cache[v])

content_locations(c) == {v \in CacheNode : Holds(v, c)} \cup {Source[c]}

(* authoritative_cache(content): content / n is a fraction, so it is even  *)
(* only for the multiples of 2 * n.                                        *)
Authoritative(c) ==
  LET n == Len(CacheOrder) IN
    CacheOrder[1 + IF c % (2 * n) = 0 THEN c % n ELSE n - (c % n) - 1]

(* No path goes on behind a receiver: so in the topologies of topology.py  *)
(* but GRID, whose receivers are any nodes of the grid.                    *)
ReceiversAreLeaves ==
  \A u, v \in Node : \A i \in 2 .. Len(Path[u][v]) - 1 : Path[u][v][i] \notin Receiver
---------------------------------------------------------------------------
(* The plans of the strategies.  asks[i] is the node of the i-th call of   *)
(* get_content, where some calls may be left out of the numbering: those   *)
(* along a path have the numbers of its nodes.                             *)
Plan(server, asks, request, content, puts) ==
  [server |-> server, asks |-> asks, request |-> request, content |-> content,
   puts |-> puts, ends |-> TRUE]

(* The way back is the shortest path from the receiver, reversed.          *)
Back(s, r) == SX!Reverse(Path[r][s])

(* The strategies that look at the caches on the way to the source: the    *)
(* first one that holds the content answers.                               *)
HitPlaces(r, c) == {i \in 2 .. Len(Path[r][Source[c]]) : Holds(Path[r][Source[c]][i], c)}

(* get_content is called for the caches among the first i nodes, and for   *)
(* the last node of the path, which has none.                              *)
Asked(p, i) == [j \in {j \in 2 .. i : p[j] \in CacheNode \/ j = Len(p)} |-> p[j]]

(* Mutation: the loop over the caches goes on after a hit.                 *)
OnPathWithoutBreak(r, c, puts) ==
  LET p    == Path[r][Source[c]]
      hits == HitPlaces(r, c)
      i    == IF hits = {} THEN Len(p) ELSE CHOOSE i \in hits : \A j \in hits : i =< j
  IN  Plan(p[i], Asked(p, Len(p)), path_links(p), path_links(Back(p[i], r)), puts)

OnPath(r, c, puts) ==
  LET p    == Path[r][Source[c]]
      hits == HitPlaces(r, c)
      i    == IF hits = {} THEN Len(p) ELSE CHOOSE i \in hits : \A j \in hits : i =< j
  IN  Plan(p[i], Asked(p, i), path_links(SubSeq(p, 1, i)), path_links(Back(p[i], r)), puts)

Server(r, c) == OnPath(r, c, {}).server

(* The caches the content meets on its way, the serving node is none of    *)
(* them, and their places.                                                 *)
Stops(s, r) == {i \in 2 .. Len(Back(s, r)) : Back(s, r)[i] \in CacheNode}

WayBack(s, r) == {Back(s, r)[i] : i \in Stops(s, r)}

LCE(r, c) == {OnPath(r, c, WayBack(Server(r, c), r))}

FirstOnly(s, r) ==
  LET others == {i \in Stops(s, r) : Back(s, r)[i] # r}
  IN  IF others = {} THEN {}
      ELSE {Back(s, r)[CHOOSE i \in others : \A j \in others : i =< j]}

LCD(r, c) == {OnPath(r, c, FirstOnly(Server(r, c), r))}

(* PROB_CACHE and RAND_BERNOULLI toss a coin at every cache.               *)
Tossed(r, c) ==
  {OnPath(r, c, puts) : puts \in SUBSET (WayBack(Server(r, c), r) \ {r})}

RAND_CHOICE(r, c) ==
  LET caches == WayBack(Server(r, c), r) \ {r}
  IN  IF caches = {} THEN {OnPath(r, c, {})} ELSE {OnPath(r, c, {v}) : v \in caches}

(* CL4M: the most central cache, the one closest to the receiver of those. *)
MostCentral(way, places) ==
  {i \in places :
     \A j \in places :
       \/ Betweenness[way[j]] < Betweenness[way[i]]
       \/ Betweenness[way[j]] = Betweenness[way[i]] /\ j =< i}

CL4M(r, c) ==
  LET way == Back(Server(r, c), r)
  IN  {OnPath(r, c, {way[i] : i \in MostCentral(way, Stops(Server(r, c), r))})}

NO_CACHE(r, c) ==
  {Plan(Source[c], <<Source[c]>>, Hops(r, Source[c]), path_links(Back(Source[c], r)), {})}

(* EDGE: only the first cache on the way is looked up.                     *)
EDGE(r, c) ==
  LET p     == Path[r][Source[c]]
      edges == {i \in 2 .. Len(p) : p[i] \in CacheNode}
      i     == CHOOSE i \in edges : \A j \in edges : i =< j
      there == path_links(SubSeq(p, 1, i))
  IN  IF edges = {} THEN NO_CACHE(r, c)
      ELSE IF Holds(p[i], c) THEN {Plan(p[i], <<p[i]>>, there, path_links(Back(p[i], r)), {})}
      ELSE {Plan(Source[c], <<p[i], Source[c]>>, there \o Hops(p[i], Source[c]),
                 path_links(Back(Source[c], r)), {p[i]})}

(* NRR: the smallest sum of the identifiers of the nodes on the path; of   *)
(* several the first one in the set's order.                               *)
SumOf(p) == SX!FoldSeq(LAMBDA x, y : x + y, 0, p)

Nearest(r, c) ==
  {v \in content_locations(c) :
     \A w \in content_locations(c) : SumOf(Path[r][v]) =< SumOf(Path[r][w])}

NRR_LCE(r, c) ==
  {Plan(s, <<s>>, Hops(r, s), path_links(Back(s, r)), {v \in WayBack(s, r) : ~Holds(v, c)}) :
     s \in Nearest(r, c)}

NRR_LCD(r, c) ==
  {Plan(s, <<s>>, Hops(r, s), path_links(Back(s, r)), FirstOnly(s, r)) : s \in Nearest(r, c)}

(* Hash-routing: the authoritative cache of the content is asked, then the *)
(* source.  delivery is what follows a miss.                               *)
HashRouting(r, c, delivery) ==
  LET a == Authoritative(c) s == Source[c] IN
    IF Holds(a, c) THEN {Plan(a, <<a>>, Hops(r, a), Hops(a, r), {})}
    ELSE {[Plan(s, <<a, s>>, Hops(r, a) \o Hops(a, s), delivery.content, delivery.puts)
             EXCEPT !.ends = delivery.ends]}

Symmetric(s, a, r) == [content |-> Hops(s, a) \o Hops(a, r), puts |-> {a}, ends |-> TRUE]

OnTheWay(s, a, r) == a \in SX!ToSet(Path[s][r])

(* The last common node of the two paths; the cache where one path is the  *)
(* beginning of the other.                                                 *)
Fork(s, a, r) ==
  LET p == Path[s][a] q == Path[s][r]
      apart == {i \in DOMAIN p \cap DOMAIN q : p[i] # q[i]}
  IN  IF apart = {} THEN a ELSE p[(CHOOSE i \in apart : \A j \in apart : i =< j) - 1]

Asymmetric(s, a, r) ==
  IF OnTheWay(s, a, r) THEN Symmetric(s, a, r)
  ELSE [content |-> Hops(s, r), puts |-> {}, ends |-> TRUE]

(* Mutation: the branch to the receiver is forgotten.                      *)
MulticastToCache(s, a, r) ==
  LET f == Fork(s, a, r) IN
    IF OnTheWay(s, a, r) THEN Symmetric(s, a, r)
    ELSE [content |-> Hops(s, f) \o Hops(f, a), puts |-> {a}, ends |-> TRUE]

(* Mutation: the node where the branches part stores the content.          *)
MulticastAtFork(s, a, r) ==
  LET f == Fork(s, a, r) IN
    IF OnTheWay(s, a, r) THEN Symmetric(s, a, r)
    ELSE [content |-> Hops(s, f) \o Hops(f, r) \o Hops(f, a), puts |-> {f}, ends |-> TRUE]

Multicast(s, a, r) ==
  LET f == Fork(s, a, r) IN
    IF OnTheWay(s, a, r) THEN Symmetric(s, a, r)
    ELSE [content |-> Hops(s, f) \o Hops(f, r) \o Hops(f, a), puts |-> {a}, ends |-> TRUE]

(* Mutation: the content is stored where it was not sent.                  *)
HybridAMKept(s, a, r) ==
  LET f == Fork(s, a, r) IN
    IF OnTheWay(s, a, r) THEN Symmetric(s, a, r)
    ELSE [content |-> Hops(s, r) \o IF Len(Hops(f, a)) < MaxStretch THEN Hops(f, a) ELSE <<>>,
          puts |-> {a}, ends |-> TRUE]

HybridAM(s, a, r) ==
  LET f == Fork(s, a, r) IN
    IF OnTheWay(s, a, r) THEN Symmetric(s, a, r)
    ELSE IF Len(Hops(f, a)) < MaxStretch
    THEN [content |-> Hops(s, r) \o Hops(f, a), puts |-> {a}, ends |-> TRUE]
    ELSE [content |-> Hops(s, r), puts |-> {}, ends |-> TRUE]

(* HR_HYBRID_SM calls end_session only where the cache is off the way: the *)
(* call stands in that branch.                                             *)
HybridSM(s, a, r) ==
  LET f == Fork(s, a, r)
      symmetric == Len(Hops(s, a)) + Len(Hops(a, r))
      multicast == Len(Hops(s, f)) + Len(Hops(f, a)) + Len(Hops(f, r))
  IN  IF OnTheWay(s, a, r) THEN [Symmetric(s, a, r) EXCEPT !.ends = FALSE]
      ELSE IF symmetric =< multicast THEN Symmetric(s, a, r)
      ELSE [content |-> Hops(s, r) \o Hops(f, a), puts |-> {a}, ends |-> TRUE]

HR_HYBRID_SM(r, c) ==
  {[p EXCEPT !.ends = @ /\ p.server = Source[c]] : p \in HashRouting(r, c, HybridSM(Source[c], Authoritative(c), r))}

Plans(r, c) ==
  CASE strategy = "NO_CACHE"       -> NO_CACHE(r, c)
    [] strategy = "EDGE"           -> EDGE(r, c)
    [] strategy = "LCE"            -> LCE(r, c)
    [] strategy = "LCD"            -> LCD(r, c)
    [] strategy = "PROB_CACHE"     -> Tossed(r, c)
    [] strategy = "RAND_BERNOULLI" -> Tossed(r, c)
    [] strategy = "RAND_CHOICE"    -> RAND_CHOICE(r, c)
    [] strategy = "CL4M"           -> CL4M(r, c)
    [] strategy = "NRR_LCE"        -> NRR_LCE(r, c)
    [] strategy = "NRR_LCD"        -> NRR_LCD(r, c)
    [] strategy = "HR_SYMM"        -> HashRouting(r, c, Symmetric(Source[c], Authoritative(c), r))
    [] strategy = "HR_ASYMM"       -> HashRouting(r, c, Asymmetric(Source[c], Authoritative(c), r))
    [] strategy = "HR_MULTICAST"   -> HashRouting(r, c, Multicast(Source[c], Authoritative(c), r))
    [] strategy = "HR_HYBRID_AM"   -> HashRouting(r, c, HybridAM(Source[c], Authoritative(c), r))
    [] strategy = "HR_HYBRID_SM"   -> HR_HYBRID_SM(r, c)
---------------------------------------------------------------------------
(* The controller and the collectors.                                      *)

(* get_content: a node with a cache answers for its cache only, another    *)
(* one if it is the source.  The serving node of a session is the last one *)
(* that reported a hit.                                                    *)
Provides(v, c) == IF v \in CacheNode THEN Holds(v, c) ELSE v = Source[c]

Answering(p, c) == {i \in DOMAIN p.asks : Provides(p.asks[i], c)}

serving_node(p, c) ==
  IF Answering(p, c) = {} THEN None
  ELSE p.asks[CHOOSE i \in Answering(p, c) : \A j \in Answering(p, c) : j =< i]

(* get_content at the nodes asked, then put_content at the nodes of the    *)
(* plan: a node without a cache does nothing.                              *)
PutInto(b, c) == {o[1] : o \in PutOutcomes(b, c, c \in Held(b))}

CacheAfter(v, p, c) ==
  LET got == IF \E i \in DOMAIN p.asks : p.asks[i] = v THEN Got(cache[v], c, Holds(v, c)) ELSE cache[v]
  IN  IF v \in p.puts THEN PutInto(got, c) ELSE {got}

CachesAfter(p, c) ==
  {after \in [CacheNode -> UNION {CacheAfter(v, p, c) : v \in CacheNode}] :
     \A v \in CacheNode : after[v] \in CacheAfter(v, p, c)}

Count(counter, hops) ==
  [l \in Link |-> counter[l] + Cardinality({i \in DOMAIN hops : hops[i] = l})]

TotalDelay(hops) == SX!FoldSeq(LAMBDA l, t : Delay[l] + t, 0, hops)

(* sess_latency of a session: forward_request_path and                     *)
(* forward_content_path report every hop as one of the main path.          *)
sess_latency(p) == TotalDelay(p.request) + TotalDelay(p.content)

(* From start_session to end_session, for a session that is logged.        *)
StatsAfter(p, r, c) ==
  LET hits   == Answering(p, c)
      cached == {i \in hits : p.asks[i] \in CacheNode}
      away   == {i \in cached : p.asks[i] \notin SX!ToSet(Path[r][Source[c]])}
  IN
  [sess_count |-> stats.sess_count + 1,
   ended      |-> stats.ended + IF p.ends THEN 1 ELSE 0,
   cache_hits |-> stats.cache_hits + Cardinality(cached),
   serv_hits  |-> stats.serv_hits + Cardinality(hits \ cached),
   off_path   |-> stats.off_path + Cardinality(away),
   latency    |-> stats.latency + IF p.ends THEN sess_latency(p) ELSE 0,
   req_count  |-> Count(stats.req_count, p.request),
   cont_count |-> Count(stats.cont_count, p.content)]

(* One event of the workload: receiver r asks for content c.  The events   *)
(* are logged from the end of the warm-up on.                              *)
Request(r, c, logged) ==
  /\ log => logged
  /\ logged => stats.sess_count < MaxSessions
  /\ \E p \in Plans(r, c) :
       /\ cache' \in CachesAfter(p, c)
       /\ IF logged
          THEN /\ stats' = StatsAfter(p, r, c)
               /\ last' = [receiver |-> r, contentId |-> c, server |-> serving_node(p, c),
                           request |-> p.request, content |-> p.content]
          ELSE UNCHANGED <<stats, last>>
  /\ log' = logged
  /\ UNCHANGED strategy

Next == \E r \in Receiver, c \in Item, logged \in BOOLEAN : Request(r, c, logged)

Spec == Init /\ [][Next]_vars
---------------------------------------------------------------------------
(* The variables are of their types.                                       *)
TypeOK ==
  /\ strategy \in Strategies
  /\ \A v \in CacheNode : Held(cache[v]) \subseteq Item /\ Cardinality(Held(cache[v])) =< MaxLen
  /\ log \in BOOLEAN
  /\ stats.sess_count \in 0 .. MaxSessions
  /\ stats.req_count \in [Link -> Nat] /\ stats.cont_count \in [Link -> Nat]

(* CacheHitRatioCollector takes the sum of its hits for the number of      *)
(* sessions: of the nodes a strategy asks, one cache or the source has the *)
(* content, and it asks nobody who has it after that.                      *)
ServedOnce == stats.cache_hits + stats.serv_hits = stats.sess_count

(* The hops of the request are one walk from the receiver to the node that *)
(* answered; every hop of the content starts where the content is already, *)
(* and the content comes to the receiver, on a branch of the tree perhaps. *)
IsWalk(hops, u, v) ==
  /\ hops # <<>>
  /\ hops[1][1] = u /\ hops[Len(hops)][2] = v
  /\ \A i \in 1 .. Len(hops) - 1 : hops[i][2] = hops[i + 1][1]

Reached(hops, i, server) == {server} \cup {hops[j][2] : j \in 1 .. i}

ContentIsDelivered ==
  last # <<>> =>
    /\ IsWalk(last.request, last.receiver, last.server)
    /\ \A i \in DOMAIN last.content :
         last.content[i][1] \in Reached(last.content, i - 1, last.server)
    /\ last.receiver \in Reached(last.content, Len(last.content), last.server)

(* Symmetric hash-routing brings the content back over the links the       *)
(* request took, and so does a network without caches, though networkx     *)
(* gives paths of its own for the two directions.                          *)
SymmetricReturn ==
  last # <<>> /\ strategy \in {"HR_SYMM", "NO_CACHE"} =>
    last.content = SX!Reverse([i \in DOMAIN last.request |-> <<last.request[i][2], last.request[i][1]>>])

(* Under hash-routing a content is cached at one node only, the one its    *)
(* hash names, whichever way it was delivered.                             *)
HashRoutingStrategy ==
  strategy \in {"HR_SYMM", "HR_ASYMM", "HR_MULTICAST", "HR_HYBRID_AM", "HR_HYBRID_SM"}

CachedWhereHashed ==
  HashRoutingStrategy =>
    \A v \in CacheNode, c \in Item : Holds(v, c) => v = Authoritative(c)

(* A content appears in a cache only when a session brought it there: it   *)
(* is the one asked for, the node is one it passed, and the strategies     *)
(* that leave one copy leave no more.                                      *)
NewCopies(c) == {v \in CacheNode : c \in Held(cache'[v]) /\ ~Holds(v, c)}

CopiesAreDelivered ==
  [][\A c \in Item :
       /\ stats' # stats /\ NewCopies(c) # {} =>
            /\ last'.contentId = c
            /\ NewCopies(c) \subseteq Reached(last'.content, Len(last'.content), last'.server)
       /\ strategy \notin {"LCE", "NRR_LCE", "PROB_CACHE", "RAND_BERNOULLI"} =>
            Cardinality(NewCopies(c)) =< 1]_vars

(* Every session that was started has been closed when the next one may    *)
(* start, so that its latency and stretch have been taken into account.    *)
SessionsAreClosed == stats.ended = stats.sess_count
=============================================================================
