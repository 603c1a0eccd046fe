------------------------- MODULE IcarusNetworkProofs -------------------------
(***************************************************************************)
(* Theorems about IcarusNetwork, for every connected network, placement of *)
(* caches, sources and receivers, shortest paths and workload.             *)
(*                                                                         *)
(* What a session does is a matter of its plan: GoodPlan says what every   *)
(* plan of every strategy is like, and the invariants follow from it and   *)
(* from what every policy does with a content (IcarusPoliciesProofs).      *)
(***************************************************************************)
EXTENDS IcarusNetwork, IcarusPoliciesProofs

---------------------------------------------------------------------------
(* symmetrify_paths.                                                       *)

(* What Reverse does to a sequence.                                        *)
LEMMA Reversed ==
  ASSUME NEW S, NEW p \in Seq(S)
  PROVE  /\ SX!Reverse(p) \in Seq(S) /\ Len(SX!Reverse(p)) = Len(p)
         /\ DOMAIN SX!Reverse(p) = 1 .. Len(p)
         /\ \A i \in 1 .. Len(p) : SX!Reverse(p)[i] = p[Len(p) - i + 1]
         /\ SX!Reverse(SX!Reverse(p)) = p
<1>1. /\ DOMAIN p = 1 .. Len(p) /\ Len(p) \in Nat
      /\ \A i \in 1 .. Len(p) : p[i] \in S
  BY LenProperties, ElementOfSeq
<1> DEFINE n == Len(p)
           r == SX!Reverse(p)
<1>2. r = [i \in 1 .. n |-> p[n - i + 1]]
  BY DEF SX!Reverse
<1> HIDE DEF r
<1>3. \A i \in 1 .. n : n - i + 1 \in 1 .. n
  BY <1>1
<1>4. r \in [1 .. n -> S]
  BY <1>1, <1>2, <1>3
<1>5. r \in Seq(S) /\ Len(r) = n /\ DOMAIN r = 1 .. n
  BY <1>1, <1>4
<1>6. SX!Reverse(r) = [i \in 1 .. n |-> r[n - i + 1]]
  BY <1>5 DEF SX!Reverse
<1>7. \A i \in 1 .. n : r[n - i + 1] = p[i]
  BY <1>1, <1>2, <1>3
<1>8. SX!Reverse(r) = [i \in 1 .. n |-> p[i]]
  BY <1>6, <1>7
<1>9. p = [i \in 1 .. n |-> p[i]]
  BY <1>1
<1> QED BY <1>2, <1>5, <1>8, <1>9 DEF r

(* The pairs of places below n are numbered row by row.                    *)
LEMMA RowByRow ==
  ASSUME NEW n \in Nat \ {0}, NEW i \in 1 .. n * n
  PROVE  LET q == (i - 1) \div n  r == (i - 1) % n IN
         /\ q + 1 \in 1 .. n /\ r + 1 \in 1 .. n
         /\ \A a, b \in 1 .. n : (a - 1) * n + b = i <=> a = q + 1 /\ b = r + 1
<1> DEFINE q == (i - 1) \div n
           r == (i - 1) % n
<1>1. q \in Int /\ r \in 0 .. n - 1 /\ i - 1 = n * q + r /\ n * n \in Nat
  OBVIOUS
<1> HIDE DEF q, r
<1>2. q >= 0
  <2> SUFFICES ASSUME q =< -1 PROVE FALSE
    BY <1>1
  <2>1. n * q =< n * (-1)
    BY <1>1
  <2> QED BY <1>1, <2>1
<1>3. q =< n - 1
  <2> SUFFICES ASSUME q >= n PROVE FALSE
    BY <1>1
  <2>1. n * q >= n * n
    BY <1>1
  <2> QED BY <1>1, <2>1
<1>4. ASSUME NEW a \in 1 .. n, NEW b \in 1 .. n, (a - 1) * n + b = i
      PROVE  a = q + 1 /\ b = r + 1
  <2>1. n * (a - 1 - q) = r + 1 - b
    BY <1>1, <1>4
  <2>2. ~ a - 1 - q >= 1
    <3> SUFFICES ASSUME a - 1 - q >= 1 PROVE FALSE
      OBVIOUS
    <3>1. n * (a - 1 - q) >= n * 1
      BY <1>1
    <3> QED BY <1>1, <2>1, <3>1
  <2>3. ~ a - 1 - q =< -1
    <3> SUFFICES ASSUME a - 1 - q =< -1 PROVE FALSE
      OBVIOUS
    <3>1. n * (a - 1 - q) =< n * (-1)
      BY <1>1
    <3> QED BY <1>1, <2>1, <3>1
  <2>4. a - 1 - q = 0
    BY <1>1, <2>2, <2>3
  <2> QED BY <1>1, <2>1, <2>4
<1>5. (q + 1 - 1) * n + r + 1 = i
  BY <1>1
<1>6. q + 1 \in 1 .. n /\ r + 1 \in 1 .. n
  BY <1>1, <1>2, <1>3
<1> QED BY <1>1, <1>4, <1>5, <1>6 DEF q, r

(* The path from u to v, once it has been written: that of the pair which  *)
(* comes first in the order is that of the other pair, reversed.           *)
Pos(u) == CHOOSE i \in DOMAIN NodeOrder : NodeOrder[i] = u

N == Len(NodeOrder)

Written(u, v, i) ==
  IF Pos(u) < Pos(v) /\ (Pos(u) - 1) * N + Pos(v) =< i
  THEN SX!Reverse(RawPath[v][u]) ELSE RawPath[u][v]

Pairs(i) == [u \in Node |-> [v \in Node |-> Written(u, v, i)]]

(* The places of the nodes in their order.                                 *)
LEMMA Places ==
  /\ N \in Nat /\ DOMAIN NodeOrder = 1 .. N
  /\ \A i \in 1 .. N : NodeOrder[i] \in Node /\ Pos(NodeOrder[i]) = i
  /\ \A u \in Node : Pos(u) \in 1 .. N /\ NodeOrder[Pos(u)] = u
<1>1. N \in Nat /\ DOMAIN NodeOrder = 1 .. N
  BY PathAssumption, LenProperties DEF N
<1>2. \A u \in Node : \E i \in DOMAIN NodeOrder : NodeOrder[i] = u
  BY DEF Node
<1>3. \A u \in Node : Pos(u) \in DOMAIN NodeOrder /\ NodeOrder[Pos(u)] = u
  BY <1>2 DEF Pos
<1>4. \A i \in 1 .. N : NodeOrder[i] \in Node
  BY <1>1 DEF Node
<1>5. \A i \in 1 .. N : Pos(NodeOrder[i]) = i
  <2> TAKE i \in 1 .. N
  <2>1. /\ Pos(NodeOrder[i]) \in DOMAIN NodeOrder /\ i \in DOMAIN NodeOrder
        /\ NodeOrder[Pos(NodeOrder[i])] = NodeOrder[i]
    BY <1>1, <1>3, <1>4
  <2> QED BY <2>1, PathAssumption
<1> QED BY <1>1, <1>3, <1>4, <1>5

(* What networkx returns.                                                  *)
LEMMA RawPathIs ==
  ASSUME NEW u \in Node, NEW v \in Node
  PROVE  /\ RawPath[u][v] \in Seq(Node)
         /\ SX!Reverse(SX!Reverse(RawPath[u][v])) = RawPath[u][v]
         /\ SX!Reverse(RawPath[u][u]) = RawPath[u][u]
<1>1. RawPath[u][v] \in Seq(Node) /\ RawPath[u][u] = <<u>>
  BY PathAssumption
<1>2. SX!Reverse(<<u>>) = <<u>>
  <2>1. SX!Reverse(<<u>>) = [i \in 1 .. 1 |-> <<u>>[1 - i + 1]]
    BY DEF SX!Reverse
  <2> QED BY <2>1
<1> QED BY <1>1, <1>2, Reversed

(* One turn of the loop.                                                   *)
LEMMA OneTurn ==
  ASSUME NEW i \in 1 .. N * N
  PROVE  LET u == NodeOrder[((i - 1) \div N) + 1]
             v == NodeOrder[((i - 1) % N) + 1]
         IN  Pairs(i) = [Pairs(i - 1) EXCEPT ![u][v] = SX!Reverse(Pairs(i - 1)[v][u])]
<1> DEFINE q == (i - 1) \div N
           r == (i - 1) % N
<1>0. N \in Nat \ {0} /\ N * N \in Nat
  <2>1. N \in Nat
    BY Places
  <2>2. N # 0
    <3> SUFFICES ASSUME N = 0 PROVE FALSE
      OBVIOUS
    <3>1. N * N = 0
      OBVIOUS
    <3> QED BY <3>1
  <2> QED BY <2>1, <2>2
<1>1. /\ q + 1 \in 1 .. N /\ r + 1 \in 1 .. N
      /\ \A a, b \in 1 .. N : (a - 1) * N + b = i <=> a = q + 1 /\ b = r + 1
  BY <1>0, RowByRow
<1> HIDE DEF q, r
<1> DEFINE u == NodeOrder[q + 1]
           v == NodeOrder[r + 1]
<1>2. u \in Node /\ v \in Node /\ Pos(u) = q + 1 /\ Pos(v) = r + 1
  BY <1>1, Places
<1>3. (Pos(u) - 1) * N + Pos(v) = i
  BY <1>1, <1>2
<1> HIDE DEF u, v
<1>4. \A x, y \in Node : /\ Pos(x) \in 1 .. N /\ NodeOrder[Pos(x)] = x
                         /\ (Pos(x) - 1) * N + Pos(y) \in Int
                         /\ ((Pos(x) - 1) * N + Pos(y) = i => x = u /\ y = v)
  <2> TAKE x, y \in Node
  <2>1. /\ Pos(x) \in 1 .. N /\ NodeOrder[Pos(x)] = x
        /\ Pos(y) \in 1 .. N /\ NodeOrder[Pos(y)] = y
    BY Places
  <2>2. (Pos(x) - 1) * N + Pos(y) \in Int
    BY <1>0, <2>1
  <2> QED BY <1>1, <2>1, <2>2 DEF u, v
<1>5. Written(u, v, i) = SX!Reverse(Written(v, u, i - 1))
  <2>1. CASE Pos(u) < Pos(v)
    BY <1>2, <1>3, <1>4, <2>1 DEF Written
  <2>2. CASE Pos(v) < Pos(u)
    <3>1. (Pos(v) - 1) * N + Pos(u) =< i - 1
      <4>1. (Pos(v) - 1) * N + N =< (Pos(u) - 1) * N
        <5>1. (Pos(v) - 1) * N + N = Pos(v) * N
          BY <1>0, <1>2, <1>4
        <5>2. Pos(v) * N =< (Pos(u) - 1) * N
          BY <1>0, <1>2, <1>4, <2>2
        <5> QED BY <5>1, <5>2
      <4> DEFINE a == (Pos(v) - 1) * N
                 b == (Pos(u) - 1) * N
      <4>2. a \in Int /\ b \in Int /\ b + Pos(v) = i /\ a + N =< b
        BY <1>0, <1>2, <1>3, <1>4, <4>1
      <4> HIDE DEF a, b
      <4>3. a + Pos(u) =< i - 1
        BY <1>0, <1>2, <1>4, <4>2
      <4> QED BY <4>3 DEF a
    <3>2. Written(v, u, i - 1) = SX!Reverse(RawPath[u][v])
      BY <2>2, <3>1 DEF Written
    <3>3. Written(u, v, i) = RawPath[u][v]
      BY <1>2, <1>4, <2>2 DEF Written
    <3> QED BY <1>2, <3>2, <3>3, RawPathIs
  <2>3. CASE Pos(u) = Pos(v)
    <3>1. u = v
      BY <1>2, <1>4, <2>3
    <3> QED BY <1>2, <1>4, <3>1, RawPathIs DEF Written
  <2> QED BY <1>2, <1>4, <2>1, <2>2, <2>3
<1>6. ASSUME NEW x \in Node, NEW y \in Node, x # u \/ y # v
      PROVE  Written(x, y, i) = Written(x, y, i - 1)
  <2>1. (Pos(x) - 1) * N + Pos(y) # i /\ (Pos(x) - 1) * N + Pos(y) \in Int
    BY <1>4, <1>6
  <2>2. (Pos(x) - 1) * N + Pos(y) =< i <=> (Pos(x) - 1) * N + Pos(y) =< i - 1
    BY <2>1
  <2> QED BY <2>2 DEF Written
<1>7. Pairs(i) = [Pairs(i - 1) EXCEPT ![u][v] = SX!Reverse(Pairs(i - 1)[v][u])]
  <2>1. Pairs(i - 1)[v][u] = Written(v, u, i - 1)
    BY <1>2 DEF Pairs
  <2> DEFINE P == Pairs(i - 1)
             new == [P EXCEPT ![u][v] = SX!Reverse(Written(v, u, i - 1))]
  <2>2. P = [x \in Node |-> [y \in Node |-> Written(x, y, i - 1)]]
    BY DEF Pairs
  <2>3. \A x \in Node : new[x] = [y \in Node |-> IF x = u /\ y = v
                                                THEN SX!Reverse(Written(v, u, i - 1))
                                                ELSE Written(x, y, i - 1)]
    BY <1>2, <2>2
  <2>4. new = [x \in Node |-> new[x]]
    BY <2>2
  <2> HIDE DEF new
  <2>5. \A x \in Node : new[x] = [y \in Node |-> Written(x, y, i)]
    <3> TAKE x \in Node
    <3>1. \A y \in Node : Written(x, y, i) = IF x = u /\ y = v
                                             THEN SX!Reverse(Written(v, u, i - 1))
                                             ELSE Written(x, y, i - 1)
      BY <1>5, <1>6
    <3> QED BY <2>3, <3>1
  <2>6. new = Pairs(i)
    BY <2>4, <2>5 DEF Pairs
  <2> QED BY <2>1, <2>6 DEF new
<1> QED BY <1>7 DEF u, v, q, r

(* The loop computes what Pairs says.                                      *)
LEMMA LoopIsPairs == Path = Pairs(N * N)
<1> DEFINE D == 0 .. N * N
           g == [i \in D |-> Pairs(i)]
           Next1(f, i) ==
             LET u == NodeOrder[((i - 1) \div N) + 1]
                 v == NodeOrder[((i - 1) % N) + 1]
                 paths == f[i - 1]
             IN  [paths EXCEPT ![u][v] = SX!Reverse(paths[v][u])]
<1>1. N \in Nat /\ N * N \in Nat
  BY Places
<1>2. Pairs(0) = RawPath
  <2>1. \A u, v \in Node : Written(u, v, 0) = RawPath[u][v]
    <3> TAKE u, v \in Node
    <3>1. Pos(u) \in 1 .. N /\ Pos(v) \in 1 .. N
      BY Places
    <3>2. (Pos(u) - 1) * N >= 0
      BY <1>1, <3>1
    <3>3. (Pos(u) - 1) * N \in Int
      BY <1>1, <3>1
    <3> DEFINE a == (Pos(u) - 1) * N
    <3> HIDE DEF a
    <3>4. ~ a + Pos(v) =< 0
      BY <3>1, <3>2, <3>3 DEF a
    <3> QED BY <3>4 DEF Written, a
  <2>2. RawPath = [u \in Node |-> [v \in Node |-> RawPath[u][v]]]
    BY PathAssumption
  <2> QED BY <2>1, <2>2 DEF Pairs
<1>3. \A i \in D \ {0} : i \in 1 .. N * N /\ i - 1 \in D
  BY <1>1
<1>4. \A i \in D \ {0} : g[i] = Next1(g, i)
  <2> TAKE i \in D \ {0}
  <2>1. g[i - 1] = Pairs(i - 1) /\ g[i] = Pairs(i)
    BY <1>3
  <2> HIDE DEF g
  <2> QED BY <1>3, <2>1, OneTurn
<1>5. g = [i \in D |-> IF i = 0 THEN RawPath ELSE Next1(g, i)]
  <2>1. \A i \in D : g[i] = IF i = 0 THEN RawPath ELSE Next1(g, i)
    BY <1>2, <1>4
  <2>2. g = [i \in D |-> g[i]]
    OBVIOUS
  <2> HIDE DEF g, Next1
  <2> QED BY <2>1, <2>2
<1>6. Symmetrified = [i \in D |-> IF i = 0 THEN RawPath ELSE Next1(Symmetrified, i)]
  <2> HIDE DEF g
  <2> QED BY <1>5 DEF Symmetrified, N
<1> DEFINE T == {i \in D : Symmetrified[i] # g[i]}
<1>7. T = {}
  <2> SUFFICES ASSUME T # {} PROVE FALSE
    OBVIOUS
  <2>1. T \in SUBSET Nat
    BY <1>1
  <2> HIDE DEF g
  <2>2. PICK i \in T : \A j \in T : i =< j
    <3> HIDE DEF T
    <3> QED BY <2>1, LeastNumber
  <2>3. CASE i = 0
    BY <1>1, <1>5, <1>6, <2>3
  <2>4. CASE i # 0
    <3>1. i - 1 \in D /\ i - 1 \notin T
      BY <1>1, <2>2, <2>4
    <3>2. Symmetrified[i - 1] = g[i - 1]
      BY <3>1
    <3>3. Next1(Symmetrified, i) = Next1(g, i)
      BY <3>2
    <3> HIDE DEF Next1
    <3>4. Symmetrified[i] = Next1(Symmetrified, i) /\ g[i] = Next1(g, i)
      BY <1>5, <1>6, <2>4
    <3> QED BY <3>3, <3>4
  <2> QED BY <2>3, <2>4
<1>8. Symmetrified[N * N] = g[N * N]
  <2>1. N * N \in D
    <3> DEFINE m == N * N
    <3>1. m \in Nat
      BY <1>1
    <3> HIDE DEF m
    <3>2. m \in 0 .. m
      BY <3>1
    <3> QED BY <3>2 DEF m
  <2> HIDE DEF g, D
  <2> QED BY <1>7, <2>1
<1> QED BY <1>1, <1>8 DEF Path, N

(* The paths are paths, and symmetric.                                     *)
THEOREM PathsAreSymmetric ==
  \A u, v \in Node : /\ IsPath(Path[u][v], u, v)
                     /\ Path[v][u] = SX!Reverse(Path[u][v])
                     /\ Path[u][u] = <<u>>
<1> TAKE u, v \in Node
<1>1. \A x, y \in Node : Path[x][y] = IF Pos(x) < Pos(y) THEN SX!Reverse(RawPath[y][x])
                                      ELSE RawPath[x][y]
  <2> TAKE x, y \in Node
  <2>1. N \in Nat /\ Pos(x) \in 1 .. N /\ Pos(y) \in 1 .. N
    BY Places
  <2>2. (Pos(x) - 1) * N + Pos(y) =< N * N
    <3>1. (Pos(x) - 1) * N + N = Pos(x) * N
      BY <2>1
    <3>2. Pos(x) * N =< N * N
      BY <2>1
    <3> DEFINE a == (Pos(x) - 1) * N
    <3>3. a \in Int /\ a + N =< N * N /\ N * N \in Int
      BY <2>1, <3>1, <3>2
    <3> HIDE DEF a
    <3> QED BY <2>1, <3>3 DEF a
  <2>3. Path[x][y] = Written(x, y, N * N)
    BY LoopIsPairs DEF Pairs
  <2> QED BY <2>2, <2>3 DEF Written
<1>2. /\ RawPath[u][v] \in Seq(Node) /\ RawPath[v][u] \in Seq(Node)
      /\ RawPath[u][v] # <<>> /\ RawPath[v][u] # <<>>
      /\ RawPath[u][v][1] = u /\ RawPath[u][v][Len(RawPath[u][v])] = v
      /\ RawPath[v][u][1] = v /\ RawPath[v][u][Len(RawPath[v][u])] = u
  BY PathAssumption DEF IsPath
<1>3. \A p \in Seq(Node) : p # <<>> => Len(p) \in Nat \ {0}
  BY LenProperties, EmptySeq
<1>4. IsPath(SX!Reverse(RawPath[v][u]), u, v)
  <2> DEFINE p == RawPath[v][u]
             m == Len(p)
  <2>1. m \in Nat \ {0} /\ 1 \in 1 .. m /\ m \in 1 .. m /\ m - 1 + 1 = m /\ m - m + 1 = 1
    BY <1>2, <1>3
  <2>2. /\ SX!Reverse(p) \in Seq(Node) /\ Len(SX!Reverse(p)) = m
        /\ SX!Reverse(p)[1] = p[m] /\ SX!Reverse(p)[m] = p[1]
    BY <1>2, <2>1, Reversed
  <2>3. SX!Reverse(p) # <<>>
    BY <2>1, <2>2
  <2> QED BY <1>2, <2>2, <2>3 DEF IsPath
<1>5. IsPath(Path[u][v], u, v)
  BY <1>1, <1>4, PathAssumption
<1>6. Path[u][u] = <<u>>
  <2>1. ~ Pos(u) < Pos(u)
    BY Places
  <2> QED BY <1>1, <2>1, PathAssumption
<1>7. Path[v][u] = SX!Reverse(Path[u][v])
  <2>1. Pos(u) \in Int /\ Pos(v) \in Int /\ NodeOrder[Pos(u)] = u /\ NodeOrder[Pos(v)] = v
    BY Places
  <2>2. CASE Pos(u) < Pos(v)
    <3>1. ~ Pos(v) < Pos(u)
      BY <2>1, <2>2
    <3> QED BY <1>1, <2>2, <3>1, RawPathIs
  <2>3. CASE Pos(v) < Pos(u)
    <3>1. ~ Pos(u) < Pos(v)
      BY <2>1, <2>3
    <3> QED BY <1>1, <2>3, <3>1
  <2>4. CASE Pos(u) = Pos(v)
    <3>1. u = v
      BY <2>1, <2>4
    <3>2. SX!Reverse(<<u>>) = <<u>>
      BY RawPathIs, PathAssumption
    <3> QED BY <1>6, <3>1, <3>2
  <2> QED BY <2>1, <2>2, <2>3, <2>4
<1> QED BY <1>5, <1>6, <1>7
---------------------------------------------------------------------------
(* Walks, and the trees along which a content is carried.                  *)

(* h leads from u to v, or is empty where u is v.                          *)
Walk(h, u, v) ==
  /\ h \in Seq(Node \X Node)
  /\ IF h = <<>> THEN u = v ELSE h[1][1] = u /\ h[Len(h)][2] = v
  /\ \A i \in 1 .. Len(h) - 1 : h[i][2] = h[i + 1][1]

(* Every hop of h starts at s or where an earlier one ended.               *)
Tree(h, s) ==
  /\ h \in Seq(Node \X Node)
  /\ \A i \in 1 .. Len(h) : h[i][1] \in Reached(h, i - 1, s)

Reach(h, s) == Reached(h, Len(h), s)

(* A path is a walk over its links, and the walk passes all its nodes.     *)
LEMMA PathIsWalk ==
  ASSUME NEW u, NEW v, NEW p, IsPath(p, u, v)
  PROVE  /\ Walk(path_links(p), u, v)
         /\ Len(path_links(p)) = Len(p) - 1
         /\ \A i \in 1 .. Len(p) : p[i] \in Reach(path_links(p), u)
<1>1. /\ p \in Seq(Node) /\ Len(p) \in Nat \ {0} /\ DOMAIN p = 1 .. Len(p)
      /\ p[1] = u /\ p[Len(p)] = v /\ \A i \in 1 .. Len(p) : p[i] \in Node
  BY LenProperties, EmptySeq, ElementOfSeq DEF IsPath
<1> DEFINE n == Len(p)
           h == path_links(p)
<1>2. h = [i \in 1 .. n - 1 |-> <<p[i], p[i + 1]>>]
  BY DEF path_links
<1> HIDE DEF h
<1>3. h \in [1 .. n - 1 -> Node \X Node]
  <2>1. \A i \in 1 .. n - 1 : <<p[i], p[i + 1]>> \in Node \X Node
    BY <1>1
  <2> QED BY <1>2, <2>1
<1>4. h \in Seq(Node \X Node) /\ Len(h) = n - 1 /\ DOMAIN h = 1 .. n - 1
  <2>1. n - 1 \in Nat
    BY <1>1
  <2> QED BY <1>3, <2>1
<1>5. \A i \in 1 .. n - 1 : h[i][1] = p[i] /\ h[i][2] = p[i + 1]
  BY <1>2
<1>6. Walk(h, u, v)
  <2>1. CASE n = 1
    <3>1. h = <<>> /\ u = v
      BY <1>1, <1>4, <2>1, EmptySeq
    <3> QED BY <1>4, <2>1, <3>1 DEF Walk
  <2>2. CASE n > 1
    <3>1. h # <<>> /\ 1 \in 1 .. n - 1 /\ n - 1 \in 1 .. n - 1 /\ n - 1 + 1 = n
      BY <1>1, <1>4, <2>2
    <3>2. h[1][1] = u /\ h[n - 1][2] = v
      BY <1>1, <1>5, <3>1
    <3>3. \A i \in 1 .. (n - 1) - 1 : h[i][2] = h[i + 1][1]
      BY <1>1, <1>5
    <3> QED BY <1>4, <3>1, <3>2, <3>3 DEF Walk
  <2> QED BY <1>1, <2>1, <2>2
<1>7. \A i \in 1 .. n : p[i] \in Reach(h, u)
  <2> TAKE i \in 1 .. n
  <2>1. CASE i = 1
    BY <1>1, <2>1 DEF Reach, Reached
  <2>2. CASE i # 1
    <3>1. i - 1 \in 1 .. n - 1 /\ i - 1 + 1 = i
      BY <1>1, <2>2
    <3>2. h[i - 1][2] = p[i]
      BY <1>5, <3>1
    <3> QED BY <1>4, <3>1, <3>2 DEF Reach, Reached
  <2> QED BY <2>1, <2>2
<1> QED BY <1>4, <1>6, <1>7 DEF h

(* One walk behind the other.                                              *)
LEMMA WalkOn ==
  ASSUME NEW u, NEW v, NEW w, NEW h, Walk(h, u, v), NEW k, Walk(k, v, w)
  PROVE  Walk(h \o k, u, w)
<1>1. /\ h \in Seq(Node \X Node) /\ k \in Seq(Node \X Node)
      /\ Len(h) \in Nat /\ Len(k) \in Nat
      /\ (h = <<>> <=> Len(h) = 0) /\ (k = <<>> <=> Len(k) = 0)
  BY LenProperties, EmptySeq DEF Walk
<1> DEFINE m == Len(h)
           n == Len(k)
           b == h \o k
<1>2. /\ b \in Seq(Node \X Node) /\ Len(b) = m + n
      /\ \A i \in 1 .. m + n : b[i] = IF i =< m THEN h[i] ELSE k[i - m]
  BY <1>1, ConcatProperties
<1>3. CASE h = <<>>
  BY <1>1, <1>3, ConcatEmptySeq DEF Walk
<1>4. CASE k = <<>>
  BY <1>1, <1>4, ConcatEmptySeq DEF Walk
<1>5. CASE h # <<>> /\ k # <<>>
  <2>1. /\ h[1][1] = u /\ h[m][2] = v /\ k[1][1] = v /\ k[n][2] = w
        /\ \A i \in 1 .. m - 1 : h[i][2] = h[i + 1][1]
        /\ \A i \in 1 .. n - 1 : k[i][2] = k[i + 1][1]
    BY <1>5 DEF Walk
  <2> HIDE DEF b
  <2>2. /\ m \in Nat \ {0} /\ n \in Nat \ {0} /\ b # <<>>
        /\ b[1] = h[1] /\ b[m + n] = k[n]
    <3>1. /\ m \in Nat \ {0} /\ n \in Nat \ {0}
          /\ 1 =< m /\ ~ m + n =< m /\ m + n - m = n
          /\ 1 \in 1 .. m + n /\ m + n \in 1 .. m + n
      BY <1>1, <1>5
    <3>2. b # <<>>
      BY <1>2, <3>1, EmptySeq
    <3> QED BY <1>2, <3>1, <3>2
  <2>3. ASSUME NEW i \in 1 .. m + n - 1 PROVE b[i][2] = b[i + 1][1]
    <3>0. i \in 1 .. m + n /\ i + 1 \in 1 .. m + n
      BY <1>1
    <3>1. CASE i < m
      <4>1. i \in 1 .. m - 1 /\ i =< m /\ i + 1 =< m
        BY <1>1, <3>1
      <4> QED BY <1>2, <2>1, <3>0, <4>1
    <3>2. CASE i = m
      <4>1. i =< m /\ ~ i + 1 =< m /\ i + 1 - m = 1
        BY <1>1, <3>2
      <4>2. b[i] = h[m] /\ b[i + 1] = k[1]
        BY <1>2, <3>0, <3>2, <4>1
      <4> QED BY <2>1, <4>2
    <3>3. CASE i > m
      <4>1. /\ i - m \in 1 .. n - 1 /\ ~ i =< m /\ ~ i + 1 =< m
            /\ i + 1 - m = i - m + 1
        BY <1>1, <3>3
      <4>2. b[i] = k[i - m] /\ b[i + 1] = k[i - m + 1]
        BY <1>2, <3>0, <4>1
      <4> QED BY <2>1, <4>1, <4>2
    <3> QED BY <1>1, <3>1, <3>2, <3>3
  <2>4. b[1][1] = u /\ b[m + n][2] = w
    BY <2>1, <2>2
  <2> QED BY <1>2, <2>2, <2>3, <2>4 DEF Walk, b
<1> QED BY <1>3, <1>4, <1>5

(* A walk from s is a tree with root s that reaches its end.               *)
LEMMA WalkIsTree ==
  ASSUME NEW s, NEW x, NEW h, Walk(h, s, x)
  PROVE  Tree(h, s) /\ x \in Reach(h, s)
<1>1. /\ h \in Seq(Node \X Node) /\ Len(h) \in Nat /\ (h = <<>> <=> Len(h) = 0)
  BY LenProperties, EmptySeq DEF Walk
<1>2. ASSUME NEW i \in 1 .. Len(h) PROVE h[i][1] \in Reached(h, i - 1, s)
  <2>1. CASE i = 1
    BY <1>1, <2>1 DEF Walk, Reached
  <2>2. CASE i # 1
    <3>1. i - 1 \in 1 .. Len(h) - 1 /\ i - 1 + 1 = i /\ i - 1 \in 1 .. i - 1
      BY <1>1, <2>2
    <3>2. h[i - 1][2] = h[i][1]
      BY <3>1 DEF Walk
    <3> QED BY <3>1, <3>2 DEF Reached
  <2> QED BY <2>1, <2>2
<1>3. x \in Reach(h, s)
  <2>1. CASE h = <<>>
    BY <2>1 DEF Walk, Reach, Reached
  <2>2. CASE h # <<>>
    <3>1. Len(h) \in 1 .. Len(h) /\ h[Len(h)][2] = x
      BY <1>1, <2>2 DEF Walk
    <3> QED BY <3>1 DEF Reach, Reached
  <2> QED BY <2>1, <2>2
<1> QED BY <1>1, <1>2, <1>3 DEF Tree

(* A tree grows by a walk from a node it has reached.                      *)
LEMMA TreeGrows ==
  ASSUME NEW s, NEW w, NEW x, NEW h, Tree(h, s), w \in Reach(h, s), NEW k, Walk(k, w, x)
  PROVE  Tree(h \o k, s) /\ Reach(h, s) \subseteq Reach(h \o k, s) /\ x \in Reach(h \o k, s)
<1>1. /\ h \in Seq(Node \X Node) /\ k \in Seq(Node \X Node)
      /\ Len(h) \in Nat /\ Len(k) \in Nat
  BY LenProperties DEF Walk, Tree
<1> DEFINE m == Len(h)
           n == Len(k)
           b == h \o k
<1>2. /\ b \in Seq(Node \X Node) /\ Len(b) = m + n
      /\ \A i \in 1 .. m + n : b[i] = IF i =< m THEN h[i] ELSE k[i - m]
  BY <1>1, ConcatProperties
<1> HIDE DEF b
<1>3. Tree(k, w) /\ x \in Reach(k, w)
  BY WalkIsTree
<1>4. \A i \in 1 .. m : i \in 1 .. m + n /\ b[i] = h[i]
  BY <1>1, <1>2
<1>5. \A i \in 1 .. n : i + m \in 1 .. m + n /\ b[i + m] = k[i]
  <2> TAKE i \in 1 .. n
  <2>1. i + m \in 1 .. m + n /\ ~ i + m =< m /\ i + m - m = i
    BY <1>1
  <2> QED BY <1>2, <2>1
<1>6. ASSUME NEW i \in 0 .. n PROVE Reach(h, s) \subseteq Reached(b, i + m, s)
  <2>1. \A j \in 1 .. m : j \in 1 .. i + m
    BY <1>1
  <2> QED BY <1>4, <2>1 DEF Reach, Reached
<1>7. ASSUME NEW i \in 0 .. n PROVE Reached(k, i, w) \subseteq Reached(b, i + m, s)
  <2>1. \A j \in 1 .. i : j \in 1 .. n /\ j + m \in 1 .. i + m
    BY <1>1
  <2>2. w \in Reached(b, i + m, s)
    BY <1>6
  <2>3. \A j \in 1 .. i : k[j][2] \in Reached(b, i + m, s)
    BY <1>5, <2>1 DEF Reached
  <2>4. \A y \in Reached(k, i, w) : y = w \/ \E j \in 1 .. i : y = k[j][2]
    BY DEF Reached
  <2> QED BY <2>2, <2>3, <2>4
<1>8. ASSUME NEW i \in 1 .. m + n PROVE b[i][1] \in Reached(b, i - 1, s)
  <2>1. CASE i =< m
    <3>1. i \in 1 .. m /\ b[i] = h[i]
      BY <1>1, <1>2, <2>1
    <3>2. h[i][1] \in Reached(h, i - 1, s)
      BY <3>1 DEF Tree
    <3>3. \A j \in 1 .. i - 1 : j \in 1 .. m
      BY <1>1, <2>1
    <3> QED BY <1>4, <3>1, <3>2, <3>3 DEF Reached
  <2>2. CASE i > m
    <3>1. i - m \in 1 .. n /\ i - m - 1 \in 0 .. n /\ i - m - 1 + m = i - 1 /\ ~ i =< m
      BY <1>1, <2>2
    <3>2. b[i] = k[i - m]
      BY <1>2, <3>1
    <3>3. k[i - m][1] \in Reached(k, i - m - 1, w)
      BY <1>3, <3>1 DEF Tree
    <3>4. Reached(k, i - m - 1, w) \subseteq Reached(b, i - m - 1 + m, s)
      BY <1>7, <3>1
    <3> QED BY <3>1, <3>2, <3>3, <3>4
  <2> QED BY <1>1, <2>1, <2>2
<1>9. Reach(h, s) \subseteq Reach(b, s) /\ x \in Reach(b, s)
  <2>1. n \in 0 .. n /\ n + m = m + n
    BY <1>1
  <2>2. Reach(h, s) \subseteq Reached(b, n + m, s) /\ Reached(k, n, w) \subseteq Reached(b, n + m, s)
    BY <1>6, <1>7, <2>1
  <2> QED BY <1>2, <1>3, <2>1, <2>2 DEF Reach
<1>10. Tree(b, s)
  BY <1>2, <1>8 DEF Tree
<1> QED BY <1>9, <1>10 DEF b

(* The walk along the path from u to v.                                    *)
LEMMA HopsWalk ==
  ASSUME NEW u \in Node, NEW v \in Node
  PROVE  /\ Walk(Hops(u, v), u, v)
         /\ \A i \in 1 .. Len(Path[u][v]) : Path[u][v][i] \in Reach(Hops(u, v), u)
BY PathsAreSymmetric, PathIsWalk DEF Hops

(* The way back.                                                           *)
LEMMA BackIs == ASSUME NEW s \in Node, NEW r \in Node PROVE Back(s, r) = Path[s][r]
BY PathsAreSymmetric DEF Back
---------------------------------------------------------------------------
(* The plans of the strategies deliver the content.                        *)

Delivers(p, r) ==
  /\ IsWalk(p.request, r, p.server) /\ p.request \in Seq(Node \X Node)
  /\ Tree(p.content, p.server)
  /\ r \in Reach(p.content, p.server)

(* Who takes part in a session.                                            *)
LEMMA Parties ==
  ASSUME NEW r \in Receiver, NEW c \in Item
  PROVE  /\ r \in Node /\ Source[c] \in Node /\ CacheNode \subseteq Node
         /\ r \notin CacheNode /\ r # Source[c]
         /\ Authoritative(c) \in CacheNode
<1>1. r \in Node /\ Source[c] \in Node /\ r \notin CacheNode /\ r # Source[c]
  BY PlacementAssumption
<1>2. Len(CacheOrder) \in Nat \ {0} /\ DOMAIN CacheOrder = 1 .. Len(CacheOrder)
  BY PlacementAssumption, LenProperties, EmptySeq
<1>3. \A i \in 1 .. Len(CacheOrder) : CacheOrder[i] \in Node /\ CacheOrder[i] \in CacheNode
  BY <1>2, PlacementAssumption, ElementOfSeq DEF CacheNode
<1>4. CacheNode \subseteq Node
  BY <1>2, <1>3 DEF CacheNode
<1>5. Authoritative(c) \in CacheNode
  <2> DEFINE n == Len(CacheOrder)
             k == c % n
  <2>1. c \in Nat /\ k \in 0 .. n - 1
    BY <1>2, PlacementAssumption
  <2> HIDE DEF k
  <2>2. 1 + k \in 1 .. n /\ 1 + (n - k - 1) \in 1 .. n
    BY <1>2, <2>1
  <2>3. Authoritative(c) = CacheOrder[1 + IF c % (2 * n) = 0 THEN k ELSE n - k - 1]
    BY DEF Authoritative, k
  <2>4. CASE c % (2 * n) = 0
    BY <1>3, <2>2, <2>3, <2>4
  <2>5. CASE c % (2 * n) # 0
    BY <1>3, <2>2, <2>3, <2>5
  <2> QED BY <2>4, <2>5
<1> QED BY <1>1, <1>4, <1>5

(* The fields of a plan.                                                   *)
LEMMA PlanFields ==
  ASSUME NEW s, NEW t, NEW q, NEW h, NEW puts
  PROVE  /\ Plan(s, t, q, h, puts).server = s /\ Plan(s, t, q, h, puts).request = q
         /\ Plan(s, t, q, h, puts).content = h /\ Plan(s, t, q, h, puts).puts = puts
         /\ Plan(s, t, q, h, puts).asks = t
BY DEF Plan

(* A walk to another node has a hop.                                       *)
LEMMA RequestWalks ==
  ASSUME NEW h, NEW u, NEW v, u # v, Walk(h, u, v)
  PROVE  IsWalk(h, u, v) /\ h \in Seq(Node \X Node)
BY DEF Walk, IsWalk

(* The content comes back along the path.                                  *)
LEMMA BackDelivers ==
  ASSUME NEW s \in Node, NEW r \in Node, s # r, NEW t, NEW q, Walk(q, r, s), NEW puts
  PROVE  Delivers(Plan(s, t, q, path_links(Back(s, r)), puts), r)
<1>1. IsWalk(q, r, s) /\ q \in Seq(Node \X Node)
  BY RequestWalks
<1>2. path_links(Back(s, r)) = Hops(s, r)
  BY BackIs DEF Hops
<1>3. Walk(Hops(s, r), s, r)
  BY HopsWalk
<1>4. Tree(Hops(s, r), s) /\ r \in Reach(Hops(s, r), s)
  BY <1>3, WalkIsTree
<1> QED BY <1>1, <1>2, <1>4, PlanFields DEF Delivers

(* A path as far as its place i.                                           *)
LEMMA PathPart ==
  ASSUME NEW u, NEW v, NEW p, IsPath(p, u, v), NEW i \in 1 .. Len(p)
  PROVE  Walk(path_links(SubSeq(p, 1, i)), u, p[i])
<1>1. p \in Seq(Node) /\ Len(p) \in Nat /\ p[1] = u
  BY LenProperties DEF IsPath
<1>2. /\ SubSeq(p, 1, i) \in Seq(Node) /\ Len(SubSeq(p, 1, i)) = i
      /\ SubSeq(p, 1, i)[1] = p[1] /\ SubSeq(p, 1, i)[i] = p[i]
  <2> DEFINE q == SubSeq(p, 1, i)
  <2>1. q = [j \in 1 .. i |-> p[j]]
    <3>1. \A j \in 1 .. i : j \in 1 .. Len(p)
      BY <1>1
    <3> QED BY <1>1, <3>1, SubSeqProperties
  <2>2. \A j \in 1 .. i : p[j] \in Node
    BY <1>1, ElementOfSeq
  <2> HIDE DEF q
  <2>3. q \in [1 .. i -> Node] /\ i \in Nat /\ 1 \in 1 .. i /\ i \in 1 .. i
    BY <1>1, <2>1, <2>2
  <2>4. q \in Seq(Node) /\ Len(q) = i
    BY <2>3
  <2>5. q[1] = p[1] /\ q[i] = p[i]
    BY <2>1, <2>3
  <2> QED BY <2>4, <2>5 DEF q
<1>3. SubSeq(p, 1, i) # <<>>
  BY <1>1, <1>2, EmptySeq
<1>4. IsPath(SubSeq(p, 1, i), u, p[i])
  BY <1>1, <1>2, <1>3 DEF IsPath
<1> QED BY <1>4, PathIsWalk

(* The strategies that look at the caches on the way.                      *)
LEMMA OnPathDelivers ==
  ASSUME NEW r \in Receiver, NEW c \in Item, NEW puts
  PROVE  /\ Delivers(OnPath(r, c, puts), r)
         /\ Server(r, c) \in Node
         /\ \E t, q : OnPath(r, c, puts) =
              Plan(Server(r, c), t, q, path_links(Back(Server(r, c), r)), puts)
<1> DEFINE p == Path[r][Source[c]]
           hits == HitPlaces(r, c)
           i == IF hits = {} THEN Len(p) ELSE CHOOSE i \in hits : \A j \in hits : i =< j
<1>1. IsPath(p, r, Source[c])
  BY Parties, PathsAreSymmetric
<1>2. /\ p \in Seq(Node) /\ Len(p) \in Nat \ {0} /\ DOMAIN p = 1 .. Len(p)
      /\ p[Len(p)] = Source[c] /\ \A j \in 1 .. Len(p) : p[j] \in Node
  BY <1>1, LenProperties, EmptySeq, ElementOfSeq DEF IsPath
<1>3. i \in 1 .. Len(p) /\ p[i] \in CacheNode \cup {Source[c]}
  <2>1. CASE hits = {}
    BY <1>2, <2>1
  <2>2. CASE hits # {}
    <3>1. hits \in SUBSET Nat /\ hits \subseteq 1 .. Len(p)
      BY <1>2 DEF HitPlaces
    <3>2. \A j \in hits : p[j] \in CacheNode
      BY DEF HitPlaces, Holds
    <3> HIDE DEF hits
    <3>3. \E k \in hits : \A j \in hits : k =< j
      BY <2>2, <3>1, LeastNumber
    <3>4. i \in hits
      BY <2>2, <3>3
    <3> QED BY <3>1, <3>2, <3>4
  <2> QED BY <2>1, <2>2
<1>4. \A w : OnPath(r, c, w) = Plan(p[i], Asked(p, i), path_links(SubSeq(p, 1, i)),
                                     path_links(Back(p[i], r)), w)
  BY DEF OnPath
<1> HIDE DEF i
<1>5. p[i] \in Node /\ p[i] # r /\ r \in Node
  BY <1>2, <1>3, Parties
<1>6. Walk(path_links(SubSeq(p, 1, i)), r, p[i])
  BY <1>1, <1>3, PathPart
<1> HIDE DEF p
<1>8. Delivers(OnPath(r, c, puts), r)
  BY <1>4, <1>5, <1>6, BackDelivers
<1>9. Server(r, c) = p[i]
  BY <1>4, PlanFields DEF Server
<1> QED BY <1>4, <1>5, <1>8, <1>9

(* Without caches the source answers.                                      *)
LEMMA NoCacheDelivers ==
  ASSUME NEW r \in Receiver, NEW c \in Item, NEW p \in NO_CACHE(r, c)
  PROVE  /\ Delivers(p, r) /\ p.server = Source[c]
         /\ p.request = Hops(r, Source[c]) /\ p.content = Hops(Source[c], r)
<1>1. p = Plan(Source[c], <<Source[c]>>, Hops(r, Source[c]), path_links(Back(Source[c], r)), {})
  BY DEF NO_CACHE
<1>2. Walk(Hops(r, Source[c]), r, Source[c])
  BY Parties, HopsWalk
<1>3. Delivers(p, r)
  BY <1>1, <1>2, Parties, BackDelivers
<1>4. path_links(Back(Source[c], r)) = Hops(Source[c], r)
  BY Parties, BackIs DEF Hops
<1> QED BY <1>1, <1>3, <1>4, PlanFields

(* The first cache on the way, or the source behind it.                    *)
LEMMA EdgeDelivers ==
  ASSUME NEW r \in Receiver, NEW c \in Item, NEW p \in EDGE(r, c)
  PROVE  Delivers(p, r)
<1> DEFINE q == Path[r][Source[c]]
           edges == {i \in 2 .. Len(q) : q[i] \in CacheNode}
           i == CHOOSE i \in edges : \A j \in edges : i =< j
           there == path_links(SubSeq(q, 1, i))
<1>1. IsPath(q, r, Source[c])
  BY Parties, PathsAreSymmetric
<1>2. q \in Seq(Node) /\ Len(q) \in Nat /\ DOMAIN q = 1 .. Len(q)
  BY <1>1, LenProperties DEF IsPath
<1>3. CASE edges = {}
  <2>1. p \in NO_CACHE(r, c)
    BY <1>3 DEF EDGE
  <2> QED BY <2>1, NoCacheDelivers
<1>4. CASE edges # {}
  <2>1. i \in 1 .. Len(q) /\ q[i] \in CacheNode
    <3>1. edges \in SUBSET Nat /\ \A j \in edges : j \in 1 .. Len(q) /\ q[j] \in CacheNode
      BY <1>2
    <3> HIDE DEF edges
    <3>2. \E k \in edges : \A j \in edges : k =< j
      BY <1>4, <3>1, LeastNumber
    <3>3. i \in edges
      BY <3>2
    <3> QED BY <3>1, <3>3
  <2>2. \/ p = Plan(q[i], <<q[i]>>, there, path_links(Back(q[i], r)), {})
        \/ p = Plan(Source[c], <<q[i], Source[c]>>, there \o Hops(q[i], Source[c]),
                    path_links(Back(Source[c], r)), {q[i]})
    BY <1>4 DEF EDGE
  <2> HIDE DEF i
  <2>3. Walk(there, r, q[i])
    BY <1>1, <2>1, PathPart
  <2>4. /\ r \in Node /\ Source[c] \in Node /\ r # Source[c]
        /\ q[i] \in Node /\ q[i] # r
    BY <2>1, Parties
  <2> HIDE DEF there
  <2>5. Walk(there \o Hops(q[i], Source[c]), r, Source[c])
    BY <2>3, <2>4, HopsWalk, WalkOn
  <2> HIDE DEF q
  <2> QED BY <2>2, <2>3, <2>4, <2>5, BackDelivers
<1> QED BY <1>3, <1>4

(* The nearest copy is one of a cache or of the source.                    *)
LEMMA NearestDelivers ==
  ASSUME NEW r \in Receiver, NEW c \in Item, NEW s \in Nearest(r, c), NEW t, NEW puts
  PROVE  Delivers(Plan(s, t, Hops(r, s), path_links(Back(s, r)), puts), r)
<1>1. s \in CacheNode \cup {Source[c]}
  BY DEF Nearest, content_locations
<1>2. s \in Node /\ r \in Node /\ s # r
  BY <1>1, Parties
<1> QED BY <1>2, HopsWalk, BackDelivers
---------------------------------------------------------------------------
(* Hash-routing.                                                           *)

(* What follows a miss at a brings the content from s to r.                *)
Brings(d, s, a, r) ==
  Tree(d.content, s) /\ r \in Reach(d.content, s) /\ d.puts \subseteq {a}

(* The authoritative cache answers, or the source behind it.               *)
LEMMA HashRoutingDelivers ==
  ASSUME NEW r \in Receiver, NEW c \in Item, NEW d,
         Brings(d, Source[c], Authoritative(c), r),
         NEW p \in HashRouting(r, c, d)
  PROVE  Delivers(p, r) /\ p.puts \subseteq {Authoritative(c)}
<1> DEFINE a == Authoritative(c)
           s == Source[c]
<1>1. a \in Node /\ s \in Node /\ r \in Node /\ a # r /\ s # r
  BY Parties
<1>2. \/ p = Plan(a, <<a>>, Hops(r, a), Hops(a, r), {})
      \/ p = [Plan(s, <<a, s>>, Hops(r, a) \o Hops(a, s), d.content, d.puts)
                 EXCEPT !.ends = d.ends]
  BY DEF HashRouting
<1> HIDE DEF a, s
<1>3. CASE p = Plan(a, <<a>>, Hops(r, a), Hops(a, r), {})
  <2>1. IsWalk(Hops(r, a), r, a) /\ Hops(r, a) \in Seq(Node \X Node)
    BY <1>1, HopsWalk, RequestWalks
  <2>2. Tree(Hops(a, r), a) /\ r \in Reach(Hops(a, r), a)
    BY <1>1, HopsWalk, WalkIsTree
  <2> QED BY <1>3, <2>1, <2>2, PlanFields DEF Delivers
<1>4. CASE p = [Plan(s, <<a, s>>, Hops(r, a) \o Hops(a, s), d.content, d.puts)
                 EXCEPT !.ends = d.ends]
  <2>1. Walk(Hops(r, a) \o Hops(a, s), r, s)
    BY <1>1, HopsWalk, WalkOn
  <2>2. /\ IsWalk(Hops(r, a) \o Hops(a, s), r, s)
        /\ Hops(r, a) \o Hops(a, s) \in Seq(Node \X Node)
    BY <1>1, <2>1, RequestWalks
  <2>3. /\ p.server = s /\ p.request = Hops(r, a) \o Hops(a, s)
        /\ p.content = d.content /\ p.puts = d.puts
    BY <1>4 DEF Plan
  <2>4. Tree(d.content, s) /\ r \in Reach(d.content, s) /\ d.puts \subseteq {a}
    BY DEF Brings, a, s
  <2> QED BY <2>2, <2>3, <2>4 DEF Delivers, a
<1> QED BY <1>2, <1>3, <1>4

(* The node where the paths to the cache and to the receiver part is on    *)
(* the latter, or it is the cache.                                         *)
LEMMA ForkIs ==
  ASSUME NEW s \in Node, NEW a \in Node, NEW r \in Node
  PROVE  Fork(s, a, r) \in Node /\ (Fork(s, a, r) = a \/ OnTheWay(s, Fork(s, a, r), r))
<1> DEFINE p == Path[s][a]
           q == Path[s][r]
           apart == {i \in DOMAIN p \cap DOMAIN q : p[i] # q[i]}
           k == CHOOSE i \in apart : \A j \in apart : i =< j
<1>1. /\ p \in Seq(Node) /\ q \in Seq(Node) /\ p[1] = s /\ q[1] = s
      /\ DOMAIN p = 1 .. Len(p) /\ Len(p) \in Nat
      /\ DOMAIN q = 1 .. Len(q) /\ Len(q) \in Nat
      /\ \A i \in 1 .. Len(p) : p[i] \in Node
  BY PathsAreSymmetric, LenProperties, ElementOfSeq DEF IsPath
<1>2. Fork(s, a, r) = IF apart = {} THEN a ELSE p[k - 1]
  BY DEF Fork
<1>3. CASE apart = {}
  BY <1>2, <1>3
<1>4. CASE apart # {}
  <2>1. /\ apart \in SUBSET Nat
        /\ \A i \in apart : i \in 1 .. Len(p) /\ i \in 1 .. Len(q) /\ p[i] # q[i]
        /\ \A i \in 1 .. Len(p) : i \in 1 .. Len(q) /\ i \notin apart => p[i] = q[i]
    BY <1>1
  <2> HIDE DEF p, q, apart
  <2>2. \E i \in apart : \A j \in apart : i =< j
    BY <1>4, <2>1, LeastNumber
  <2>3. k \in apart /\ \A j \in apart : k =< j
    BY <2>2
  <2> HIDE DEF k
  <2>4. k # 1
    BY <1>1, <2>1, <2>3
  <2>5. k - 1 \in 1 .. Len(p) /\ k - 1 \in 1 .. Len(q) /\ k - 1 \notin apart
    BY <1>1, <2>1, <2>3, <2>4
  <2>6. p[k - 1] = q[k - 1] /\ p[k - 1] \in Node
    BY <1>1, <2>1, <2>5
  <2>7. p[k - 1] \in SX!ToSet(q)
    BY <1>1, <2>5, <2>6 DEF SX!ToSet
  <2> QED BY <1>2, <1>4, <2>6, <2>7 DEF OnTheWay, q
<1> QED BY <1>3, <1>4

(* The nodes on the way from s to r are reached on it.                     *)
LEMMA WayReached ==
  ASSUME NEW s \in Node, NEW r \in Node, NEW x, OnTheWay(s, x, r)
  PROVE  x \in Reach(Hops(s, r), s)
<1>1. DOMAIN Path[s][r] = 1 .. Len(Path[s][r])
  BY PathsAreSymmetric, LenProperties DEF IsPath
<1>2. PICK i \in 1 .. Len(Path[s][r]) : x = Path[s][r][i]
  BY <1>1 DEF OnTheWay, SX!ToSet
<1> QED BY <1>2, HopsWalk

(* Back through the cache.                                                 *)
LEMMA SymmetricBrings ==
  ASSUME NEW s \in Node, NEW a \in Node, NEW r \in Node
  PROVE  Brings(Symmetric(s, a, r), s, a, r)
<1>1. Walk(Hops(s, a) \o Hops(a, r), s, r)
  BY HopsWalk, WalkOn
<1> QED BY <1>1, WalkIsTree DEF Brings, Symmetric

(* The way to the receiver.                                                *)
LEMMA DirectBrings ==
  ASSUME NEW s \in Node, NEW r \in Node
  PROVE  Tree(Hops(s, r), s) /\ r \in Reach(Hops(s, r), s)
BY HopsWalk, WalkIsTree

(* The way to the receiver, and the branch to the cache.                   *)
LEMMA BranchBrings ==
  ASSUME NEW s \in Node, NEW a \in Node, NEW r \in Node
  PROVE  LET h == Hops(s, r) \o Hops(Fork(s, a, r), a)
         IN  Tree(h, s) /\ r \in Reach(h, s)
<1> DEFINE f == Fork(s, a, r)
<1>1. f \in Node /\ (f = a \/ OnTheWay(s, f, r))
  BY ForkIs
<1> HIDE DEF f
<1>2. CASE f = a
  <2>1. Hops(a, a) = <<>>
    <3>1. Path[a][a] = <<a>>
      BY PathsAreSymmetric
    <3>2. path_links(<<a>>) = <<>>
      <4>1. path_links(<<a>>) = [i \in 1 .. 0 |-> <<<<a>>[i], <<a>>[i + 1]>>]
        BY DEF path_links
      <4> QED BY <4>1
    <3> QED BY <3>1, <3>2 DEF Hops
  <2>2. Hops(s, r) \o <<>> = Hops(s, r)
    <3>1. Hops(s, r) \in Seq(Node \X Node)
      BY HopsWalk DEF Walk
    <3> QED BY <3>1, ConcatEmptySeq
  <2> QED BY <1>2, <2>1, <2>2, DirectBrings DEF f
<1>3. CASE OnTheWay(s, f, r)
  <2>1. f \in Reach(Hops(s, r), s)
    BY <1>3, WayReached
  <2>2. Walk(Hops(f, a), f, a)
    BY <1>1, HopsWalk
  <2>3. Tree(Hops(s, r), s) /\ r \in Reach(Hops(s, r), s)
    BY DirectBrings
  <2> QED BY <2>1, <2>2, <2>3, TreeGrows DEF f
<1> QED BY <1>1, <1>2, <1>3

(* Straight back, unless the cache is on the way.                          *)
LEMMA AsymmetricBrings ==
  ASSUME NEW s \in Node, NEW a \in Node, NEW r \in Node
  PROVE  Brings(Asymmetric(s, a, r), s, a, r)
<1>1. CASE OnTheWay(s, a, r)
  BY <1>1, SymmetricBrings DEF Asymmetric
<1>2. CASE ~OnTheWay(s, a, r)
  BY <1>2, DirectBrings DEF Asymmetric, Brings
<1> QED BY <1>1, <1>2

(* To the fork, and from there in both directions.                         *)
LEMMA MulticastBrings ==
  ASSUME NEW s \in Node, NEW a \in Node, NEW r \in Node
  PROVE  Brings(Multicast(s, a, r), s, a, r)
<1>1. CASE OnTheWay(s, a, r)
  BY <1>1, SymmetricBrings DEF Multicast
<1>2. CASE ~OnTheWay(s, a, r)
  <2> DEFINE f == Fork(s, a, r)
             h == Hops(s, f) \o Hops(f, r)
  <2>1. f \in Node
    BY ForkIs
  <2>2. Multicast(s, a, r) = [content |-> h \o Hops(f, a), puts |-> {a}, ends |-> TRUE]
    BY <1>2 DEF Multicast
  <2> HIDE DEF f
  <2>3. Tree(Hops(s, f), s) /\ f \in Reach(Hops(s, f), s)
    BY <2>1, DirectBrings
  <2>4. Walk(Hops(f, r), f, r) /\ Walk(Hops(f, a), f, a)
    BY <2>1, HopsWalk
  <2>5. Tree(h, s) /\ f \in Reach(h, s) /\ r \in Reach(h, s)
    BY <2>3, <2>4, TreeGrows
  <2> HIDE DEF h
  <2>6. Tree(h \o Hops(f, a), s) /\ r \in Reach(h \o Hops(f, a), s)
    BY <2>4, <2>5, TreeGrows
  <2> QED BY <2>2, <2>6 DEF Brings
<1> QED BY <1>1, <1>2

(* Straight back, with a branch where it is short.                         *)
LEMMA HybridAMBrings ==
  ASSUME NEW s \in Node, NEW a \in Node, NEW r \in Node
  PROVE  Brings(HybridAM(s, a, r), s, a, r)
<1>1. CASE OnTheWay(s, a, r)
  BY <1>1, SymmetricBrings DEF HybridAM
<1>2. CASE ~OnTheWay(s, a, r)
  <2>1. \/ HybridAM(s, a, r) = [content |-> Hops(s, r) \o Hops(Fork(s, a, r), a),
                                puts |-> {a}, ends |-> TRUE]
        \/ HybridAM(s, a, r) = [content |-> Hops(s, r), puts |-> {}, ends |-> TRUE]
    BY <1>2 DEF HybridAM
  <2>2. CASE HybridAM(s, a, r) = [content |-> Hops(s, r) \o Hops(Fork(s, a, r), a),
                                  puts |-> {a}, ends |-> TRUE]
    BY <2>2, BranchBrings DEF Brings
  <2>3. CASE HybridAM(s, a, r) = [content |-> Hops(s, r), puts |-> {}, ends |-> TRUE]
    BY <2>3, DirectBrings DEF Brings
  <2> QED BY <2>1, <2>2, <2>3
<1> QED BY <1>1, <1>2

(* The cheaper of the two.                                                 *)
LEMMA HybridSMBrings ==
  ASSUME NEW s \in Node, NEW a \in Node, NEW r \in Node
  PROVE  Brings(HybridSM(s, a, r), s, a, r)
<1>1. \/ HybridSM(s, a, r) = [Symmetric(s, a, r) EXCEPT !.ends = FALSE]
      \/ HybridSM(s, a, r) = Symmetric(s, a, r)
      \/ HybridSM(s, a, r) = [content |-> Hops(s, r) \o Hops(Fork(s, a, r), a),
                              puts |-> {a}, ends |-> TRUE]
  BY DEF HybridSM
<1>2. CASE HybridSM(s, a, r) = [Symmetric(s, a, r) EXCEPT !.ends = FALSE]
  <2>1. /\ HybridSM(s, a, r).content = Symmetric(s, a, r).content
        /\ HybridSM(s, a, r).puts = Symmetric(s, a, r).puts
    BY <1>2 DEF Symmetric
  <2> QED BY <2>1, SymmetricBrings DEF Brings
<1>3. CASE HybridSM(s, a, r) = Symmetric(s, a, r)
  BY <1>3, SymmetricBrings
<1>4. CASE HybridSM(s, a, r) = [content |-> Hops(s, r) \o Hops(Fork(s, a, r), a),
                                puts |-> {a}, ends |-> TRUE]
  BY <1>4, BranchBrings DEF Brings
<1> QED BY <1>1, <1>2, <1>3, <1>4
---------------------------------------------------------------------------
(* Turning a walk back.                                                    *)
TurnedBack(h) == SX!Reverse([i \in DOMAIN h |-> <<h[i][2], h[i][1]>>])

(* The hops of a walk turned back.                                         *)
LEMMA TurnedBackIs ==
  ASSUME NEW h \in Seq(Node \X Node)
  PROVE  /\ TurnedBack(h) \in Seq(Node \X Node) /\ Len(TurnedBack(h)) = Len(h)
         /\ \A i \in 1 .. Len(h) :
              TurnedBack(h)[i] = <<h[Len(h) - i + 1][2], h[Len(h) - i + 1][1]>>
<1>1. /\ Len(h) \in Nat /\ DOMAIN h = 1 .. Len(h)
      /\ \A i \in 1 .. Len(h) : h[i] \in Node \X Node
  BY LenProperties, ElementOfSeq
<1> DEFINE g == [i \in DOMAIN h |-> <<h[i][2], h[i][1]>>]
<1>2. g \in [1 .. Len(h) -> Node \X Node]
  <2>1. \A i \in 1 .. Len(h) : <<h[i][2], h[i][1]>> \in Node \X Node
    BY <1>1
  <2> QED BY <1>1, <2>1
<1>3. \A i \in 1 .. Len(h) : g[i] = <<h[i][2], h[i][1]>>
  BY <1>1
<1> HIDE DEF g
<1>4. g \in Seq(Node \X Node) /\ Len(g) = Len(h)
  BY <1>1, <1>2
<1>5. /\ SX!Reverse(g) \in Seq(Node \X Node) /\ Len(SX!Reverse(g)) = Len(g)
      /\ \A i \in 1 .. Len(g) : SX!Reverse(g)[i] = g[Len(g) - i + 1]
  BY <1>4, Reversed
<1>6. \A i \in 1 .. Len(h) : Len(h) - i + 1 \in 1 .. Len(h)
  BY <1>1
<1> QED BY <1>3, <1>4, <1>5, <1>6 DEF TurnedBack, g

(* The links of the path from u to v, turned back, are those of the path   *)
(* from v to u.                                                            *)
LEMMA HopsTurnedBack ==
  ASSUME NEW u \in Node, NEW v \in Node
  PROVE  TurnedBack(Hops(u, v)) = Hops(v, u)
<1> DEFINE p == Path[u][v]
           q == Path[v][u]
           n == Len(p)
<1>1. /\ p \in Seq(Node) /\ p # <<>> /\ q = SX!Reverse(p)
  BY PathsAreSymmetric DEF IsPath
<1>2. n \in Nat \ {0}
  BY <1>1, LenProperties, EmptySeq
<1>3. Len(q) = n /\ \A i \in 1 .. n : q[i] = p[n - i + 1]
  BY <1>1, Reversed
<1> HIDE DEF p, q
<1>4. /\ Hops(u, v) = [i \in 1 .. n - 1 |-> <<p[i], p[i + 1]>>]
      /\ Hops(v, u) = [i \in 1 .. n - 1 |-> <<q[i], q[i + 1]>>]
  BY <1>3 DEF Hops, path_links, p, q
<1> HIDE DEF n
<1>5. Hops(u, v) \in Seq(Node \X Node) /\ Hops(v, u) \in Seq(Node \X Node)
  BY HopsWalk DEF Walk
<1>6. Len(Hops(u, v)) = n - 1 /\ Len(Hops(v, u)) = n - 1
  <2>1. \A h \in Seq(Node \X Node) : DOMAIN h = 1 .. Len(h) /\ Len(h) \in Nat
    BY LenProperties
  <2>2. DOMAIN Hops(u, v) = 1 .. n - 1 /\ DOMAIN Hops(v, u) = 1 .. n - 1
    BY <1>4
  <2>3. ASSUME NEW k \in Nat, 1 .. k = 1 .. n - 1 PROVE k = n - 1
    BY <1>2, <2>3
  <2> QED BY <1>5, <2>1, <2>2, <2>3
<1>7. ASSUME NEW i \in 1 .. n - 1
      PROVE  Hops(v, u)[i] = <<Hops(u, v)[n - 1 - i + 1][2], Hops(u, v)[n - 1 - i + 1][1]>>
  <2> DEFINE k == n - 1 - i + 1
  <2>1. /\ k \in 1 .. n - 1 /\ i \in 1 .. n /\ i + 1 \in 1 .. n
        /\ n - i + 1 = k + 1 /\ n - (i + 1) + 1 = k
    BY <1>2
  <2> HIDE DEF k
  <2>2. q[i] = p[k + 1] /\ q[i + 1] = p[k]
    BY <1>3, <2>1
  <2>3. Hops(u, v)[k] = <<p[k], p[k + 1]>> /\ Hops(v, u)[i] = <<q[i], q[i + 1]>>
    BY <1>4, <2>1
  <2> QED BY <2>2, <2>3 DEF k
<1>8. /\ TurnedBack(Hops(u, v)) \in Seq(Node \X Node)
      /\ Len(TurnedBack(Hops(u, v))) = n - 1
      /\ \A i \in 1 .. n - 1 : TurnedBack(Hops(u, v))[i] = Hops(v, u)[i]
  <2>1. PICK h \in Seq(Node \X Node) : h = Hops(u, v)
    BY <1>5
  <2>2. /\ TurnedBack(h) \in Seq(Node \X Node) /\ Len(TurnedBack(h)) = Len(h)
        /\ \A i \in 1 .. Len(h) :
             TurnedBack(h)[i] = <<h[Len(h) - i + 1][2], h[Len(h) - i + 1][1]>>
    BY TurnedBackIs
  <2>3. Len(h) = n - 1
    BY <1>6, <2>1
  <2> QED BY <1>7, <2>1, <2>2, <2>3
<1> QED BY <1>5, <1>6, <1>8, SeqEqual

(* Two walks one behind the other are turned back in the other order.      *)
LEMMA TwoTurnedBack ==
  ASSUME NEW h \in Seq(Node \X Node), NEW k \in Seq(Node \X Node)
  PROVE  TurnedBack(h \o k) = TurnedBack(k) \o TurnedBack(h)
<1> DEFINE m == Len(h)
           n == Len(k)
           a == TurnedBack(h)
           b == TurnedBack(k)
           both == h \o k
           c == TurnedBack(both)
<1>1. /\ m \in Nat /\ n \in Nat /\ both \in Seq(Node \X Node) /\ Len(both) = m + n
      /\ \A i \in 1 .. m + n : both[i] = IF i =< m THEN h[i] ELSE k[i - m]
  BY LenProperties, ConcatProperties
<1> HIDE DEF both
<1>2. /\ a \in Seq(Node \X Node) /\ Len(a) = m
      /\ \A i \in 1 .. m : a[i] = <<h[m - i + 1][2], h[m - i + 1][1]>>
  BY TurnedBackIs
<1>3. /\ b \in Seq(Node \X Node) /\ Len(b) = n
      /\ \A i \in 1 .. n : b[i] = <<k[n - i + 1][2], k[n - i + 1][1]>>
  BY TurnedBackIs
<1>4. /\ c \in Seq(Node \X Node) /\ Len(c) = m + n
      /\ \A i \in 1 .. m + n :
           c[i] = <<both[m + n - i + 1][2], both[m + n - i + 1][1]>>
  <2>1. /\ c \in Seq(Node \X Node) /\ Len(c) = Len(both)
        /\ \A i \in 1 .. Len(both) :
             c[i] = <<both[Len(both) - i + 1][2], both[Len(both) - i + 1][1]>>
    BY <1>1, TurnedBackIs
  <2> QED BY <1>1, <2>1
<1> HIDE DEF a, b, c, m, n
<1>5. /\ b \o a \in Seq(Node \X Node) /\ Len(b \o a) = n + m
      /\ \A i \in 1 .. n + m : (b \o a)[i] = IF i =< n THEN b[i] ELSE a[i - n]
  <2>1. /\ b \o a \in Seq(Node \X Node) /\ Len(b \o a) = Len(b) + Len(a)
        /\ \A i \in 1 .. Len(b) + Len(a) :
             (b \o a)[i] = IF i =< Len(b) THEN b[i] ELSE a[i - Len(b)]
    BY <1>2, <1>3, ConcatProperties
  <2> QED BY <1>2, <1>3, <2>1
<1>6. ASSUME NEW i \in 1 .. m + n PROVE c[i] = (b \o a)[i]
  <2> DEFINE j == m + n - i + 1
  <2>0. c[i] = <<both[j][2], both[j][1]>>
    BY <1>4
  <2>1. j \in 1 .. m + n /\ i \in 1 .. n + m
    BY <1>1
  <2>2. CASE i =< n
    <3>1. /\ ~ j =< m /\ j - m = n - i + 1 /\ i \in 1 .. n
      BY <1>1, <2>2
    <3>2. both[j] = k[n - i + 1]
      BY <1>1, <2>1, <3>1
    <3>3. (b \o a)[i] = b[i] /\ b[i] = <<k[n - i + 1][2], k[n - i + 1][1]>>
      BY <1>3, <1>5, <2>1, <2>2, <3>1
    <3> QED BY <2>0, <3>2, <3>3
  <2>3. CASE i > n
    <3>1. /\ j =< m /\ j = m - (i - n) + 1 /\ i - n \in 1 .. m /\ ~ i =< n
      BY <1>1, <2>3
    <3>2. both[j] = h[m - (i - n) + 1]
      BY <1>1, <2>1, <3>1
    <3>3. (b \o a)[i] = a[i - n]
      BY <1>5, <2>1, <3>1
    <3>4. a[i - n] = <<h[m - (i - n) + 1][2], h[m - (i - n) + 1][1]>>
      BY <1>2, <3>1
    <3> QED BY <2>0, <3>2, <3>3, <3>4
  <2>4. i =< n \/ i > n
    <3>1. m \in Nat /\ n \in Nat
      BY <1>1
    <3> QED BY <3>1
  <2> QED BY <2>2, <2>3, <2>4
<1>7. m + n = n + m
  BY <1>1
<1> QED BY <1>4, <1>5, <1>6, <1>7, SeqEqual DEF a, b, c, both

(* Symmetric hash-routing.                                                 *)
LEMMA SymmetricReturns ==
  ASSUME NEW r \in Receiver, NEW c \in Item,
         NEW p \in HashRouting(r, c, Symmetric(Source[c], Authoritative(c), r))
  PROVE  p.content = TurnedBack(p.request)
<1> DEFINE a == Authoritative(c)
           s == Source[c]
           d == Symmetric(s, a, r)
<1>1. a \in Node /\ s \in Node /\ r \in Node
  BY Parties
<1>2. \/ p = Plan(a, <<a>>, Hops(r, a), Hops(a, r), {})
      \/ p = [Plan(s, <<a, s>>, Hops(r, a) \o Hops(a, s), d.content, d.puts)
                 EXCEPT !.ends = d.ends]
  BY DEF HashRouting
<1>3. d.content = Hops(s, a) \o Hops(a, r)
  BY DEF Symmetric
<1> HIDE DEF a, s, d
<1>4. \/ p.request = Hops(r, a) /\ p.content = Hops(a, r)
      \/ p.request = Hops(r, a) \o Hops(a, s) /\ p.content = Hops(s, a) \o Hops(a, r)
  <2>1. CASE p = Plan(a, <<a>>, Hops(r, a), Hops(a, r), {})
    BY <2>1, PlanFields
  <2>2. CASE p = [Plan(s, <<a, s>>, Hops(r, a) \o Hops(a, s), d.content, d.puts)
                 EXCEPT !.ends = d.ends]
    <3>1. p.request = Hops(r, a) \o Hops(a, s) /\ p.content = d.content
      BY <2>2 DEF Plan
    <3> QED BY <1>3, <3>1
  <2> QED BY <1>2, <2>1, <2>2
<1>5. /\ TurnedBack(Hops(r, a)) = Hops(a, r) /\ TurnedBack(Hops(a, s)) = Hops(s, a)
      /\ Hops(r, a) \in Seq(Node \X Node) /\ Hops(a, s) \in Seq(Node \X Node)
  BY <1>1, HopsTurnedBack, HopsWalk DEF Walk
<1> QED BY <1>4, <1>5, TwoTurnedBack
---------------------------------------------------------------------------
(* The copies.                                                             *)

(* The nodes that store the content are nodes it has passed.               *)
Carries(p) == p.puts \subseteq Reach(p.content, p.server)

(* At most one node stores the content.                                    *)
OneCopy(p) == \A v, w \in p.puts : v = w

(* What comes back along the path may be stored on the path.               *)
LEMMA BackCarries ==
  ASSUME NEW s \in Node, NEW r \in Node, NEW t, NEW q, NEW puts,
         puts \subseteq SX!ToSet(Path[s][r])
  PROVE  Carries(Plan(s, t, q, path_links(Back(s, r)), puts))
<1>1. path_links(Back(s, r)) = Hops(s, r)
  BY BackIs DEF Hops
<1>2. \A x \in puts : x \in Reach(Hops(s, r), s)
  BY WayReached DEF OnTheWay
<1> QED BY <1>1, <1>2, PlanFields DEF Carries

(* Both directions pass the same nodes.                                    *)
LEMMA SameNodes ==
  ASSUME NEW u \in Node, NEW v \in Node, NEW x \in SX!ToSet(Path[u][v])
  PROVE  x \in SX!ToSet(Path[v][u])
<1> DEFINE p == Path[u][v]
<1>1. p \in Seq(Node) /\ Path[v][u] = SX!Reverse(p)
  BY PathsAreSymmetric DEF IsPath
<1>2. DOMAIN p = 1 .. Len(p) /\ Len(p) \in Nat
  BY <1>1, LenProperties
<1>3. /\ DOMAIN SX!Reverse(p) = 1 .. Len(p)
      /\ \A i \in 1 .. Len(p) : SX!Reverse(p)[i] = p[Len(p) - i + 1]
  BY <1>1, Reversed
<1>4. PICK i \in 1 .. Len(p) : x = p[i]
  BY <1>2 DEF SX!ToSet
<1>5. Len(p) - i + 1 \in 1 .. Len(p) /\ Len(p) - (Len(p) - i + 1) + 1 = i
  BY <1>2
<1>6. SX!Reverse(p)[Len(p) - i + 1] = x
  BY <1>3, <1>4, <1>5
<1> HIDE DEF p
<1> QED BY <1>1, <1>3, <1>5, <1>6 DEF SX!ToSet

(* The stops are places of the path.                                       *)
LEMMA StopsAre ==
  ASSUME NEW s \in Node, NEW r \in Node
  PROVE  /\ Back(s, r) = Path[s][r]
         /\ Stops(s, r) \in SUBSET Nat
         /\ \A i \in Stops(s, r) : Path[s][r][i] \in SX!ToSet(Path[s][r]) /\ Path[s][r][i] \in Node
<1> DEFINE p == Path[s][r]
<1>1. Back(s, r) = p
  BY BackIs
<1>2. p \in Seq(Node)
  BY PathsAreSymmetric DEF IsPath
<1>3. /\ DOMAIN p = 1 .. Len(p) /\ Len(p) \in Nat
      /\ \A i \in 1 .. Len(p) : p[i] \in Node
  BY <1>2, LenProperties, ElementOfSeq
<1> HIDE DEF p
<1>4. \A i \in Stops(s, r) : i \in 1 .. Len(p)
  BY <1>1, <1>3 DEF Stops
<1> QED BY <1>1, <1>3, <1>4 DEF SX!ToSet, p

(* The caches on the way back are on the path.                             *)
LEMMA WayBackIs ==
  ASSUME NEW s \in Node, NEW r \in Node
  PROVE  WayBack(s, r) \subseteq SX!ToSet(Path[s][r])
BY StopsAre DEF WayBack

(* So is the first of them, and it is one.                                 *)
LEMMA FirstOnlyIs ==
  ASSUME NEW s \in Node, NEW r \in Node
  PROVE  /\ FirstOnly(s, r) \subseteq SX!ToSet(Path[s][r])
         /\ \A v, w \in FirstOnly(s, r) : v = w
<1> DEFINE others == {i \in Stops(s, r) : Back(s, r)[i] # r}
           k == CHOOSE i \in others : \A j \in others : i =< j
<1>1. FirstOnly(s, r) = IF others = {} THEN {} ELSE {Back(s, r)[k]}
  BY DEF FirstOnly
<1>2. others \in SUBSET Nat /\ others \subseteq Stops(s, r)
  BY StopsAre
<1> HIDE DEF others
<1>3. CASE others = {}
  BY <1>1, <1>3
<1>4. CASE others # {}
  <2>1. \E i \in others : \A j \in others : i =< j
    BY <1>2, <1>4, LeastNumber
  <2>2. k \in Stops(s, r)
    BY <1>2, <2>1
  <2> HIDE DEF k
  <2>3. FirstOnly(s, r) = {Path[s][r][k]}
    BY <1>1, <1>4, StopsAre
  <2>4. Path[s][r][k] \in SX!ToSet(Path[s][r])
    BY <2>2, StopsAre
  <2> QED BY <2>3, <2>4
<1> QED BY <1>3, <1>4

(* Of the most central caches one is left.                                 *)
LEMMA MostCentralIs ==
  ASSUME NEW s \in Node, NEW r \in Node
  PROVE  /\ MostCentral(Path[s][r], Stops(s, r)) \subseteq Stops(s, r)
         /\ \A i, j \in MostCentral(Path[s][r], Stops(s, r)) : i = j
<1> DEFINE p == Path[s][r]
<1>1. MostCentral(p, Stops(s, r)) \subseteq Stops(s, r)
  BY DEF MostCentral
<1>2. ASSUME NEW i \in MostCentral(p, Stops(s, r)), NEW j \in MostCentral(p, Stops(s, r))
      PROVE  i = j
  <2>1. /\ i \in Nat /\ j \in Nat
        /\ Betweenness[p[i]] \in Nat /\ Betweenness[p[j]] \in Nat
    BY <1>1, StopsAre, PlacementAssumption
  <2>2. /\ \/ Betweenness[p[j]] < Betweenness[p[i]]
           \/ Betweenness[p[j]] = Betweenness[p[i]] /\ j =< i
        /\ \/ Betweenness[p[i]] < Betweenness[p[j]]
           \/ Betweenness[p[i]] = Betweenness[p[j]] /\ i =< j
    BY DEF MostCentral
  <2> QED BY <2>1, <2>2
<1> QED BY <1>1, <1>2

(* The strategies that look at the caches on the way.                      *)
LEMMA OnPathCarries ==
  ASSUME NEW r \in Receiver, NEW c \in Item, NEW puts,
         puts \subseteq SX!ToSet(Path[Server(r, c)][r])
  PROVE  Carries(OnPath(r, c, puts)) /\ OnPath(r, c, puts).puts = puts
<1>1. PICK t, q : OnPath(r, c, puts) =
                   Plan(Server(r, c), t, q, path_links(Back(Server(r, c), r)), puts)
  BY OnPathDelivers
<1>2. Server(r, c) \in Node /\ r \in Node
  BY OnPathDelivers, Parties
<1> QED BY <1>1, <1>2, BackCarries, PlanFields

(* Edge caching stores the content at the first cache, on the way back too.*)
LEMMA EdgeCarries ==
  ASSUME NEW r \in Receiver, NEW c \in Item, NEW p \in EDGE(r, c)
  PROVE  Carries(p) /\ OneCopy(p)
<1> DEFINE q == Path[r][Source[c]]
           edges == {i \in 2 .. Len(q) : q[i] \in CacheNode}
           i == CHOOSE i \in edges : \A j \in edges : i =< j
<1>1. q \in Seq(Node) /\ r \in Node /\ Source[c] \in Node
  BY Parties, PathsAreSymmetric DEF IsPath
<1>2. Len(q) \in Nat /\ DOMAIN q = 1 .. Len(q)
  BY <1>1, LenProperties
<1>3. PICK s, t, h, k, puts :
        /\ p = Plan(s, t, h, path_links(k), puts)
        /\ \/ puts = {}
           \/ /\ edges # {} /\ s = Source[c] /\ k = Back(Source[c], r) /\ puts = {q[i]}
  BY DEF EDGE, NO_CACHE
<1>4. CASE puts = {}
  BY <1>3, <1>4, PlanFields DEF Carries, OneCopy
<1>5. CASE edges # {} /\ s = Source[c] /\ k = Back(Source[c], r) /\ puts = {q[i]}
  <2>1. i \in 1 .. Len(q)
    <3>1. edges \in SUBSET Nat /\ \A j \in edges : j \in 1 .. Len(q)
      BY <1>2
    <3> HIDE DEF edges
    <3>2. \E m \in edges : \A j \in edges : m =< j
      BY <1>5, <3>1, LeastNumber
    <3>3. i \in edges
      BY <3>2
    <3> QED BY <3>1, <3>3
  <2> HIDE DEF i
  <2>2. q[i] \in SX!ToSet(q)
    BY <1>2, <2>1 DEF SX!ToSet
  <2>3. q[i] \in SX!ToSet(Path[Source[c]][r])
    BY <1>1, <2>2, SameNodes
  <2>4. p = Plan(Source[c], t, h, path_links(Back(Source[c], r)), puts)
    BY <1>3, <1>5
  <2>5. puts \subseteq SX!ToSet(Path[Source[c]][r]) /\ \A v, w \in puts : v = w
    BY <1>5, <2>3
  <2> HIDE DEF q
  <2>6. Carries(p)
    BY <1>1, <2>4, <2>5, BackCarries
  <2> QED BY <2>4, <2>5, <2>6, PlanFields DEF OneCopy
<1> QED BY <1>3, <1>4, <1>5

(* The node that stores what follows a miss is one the content passes.     *)
Keeps(d, s) == d.puts \subseteq Reach(d.content, s)

(* After a hit nothing is stored.                                          *)
LEMMA HashRoutingCarries ==
  ASSUME NEW r \in Receiver, NEW c \in Item, NEW d, Keeps(d, Source[c]),
         NEW p \in HashRouting(r, c, d)
  PROVE  Carries(p)
<1> DEFINE a == Authoritative(c)
           s == Source[c]
<1>1. \/ p = Plan(a, <<a>>, Hops(r, a), Hops(a, r), {})
      \/ p = [Plan(s, <<a, s>>, Hops(r, a) \o Hops(a, s), d.content, d.puts)
                 EXCEPT !.ends = d.ends]
  BY DEF HashRouting
<1>2. CASE p = Plan(a, <<a>>, Hops(r, a), Hops(a, r), {})
  BY <1>2, PlanFields DEF Carries
<1>3. CASE p = [Plan(s, <<a, s>>, Hops(r, a) \o Hops(a, s), d.content, d.puts)
                 EXCEPT !.ends = d.ends]
  <2>1. p.server = s /\ p.content = d.content /\ p.puts = d.puts
    BY <1>3 DEF Plan
  <2> QED BY <2>1 DEF Carries, Keeps
<1> QED BY <1>1, <1>2, <1>3

(* The cache is passed.                                                    *)
LEMMA SymmetricKeeps ==
  ASSUME NEW s \in Node, NEW a \in Node, NEW r \in Node
  PROVE  Keeps(Symmetric(s, a, r), s)
<1>1. Tree(Hops(s, a), s) /\ a \in Reach(Hops(s, a), s)
  BY DirectBrings
<1>2. Walk(Hops(a, r), a, r)
  BY HopsWalk
<1>3. a \in Reach(Hops(s, a) \o Hops(a, r), s)
  BY <1>1, <1>2, TreeGrows
<1> QED BY <1>3 DEF Keeps, Symmetric

(* Nothing is stored off the way.                                          *)
LEMMA AsymmetricKeeps ==
  ASSUME NEW s \in Node, NEW a \in Node, NEW r \in Node
  PROVE  Keeps(Asymmetric(s, a, r), s)
<1>1. CASE OnTheWay(s, a, r)
  BY <1>1, SymmetricKeeps DEF Asymmetric
<1>2. CASE ~OnTheWay(s, a, r)
  BY <1>2 DEF Asymmetric, Keeps
<1> QED BY <1>1, <1>2

(* One branch ends at the cache.                                           *)
LEMMA MulticastKeeps ==
  ASSUME NEW s \in Node, NEW a \in Node, NEW r \in Node
  PROVE  Keeps(Multicast(s, a, r), s)
<1>1. CASE OnTheWay(s, a, r)
  BY <1>1, SymmetricKeeps DEF Multicast
<1>2. CASE ~OnTheWay(s, a, r)
  <2> DEFINE f == Fork(s, a, r)
             h == Hops(s, f) \o Hops(f, r)
  <2>1. f \in Node
    BY ForkIs
  <2>2. Multicast(s, a, r) = [content |-> h \o Hops(f, a), puts |-> {a}, ends |-> TRUE]
    BY <1>2 DEF Multicast
  <2> HIDE DEF f
  <2>3. Tree(Hops(s, f), s) /\ f \in Reach(Hops(s, f), s)
    BY <2>1, DirectBrings
  <2>4. Walk(Hops(f, r), f, r) /\ Walk(Hops(f, a), f, a)
    BY <2>1, HopsWalk
  <2>5. Tree(h, s) /\ f \in Reach(h, s)
    BY <2>3, <2>4, TreeGrows
  <2> HIDE DEF h
  <2>6. a \in Reach(h \o Hops(f, a), s)
    BY <2>4, <2>5, TreeGrows
  <2> QED BY <2>2, <2>6 DEF Keeps
<1> QED BY <1>1, <1>2

(* A branch that leaves the way to the receiver on it comes to the cache.  *)
LEMMA BranchKeeps ==
  ASSUME NEW s \in Node, NEW a \in Node, NEW r \in Node, OnTheWay(s, Fork(s, a, r), r)
  PROVE  a \in Reach(Hops(s, r) \o Hops(Fork(s, a, r), a), s)
<1> DEFINE f == Fork(s, a, r)
<1>1. f \in Node
  BY ForkIs
<1>2. f \in Reach(Hops(s, r), s) /\ Tree(Hops(s, r), s)
  BY WayReached, DirectBrings
<1>3. Walk(Hops(f, a), f, a)
  BY <1>1, HopsWalk
<1> QED BY <1>2, <1>3, TreeGrows

(* Where no path goes on behind a receiver, the paths to the receiver and  *)
(* to a cache off its way do part.                                         *)
LEMMA ForkOnTheWay ==
  ASSUME ReceiversAreLeaves, NEW s \in Node, NEW a \in Node, NEW r \in Node,
         r \in Receiver, r # s, ~OnTheWay(s, a, r)
  PROVE  OnTheWay(s, Fork(s, a, r), r)
<1> DEFINE p == Path[s][a]
           q == Path[s][r]
           apart == {i \in DOMAIN p \cap DOMAIN q : p[i] # q[i]}
           f == Fork(s, a, r)
<1>1. CASE apart = {}
  <2>1. /\ p[1] = s /\ q[1] = s /\ p[Len(p)] = a /\ q[Len(q)] = r
        /\ DOMAIN p = 1 .. Len(p) /\ Len(p) \in Nat \ {0}
        /\ DOMAIN q = 1 .. Len(q) /\ Len(q) \in Nat \ {0}
    BY PathsAreSymmetric, LenProperties, EmptySeq DEF IsPath
  <2>2. \A i \in 1 .. Len(p) : i \in 1 .. Len(q) => p[i] = q[i]
    BY <1>1, <2>1
  <2>3. a \notin SX!ToSet(q)
    BY DEF OnTheWay
  <2>4. \A i \in 2 .. Len(p) - 1 : p[i] # r
    BY DEF ReceiversAreLeaves
  <2> HIDE DEF p, q, apart
  <2>5. \A i \in 1 .. Len(q) : q[i] # a
    BY <2>1, <2>3 DEF SX!ToSet
  <2>6. Len(q) < Len(p)
    <3>1. SUFFICES ASSUME Len(p) =< Len(q) PROVE FALSE
      BY <2>1
    <3>2. Len(p) \in 1 .. Len(p) /\ Len(p) \in 1 .. Len(q)
      BY <2>1, <3>1
    <3> QED BY <2>1, <2>2, <2>5, <3>2
  <2>7. Len(q) # 1
    BY <2>1
  <2>8. Len(q) \in 2 .. Len(p) - 1 /\ Len(q) \in 1 .. Len(p) /\ Len(q) \in 1 .. Len(q)
    BY <2>1, <2>6, <2>7
  <2> QED BY <2>1, <2>2, <2>4, <2>8
<1>2. CASE apart # {}
  <2> DEFINE k == CHOOSE i \in apart : \A j \in apart : i =< j
  <2>1. f = p[k - 1]
    BY <1>2 DEF Fork
  <2>2. /\ p[1] = s /\ q[1] = s
        /\ DOMAIN p = 1 .. Len(p) /\ Len(p) \in Nat
        /\ DOMAIN q = 1 .. Len(q) /\ Len(q) \in Nat
    BY PathsAreSymmetric, LenProperties DEF IsPath
  <2>3. /\ apart \in SUBSET Nat
        /\ \A i \in apart : i \in 1 .. Len(p) /\ i \in 1 .. Len(q) /\ p[i] # q[i]
        /\ \A i \in 1 .. Len(p) : i \in 1 .. Len(q) /\ i \notin apart => p[i] = q[i]
    BY <2>2
  <2> HIDE DEF p, q, apart, f
  <2>4. \E i \in apart : \A j \in apart : i =< j
    BY <1>2, <2>3, LeastNumber
  <2>5. k \in apart /\ \A j \in apart : k =< j
    BY <2>4
  <2> HIDE DEF k
  <2>6. k # 1
    BY <2>2, <2>3, <2>5
  <2>7. k - 1 \in 1 .. Len(p) /\ k - 1 \in 1 .. Len(q) /\ k - 1 \notin apart
    BY <2>2, <2>3, <2>5, <2>6
  <2>8. f = q[k - 1]
    BY <2>1, <2>3, <2>7
  <2> QED BY <2>2, <2>7, <2>8 DEF OnTheWay, SX!ToSet, f, q
<1> QED BY <1>1, <1>2

(* The branch ends at the cache where there is one.                        *)
LEMMA HybridAMKeeps ==
  ASSUME ReceiversAreLeaves, NEW s \in Node, NEW a \in Node, NEW r \in Node,
         r \in Receiver, r # s
  PROVE  Keeps(HybridAM(s, a, r), s)
<1>1. CASE OnTheWay(s, a, r)
  BY <1>1, SymmetricKeeps DEF HybridAM
<1>2. CASE ~OnTheWay(s, a, r)
  <2>1. \/ HybridAM(s, a, r) = [content |-> Hops(s, r) \o Hops(Fork(s, a, r), a),
                                puts |-> {a}, ends |-> TRUE]
        \/ HybridAM(s, a, r) = [content |-> Hops(s, r), puts |-> {}, ends |-> TRUE]
    BY <1>2 DEF HybridAM
  <2>2. a \in Reach(Hops(s, r) \o Hops(Fork(s, a, r), a), s)
    BY <1>2, ForkOnTheWay, BranchKeeps
  <2>3. CASE HybridAM(s, a, r) = [content |-> Hops(s, r) \o Hops(Fork(s, a, r), a),
                                  puts |-> {a}, ends |-> TRUE]
    BY <2>2, <2>3 DEF Keeps
  <2>4. CASE HybridAM(s, a, r) = [content |-> Hops(s, r), puts |-> {}, ends |-> TRUE]
    BY <2>4 DEF Keeps
  <2> QED BY <2>1, <2>3, <2>4
<1> QED BY <1>1, <1>2

(* Where the paths do not part the symmetric way costs no more.            *)
LEMMA HybridSMKeeps ==
  ASSUME NEW s \in Node, NEW a \in Node, NEW r \in Node
  PROVE  Keeps(HybridSM(s, a, r), s)
<1> DEFINE f == Fork(s, a, r)
           symmetric == Len(Hops(s, a)) + Len(Hops(a, r))
           multicast == Len(Hops(s, f)) + Len(Hops(f, a)) + Len(Hops(f, r))
<1>1. \/ HybridSM(s, a, r) = [Symmetric(s, a, r) EXCEPT !.ends = FALSE]
      \/ HybridSM(s, a, r) = Symmetric(s, a, r)
      \/ /\ HybridSM(s, a, r) = [content |-> Hops(s, r) \o Hops(f, a), puts |-> {a}, ends |-> TRUE]
         /\ ~ symmetric =< multicast
  BY DEF HybridSM
<1>2. CASE HybridSM(s, a, r) = [Symmetric(s, a, r) EXCEPT !.ends = FALSE]
  <2>1. /\ HybridSM(s, a, r).content = Symmetric(s, a, r).content
        /\ HybridSM(s, a, r).puts = Symmetric(s, a, r).puts
    BY <1>2 DEF Symmetric
  <2> QED BY <2>1, SymmetricKeeps DEF Keeps
<1>3. CASE HybridSM(s, a, r) = Symmetric(s, a, r)
  BY <1>3, SymmetricKeeps
<1>4. CASE /\ HybridSM(s, a, r) = [content |-> Hops(s, r) \o Hops(f, a), puts |-> {a}, ends |-> TRUE]
           /\ ~ symmetric =< multicast
  <2>1. f # a
    <3>1. SUFFICES ASSUME f = a PROVE symmetric =< multicast
      BY <1>4
    <3>2. /\ Len(Hops(s, a)) \in Nat /\ Len(Hops(a, r)) \in Nat
          /\ Len(Hops(a, a)) \in Nat
      BY HopsWalk, LenProperties DEF Walk
    <3> QED BY <3>1, <3>2
  <2>2. OnTheWay(s, f, r)
    BY <2>1, ForkIs
  <2>3. a \in Reach(Hops(s, r) \o Hops(f, a), s)
    BY <2>2, BranchKeeps
  <2> QED BY <1>4, <2>3 DEF Keeps
<1> QED BY <1>1, <1>2, <1>3, <1>4

---------------------------------------------------------------------------
(* The answers.                                                            *)

(* Of the nodes a plan asks one has the content, and it is the node the    *)
(* content is taken from.                                                  *)
Answered(p, c) == \E i \in Nat : Answering(p, c) = {i} /\ p.asks[i] = p.server

(* So the collectors count one hit of it and take it for the serving node. *)
LEMMA AnswersOnce ==
  ASSUME NEW p, NEW c, Answered(p, c)
  PROVE  LET hits   == Answering(p, c)
             cached == {i \in hits : p.asks[i] \in CacheNode}
         IN  /\ serving_node(p, c) = p.server
             /\ Cardinality(cached) \in Nat /\ Cardinality(hits \ cached) \in Nat
             /\ Cardinality(cached) + Cardinality(hits \ cached) = 1
<1> DEFINE hits   == Answering(p, c)
           cached == {i \in hits : p.asks[i] \in CacheNode}
<1>1. PICK i \in Nat : hits = {i} /\ p.asks[i] = p.server
  BY DEF Answered
<1>2. serving_node(p, c) = p.server
  <2>1. (CHOOSE k \in hits : \A j \in hits : j =< k) = i
    BY <1>1
  <2> QED BY <1>1, <2>1 DEF serving_node
<1>3. \/ cached = {i} /\ hits \ cached = {}
      \/ cached = {} /\ hits \ cached = {i}
  BY <1>1
<1>4. Cardinality({i}) = 1 /\ Cardinality({}) = 0
  BY FS_Singleton, FS_EmptySet
<1>5. /\ Cardinality(cached) \in Nat /\ Cardinality(hits \ cached) \in Nat
      /\ Cardinality(cached) + Cardinality(hits \ cached) = 1
  <2> DEFINE x == cached
             y == hits \ cached
  <2>1. \/ Cardinality(x) = 1 /\ Cardinality(y) = 0
        \/ Cardinality(x) = 0 /\ Cardinality(y) = 1
    BY <1>3, <1>4
  <2> HIDE DEF x, y
  <2>2. Cardinality(x) \in Nat /\ Cardinality(y) \in Nat /\ Cardinality(x) + Cardinality(y) = 1
    BY <2>1
  <2> QED BY <2>2 DEF x, y
<1> QED BY <1>2, <1>5 DEF cached, hits

(* A cache answers for what it holds, the source for its contents.         *)
LEMMA ProvidesIs ==
  ASSUME NEW c \in Item
  PROVE  Provides(Source[c], c) /\ \A v \in CacheNode : Provides(v, c) <=> Holds(v, c)
BY PlacementAssumption DEF Provides

(* The only node asked has the content.                                    *)
LEMMA OneAsked ==
  ASSUME NEW p, NEW c, NEW v, p.asks = <<v>>, p.server = v, Provides(v, c)
  PROVE  Answered(p, c)
<1>1. DOMAIN p.asks = {1} /\ p.asks[1] = v
  OBVIOUS
<1>2. Answering(p, c) = {1}
  BY <1>1 DEF Answering
<1> QED BY <1>1, <1>2 DEF Answered

(* The first node asked has not got the content, the second one has.       *)
LEMMA TwoAsked ==
  ASSUME NEW p, NEW c, NEW v, NEW w, p.asks = <<v, w>>, p.server = w,
         ~Provides(v, c), Provides(w, c)
  PROVE  Answered(p, c)
<1>1. DOMAIN p.asks = {1, 2} /\ p.asks[1] = v /\ p.asks[2] = w
  OBVIOUS
<1>2. Answering(p, c) = {2}
  BY <1>1 DEF Answering
<1> QED BY <1>1, <1>2 DEF Answered

(* Without caches the source is asked.                                     *)
LEMMA NoCacheAnswered ==
  ASSUME NEW r \in Receiver, NEW c \in Item, NEW p \in NO_CACHE(r, c)
  PROVE  Answered(p, c)
<1>1. p.asks = <<Source[c]>> /\ p.server = Source[c]
  BY PlanFields DEF NO_CACHE
<1> QED BY <1>1, ProvidesIs, OneAsked

(* The caches on the way are asked up to the first one that holds the      *)
(* content, and the source behind them all if none does.                   *)
LEMMA OnPathAnswered ==
  ASSUME NEW r \in Receiver, NEW c \in Item, NEW puts
  PROVE  Answered(OnPath(r, c, puts), c)
<1> DEFINE p == Path[r][Source[c]]
           hits == HitPlaces(r, c)
           i == IF hits = {} THEN Len(p) ELSE CHOOSE i \in hits : \A j \in hits : i =< j
           plan == OnPath(r, c, puts)
<1>1. IsPath(p, r, Source[c]) /\ r # Source[c]
  BY Parties, PathsAreSymmetric
<1>2. Len(p) \in Nat /\ Len(p) >= 2 /\ p[Len(p)] = Source[c]
  <2>1. Len(p) \in Nat \ {0} /\ p[Len(p)] = Source[c] /\ p[1] = r
    BY <1>1, LenProperties, EmptySeq DEF IsPath
  <2>2. Len(p) # 1
    BY <1>1, <2>1
  <2> DEFINE n == Len(p)
  <2>3. n \in Nat /\ n # 0 /\ n # 1
    BY <2>1, <2>2
  <2> HIDE DEF n
  <2>4. n >= 2
    BY <2>3
  <2> QED BY <2>1, <2>4 DEF n
<1>3. plan.asks = Asked(p, i) /\ plan.server = p[i]
  BY PlanFields DEF OnPath
<1>4. hits = {j \in 2 .. Len(p) : Holds(p[j], c)}
  BY DEF HitPlaces
<1>5. /\ i \in 2 .. Len(p)
      /\ \A j \in 2 .. i : j # i => j \notin hits
      /\ i \notin hits => i = Len(p)
  <2>1. CASE hits = {}
    BY <1>2, <2>1
  <2>2. CASE hits # {}
    <3>1. hits \in SUBSET Nat /\ hits \subseteq 2 .. Len(p)
      BY <1>2, <1>4
    <3> HIDE DEF hits
    <3>2. \E k \in hits : \A j \in hits : k =< j
      BY <2>2, <3>1, LeastNumber
    <3>3. i \in hits /\ \A j \in hits : i =< j
      BY <2>2, <3>2
    <3> HIDE DEF i
    <3> QED BY <3>1, <3>3
  <2> QED BY <2>1, <2>2
<1> HIDE DEF i, plan, hits, p
<1>6. \A j \in 2 .. i : j \in 2 .. Len(p) /\ (j # i => j # Len(p))
  BY <1>2, <1>5
<1>7. /\ DOMAIN plan.asks = {j \in 2 .. i : p[j] \in CacheNode \/ j = Len(p)}
      /\ \A j \in DOMAIN plan.asks : plan.asks[j] = p[j]
  BY <1>3 DEF Asked
<1>8. i \in DOMAIN plan.asks /\ Provides(p[i], c)
  <2>1. CASE i \in hits
    <3>1. Holds(p[i], c) /\ p[i] \in CacheNode
      BY <1>4, <2>1 DEF Holds
    <3> QED BY <1>5, <1>7, <3>1, ProvidesIs
  <2>2. CASE i \notin hits
    BY <1>2, <1>5, <1>7, <2>2, ProvidesIs
  <2> QED BY <2>1, <2>2
<1>9. \A j \in DOMAIN plan.asks : j # i => ~Provides(p[j], c)
  BY <1>4, <1>5, <1>6, <1>7, ProvidesIs
<1>10. Answering(plan, c) = {i}
  BY <1>7, <1>8, <1>9 DEF Answering
<1> QED BY <1>3, <1>5, <1>7, <1>8, <1>10 DEF Answered, plan

(* The first cache on the way is asked, and the source if it has not got   *)
(* the content.                                                            *)
LEMMA EdgeAnswered ==
  ASSUME NEW r \in Receiver, NEW c \in Item, NEW p \in EDGE(r, c)
  PROVE  Answered(p, c)
<1> DEFINE q == Path[r][Source[c]]
           edges == {i \in 2 .. Len(q) : q[i] \in CacheNode}
           i == CHOOSE i \in edges : \A j \in edges : i =< j
<1>1. Len(q) \in Nat
  BY Parties, PathsAreSymmetric, LenProperties DEF IsPath
<1>2. CASE edges = {}
  <2>1. p \in NO_CACHE(r, c)
    BY <1>2 DEF EDGE
  <2> QED BY <2>1, NoCacheAnswered
<1>3. CASE edges # {}
  <2>1. q[i] \in CacheNode
    <3>1. edges \in SUBSET Nat /\ \A j \in edges : q[j] \in CacheNode
      BY <1>1
    <3> HIDE DEF edges
    <3>2. \E k \in edges : \A j \in edges : k =< j
      BY <1>3, <3>1, LeastNumber
    <3>3. i \in edges
      BY <3>2
    <3> QED BY <3>1, <3>3
  <2>2. \E h, k, puts :
          \/ Holds(q[i], c) /\ p = Plan(q[i], <<q[i]>>, h, k, puts)
          \/ ~Holds(q[i], c) /\ p = Plan(Source[c], <<q[i], Source[c]>>, h, k, puts)
    BY <1>3 DEF EDGE
  <2> HIDE DEF i, q
  <2>3. \/ Holds(q[i], c) /\ p.asks = <<q[i]>> /\ p.server = q[i]
        \/ ~Holds(q[i], c) /\ p.asks = <<q[i], Source[c]>> /\ p.server = Source[c]
    BY <2>2, PlanFields
  <2> QED BY <2>1, <2>3, ProvidesIs, OneAsked, TwoAsked
<1> QED BY <1>2, <1>3

(* The nearest copy is there.                                              *)
LEMMA NearestAnswered ==
  ASSUME NEW r \in Receiver, NEW c \in Item, NEW s \in Nearest(r, c), NEW q, NEW h, NEW puts
  PROVE  Answered(Plan(s, <<s>>, q, h, puts), c)
<1>1. s = Source[c] \/ (s \in CacheNode /\ Holds(s, c))
  BY DEF Nearest, content_locations
<1>2. Provides(s, c)
  BY <1>1, ProvidesIs
<1> QED BY <1>2, PlanFields, OneAsked

(* The authoritative cache is asked, and the source if it has not got the  *)
(* content.                                                                *)
LEMMA HashRoutingAnswered ==
  ASSUME NEW r \in Receiver, NEW c \in Item, NEW d, NEW p \in HashRouting(r, c, d)
  PROVE  Answered(p, c)
<1> DEFINE a == Authoritative(c)
           s == Source[c]
<1>1. a \in CacheNode
  BY Parties
<1>2. \/ Holds(a, c) /\ p.asks = <<a>> /\ p.server = a
      \/ ~Holds(a, c) /\ p.asks = <<a, s>> /\ p.server = s
  BY DEF HashRouting, Plan
<1> HIDE DEF a
<1> QED BY <1>1, <1>2, ProvidesIs, OneAsked, TwoAsked

---------------------------------------------------------------------------
(* The strategies that may leave several copies in one session.            *)
ManyCopies == strategy \in {"LCE", "NRR_LCE", "PROB_CACHE", "RAND_BERNOULLI"}

(* What every plan of every strategy is like.                              *)
GoodPlan(p, r, c) ==
  /\ Delivers(p, r)
  /\ Answered(p, c)
  /\ strategy \in {"HR_SYMM", "NO_CACHE"} => p.content = TurnedBack(p.request)
  /\ HashRoutingStrategy => p.puts \subseteq {Authoritative(c)}
  /\ ReceiversAreLeaves \/ strategy # "HR_HYBRID_AM" => Carries(p)
  /\ ~ManyCopies => OneCopy(p)

(* A good plan of a strategy that takes the content from a cache on the    *)
(* way, or from the nearest copy.                                          *)
LEMMA PathPlan ==
  ASSUME NEW r \in Receiver, NEW c \in Item,
         ~HashRoutingStrategy, strategy # "NO_CACHE",
         NEW p, Delivers(p, r), Answered(p, c), Carries(p), ManyCopies \/ OneCopy(p)
  PROVE  GoodPlan(p, r, c)
BY DEF GoodPlan, HashRoutingStrategy

(* A good plan of hash-routing.                                            *)
LEMMA HashPlan ==
  ASSUME NEW r \in Receiver, NEW c \in Item, HashRoutingStrategy, strategy # "HR_SYMM",
         NEW p, Delivers(p, r), Answered(p, c), p.puts \subseteq {Authoritative(c)},
         ReceiversAreLeaves \/ strategy # "HR_HYBRID_AM" => Carries(p)
  PROVE  GoodPlan(p, r, c)
<1>1. OneCopy(p)
  BY DEF OneCopy
<1> QED BY <1>1 DEF GoodPlan, HashRoutingStrategy

(* Strategy by strategy.                                                   *)
LEMMA EveryPlan ==
  ASSUME strategy \in Strategy, NEW r \in Receiver, NEW c \in Item, NEW p \in Plans(r, c)
  PROVE  GoodPlan(p, r, c)
<1> DEFINE a == Authoritative(c)
           s == Source[c]
<1>0. a \in Node /\ s \in Node /\ r \in Node
  BY Parties
<1>1. CASE strategy = "NO_CACHE"
  <2>1. p \in NO_CACHE(r, c)
    BY <1>1 DEF Plans
  <2>2. /\ Delivers(p, r) /\ p.server = s
        /\ p.request = Hops(r, s) /\ p.content = Hops(s, r)
    BY <2>1, NoCacheDelivers
  <2>3. p.content = TurnedBack(p.request)
    BY <1>0, <2>2, HopsTurnedBack
  <2>4. Answered(p, c)
    BY <2>1, NoCacheAnswered
  <2>5. Carries(p) /\ OneCopy(p)
    BY <2>1, PlanFields DEF NO_CACHE, Carries, OneCopy
  <2> QED BY <1>1, <2>2, <2>3, <2>4, <2>5 DEF GoodPlan, HashRoutingStrategy
<1>2. CASE strategy = "EDGE"
  <2>1. p \in EDGE(r, c)
    BY <1>2 DEF Plans
  <2> QED BY <1>2, <2>1, EdgeDelivers, EdgeAnswered, EdgeCarries, PathPlan
          DEF HashRoutingStrategy
<1>3. CASE strategy \in {"LCE", "LCD", "PROB_CACHE", "RAND_BERNOULLI", "RAND_CHOICE", "CL4M"}
  <2> DEFINE n == Server(r, c)
  <2>1. n \in Node
    BY OnPathDelivers
  <2>2. \E puts : /\ p = OnPath(r, c, puts) /\ puts \subseteq SX!ToSet(Path[n][r])
                  /\ ManyCopies \/ \A v, w \in puts : v = w
    <3>1. CASE strategy = "LCE"
      BY <1>0, <2>1, <3>1, WayBackIs DEF Plans, LCE, ManyCopies
    <3>2. CASE strategy = "LCD"
      BY <1>0, <2>1, <3>2, FirstOnlyIs DEF Plans, LCD
    <3>3. CASE strategy \in {"PROB_CACHE", "RAND_BERNOULLI"}
      <4>1. PICK puts \in SUBSET (WayBack(n, r) \ {r}) : p = OnPath(r, c, puts)
        BY <3>3 DEF Plans, Tossed
      <4> QED BY <1>0, <2>1, <3>3, <4>1, WayBackIs DEF ManyCopies
    <3>4. CASE strategy = "RAND_CHOICE"
      <4>1. p \in RAND_CHOICE(r, c)
        BY <3>4 DEF Plans
      <4>2. CASE WayBack(n, r) \ {r} = {}
        <5>1. p = OnPath(r, c, {})
          BY <4>1, <4>2 DEF RAND_CHOICE
        <5> QED BY <5>1
      <4>3. CASE WayBack(n, r) \ {r} # {}
        <5>1. PICK v \in WayBack(n, r) : p = OnPath(r, c, {v})
          BY <4>1, <4>3 DEF RAND_CHOICE
        <5>2. {v} \subseteq SX!ToSet(Path[n][r]) /\ \A x, y \in {v} : x = y
          BY <1>0, <2>1, <5>1, WayBackIs
        <5> QED BY <5>1, <5>2
      <4> QED BY <4>2, <4>3
    <3>5. CASE strategy = "CL4M"
      <4> DEFINE best == MostCentral(Path[n][r], Stops(n, r))
      <4>1. p \in CL4M(r, c) /\ Back(n, r) = Path[n][r]
        BY <1>0, <2>1, <3>5, BackIs DEF Plans
      <4>2. p = OnPath(r, c, {Path[n][r][i] : i \in best})
        BY <4>1 DEF CL4M
      <4>3. best \subseteq Stops(n, r) /\ \A i, j \in best : i = j
        BY <1>0, <2>1, MostCentralIs
      <4>4. \A i \in best : Path[n][r][i] \in SX!ToSet(Path[n][r])
        BY <1>0, <2>1, <4>3, StopsAre
      <4> HIDE DEF best, n
      <4>5. /\ {Path[n][r][i] : i \in best} \subseteq SX!ToSet(Path[n][r])
            /\ \A v, w \in {Path[n][r][i] : i \in best} : v = w
        BY <4>3, <4>4
      <4> QED BY <4>2, <4>5
    <3> QED BY <1>3, <3>1, <3>2, <3>3, <3>4, <3>5
  <2>3. PICK puts : /\ p = OnPath(r, c, puts) /\ puts \subseteq SX!ToSet(Path[n][r])
                    /\ ManyCopies \/ \A v, w \in puts : v = w
    BY <2>2
  <2>4. Delivers(p, r) /\ Answered(p, c)
    BY <2>3, OnPathDelivers, OnPathAnswered
  <2>5. Carries(p) /\ p.puts = puts
    BY <2>3, OnPathCarries
  <2>6. ManyCopies \/ OneCopy(p)
    BY <2>3, <2>5 DEF OneCopy
  <2> QED BY <1>3, <2>4, <2>5, <2>6, PathPlan DEF HashRoutingStrategy
<1>4. CASE strategy \in {"NRR_LCE", "NRR_LCD"}
  <2>1. \A n \in Nearest(r, c) : n \in Node
    <3>1. \A n \in Nearest(r, c) : n \in CacheNode \cup {s}
      BY DEF Nearest, content_locations
    <3> QED BY <1>0, <3>1, Parties
  <2>2. \E n \in Nearest(r, c) : \E puts :
          /\ p = Plan(n, <<n>>, Hops(r, n), path_links(Back(n, r)), puts)
          /\ puts \subseteq SX!ToSet(Path[n][r])
          /\ ManyCopies \/ \A v, w \in puts : v = w
    <3>1. CASE strategy = "NRR_LCE"
      <4>1. p \in NRR_LCE(r, c)
        BY <3>1 DEF Plans
      <4>2. PICK n \in Nearest(r, c) :
              p = Plan(n, <<n>>, Hops(r, n), path_links(Back(n, r)),
                       {v \in WayBack(n, r) : ~Holds(v, c)})
        BY <4>1 DEF NRR_LCE
      <4>3. {v \in WayBack(n, r) : ~Holds(v, c)} \subseteq SX!ToSet(Path[n][r])
        BY <1>0, <2>1, WayBackIs
      <4> QED BY <3>1, <4>2, <4>3 DEF ManyCopies
    <3>2. CASE strategy = "NRR_LCD"
      <4>1. p \in NRR_LCD(r, c)
        BY <3>2 DEF Plans
      <4>2. PICK n \in Nearest(r, c) :
              p = Plan(n, <<n>>, Hops(r, n), path_links(Back(n, r)), FirstOnly(n, r))
        BY <4>1 DEF NRR_LCD
      <4> QED BY <1>0, <2>1, <4>2, FirstOnlyIs
    <3> QED BY <1>4, <3>1, <3>2
  <2>3. PICK n \in Nearest(r, c) : \E puts :
          /\ p = Plan(n, <<n>>, Hops(r, n), path_links(Back(n, r)), puts)
          /\ puts \subseteq SX!ToSet(Path[n][r])
          /\ ManyCopies \/ \A v, w \in puts : v = w
    BY <2>2
  <2>p. PICK puts :
          /\ p = Plan(n, <<n>>, Hops(r, n), path_links(Back(n, r)), puts)
          /\ puts \subseteq SX!ToSet(Path[n][r])
          /\ ManyCopies \/ \A v, w \in puts : v = w
    BY <2>3
  <2>4. Delivers(p, r) /\ Answered(p, c)
    BY <2>p, NearestDelivers, NearestAnswered
  <2>5. Carries(p) /\ (ManyCopies \/ OneCopy(p))
    BY <1>0, <2>1, <2>p, BackCarries, PlanFields DEF OneCopy
  <2> QED BY <1>4, <2>4, <2>5, PathPlan DEF HashRoutingStrategy
<1>5. CASE strategy = "HR_SYMM"
  <2>1. p \in HashRouting(r, c, Symmetric(s, a, r))
    BY <1>5 DEF Plans
  <2>2. Brings(Symmetric(s, a, r), s, a, r)
    BY <1>0, SymmetricBrings
  <2>3. Delivers(p, r) /\ p.puts \subseteq {a} /\ Answered(p, c)
    BY <2>1, <2>2, HashRoutingDelivers, HashRoutingAnswered
  <2>4. p.content = TurnedBack(p.request)
    BY <2>1, SymmetricReturns
  <2>5. Carries(p) /\ OneCopy(p)
    BY <1>0, <2>1, <2>3, SymmetricKeeps, HashRoutingCarries DEF OneCopy
  <2> QED BY <1>5, <2>3, <2>4, <2>5 DEF GoodPlan
<1>6. CASE strategy \in {"HR_ASYMM", "HR_MULTICAST", "HR_HYBRID_AM"}
  <2>1. \E d : /\ Brings(d, s, a, r) /\ p \in HashRouting(r, c, d)
               /\ ReceiversAreLeaves \/ strategy # "HR_HYBRID_AM" => Keeps(d, s)
    <3>1. CASE strategy = "HR_ASYMM"
      <4>1. p \in HashRouting(r, c, Asymmetric(s, a, r))
        BY <3>1 DEF Plans
      <4> QED BY <1>0, <4>1, AsymmetricBrings, AsymmetricKeeps
    <3>2. CASE strategy = "HR_MULTICAST"
      <4>1. p \in HashRouting(r, c, Multicast(s, a, r))
        BY <3>2 DEF Plans
      <4> QED BY <1>0, <4>1, MulticastBrings, MulticastKeeps
    <3>3. CASE strategy = "HR_HYBRID_AM"
      <4>1. p \in HashRouting(r, c, HybridAM(s, a, r))
        BY <3>3 DEF Plans
      <4>2. r # s
        BY Parties
      <4> QED BY <1>0, <3>3, <4>1, <4>2, HybridAMBrings, HybridAMKeeps
    <3> QED BY <1>6, <3>1, <3>2, <3>3
  <2>2. Delivers(p, r) /\ p.puts \subseteq {a} /\ Answered(p, c)
    BY <2>1, HashRoutingDelivers, HashRoutingAnswered
  <2>3. ReceiversAreLeaves \/ strategy # "HR_HYBRID_AM" => Carries(p)
    BY <2>1, HashRoutingCarries
  <2> QED BY <1>6, <2>2, <2>3, HashPlan DEF HashRoutingStrategy
<1>7. CASE strategy = "HR_HYBRID_SM"
  <2>1. p \in HR_HYBRID_SM(r, c)
    BY <1>7 DEF Plans
  <2>2. PICK q \in HashRouting(r, c, HybridSM(s, a, r)) :
          p = [q EXCEPT !.ends = @ /\ q.server = s]
    BY <2>1 DEF HR_HYBRID_SM
  <2>3. Delivers(q, r) /\ q.puts \subseteq {a} /\ Answered(q, c)
    BY <1>0, HybridSMBrings, HashRoutingDelivers, HashRoutingAnswered
  <2>4. /\ p.request = q.request /\ p.content = q.content
        /\ p.server = q.server /\ p.puts = q.puts /\ p.asks = q.asks
    BY <2>2
  <2>5. Carries(q)
    BY <1>0, HybridSMKeeps, HashRoutingCarries
  <2>6. Delivers(p, r) /\ p.puts \subseteq {a} /\ Carries(p)
    BY <2>3, <2>4, <2>5 DEF Delivers, Carries
  <2>7. Answered(p, c)
    BY <2>3, <2>4 DEF Answered, Answering
  <2> QED BY <1>7, <2>6, <2>7, HashPlan DEF HashRoutingStrategy
<1> QED BY <1>1, <1>2, <1>3, <1>4, <1>5, <1>6, <1>7 DEF Strategy
---------------------------------------------------------------------------
(* The sessions.                                                           *)

(* The inductive invariant of what the collectors say of them.             *)
SessionInv ==
  /\ strategy \in Strategies
  /\ stats.sess_count \in Nat /\ stats.cache_hits \in Nat
  /\ stats.serv_hits \in Nat
  /\ ServedOnce
  /\ ContentIsDelivered
  /\ SymmetricReturn

(* No session to begin with.                                               *)
LEMMA SessionsStart == ASSUME Init PROVE SessionInv
<1>1. /\ stats.sess_count = 0 /\ stats.cache_hits = 0
      /\ stats.serv_hits = 0 /\ last = <<>>
  BY DEF Init
<1> QED BY <1>1 DEF Init, SessionInv, ServedOnce, ContentIsDelivered, SymmetricReturn

(* Every event of the workload keeps the invariant.                        *)
LEMMA SessionsFollow == ASSUME SessionInv, [Next]_vars PROVE SessionInv'
<1>1. CASE UNCHANGED vars
  BY <1>1 DEF vars, SessionInv, ServedOnce, ContentIsDelivered, SymmetricReturn
<1>2. CASE Next
  <2>1. PICK r \in Receiver, c \in Item, logged \in BOOLEAN : Request(r, c, logged)
    BY <1>2 DEF Next
  <2>2. PICK p \in Plans(r, c) :
          IF logged
          THEN /\ stats' = StatsAfter(p, r, c)
               /\ last' = [receiver |-> r, contentId |-> c, server |-> serving_node(p, c),
                           request |-> p.request, content |-> p.content]
          ELSE UNCHANGED <<stats, last>>
    BY <2>1 DEF Request
  <2>3. strategy' = strategy /\ strategy \in Strategies
    BY <2>1 DEF Request, SessionInv
  <2>4. GoodPlan(p, r, c)
    BY <2>3, StrategyAssumption, EveryPlan
  <2>5. CASE ~logged
    BY <2>2, <2>3, <2>5 DEF SessionInv, ServedOnce, ContentIsDelivered, SymmetricReturn
  <2>6. CASE logged
    <3> DEFINE hits   == Answering(p, c)
               cached == {i \in hits : p.asks[i] \in CacheNode}
               x == Cardinality(cached)
               y == Cardinality(hits \ cached)
    <3>1. /\ stats'.sess_count = stats.sess_count + 1
          /\ stats'.cache_hits = stats.cache_hits + x
          /\ stats'.serv_hits = stats.serv_hits + y
      BY <2>2, <2>6 DEF StatsAfter
    <3>2. serving_node(p, c) = p.server /\ x \in Nat /\ y \in Nat /\ x + y = 1
      BY <2>4, AnswersOnce DEF GoodPlan
    <3>3. /\ last'.receiver = r /\ last'.server = p.server
          /\ last'.request = p.request /\ last'.content = p.content
      BY <2>2, <2>6, <3>2
    <3> HIDE DEF x, y
    <3>5. /\ stats'.sess_count \in Nat /\ stats'.cache_hits \in Nat
          /\ stats'.serv_hits \in Nat
      BY <3>1, <3>2 DEF SessionInv
    <3>6. ServedOnce'
      BY <3>1, <3>2 DEF SessionInv, ServedOnce
    <3>7. ContentIsDelivered'
      <4>1. Delivers(p, r)
        BY <2>4 DEF GoodPlan
      <4>2. DOMAIN p.content = 1 .. Len(p.content)
        BY <4>1, LenProperties DEF Delivers, Tree
      <4> QED BY <3>3, <4>1, <4>2 DEF ContentIsDelivered, Delivers, Tree, Reach
    <3>8. SymmetricReturn'
      BY <2>3, <2>4, <3>3 DEF SymmetricReturn, GoodPlan, TurnedBack
    <3> QED BY <2>3, <3>5, <3>6, <3>7, <3>8 DEF SessionInv
  <2> QED BY <2>5, <2>6
<1> QED BY <1>1, <1>2

(* So it always holds.                                                     *)
LEMMA SessionsInductive == Spec => []SessionInv
<1>1. Init => SessionInv
  BY SessionsStart
<1>2. SessionInv /\ [Next]_vars => SessionInv'
  BY SessionsFollow
<1> QED BY <1>1, <1>2, PTL DEF Spec

(* Of the nodes a session asks for the content, one reports a hit: of      *)
(* every strategy, with any policy of the caches and any paths.            *)
THEOREM SessionsAreServedOnce == Spec => []ServedOnce
<1>1. SessionInv => ServedOnce
  BY DEF SessionInv
<1> QED BY <1>1, SessionsInductive, PTL

(* Every request walks to the serving node, and every content comes to the *)
(* receiver, over the symmetrified paths and the detours of hash-routing.  *)
THEOREM SessionsDeliver == Spec => []ContentIsDelivered
<1>1. SessionInv => ContentIsDelivered
  BY DEF SessionInv
<1> QED BY <1>1, SessionsInductive, PTL

(* The content returns over the links of the request where it should.      *)
THEOREM SessionsReturn == Spec => []SymmetricReturn
<1>1. SessionInv => SymmetricReturn
  BY DEF SessionInv
<1> QED BY <1>1, SessionsInductive, PTL
---------------------------------------------------------------------------
(* The caches.                                                             *)
CachesFit == /\ cache = [v \in CacheNode |-> cache[v]]
             /\ \A v \in CacheNode : Sound(cache[v])

(* No cache holds more than its size.                                      *)
LEMMA HeldFits ==
  ASSUME NEW b, Sound(b)
  PROVE  Held(b) \subseteq Item /\ Cardinality(Held(b)) =< MaxLen
<1>1. /\ Held(b) \subseteq Item /\ Cardinality(Held(b)) \in Nat
      /\ Cardinality(Held(b)) =< MaxLength(b)
  BY SoundFits
<1>2. MaxLen \in Nat /\ MaxLength(b) \in {0, MaxLen}
  BY PolicyAssumption DEF MaxLength
<1> QED BY <1>1, <1>2

(* An insertion adds the content and nothing else.                         *)
LEMMA PutFits ==
  ASSUME NEW b, Sound(b), NEW c \in Item, NEW after \in PutInto(b, c)
  PROVE  Sound(after) /\ Held(after) \subseteq Held(b) \cup {c}
<1> DEFINE has == c \in Held(b)
<1>1. PICK o \in PutOutcomes(b, c, has) : after = o[1]
  BY DEF PutInto
<1>2. has \in BOOLEAN /\ (has <=> c \in Held(b))
  OBVIOUS
<1> HIDE DEF has
<1>3. Answers(b, c, has)
  BY <1>2 DEF Answers
<1>4. /\ Sound(o[1])
      /\ b.policy = "NULL" => o = <<b, None>>
      /\ b.policy # "NULL" => Held(o[1]) = (Held(b) \cup {c}) \ {o[2]}
  BY <1>3, PutContract
<1>5. CASE b.policy = "NULL"
  BY <1>1, <1>4, <1>5
<1>6. CASE b.policy # "NULL"
  BY <1>1, <1>4, <1>6
<1> QED BY <1>5, <1>6

(* Only the nodes that put the content have anything new, and it is that.  *)
LEMMA CachesAfterFit ==
  ASSUME CachesFit, NEW p, NEW c \in Item, cache' \in CachesAfter(p, c)
  PROVE  /\ CachesFit'
         /\ \A v \in CacheNode :
              Held(cache'[v]) \subseteq Held(cache[v]) \cup IF v \in p.puts THEN {c} ELSE {}
<1>1. cache' = [v \in CacheNode |-> cache'[v]]
  BY DEF CachesAfter
<1>2. ASSUME NEW v \in CacheNode
      PROVE  /\ Sound(cache'[v])
             /\ Held(cache'[v]) \subseteq Held(cache[v]) \cup IF v \in p.puts THEN {c} ELSE {}
  <2> DEFINE got == IF \E i \in DOMAIN p.asks : p.asks[i] = v THEN Got(cache[v], c, Holds(v, c)) ELSE cache[v]
  <2>1. cache'[v] \in CacheAfter(v, p, c)
    BY DEF CachesAfter
  <2>2. cache'[v] \in IF v \in p.puts THEN PutInto(got, c) ELSE {got}
    BY <2>1 DEF CacheAfter
  <2>3. Sound(cache[v]) /\ Holds(v, c) \in BOOLEAN /\ (Holds(v, c) => c \in Held(cache[v]))
    BY DEF CachesFit, Holds
  <2>4. Sound(got) /\ Held(got) = Held(cache[v])
    <3>1. /\ Sound(Got(cache[v], c, Holds(v, c)))
          /\ Held(Got(cache[v], c, Holds(v, c))) = Held(cache[v])
      BY <2>3, GetContract
    <3> QED BY <2>3, <3>1
  <2> HIDE DEF got
  <2>5. CASE v \in p.puts
    <3>1. cache'[v] \in PutInto(got, c)
      BY <2>2, <2>5
    <3>2. Sound(cache'[v]) /\ Held(cache'[v]) \subseteq Held(got) \cup {c}
      BY <2>4, <3>1, PutFits
    <3> QED BY <2>4, <2>5, <3>2
  <2>6. CASE v \notin p.puts
    BY <2>2, <2>4, <2>6
  <2> QED BY <2>5, <2>6
<1> QED BY <1>1, <1>2 DEF CachesFit

(* The caches are empty to begin with.                                     *)
LEMMA CachesStart ==
  ASSUME Init
  PROVE  CachesFit /\ \A v \in CacheNode : Held(cache[v]) = {}
<1>1. cache = [v \in CacheNode |-> New(Policy)]
  BY DEF Init
<1>2. ASSUME NEW v \in CacheNode PROVE Sound(cache[v]) /\ Held(cache[v]) = {}
  <2>1. cache[v] = New(Policy) /\ Policy \in Policies
    BY <1>1, NetworkPolicy DEF Policies
  <2> QED BY <2>1, NewContract
<1> QED BY <1>1, <1>2 DEF CachesFit

(* The inductive invariant of the caches.                                  *)
CacheInv == CachesFit /\ strategy \in Strategies /\ CachedWhereHashed

(* Every event of the workload keeps the invariant.                        *)
LEMMA CachesFollow == ASSUME CacheInv, [Next]_vars PROVE CacheInv'
<1>1. CASE UNCHANGED vars
  BY <1>1 DEF vars, CacheInv, CachesFit, CachedWhereHashed, HashRoutingStrategy, Holds
<1>2. CASE Next
  <2>1. PICK r \in Receiver, c \in Item, logged \in BOOLEAN : Request(r, c, logged)
    BY <1>2 DEF Next
  <2>2. PICK p \in Plans(r, c) : cache' \in CachesAfter(p, c)
    BY <2>1 DEF Request
  <2>3. strategy' = strategy /\ strategy \in Strategies /\ CachesFit
    BY <2>1 DEF Request, CacheInv
  <2>4. GoodPlan(p, r, c)
    BY <2>3, StrategyAssumption, EveryPlan
  <2>5. /\ CachesFit'
        /\ \A v \in CacheNode :
             Held(cache'[v]) \subseteq Held(cache[v]) \cup IF v \in p.puts THEN {c} ELSE {}
    BY <2>2, <2>3, CachesAfterFit
  <2>6. CachedWhereHashed'
    <3> SUFFICES ASSUME HashRoutingStrategy', NEW v \in CacheNode, NEW e \in Item,
                        e \in Held(cache'[v])
                 PROVE  v = Authoritative(e)
      BY DEF CachedWhereHashed, Holds
    <3>1. HashRoutingStrategy
      BY <2>3 DEF HashRoutingStrategy
    <3>2. p.puts \subseteq {Authoritative(c)}
      BY <2>4, <3>1 DEF GoodPlan
    <3>3. e \in Held(cache[v]) \/ (v \in p.puts /\ e = c)
      BY <2>5
    <3>4. e \in Held(cache[v]) => v = Authoritative(e)
      BY <3>1 DEF CacheInv, CachedWhereHashed, Holds
    <3> QED BY <3>2, <3>3, <3>4
  <2> QED BY <2>3, <2>5, <2>6 DEF CacheInv
<1> QED BY <1>1, <1>2

(* So it always holds, whatever the policy of the caches.                  *)
LEMMA CachesInductive == Spec => []CacheInv
<1>1. Init => CacheInv
  <2> SUFFICES ASSUME Init PROVE CacheInv
    OBVIOUS
  <2>1. CachesFit /\ \A v \in CacheNode : Held(cache[v]) = {}
    BY CachesStart
  <2> QED BY <2>1 DEF CacheInv, Init, CachedWhereHashed, Holds
<1>2. CacheInv /\ [Next]_vars => CacheInv'
  BY CachesFollow
<1> QED BY <1>1, <1>2, PTL DEF Spec

(* Under hash-routing a content is cached where its hash says, and nowhere *)
(* else, however it is delivered.                                          *)
THEOREM HashingDecidesWhere == Spec => []CachedWhereHashed
<1>1. CacheInv => CachedWhereHashed
  BY DEF CacheInv
<1> QED BY <1>1, CachesInductive, PTL
---------------------------------------------------------------------------
(* The types.                                                              *)

(* Counting the hops of a session leaves counters.                         *)
LEMMA CountsHops ==
  ASSUME NEW k \in [Link -> Nat], NEW h \in Seq(Node \X Node)
  PROVE  Count(k, h) \in [Link -> Nat]
<1>1. ASSUME NEW l \in Link PROVE k[l] + Cardinality({i \in DOMAIN h : h[i] = l}) \in Nat
  <2>1. DOMAIN h = 1 .. Len(h) /\ Len(h) \in Nat
    BY LenProperties
  <2>2. IsFiniteSet(DOMAIN h)
    BY <2>1, FS_Interval
  <2>3. IsFiniteSet({i \in DOMAIN h : h[i] = l})
    BY <2>2, FS_Subset
  <2>4. Cardinality({i \in DOMAIN h : h[i] = l}) \in Nat
    BY <2>3, FS_CardinalityType
  <2> QED BY <2>4
<1> QED BY <1>1 DEF Count

(* Every event of the workload keeps the types.                            *)
LEMMA TypesFollow == ASSUME CacheInv, TypeOK, [Next]_vars PROVE TypeOK'
<1>1. CASE UNCHANGED vars
  BY <1>1 DEF vars, TypeOK
<1>2. CASE Next
  <2>1. PICK r \in Receiver, c \in Item, logged \in BOOLEAN : Request(r, c, logged)
    BY <1>2 DEF Next
  <2>2. PICK p \in Plans(r, c) :
          IF logged THEN stats' = StatsAfter(p, r, c) ELSE UNCHANGED stats
    BY <2>1 DEF Request
  <2>3. /\ strategy' = strategy /\ strategy \in Strategies /\ log' = logged
        /\ logged => stats.sess_count < MaxSessions
    BY <2>1 DEF Request, CacheInv
  <2>4. GoodPlan(p, r, c)
    BY <2>3, StrategyAssumption, EveryPlan
  <2>5. \A v \in CacheNode : Held(cache'[v]) \subseteq Item /\ Cardinality(Held(cache'[v])) =< MaxLen
    <3>1. CacheInv'
      BY <1>2, CachesFollow
    <3>2. \A v \in CacheNode : Sound(cache'[v])
      BY <3>1 DEF CacheInv, CachesFit
    <3> QED BY <3>2, HeldFits
  <2>6. /\ stats'.sess_count \in 0 .. MaxSessions
        /\ stats'.req_count \in [Link -> Nat] /\ stats'.cont_count \in [Link -> Nat]
    <3>1. CASE ~logged
      BY <2>2, <3>1 DEF TypeOK
    <3>2. CASE logged
      <4>1. /\ stats'.sess_count = stats.sess_count + 1
            /\ stats'.req_count = Count(stats.req_count, p.request)
            /\ stats'.cont_count = Count(stats.cont_count, p.content)
        BY <2>2, <3>2 DEF StatsAfter
      <4>2. p.request \in Seq(Node \X Node) /\ p.content \in Seq(Node \X Node)
        BY <2>4 DEF GoodPlan, Delivers, Tree
      <4>3. stats'.sess_count \in 0 .. MaxSessions
        BY <2>3, <3>2, <4>1, BoundAssumption DEF TypeOK
      <4> QED BY <4>1, <4>2, <4>3, CountsHops DEF TypeOK
    <3> QED BY <3>1, <3>2
  <2> QED BY <2>3, <2>5, <2>6 DEF TypeOK
<1> QED BY <1>1, <1>2

(* The caches hold contents, no more than they have room for, and every    *)
(* hop of every session is counted on a link of the network.               *)
THEOREM NetworkTypes == Spec => []TypeOK
<1>1. Init => TypeOK
  <2> SUFFICES ASSUME Init PROVE TypeOK
    OBVIOUS
  <2>1. CachesFit
    BY CachesStart
  <2>2. \A v \in CacheNode : Held(cache[v]) \subseteq Item /\ Cardinality(Held(cache[v])) =< MaxLen
    BY <2>1, HeldFits DEF CachesFit
  <2>3. /\ stats.sess_count = 0 /\ stats.req_count = [l \in Link |-> 0]
        /\ stats.cont_count = [l \in Link |-> 0]
    BY DEF Init
  <2>4. stats.req_count \in [Link -> Nat] /\ stats.cont_count \in [Link -> Nat]
    BY <2>3
  <2>5. stats.sess_count \in 0 .. MaxSessions
    BY <2>3, BoundAssumption
  <2>6. strategy \in Strategies /\ log \in BOOLEAN
    BY DEF Init
  <2> QED BY <2>2, <2>4, <2>5, <2>6 DEF TypeOK
<1>2. CacheInv /\ TypeOK /\ [Next]_vars => TypeOK'
  BY TypesFollow
<1> QED BY <1>1, <1>2, CachesInductive, PTL DEF Spec
---------------------------------------------------------------------------
(* The copies a session leaves.                                            *)

(* What one event adds to the caches.                                      *)
LEMMA CopiesStep ==
  ASSUME ReceiversAreLeaves \/ "HR_HYBRID_AM" \notin Strategies, CacheInv, Next, NEW e \in Item
  PROVE  /\ stats' # stats /\ NewCopies(e) # {} =>
              /\ last'.contentId = e
              /\ NewCopies(e) \subseteq Reached(last'.content, Len(last'.content), last'.server)
         /\ strategy \notin {"LCE", "NRR_LCE", "PROB_CACHE", "RAND_BERNOULLI"} =>
              Cardinality(NewCopies(e)) =< 1
<1>1. PICK r \in Receiver, c \in Item, logged \in BOOLEAN : Request(r, c, logged)
  BY DEF Next
<1>2. PICK p \in Plans(r, c) :
        /\ cache' \in CachesAfter(p, c)
        /\ IF logged
           THEN last' = [receiver |-> r, contentId |-> c, server |-> serving_node(p, c),
                         request |-> p.request, content |-> p.content]
           ELSE UNCHANGED stats
  BY <1>1 DEF Request
<1>3. strategy \in Strategies /\ CachesFit
  BY DEF CacheInv
<1>4. GoodPlan(p, r, c)
  BY <1>3, StrategyAssumption, EveryPlan
<1>5. \A v \in CacheNode :
        Held(cache'[v]) \subseteq Held(cache[v]) \cup IF v \in p.puts THEN {c} ELSE {}
  BY <1>2, <1>3, CachesAfterFit
<1>6. \A v \in NewCopies(e) : v \in p.puts /\ e = c
  BY <1>5 DEF NewCopies, Holds
<1>7. ASSUME stats' # stats, NewCopies(e) # {}
      PROVE  /\ last'.contentId = e
             /\ NewCopies(e) \subseteq Reached(last'.content, Len(last'.content), last'.server)
  <2>1. e = c
    BY <1>6, <1>7
  <2>2. last'.contentId = c /\ last'.content = p.content /\ last'.server = p.server
    <3>1. serving_node(p, c) = p.server
      BY <1>4, AnswersOnce DEF GoodPlan
    <3>2. last' = [receiver |-> r, contentId |-> c, server |-> serving_node(p, c),
                   request |-> p.request, content |-> p.content]
      BY <1>2, <1>7
    <3> QED BY <3>1, <3>2
  <2>3. p.puts \subseteq Reach(p.content, p.server)
    BY <1>3, <1>4 DEF GoodPlan, Carries
  <2> QED BY <1>6, <2>1, <2>2, <2>3 DEF Reach
<1>8. ASSUME strategy \notin {"LCE", "NRR_LCE", "PROB_CACHE", "RAND_BERNOULLI"}
      PROVE  Cardinality(NewCopies(e)) =< 1
  <2>1. OneCopy(p)
    BY <1>4, <1>8 DEF GoodPlan, ManyCopies
  <2>2. CASE NewCopies(e) = {}
    BY <2>2, FS_EmptySet
  <2>3. CASE NewCopies(e) # {}
    <3>1. PICK v : v \in NewCopies(e)
      BY <2>3
    <3>2. NewCopies(e) = {v}
      BY <1>6, <2>1, <3>1 DEF OneCopy
    <3>3. Cardinality({v}) = 1
      BY FS_Singleton
    <3> QED BY <3>2, <3>3
  <2> QED BY <2>2, <2>3
<1> QED BY <1>7, <1>8

(* What is new in a cache is the content of the session, at a node it has  *)
(* passed, and one copy only of the strategies that leave one: for hybrid  *)
(* asymmetric-multicast hash-routing only where no path goes on behind a   *)
(* receiver.                                                               *)
THEOREM CopiesFollowDelivery ==
  ASSUME ReceiversAreLeaves \/ "HR_HYBRID_AM" \notin Strategies
  PROVE  Spec => CopiesAreDelivered
<1>1. CacheInv /\ [Next]_vars =>
        [\A c \in Item :
           /\ stats' # stats /\ NewCopies(c) # {} =>
                /\ last'.contentId = c
                /\ NewCopies(c) \subseteq Reached(last'.content, Len(last'.content), last'.server)
           /\ strategy \notin {"LCE", "NRR_LCE", "PROB_CACHE", "RAND_BERNOULLI"} =>
                Cardinality(NewCopies(c)) =< 1]_vars
  BY CopiesStep
<1> QED BY <1>1, CachesInductive, PTL DEF Spec, CopiesAreDelivered
=============================================================================
