-------------------------- MODULE IcarusCacheProofs --------------------------
(***************************************************************************)
(* A cache object of Icarus under every sequence of calls, for any set of  *)
(* items, any size and any number of segments: every policy as it is and   *)
(* under rand_insert_cache, and under keyval_cache and ttl_cache where the *)
(* policy keeps the items they write something for.                        *)
(*                                                                         *)
(* Two arguments.  The first puts the contracts of the policies' calls     *)
(* (IcarusPoliciesProofs) together: the inductive invariant SoundInv says  *)
(* that the object is sound, that keyval_cache has the value last put for  *)
(* each item it holds, and that the list of ttl_cache is a line of the     *)
(* items held in the order of their expiry times (Timed).  The purge, a    *)
(* loop, is followed turn by turn.                                         *)
(*                                                                         *)
(* The second is about the order of eviction.  The items of a policy with  *)
(* an order stand in one line (Arranged), a list, the segments one after   *)
(* the other, the counts as they sink, or a deque; each call turns the     *)
(* line into another as EvictionOrder allows (Turn), and dump yields it.   *)
(***************************************************************************)
EXTENDS IcarusCache, IcarusPoliciesProofs

(* The pairs of a policy and a wrapper the theorems are about: all but     *)
(* those whose policy has nothing to keep a value or a time for, and       *)
(* FifoCache with expiry times, whose deque ttl_cache makes hold an item   *)
(* twice.                                                                  *)
SoundPairs ==
  Policies \X {"plain", "rand_insert"}
  \cup (Policies \ {"NULL"}) \X {"keyval"}
  \cup {"LRU", "SLRU", "LFU", "RAND"} \X {"ttl"}

SoundKinds == Kind \subseteq SoundPairs

(* The expiry times e and the list s of ttl_cache, for the items H: the    *)
(* list is the line q of the items, the latest to expire on top.           *)
Timed(H, e, s, q) ==
  /\ Line(s, q, Item) /\ Items(s) = H /\ DOMAIN e = H
  /\ \A k \in H : e[k] \in 1 .. Infinity
  /\ \A i, j \in 1 .. Len(q) : i < j => e[q[i]] >= e[q[j]]

SoundPair == Sound(base) /\ <<base.policy, wrapper>> \in SoundPairs

SoundValues ==
  /\ latest \in [Item -> Value \cup {None}]
  /\ DOMAIN val \subseteq Item /\ \A k \in DOMAIN val : val[k] \in Value
  /\ wrapper = "keyval" =>
       DOMAIN val = Held(base) /\ \A k \in Held(base) : val[k] = latest[k]

SoundTimes ==
  /\ now \in 0 .. Horizon
  /\ IF wrapper = "ttl" THEN \E q : Timed(Held(base), expiry, expList, q)
     ELSE expiry = <<>> /\ expList = EmptySet

SoundInv == SoundPair /\ SoundValues /\ SoundTimes

---------------------------------------------------------------------------
LEMMA Times == Infinity \in Nat /\ Horizon \in Nat /\ MaxTtl \in Nat /\ Infinity = Horizon + MaxTtl + 1
BY CacheAssumption DEF Infinity

(* No items, no times.                                                     *)
LEMMA NothingTimed == \E q : Timed({}, <<>>, EmptySet, q)
<1>1. PICK q : Line(EmptySet, q, Item) /\ Items(EmptySet) = {}
  BY EmptyFits DEF FitsInLine
<1>2. Len(q) = 0
  BY <1>1, LineItems, FS_EmptySet
<1>3. DOMAIN <<>> = {}
  OBVIOUS
<1> QED BY <1>1, <1>2, <1>3 DEF Timed

(* The places of a line whose items are timed.                             *)
LEMMA TimedFacts ==
  ASSUME NEW H, NEW e, NEW s, NEW q, Timed(H, e, s, q)
  PROVE  /\ q \in Seq(Item) /\ Len(q) \in Nat /\ DOMAIN q = 1 .. Len(q)
         /\ Line(s, q, Item) /\ Items(s) = H /\ DOMAIN e = H /\ H \subseteq Item
         /\ H = {q[i] : i \in 1 .. Len(q)} /\ Listing(s) = q
         /\ \A k \in H : \E i \in 1 .. Len(q) : q[i] = k
         /\ \A i, j \in 1 .. Len(q) : q[i] = q[j] => i = j
         /\ \A k \in H : e[k] \in 1 .. Infinity /\ e[k] \in Int
         /\ \A i, j \in 1 .. Len(q) : i < j => e[q[i]] >= e[q[j]]
<1>1. Line(s, q, Item) /\ Items(s) = H /\ DOMAIN e = H /\ None \notin Item
  BY PolicyAssumption DEF Timed
<1>2. /\ Len(q) \in Nat /\ DOMAIN q = 1 .. Len(q)
      /\ Items(s) = {q[i] : i \in 1 .. Len(q)} /\ Items(s) \subseteq Item
  BY <1>1, LineFacts
<1>3. Listing(s) = q
  BY <1>1, ListingIs
<1>4. q \in Seq(Item) /\ \A i, j \in 1 .. Len(q) : q[i] = q[j] => i = j
  BY <1>1, <1>2 DEF Line, Distinct
<1>5. /\ \A k \in H : e[k] \in 1 .. Infinity /\ e[k] \in Int
      /\ \A i, j \in 1 .. Len(q) : i < j => e[q[i]] >= e[q[j]]
  BY Times DEF Timed
<1> QED BY <1>1, <1>2, <1>3, <1>4, <1>5

(* An item leaves.                                                         *)
LEMMA TimedWithout ==
  ASSUME NEW H, NEW e, NEW s, NEW q, Timed(H, e, s, q), NEW i \in 1 .. Len(q), NEW r,
         Line(r, RemovedAt(q, i), Item), Items(r) = H \ {q[i]}
  PROVE  Timed(H \ {q[i]}, Drop(e, q[i]), r, RemovedAt(q, i))
<1> DEFINE p == RemovedAt(q, i)
           d == Drop(e, q[i])
           n == Len(q)
<1>1. /\ n \in Nat /\ DOMAIN e = H /\ H = {q[j] : j \in 1 .. n}
      /\ \A j, l \in 1 .. n : q[j] = q[l] => j = l
      /\ \A k \in H : e[k] \in 1 .. Infinity
      /\ \A j, l \in 1 .. n : j < l => e[q[j]] >= e[q[l]]
  BY TimedFacts
<1>2. DOMAIN d = H \ {q[i]} /\ \A k \in H \ {q[i]} : d[k] = e[k]
  BY <1>1 DEF Drop
<1>3. Len(p) = n - 1 /\ \A j \in 1 .. n - 1 : p[j] = IF j < i THEN q[j] ELSE q[j + 1]
  <2>1. DOMAIN p = 1 .. n - 1 /\ p \in Seq(Item)
    BY DEF RemovedAt, Line
  <2>2. n - 1 \in Nat
    BY <1>1
  <2>3. Len(p) = n - 1
    <3> HIDE DEF p
    <3> QED BY <2>1, <2>2, LenProperties
  <2> QED BY <2>3 DEF RemovedAt
<1> HIDE DEF p, d, n
<1>4. ASSUME NEW j \in 1 .. Len(p), NEW l \in 1 .. Len(p), j < l PROVE d[p[j]] >= d[p[l]]
  <2> DEFINE at(x) == IF x < i THEN x ELSE x + 1
  <2>1. ASSUME NEW x \in 1 .. n - 1
        PROVE  at(x) \in 1 .. n /\ p[x] = q[at(x)] /\ at(x) # i /\ q[at(x)] # q[i] /\ q[at(x)] \in H
    <3>1. at(x) \in 1 .. n /\ at(x) # i /\ p[x] = q[at(x)]
      BY <1>1, <1>3
    <3> HIDE DEF at
    <3> QED BY <1>1, <3>1 DEF n
  <2>2. at(j) < at(l)
    BY <1>1, <1>3, <1>4
  <2>3. j \in 1 .. n - 1 /\ l \in 1 .. n - 1
    BY <1>3
  <2> HIDE DEF at
  <2>4. /\ at(j) \in 1 .. n /\ p[j] = q[at(j)] /\ q[at(j)] \in H \ {q[i]}
        /\ at(l) \in 1 .. n /\ p[l] = q[at(l)] /\ q[at(l)] \in H \ {q[i]}
    BY <2>1, <2>3
  <2>5. e[q[at(j)]] >= e[q[at(l)]]
    BY <1>1, <2>2, <2>4
  <2>6. d[p[j]] = e[q[at(j)]] /\ d[p[l]] = e[q[at(l)]]
    BY <1>2, <2>4
  <2> QED BY <2>5, <2>6
<1> QED BY <1>1, <1>2, <1>4 DEF Timed, p, d

(* An item takes its place: above the first that does not expire later.    *)
LEMMA TimedInserted ==
  ASSUME NEW H, NEW e, NEW s, NEW q, Timed(H, e, s, q), NEW k \in Item \ H, NEW x \in 1 .. Infinity,
         NEW d, DOMAIN d = H \cup {k}, d[k] = x, \A j \in H : d[j] = e[j],
         NEW i \in 1 .. Len(q) + 1, NEW r, Line(r, InsertedAt(q, i, k), Item), Items(r) = H \cup {k},
         \A j \in 1 .. Len(q) : IF j < i THEN x =< e[q[j]] ELSE e[q[j]] =< x
  PROVE  Timed(H \cup {k}, d, r, InsertedAt(q, i, k))
<1> DEFINE p == InsertedAt(q, i, k)
           n == Len(q)
<1>1. /\ n \in Nat /\ H = {q[j] : j \in 1 .. n}
      /\ \A j \in H : e[j] \in 1 .. Infinity /\ e[j] \in Int
      /\ \A j, l \in 1 .. n : j < l => e[q[j]] >= e[q[l]]
  BY TimedFacts
<1>2. Len(p) = n + 1 /\ \A j \in 1 .. n + 1 : p[j] = IF j < i THEN q[j] ELSE IF j = i THEN k ELSE q[j - 1]
  <2>1. DOMAIN p = 1 .. n + 1 /\ p \in Seq(Item)
    BY DEF InsertedAt, Line
  <2>2. n + 1 \in Nat
    BY <1>1
  <2>3. Len(p) = n + 1
    <3> HIDE DEF p
    <3> QED BY <2>1, <2>2, LenProperties
  <2> QED BY <2>3 DEF InsertedAt
<1>3. \A j \in 1 .. n : IF j < i THEN x =< e[q[j]] ELSE e[q[j]] =< x
  OBVIOUS
<1> HIDE DEF p, n
<1>4. x \in Int /\ \A j \in 1 .. n : q[j] \in H /\ d[q[j]] = e[q[j]] /\ e[q[j]] \in Int
  BY <1>1, Times
<1>5. ASSUME NEW j \in 1 .. Len(p), NEW l \in 1 .. Len(p), j < l PROVE d[p[j]] >= d[p[l]]
  <2>1. j \in 1 .. n + 1 /\ l \in 1 .. n + 1 /\ i \in 1 .. n + 1
    BY <1>2 DEF n
  <2>2. CASE l < i
    <3>1. j \in 1 .. n /\ l \in 1 .. n /\ p[j] = q[j] /\ p[l] = q[l]
      BY <1>1, <1>2, <1>5, <2>1, <2>2
    <3> QED BY <1>1, <1>4, <1>5, <3>1
  <2>3. CASE l = i
    <3>1. j \in 1 .. n /\ p[j] = q[j] /\ p[l] = k /\ j < i
      BY <1>1, <1>2, <1>5, <2>1, <2>3
    <3> QED BY <1>3, <1>4, <3>1
  <2>4. CASE l > i
    <3> DEFINE b == l - 1
    <3>1. b \in 1 .. n /\ p[l] = q[b] /\ ~(b < i)
      BY <1>1, <1>2, <1>5, <2>1, <2>4
    <3>2. CASE j < i
      <4>1. j \in 1 .. n /\ p[j] = q[j] /\ j < b
        BY <1>1, <1>2, <1>5, <2>1, <2>4, <3>2
      <4> HIDE DEF b
      <4> QED BY <1>1, <1>4, <3>1, <4>1
    <3>3. CASE j = i
      <4>1. p[j] = k
        BY <1>2, <2>1, <3>3
      <4> HIDE DEF b
      <4>2. e[q[b]] =< x
        BY <1>3, <3>1
      <4> QED BY <1>4, <3>1, <4>1, <4>2
    <3>4. CASE j > i
      <4> DEFINE a == j - 1
      <4>1. a \in 1 .. n /\ p[j] = q[a] /\ a < b
        BY <1>1, <1>2, <1>5, <2>1, <2>4, <3>4
      <4> HIDE DEF a, b
      <4>2. e[q[a]] >= e[q[b]]
        BY <1>1, <3>1, <4>1
      <4> QED BY <1>4, <3>1, <4>1, <4>2
    <3> QED BY <2>1, <3>2, <3>3, <3>4
  <2> QED BY <2>1, <2>2, <2>3, <2>4
<1>6. \A j \in H \cup {k} : d[j] \in 1 .. Infinity
  BY <1>1
<1> QED BY <1>5, <1>6 DEF Timed, p

(* The place Enlist finds keeps the list timed.                            *)
LEMMA EnlistKeepsTimed ==
  ASSUME NEW H, NEW e, NEW s, NEW q, Timed(H, e, s, q), NEW k \in Item, NEW x \in 1 .. Infinity
  PROVE  LET d == Put1(e, k, x) IN \E p : Timed(H \cup {k}, d, Enlist(s, d, k, x), p)
<1> DEFINE d      == Put1(e, k, x)
           others == IF k \in Items(s) THEN Remove(s, k) ELSE s
           list   == Enlist(s, d, k, x)
           G      == H \ {k}
           f      == Drop(e, k)
<1>1. /\ DOMAIN e = H /\ H \subseteq Item /\ Items(s) = H /\ Line(s, q, Item) /\ None \notin Item
      /\ \A j \in H : \E i \in 1 .. Len(q) : q[i] = j
  BY TimedFacts, PolicyAssumption
<1>2. /\ DOMAIN d = G \cup {k} /\ G \cup {k} = H \cup {k} /\ d[k] = x
      /\ \A j \in G : d[j] = e[j] /\ f[j] = e[j]
  BY <1>1 DEF Put1, Drop
<1>3. \E u : Timed(G, f, others, u)
  <2>1. CASE k \in H
    <3>1. PICK i \in 1 .. Len(q) : q[i] = k
      BY <1>1, <2>1
    <3>2. Line(Remove(s, k), RemovedAt(q, i), Item) /\ Items(Remove(s, k)) = H \ {k}
      BY <1>1, <3>1, RemoveKeepsLine
    <3>3. Timed(H \ {q[i]}, Drop(e, q[i]), Remove(s, k), RemovedAt(q, i))
      BY <3>1, <3>2, TimedWithout
    <3> QED BY <1>1, <2>1, <3>1, <3>3
  <2>2. CASE k \notin H
    <3>1. G = H /\ others = s
      BY <1>1, <2>2
    <3>2. DOMAIN f = H /\ \A j \in H : f[j] = e[j]
      BY <1>1, <2>2 DEF Drop
    <3>3. \A i \in 1 .. Len(q) : q[i] \in H
      BY TimedFacts
    <3> HIDE DEF f, G, others
    <3>4. Timed(H, f, s, q)
      BY <3>2, <3>3 DEF Timed
    <3> QED BY <3>1, <3>4
  <2> QED BY <2>1, <2>2
<1> HIDE DEF f
<1> DEFINE u       == Listing(others)
<1>4. Timed(G, f, others, u)
  BY <1>3, TimedFacts
<1> DEFINE n       == Len(u)
           earlier == {i \in DOMAIN u : x >= d[u[i]]}
           least   == CHOOSE i \in earlier : \A j \in earlier : i =< j
<1>k. k \notin G
  OBVIOUS
<1>5. list = IF u = <<>> THEN AppendTop(others, k)
             ELSE IF earlier = {} THEN AppendBottom(others, k)
             ELSE InsertAbove(others, u[least], k)
  <2> HIDE DEF d, others
  <2> QED BY DEF Enlist, others
<1> HIDE DEF d, others, list, G, u
<1>6. /\ u \in Seq(Item) /\ n \in Nat /\ DOMAIN u = 1 .. n /\ Line(others, u, Item) /\ Items(others) = G
      /\ G = {u[i] : i \in 1 .. n} /\ k \in Item \ G
      /\ \A j \in G : f[j] \in Int
      /\ \A i, j \in 1 .. n : i < j => f[u[i]] >= f[u[j]]
  <2>1. /\ u \in Seq(Item) /\ Len(u) \in Nat /\ DOMAIN u = 1 .. Len(u) /\ Line(others, u, Item)
        /\ Items(others) = G /\ G = {u[i] : i \in 1 .. Len(u)}
    BY <1>4, TimedFacts
  <2>2. \A j \in G : f[j] \in Int
    BY <1>4, TimedFacts
  <2>3. \A i, j \in 1 .. Len(u) : i < j => f[u[i]] >= f[u[j]]
    BY <1>4, TimedFacts
  <2> QED BY <2>1, <2>2, <2>3, <1>k
<1>7. \A i \in 1 .. n : u[i] \in G /\ d[u[i]] = f[u[i]] /\ f[u[i]] \in Int
  BY <1>2, <1>6
<1>8. x \in Int
  BY Times
<1>9. \E i \in 1 .. n + 1 :
        /\ Line(list, InsertedAt(u, i, k), Item) /\ Items(list) = G \cup {k}
        /\ \A j \in 1 .. n : IF j < i THEN x =< f[u[j]] ELSE f[u[j]] =< x
  <2>1. CASE u = <<>>
    <3>1. n = 0 /\ list = AppendTop(others, k)
      BY <1>5, <2>1
    <3>2. Line(list, InsertedAt(u, 1, k), Item) /\ Items(list) = G \cup {k}
      BY <1>1, <1>6, <3>1, AppendTopKeepsLine
    <3> QED BY <3>1, <3>2
  <2>2. CASE u # <<>> /\ earlier = {}
    <3>1. list = AppendBottom(others, k)
      BY <1>5, <2>2
    <3>2. Line(list, InsertedAt(u, n + 1, k), Item) /\ Items(list) = G \cup {k}
      BY <1>1, <1>6, <3>1, AppendBottomKeepsLine
    <3>3. \A j \in 1 .. n : j < n + 1 /\ ~(x >= d[u[j]])
      BY <1>6, <2>2
    <3>4. \A j \in 1 .. n : IF j < n + 1 THEN x =< f[u[j]] ELSE f[u[j]] =< x
      BY <1>7, <1>8, <3>3
    <3>5. n + 1 \in 1 .. n + 1
      BY <1>6
    <3> QED BY <3>2, <3>4, <3>5
  <2>3. CASE u # <<>> /\ earlier # {}
    <3>1. earlier \in SUBSET Nat
      BY <1>6
    <3>2. least \in earlier /\ \A j \in earlier : least =< j
      <4> HIDE DEF earlier
      <4>1. \E i \in earlier : \A j \in earlier : i =< j
        BY <2>3, <3>1, LeastNumber
      <4> QED BY <4>1
    <3>3. list = InsertAbove(others, u[least], k)
      BY <1>5, <2>3
    <3> HIDE DEF least
    <3>4. least \in 1 .. n /\ x >= d[u[least]] /\ \A j \in 1 .. n : j < least => ~(x >= d[u[j]])
      BY <1>6, <3>2
    <3>5. Line(list, InsertedAt(u, least, k), Item) /\ Items(list) = G \cup {k}
      <4>1. least \in 1 .. Len(u)
        BY <3>4
      <4>2. k \in Item \ Items(others)
        BY <1>6
      <4> HIDE DEF n, earlier
      <4>3. /\ Line(InsertAbove(others, u[least], k), InsertedAt(u, least, k), Item)
            /\ Items(InsertAbove(others, u[least], k)) = Items(others) \cup {k}
        <5>1. \A i \in 1 .. Len(u) :
                /\ Line(InsertAbove(others, u[i], k), InsertedAt(u, i, k), Item)
                /\ Items(InsertAbove(others, u[i], k)) = Items(others) \cup {k}
          <6>1. Line(others, u, Item) /\ None \notin Item
            BY <1>1, <1>6
          <6> QED BY <6>1, <4>2, InsertAboveKeepsLine
        <5> QED BY <5>1, <4>1
      <4> QED BY <1>6, <3>3, <4>3
    <3>6. ASSUME NEW j \in 1 .. n PROVE IF j < least THEN x =< f[u[j]] ELSE f[u[j]] =< x
      <4>1. f[u[least]] =< x /\ f[u[least]] \in Int /\ f[u[j]] \in Int
        BY <1>7, <1>8, <3>4
      <4>2. CASE j < least
        BY <1>7, <1>8, <3>4, <4>2
      <4>3. CASE j = least
        BY <4>1, <4>3
      <4>4. CASE j > least
        <5>1. f[u[least]] >= f[u[j]]
          BY <1>6, <3>4, <4>4
        <5> QED BY <1>8, <3>4, <4>1, <4>4, <5>1
      <4> QED BY <1>6, <3>4, <4>2, <4>3, <4>4
    <3>7. least \in 1 .. n + 1
      BY <1>6, <3>4
    <3> QED BY <3>5, <3>6, <3>7
  <2> QED BY <2>1, <2>2, <2>3
<1>10. PICK i \in 1 .. n + 1 :
        /\ Line(list, InsertedAt(u, i, k), Item) /\ Items(list) = G \cup {k}
        /\ \A j \in 1 .. n : IF j < i THEN x =< f[u[j]] ELSE f[u[j]] =< x
  BY <1>9
<1>11. Timed(G \cup {k}, d, list, InsertedAt(u, i, k))
  <2>1. \A j \in G : d[j] = f[j]
    BY <1>2
  <2>2. DOMAIN d = G \cup {k} /\ d[k] = x /\ k \in Item \ G
    BY <1>2, <1>6
  <2>3. i \in 1 .. Len(u) + 1
    OBVIOUS
  <2>4. \A j \in 1 .. Len(u) : IF j < i THEN x =< f[u[j]] ELSE f[u[j]] =< x
    BY <1>10
  <2> HIDE DEF n
  <2> QED BY <1>4, <1>10, <2>1, <2>2, <2>3, <2>4, TimedInserted
<1> QED BY <1>2, <1>11 DEF list, d

---------------------------------------------------------------------------
(* The turns of the loop of _purge_till follow one another.                *)
LEMMA TurnsAre ==
  ASSUME NEW m \in Nat
  PROVE  /\ Turns(m)[0] = [base |-> base, expiry |-> expiry, expList |-> expList]
         /\ \A n \in 1 .. m : Turns(m)[n] = PurgeLast(Turns(m)[n - 1])
<1> DEFINE start == [base |-> base, expiry |-> expiry, expList |-> expList]
           Rule(f, i) == f = [n \in 0 .. i |-> IF n = 0 THEN start ELSE PurgeLast(f[n - 1])]
           none == {i \in Nat : ~ \E f : Rule(f, i)}
<1> HIDE DEF start
<1>1. none = {}
  <2> SUFFICES ASSUME none # {} PROVE FALSE
    OBVIOUS
  <2>1. PICK i \in none : \A j \in none : i =< j
    <3>1. none \in SUBSET Nat
      OBVIOUS
    <3> HIDE DEF none
    <3> QED BY <3>1, LeastNumber
  <2>2. i \in Nat /\ ~ \E f : Rule(f, i)
    OBVIOUS
  <2>3. CASE i = 0
    <3> DEFINE f == [n \in 0 .. i |-> start]
    <3>1. Rule(f, i)
      BY <2>3
    <3> QED BY <2>2, <3>1
  <2>4. CASE i # 0
    <3>1. i - 1 \in Nat /\ ~(i =< i - 1)
      BY <2>2, <2>4
    <3>2. PICK f : Rule(f, i - 1)
      BY <2>1, <3>1
    <3> DEFINE g == [n \in 0 .. i |-> IF n = i THEN PurgeLast(f[i - 1]) ELSE f[n]]
    <3>3. ASSUME NEW n \in 0 .. i PROVE g[n] = IF n = 0 THEN start ELSE PurgeLast(g[n - 1])
      <4>1. CASE n = i
        <5>1. i - 1 \in 0 .. i /\ i - 1 # i
          BY <2>2, <2>4
        <5>2. g[i - 1] = f[i - 1]
          BY <5>1
        <5> QED BY <2>4, <4>1, <5>2
      <4>2. CASE n # i
        <5>1. n \in 0 .. i - 1
          BY <2>2, <4>2
        <5>2. g[n] = f[n]
          BY <4>2
        <5>3. f[n] = IF n = 0 THEN start ELSE PurgeLast(f[n - 1])
          BY <3>2, <5>1
        <5>4. n # 0 => n - 1 \in 0 .. i /\ n - 1 # i
          BY <2>2, <5>1
        <5>5. n # 0 => g[n - 1] = f[n - 1]
          BY <5>4
        <5> QED BY <5>2, <5>3, <5>5
      <4> QED BY <4>1, <4>2
    <3>4. g = [n \in 0 .. i |-> g[n]]
      OBVIOUS
    <3> HIDE DEF g
    <3>5. Rule(g, i)
      BY <3>3, <3>4
    <3> QED BY <2>2, <3>5
  <2> QED BY <2>3, <2>4
<1>2. \E f : Rule(f, m)
  BY <1>1
<1> DEFINE h == Turns(m)
<1>3. h = [n \in 0 .. m |-> IF n = 0 THEN start ELSE PurgeLast(h[n - 1])]
  BY <1>2 DEF Turns, start
<1> HIDE DEF h
<1>4. h[0] = start /\ \A n \in 1 .. m : h[n] = PurgeLast(h[n - 1])
  <2>1. 0 \in 0 .. m
    OBVIOUS
  <2>2. ASSUME NEW n \in 1 .. m PROVE n \in 0 .. m /\ n # 0
    OBVIOUS
  <2> QED BY <1>3, <2>1, <2>2
<1> QED BY <1>4 DEF h, start

(* What the loop hands on.                                                 *)
IsTurn(p) == p = [base |-> p.base, expiry |-> p.expiry, expList |-> p.expList]

(* One turn takes the last item of the list from the policy.               *)
LEMMA OneTurn ==
  ASSUME NEW p, Sound(p.base), NEW r, Timed(Held(p.base), p.expiry, p.expList, r), r # <<>>
  PROVE  LET o == PurgeLast(p) IN
         /\ IsTurn(o) /\ Sound(o.base) /\ o.base.policy = p.base.policy
         /\ Timed(Held(o.base), o.expiry, o.expList, RemovedAt(r, Len(r)))
         /\ \A k \in Held(o.base) : o.expiry[k] = p.expiry[k]
<1> DEFINE x == p.expList.bottom
           o == PurgeLast(p)
           H == Held(p.base)
<1>1. /\ r \in Seq(Item) /\ Len(r) \in Nat /\ Line(p.expList, r, Item) /\ DOMAIN p.expiry = H
      /\ Items(p.expList) = H
  BY TimedFacts
<1>2. Len(r) \in 1 .. Len(r)
  BY <1>1, EmptySeq
<1>3. x = r[Len(r)]
  <2>1. Len(r) # 0
    BY <1>1, <1>2
  <2> QED BY <1>1, <2>1 DEF Line, Represents
<1>4. /\ Line(PopBottom(p.expList), RemovedAt(r, Len(r)), Item)
      /\ Items(PopBottom(p.expList)) = H \ {r[Len(r)]}
  <2> DEFINE l == p.expList
  <2>1. Line(l, r, Item) /\ None \notin Item /\ Items(l) = H
    BY <1>1, PolicyAssumption
  <2> HIDE DEF l, H
  <2>2. /\ Line(PopBottom(l), RemovedAt(r, Len(r)), Item)
        /\ Items(PopBottom(l)) = Items(l) \ {r[Len(r)]}
    BY <2>1, PopBottomKeepsLine
  <2>3. Items(PopBottom(l)) = H \ {r[Len(r)]}
    BY <2>1, <2>2
  <2> QED BY <2>2, <2>3 DEF l
<1>5. Timed(H \ {r[Len(r)]}, Drop(p.expiry, r[Len(r)]), PopBottom(p.expList), RemovedAt(r, Len(r)))
  BY <1>2, <1>4, TimedWithout
<1>6. IsTurn(o) /\ o.base = Removed(p.base, x) /\ o.expiry = Drop(p.expiry, x) /\ o.expList = PopBottom(p.expList)
  BY DEF PurgeLast, IsTurn
<1> HIDE DEF o, x
<1>7. Sound(o.base) /\ o.base.policy = p.base.policy /\ Held(o.base) = H \ {x}
  BY <1>6, RemoveContract
<1>8. Timed(Held(o.base), o.expiry, o.expList, RemovedAt(r, Len(r)))
  BY <1>3, <1>5, <1>6, <1>7
<1>9. \A k \in Held(o.base) : o.expiry[k] = p.expiry[k]
  <2>1. \A k \in H \ {x} : Drop(p.expiry, x)[k] = p.expiry[k]
    BY <1>1 DEF Drop
  <2> HIDE DEF H
  <2> QED BY <1>6, <1>7, <2>1
<1> QED BY <1>6, <1>7, <1>8, <1>9 DEF o

(* A prefix without its last value.                                        *)
LEMMA ShorterPrefix ==
  ASSUME NEW q \in Seq(Item), NEW r \in 1 .. Len(q)
  PROVE  RemovedAt(Prefix(q, r), r) = Prefix(q, r - 1) /\ Len(Prefix(q, r)) = r /\ Prefix(q, r) # <<>>
<1>1. Len(q) \in Nat /\ r \in 0 .. Len(q) /\ r # 0
  BY LenProperties
<1>2. Len(Prefix(q, r)) = r /\ Prefix(q, r) # <<>> /\ \A i \in 1 .. r : Prefix(q, r)[i] = q[i]
  BY <1>1, PrefixIs
<1>3. \A i \in 1 .. r - 1 : i \in 1 .. r /\ i < r
  BY <1>1
<1>4. RemovedAt(Prefix(q, r), r) = [i \in 1 .. r - 1 |-> q[i]]
  BY <1>2, <1>3 DEF RemovedAt
<1> QED BY <1>2, <1>4 DEF Prefix

(* After n turns the last n items are gone.                                *)
LEMMA AfterTurns ==
  ASSUME Sound(base), NEW q, Timed(Held(base), expiry, expList, q), NEW m \in 0 .. Len(q)
  PROVE  LET p == Turns(m)[m] IN
         /\ IsTurn(p) /\ Sound(p.base) /\ p.base.policy = base.policy
         /\ Timed(Held(p.base), p.expiry, p.expList, Prefix(q, Len(q) - m))
         /\ \A k \in Held(p.base) : k \in Held(base) /\ p.expiry[k] = expiry[k]
<1> DEFINE L == Len(q)
           h == Turns(m)
           Gone(p, n) ==
             /\ IsTurn(p) /\ Sound(p.base) /\ p.base.policy = base.policy
             /\ Timed(Held(p.base), p.expiry, p.expList, Prefix(q, L - n))
             /\ \A k \in Held(p.base) : k \in Held(base) /\ p.expiry[k] = expiry[k]
           bad == {n \in 0 .. m : ~Gone(h[n], n)}
<1>1. q \in Seq(Item) /\ L \in Nat /\ m \in Nat /\ m =< L /\ DOMAIN q = 1 .. L
  BY TimedFacts
<1>2. /\ h[0] = [base |-> base, expiry |-> expiry, expList |-> expList]
      /\ \A n \in 1 .. m : h[n] = PurgeLast(h[n - 1])
  BY <1>1, TurnsAre
<1> HIDE DEF h
<1>3. Gone(h[0], 0)
  <2>1. Prefix(q, L - 0) = q
    BY <1>1 DEF Prefix
  <2>2. IsTurn(h[0])
    BY <1>2 DEF IsTurn
  <2> HIDE DEF L
  <2> QED BY <1>2, <2>1, <2>2
<1>4. ASSUME NEW n \in 1 .. m, Gone(h[n - 1], n - 1) PROVE Gone(h[n], n)
  <2> DEFINE p == h[n - 1]
             r == L - (n - 1)
             o == PurgeLast(p)
  <2>1. h[n] = o
    BY <1>2
  <2>2. r \in 1 .. L /\ r - 1 = L - n
    BY <1>1
  <2>3. /\ Sound(p.base) /\ p.base.policy = base.policy
        /\ Timed(Held(p.base), p.expiry, p.expList, Prefix(q, r))
        /\ \A k \in Held(p.base) : k \in Held(base) /\ p.expiry[k] = expiry[k]
    BY <1>4
  <2> HIDE DEF p, r, L
  <2>4. RemovedAt(Prefix(q, r), r) = Prefix(q, r - 1) /\ Len(Prefix(q, r)) = r /\ Prefix(q, r) # <<>>
    BY <1>1, <2>2, ShorterPrefix DEF L
  <2>5. /\ IsTurn(o) /\ Sound(o.base) /\ o.base.policy = p.base.policy
        /\ Timed(Held(o.base), o.expiry, o.expList, Prefix(q, r - 1))
        /\ \A k \in Held(o.base) : o.expiry[k] = p.expiry[k]
    BY <2>3, <2>4, OneTurn
  <2>6. Held(o.base) \subseteq Held(p.base)
    <3>1. Held(o.base) = Held(Removed(p.base, p.expList.bottom))
      BY DEF PurgeLast
    <3> QED BY <2>3, <3>1, RemoveContract
  <2> HIDE DEF o
  <2> QED BY <2>1, <2>2, <2>3, <2>5, <2>6
<1> HIDE DEF Gone
<1>5. bad = {}
  <2> SUFFICES ASSUME bad # {} PROVE FALSE
    OBVIOUS
  <2>1. PICK n \in bad : \A j \in bad : n =< j
    <3>1. bad \in SUBSET Nat
      BY <1>1
    <3> HIDE DEF bad
    <3> QED BY <3>1, LeastNumber
  <2>2. CASE n = 0
    BY <1>3, <2>2
  <2>3. CASE n # 0
    <3>1. n \in 1 .. m /\ n - 1 \in 0 .. m /\ ~(n =< n - 1)
      BY <1>1, <2>3
    <3>2. Gone(h[n - 1], n - 1)
      BY <2>1, <3>1
    <3> QED BY <1>4, <3>1, <3>2
  <2> QED BY <2>2, <2>3
<1>6. Gone(h[m], m)
  <2>1. m \in 0 .. m
    BY <1>1
  <2> QED BY <1>5, <2>1
<1> QED BY <1>6 DEF Gone, h

(* A purge keeps the items that have not expired, and no others.           *)
LEMMA PurgeOutcome ==
  ASSUME Sound(base), NEW q, Timed(Held(base), expiry, expList, q), NEW till \in Int
  PROVE  LET p == Purged(till) IN
         /\ IsTurn(p) /\ Sound(p.base) /\ p.base.policy = base.policy
         /\ Held(p.base) = {k \in Held(base) : expiry[k] >= till}
         /\ \E r : Timed(Held(p.base), p.expiry, p.expList, r)
         /\ \A k \in Held(p.base) : p.expiry[k] = expiry[k]
<1> DEFINE u    == Listing(expList)
           L    == Len(u)
           e    == expiry
           H    == Held(base)
           stop == {i \in DOMAIN u : expiry[u[i]] >= till}
           keep == IF stop = {} THEN 0 ELSE CHOOSE i \in stop : \A j \in stop : j =< i
           p    == Purged(till)
<1>1. Timed(H, e, expList, u)
  BY TimedFacts
<1>2. p = Turns(L - keep)[L - keep]
  BY DEF Purged
<1> HIDE DEF u, p, H, e
<1>3. u \in Seq(Item) /\ Len(u) \in Nat /\ DOMAIN u = 1 .. Len(u) /\ H = {u[i] : i \in 1 .. Len(u)}
  BY <1>1, TimedFacts
<1>4. /\ \A i \in 1 .. L : e[u[i]] \in Int
      /\ \A i, j \in 1 .. L : i < j => e[u[i]] >= e[u[j]]
  <2>1. \A i \in 1 .. Len(u) : u[i] \in H
    BY <1>3
  <2>2. \A k \in H : e[k] \in Int
    BY <1>1, TimedFacts
  <2>3. \A i, j \in 1 .. Len(u) : i < j => e[u[i]] >= e[u[j]]
    BY <1>1 DEF Timed
  <2> QED BY <2>1, <2>2, <2>3
<1>5. stop = {i \in 1 .. L : e[u[i]] >= till} /\ L \in Nat
  BY <1>3 DEF e
<1> HIDE DEF L, stop
<1>6. keep \in 0 .. L /\ \A i \in 1 .. L : e[u[i]] >= till <=> i =< keep
  <2> DEFINE T == {i \in 0 .. L : \A j \in 1 .. L : j > i => ~(e[u[j]] >= till)}
  <2>1. PICK x \in T : \A y \in T : x =< y
    <3>1. L \in T /\ T \in SUBSET Nat
      BY <1>5
    <3> HIDE DEF T
    <3> QED BY <3>1, LeastNumber
  <2>2. x \in 0 .. L /\ \A j \in stop : j =< x
    BY <1>5, <2>1
  <2>3. CASE x = 0
    <3>1. stop = {}
      BY <1>5, <2>2, <2>3
    <3> QED BY <1>5, <3>1
  <2>4. CASE x # 0
    <3>1. x \in stop
      <4>1. x - 1 \in 0 .. L /\ x - 1 \notin T
        BY <1>5, <2>1, <2>2, <2>4
      <4>2. PICK j \in 1 .. L : j > x - 1 /\ e[u[j]] >= till
        BY <4>1
      <4>3. j \in stop
        BY <1>5, <4>2
      <4>4. j = x
        BY <1>5, <2>2, <4>2, <4>3
      <4> QED BY <4>3, <4>4
    <3>2. \A j \in stop : j \in Int
      BY <1>5
    <3>3. keep = x
      <4>1. \A i \in stop : (\A j \in stop : j =< i) => i = x
        BY <2>2, <3>1, <3>2
      <4> QED BY <2>2, <3>1, <4>1
    <3>4. ASSUME NEW i \in 1 .. L, i =< x PROVE e[u[i]] >= till
      <4>1. x \in 1 .. L /\ e[u[x]] >= till
        BY <1>5, <3>1
      <4>2. CASE i = x
        BY <4>1, <4>2
      <4>3. CASE i # x
        <5>1. i < x
          BY <1>5, <3>4, <4>1, <4>3
        <5>2. e[u[i]] >= e[u[x]] /\ e[u[i]] \in Int /\ e[u[x]] \in Int
          BY <1>4, <4>1, <5>1
        <5> QED BY <4>1, <5>2
      <4> QED BY <4>2, <4>3
    <3>5. \A i \in 1 .. L : e[u[i]] >= till => i =< x
      BY <1>5, <2>2
    <3> QED BY <2>2, <3>3, <3>4, <3>5
  <2> QED BY <2>3, <2>4
<1> HIDE DEF keep
<1> DEFINE m == L - keep
<1>7. m \in 0 .. Len(u) /\ Len(u) - m = keep
  BY <1>5, <1>6 DEF L
<1> HIDE DEF m
<1>8. /\ IsTurn(p) /\ Sound(p.base) /\ p.base.policy = base.policy
      /\ Timed(Held(p.base), p.expiry, p.expList, Prefix(u, keep))
      /\ \A k \in Held(p.base) : k \in Held(base) /\ p.expiry[k] = expiry[k]
  <2>1. Timed(Held(base), expiry, expList, u)
    BY <1>1 DEF H, e
  <2>2. p = Turns(m)[m]
    BY <1>2 DEF m
  <2>3. /\ IsTurn(Turns(m)[m]) /\ Sound(Turns(m)[m].base) /\ Turns(m)[m].base.policy = base.policy
        /\ Timed(Held(Turns(m)[m].base), Turns(m)[m].expiry, Turns(m)[m].expList, Prefix(u, Len(u) - m))
        /\ \A k \in Held(Turns(m)[m].base) : k \in Held(base) /\ Turns(m)[m].expiry[k] = expiry[k]
    BY <1>7, <2>1, AfterTurns
  <2> QED BY <1>7, <2>2, <2>3
<1>9. Held(p.base) = {k \in H : e[k] >= till}
  <2> DEFINE r == Prefix(u, keep)
  <2>1. Held(p.base) = {r[i] : i \in 1 .. Len(r)}
    BY <1>8, TimedFacts
  <2>2. Len(r) = keep /\ \A i \in 1 .. keep : r[i] = u[i]
    <3>1. keep \in 0 .. Len(u)
      BY <1>6 DEF L
    <3> QED BY <1>3, <3>1, PrefixIs
  <2> HIDE DEF r
  <2>3. Held(p.base) = {u[i] : i \in 1 .. keep}
    BY <2>1, <2>2
  <2>4. \A i \in 1 .. keep : i \in 1 .. L /\ i =< keep
    BY <1>5, <1>6
  <2>5. \A i \in 1 .. L : i =< keep => i \in 1 .. keep
    BY <1>5, <1>6
  <2>6. H = {u[i] : i \in 1 .. L}
    BY <1>3 DEF L
  <2> QED BY <1>6, <2>3, <2>4, <2>5, <2>6
<1> QED BY <1>8, <1>9 DEF p, H, e

---------------------------------------------------------------------------
(* What the pairs leave out.                                               *)
LEMMA PairFacts ==
  ASSUME SoundPair
  PROVE  /\ Sound(base) /\ base.policy \in Policies
         /\ wrapper \in {"plain", "rand_insert", "keyval", "ttl"}
         /\ wrapper = "keyval" => base.policy # "NULL"
         /\ wrapper = "ttl" => base.policy \in {"LRU", "SLRU", "LFU", "RAND"}
BY DEF SoundPair, SoundPairs, Policies

(* The policy and the wrapper of an object do not change.                  *)
LEMMA SamePair ==
  ASSUME SoundPair, Sound(base'), base'.policy = base.policy, wrapper' = wrapper
  PROVE  SoundPair'
BY DEF SoundPair

(* Calls that leave the values alone, or the times.                        *)
LEMMA SameValues ==
  ASSUME SoundValues, UNCHANGED <<wrapper, val, latest>>, wrapper = "keyval" => Held(base') = Held(base)
  PROVE  SoundValues'
BY DEF SoundValues

LEMMA SameTimes ==
  ASSUME SoundTimes, UNCHANGED <<wrapper, expiry, expList, now>>,
         wrapper = "ttl" => Held(base') = Held(base)
  PROVE  SoundTimes'
BY DEF SoundTimes

(* A new list of times.                                                    *)
LEMMA NewTimes ==
  ASSUME SoundTimes, UNCHANGED <<wrapper, now>>, wrapper = "ttl",
         NEW q, Timed(Held(base'), expiry', expList', q)
  PROVE  SoundTimes'
BY DEF SoundTimes

(* What has answers.                                                       *)
LEMMA HasFacts ==
  ASSUME NEW k
  PROVE  /\ Has(k) \in BOOLEAN /\ (Has(k) => k \in Held(base))
         /\ wrapper # "ttl" => (Has(k) <=> k \in Held(base)) /\ Answers(base, k, Has(k))
<1>1. CASE wrapper = "ttl"
  BY <1>1 DEF Has
<1>2. CASE wrapper # "ttl"
  <2>1. Has(k) = (k \in Held(base))
    BY <1>2 DEF Has
  <2>2. Has(k) \in BOOLEAN
    BY <2>1
  <2>3. Has(k) <=> k \in Held(base)
    BY <2>1
  <2>4. Answers(base, k, Has(k))
    BY <2>2, <2>3 DEF Answers
  <2> QED BY <2>2, <2>3, <2>4
<1> QED BY <1>1, <1>2

(* An object as it is, or under rand_insert_cache.                         *)
LEMMA PlainPutKeeps ==
  ASSUME SoundInv, NEW k \in Item, PlainPut(k)
  PROVE  SoundInv'
<1>1. /\ wrapper \in {"plain", "rand_insert"} /\ wrapper # "ttl" /\ wrapper # "keyval"
      /\ UNCHANGED <<wrapper, val, expiry, expList, now, latest>>
  BY DEF PlainPut
<1>2. Sound(base') /\ base'.policy = base.policy
  <2>1. CASE UNCHANGED base
    BY <2>1 DEF SoundInv, SoundPair
  <2>2. CASE \E o \in PutOutcomes(base, k, Has(k)) : base' = o[1]
    <3>1. PICK o \in PutOutcomes(base, k, Has(k)) : base' = o[1]
      BY <2>2
    <3>2. Sound(base) /\ Answers(base, k, Has(k))
      BY <1>1, HasFacts DEF SoundInv, SoundPair
    <3>3. Sound(o[1]) /\ o[1].policy = base.policy
      BY <3>2, PutContract
    <3> QED BY <3>1, <3>3
  <2> QED BY <2>1, <2>2 DEF PlainPut
<1> QED BY <1>1, <1>2, SamePair, SameValues, SameTimes DEF SoundInv

(* keyval_cache: the value is entered, and that of the evicted key goes.   *)
LEMMA KeyvalPutKeeps ==
  ASSUME SoundInv, NEW k \in Item, NEW v \in Value, KeyvalPut(k, v)
  PROVE  SoundInv'
<1>1. /\ wrapper = "keyval" /\ latest' = [latest EXCEPT ![k] = v]
      /\ UNCHANGED <<wrapper, expiry, expList, now>>
  BY DEF KeyvalPut
<1>2. PICK o \in PutOutcomes(base, k, Has(k)) : base' = o[1] /\ val' = ValuesAfterPut(k, v, o[2])
  BY DEF KeyvalPut
<1>3. /\ Sound(base) /\ base.policy # "NULL" /\ Answers(base, k, Has(k))
      /\ SoundValues /\ SoundPair /\ SoundTimes /\ None \notin Held(base) /\ None \notin Item
  BY <1>1, HasFacts, PairFacts, SoundFits, PolicyAssumption DEF SoundInv
<1>4. /\ Sound(o[1]) /\ o[1].policy = base.policy /\ o[2] \in Held(base) \cup {k, None}
      /\ Held(o[1]) = (Held(base) \cup {k}) \ {o[2]}
  BY <1>3, PutContract
<1> DEFINE with == Put1(val, k, v)
           x == o[2]
           H == Held(base)
           G == Held(base')
<1>5. /\ latest \in [Item -> Value \cup {None}] /\ H \subseteq Item /\ DOMAIN val = H
      /\ \A j \in H : val[j] = latest[j] /\ val[j] \in Value
  BY <1>1, <1>3 DEF SoundValues
<1>6. G = (H \cup {k}) \ {x}
  BY <1>2, <1>4
<1>7. val' = IF x # None THEN Drop(with, x) ELSE with
  BY <1>2 DEF ValuesAfterPut
<1> HIDE DEF H, x, G
<1>8. DOMAIN with = H \cup {k} /\ \A j \in H \cup {k} : with[j] = latest'[j] /\ with[j] \in Value
  BY <1>1, <1>5 DEF Put1
<1> HIDE DEF with
<1>9. DOMAIN val' = G /\ \A j \in G : val'[j] = latest'[j] /\ val'[j] \in Value
  <2>1. CASE x = None
    BY <1>3, <1>5, <1>6, <1>7, <1>8, <2>1
  <2>2. CASE x # None
    <3>1. val' = Drop(with, x)
      BY <1>7, <2>2
    <3> QED BY <1>6, <1>8, <3>1 DEF Drop
  <2> QED BY <2>1, <2>2
<1>10. latest' \in [Item -> Value \cup {None}] /\ G \subseteq Item
  BY <1>1, <1>5, <1>6
<1>11. SoundValues'
  BY <1>9, <1>10 DEF SoundValues, G
<1>12. SoundPair' /\ SoundTimes'
  BY <1>1, <1>2, <1>3, <1>4, SamePair, SameTimes
<1> QED BY <1>11, <1>12 DEF SoundInv

(* ttl_cache: a put, after a purge perhaps.                                *)
LEMMA TtlOutcome ==
  ASSUME SoundInv, wrapper = "ttl", NEW k \in Item, NEW x \in 1 .. Infinity,
         NEW r \in TtlPutOutcomes(k, x)
  PROVE  /\ Sound(r.base) /\ r.base.policy = base.policy
         /\ \E q : Timed(Held(r.base), r.expiry, r.expList, q)
<1> DEFINE purge == Cardinality(Held(base)) = MaxLength(base)
           p     == IF purge THEN Purged(now)
                    ELSE [base |-> base, expiry |-> expiry, expList |-> expList]
           has   == StillHas(p, k)
<1>1. /\ Sound(base) /\ base.policy \in {"LRU", "SLRU", "LFU", "RAND"} /\ now \in Int
      /\ \E q : Timed(Held(base), expiry, expList, q)
  BY PairFacts, Times DEF SoundInv, SoundTimes
<1>2. /\ IsTurn(p) /\ Sound(p.base) /\ p.base.policy = base.policy
      /\ \E q : Timed(Held(p.base), p.expiry, p.expList, q)
      /\ IF purge THEN \A j \in Held(p.base) : p.expiry[j] >= now ELSE p.base = base
  <2>1. CASE purge
    <3>1. p = Purged(now)
      BY <2>1
    <3> HIDE DEF p, purge
    <3>2. PICK q : Timed(Held(base), expiry, expList, q)
      BY <1>1
    <3>3. /\ IsTurn(p) /\ Sound(p.base) /\ p.base.policy = base.policy
          /\ Held(p.base) = {j \in Held(base) : expiry[j] >= now}
          /\ \E t : Timed(Held(p.base), p.expiry, p.expList, t)
          /\ \A j \in Held(p.base) : p.expiry[j] = expiry[j]
      BY <1>1, <3>1, <3>2, PurgeOutcome
    <3> QED BY <2>1, <3>3
  <2>2. CASE ~purge
    <3>1. p = [base |-> base, expiry |-> expiry, expList |-> expList]
      BY <2>2
    <3> HIDE DEF p, purge
    <3>2. IsTurn(p) /\ p.base = base /\ p.expiry = expiry /\ p.expList = expList
      BY <3>1 DEF IsTurn
    <3> QED BY <1>1, <2>2, <3>2
  <2> QED BY <2>1, <2>2
<1>3. Answers(p.base, k, has)
  <2>1. has \in BOOLEAN /\ has = (k \in Held(p.base) /\ now =< p.expiry[k])
    BY DEF StillHas
  <2>2. purge => (has <=> k \in Held(p.base))
    <3> HIDE DEF p, has, purge
    <3>1. PICK q : Timed(Held(p.base), p.expiry, p.expList, q)
      BY <1>2
    <3>2. \A j \in Held(p.base) : p.expiry[j] \in Int
      BY <3>1, TimedFacts
    <3> QED BY <1>1, <1>2, <2>1, <3>2
  <2>3. ~purge => Cardinality(Held(p.base)) < MaxLen
    <3>1. MaxLength(base) = MaxLen /\ MaxLen \in Nat
      BY <1>1, PolicyAssumption DEF MaxLength
    <3>2. Cardinality(Held(base)) \in Nat /\ Cardinality(Held(base)) =< MaxLength(base)
      BY <1>1, SoundFits
    <3>3. ~purge => p.base = base /\ Cardinality(Held(base)) # MaxLength(base)
      BY <1>2
    <3> HIDE DEF p, purge
    <3> QED BY <3>1, <3>2, <3>3
  <2> HIDE DEF p, has, purge
  <2> QED BY <1>1, <1>2, <2>1, <2>2, <2>3 DEF Answers
<1> DEFINE gone(o) == o[2] # None
           exp(o)  == IF gone(o) THEN Drop(p.expiry, o[2]) ELSE p.expiry
           list(o) == IF gone(o) THEN Remove(p.expList, o[2]) ELSE p.expList
           renewed(o) == IF k \in DOMAIN exp(o) THEN exp(o)[k] < x ELSE TRUE
<1>4. PICK o \in PutOutcomes(p.base, k, has) :
        r = IF o[2] = KeyError \/ (gone(o) /\ o[2] \notin DOMAIN p.expiry)
            THEN [p EXCEPT !.base = o[1]]
            ELSE [base |-> o[1],
                  expiry |-> IF renewed(o) THEN Put1(exp(o), k, x) ELSE exp(o),
                  expList |-> IF renewed(o) THEN Enlist(list(o), Put1(exp(o), k, x), k, x)
                              ELSE list(o)]
  BY DEF TtlPutOutcomes
<1> DEFINE y == o[2]
           e == exp(o)
           l == list(o)
           again == renewed(o)
           H == Held(p.base)
<1>5. /\ r = IF y = KeyError \/ (y # None /\ y \notin DOMAIN p.expiry) THEN [p EXCEPT !.base = o[1]]
             ELSE [base |-> o[1], expiry |-> IF again THEN Put1(e, k, x) ELSE e,
                   expList |-> IF again THEN Enlist(l, Put1(e, k, x), k, x) ELSE l]
      /\ y # None => e = Drop(p.expiry, y) /\ l = Remove(p.expList, y)
      /\ y = None => e = p.expiry /\ l = p.expList
      /\ again = IF k \in DOMAIN e THEN e[k] < x ELSE TRUE
  BY <1>4
<1> HIDE DEF p, has, purge, gone, exp, list, renewed, y, e, l, again
<1>6. /\ Sound(o[1]) /\ o[1].policy = base.policy /\ y \in H \cup {k, None}
      /\ Held(o[1]) = (H \cup {k}) \ {y} /\ (k \in H => y = None)
  <2>1. p.base.policy # "NULL"
    BY <1>1, <1>2
  <2> QED BY <1>2, <1>3, <2>1, PutContract DEF y
<1>7. PICK q : Timed(H, p.expiry, p.expList, q)
  BY <1>2
<1> HIDE DEF H
<1>8. /\ H \subseteq Item /\ DOMAIN p.expiry = H /\ None \notin Item /\ KeyError \notin Item \cup {None}
      /\ \A j \in H : \E i \in 1 .. Len(q) : q[i] = j
      /\ Line(p.expList, q, Item) /\ Items(p.expList) = H
  BY <1>7, TimedFacts, PolicyAssumption
<1>9. y # KeyError
  BY <1>6, <1>8
<1>10. CASE y = k
  <2>1. k \notin H /\ y # None
    BY <1>6, <1>8, <1>10
  <2>2. r = [p EXCEPT !.base = o[1]]
    BY <1>5, <1>8, <1>10, <2>1
  <2>3. r.base = o[1] /\ r.expiry = p.expiry /\ r.expList = p.expList
    BY <1>2, <2>2 DEF IsTurn
  <2>4. Held(o[1]) = H
    BY <1>6, <1>10, <2>1
  <2> QED BY <1>6, <1>7, <2>3, <2>4
<1>11. CASE y # k
  <2> DEFINE F == Held(o[1]) \ {k}
  <2>1. y = None \/ y \in H
    BY <1>6, <1>11
  <2>2. r = [base |-> o[1], expiry |-> IF again THEN Put1(e, k, x) ELSE e,
             expList |-> IF again THEN Enlist(l, Put1(e, k, x), k, x) ELSE l]
    BY <1>5, <1>8, <1>9, <2>1
  <2>3. /\ r.base = o[1] /\ r.expiry = IF again THEN Put1(e, k, x) ELSE e
        /\ r.expList = IF again THEN Enlist(l, Put1(e, k, x), k, x) ELSE l
    BY <2>2
  <2> DEFINE G == H \ {y}
  <2>4. \E t : Timed(G, e, l, t)
    <3>1. CASE y = None
      <4>1. G = H /\ e = p.expiry /\ l = p.expList
        BY <1>5, <1>8, <3>1
      <4> QED BY <1>7, <4>1
    <3>2. CASE y # None
      <4>1. e = Drop(p.expiry, y) /\ l = Remove(p.expList, y) /\ y \in H
        BY <1>5, <2>1, <3>2
      <4>2. PICK i \in 1 .. Len(q) : q[i] = y
        BY <1>8, <4>1
      <4>3. Line(Remove(p.expList, y), RemovedAt(q, i), Item) /\ Items(Remove(p.expList, y)) = H \ {y}
        BY <1>8, <4>2, RemoveKeepsLine
      <4>4. Timed(H \ {q[i]}, Drop(p.expiry, q[i]), Remove(p.expList, y), RemovedAt(q, i))
        BY <1>7, <4>2, <4>3, TimedWithout
      <4> QED BY <4>1, <4>2, <4>4
    <3> QED BY <3>1, <3>2
  <2>5. Held(o[1]) = G \cup {k}
    BY <1>6, <1>11
  <2> HIDE DEF G
  <2>6. PICK t : Timed(G, e, l, t)
    BY <2>4
  <2>7. DOMAIN e = G
    BY <2>6, TimedFacts
  <2>8. CASE again
    <3>1. r.expiry = Put1(e, k, x) /\ r.expList = Enlist(l, r.expiry, k, x)
      BY <2>3, <2>8
    <3>2. \E u : Timed(G \cup {k}, Put1(e, k, x), Enlist(l, Put1(e, k, x), k, x), u)
      BY <2>6, EnlistKeepsTimed
    <3> QED BY <1>6, <2>3, <2>5, <3>1, <3>2
  <2>9. CASE ~again
    <3>1. k \in G
      BY <1>5, <2>7, <2>9
    <3>2. Held(o[1]) = G
      BY <2>5, <3>1
    <3>3. r.base = o[1] /\ r.expiry = e /\ r.expList = l
      BY <2>3, <2>9
    <3> QED BY <1>6, <2>6, <3>2, <3>3
  <2> QED BY <2>8, <2>9
<1> QED BY <1>10, <1>11

---------------------------------------------------------------------------
LEMMA TtlPutKeeps ==
  ASSUME SoundInv, NEW k \in Item, NEW x \in 1 .. Infinity, TtlPut(k, x)
  PROVE  SoundInv'
<1>1. wrapper = "ttl" /\ UNCHANGED <<wrapper, val, now, latest>> /\ wrapper # "keyval"
  BY DEF TtlPut
<1>2. PICK r \in TtlPutOutcomes(k, x) : base' = r.base /\ expiry' = r.expiry /\ expList' = r.expList
  BY DEF TtlPut
<1>3. /\ Sound(r.base) /\ r.base.policy = base.policy
      /\ \E q : Timed(Held(r.base), r.expiry, r.expList, q)
  BY <1>1, TtlOutcome
<1>4. PICK q : Timed(Held(base'), expiry', expList', q)
  BY <1>2, <1>3
<1>5. Sound(base') /\ base'.policy = base.policy
  BY <1>2, <1>3
<1>6. SoundPair' /\ SoundValues'
  BY <1>1, <1>5, SamePair, SameValues DEF SoundInv
<1>7. SoundTimes'
  BY <1>1, <1>4, NewTimes DEF SoundInv
<1> QED BY <1>6, <1>7 DEF SoundInv

(* purge and the tick of the clock.                                        *)
LEMMA PurgeKeeps == ASSUME SoundInv, Purge PROVE SoundInv'
<1>1. /\ wrapper = "ttl" /\ UNCHANGED <<wrapper, val, now, latest>> /\ wrapper # "keyval"
      /\ base' = Purged(now).base /\ expiry' = Purged(now).expiry /\ expList' = Purged(now).expList
  BY DEF Purge
<1>2. Sound(base) /\ now \in Int /\ \E q : Timed(Held(base), expiry, expList, q)
  BY <1>1, PairFacts, Times DEF SoundInv, SoundTimes
<1>3. PICK q : Timed(Held(base), expiry, expList, q)
  BY <1>2
<1>4. /\ Sound(Purged(now).base) /\ Purged(now).base.policy = base.policy
      /\ \E r : Timed(Held(Purged(now).base), Purged(now).expiry, Purged(now).expList, r)
  BY <1>2, <1>3, PurgeOutcome
<1>5. PICK r : Timed(Held(base'), expiry', expList', r)
  BY <1>1, <1>4
<1>6. Sound(base') /\ base'.policy = base.policy
  BY <1>1, <1>4
<1>7. SoundPair' /\ SoundValues'
  BY <1>1, <1>6, SamePair, SameValues DEF SoundInv
<1>8. SoundTimes'
  BY <1>1, <1>5, NewTimes DEF SoundInv
<1> QED BY <1>7, <1>8 DEF SoundInv

(* Time passes: no expiry time changes with it.                            *)
LEMMA TickKeeps == ASSUME SoundInv, Tick PROVE SoundInv'
<1>1. /\ wrapper = "ttl" /\ now < Horizon /\ now' = now + 1
      /\ UNCHANGED <<wrapper, base, val, expiry, expList, latest>>
  BY DEF Tick
<1>2. now' \in 0 .. Horizon
  BY <1>1, Times DEF SoundInv, SoundTimes
<1>3. SoundTimes'
  BY <1>1, <1>2 DEF SoundInv, SoundTimes
<1>4. SoundPair' /\ SoundValues'
  BY <1>1 DEF SoundInv, SoundPair, SoundValues
<1> QED BY <1>3, <1>4 DEF SoundInv

(* An item leaves the list of the expiry times.                            *)
LEMMA Untimed ==
  ASSUME NEW H, NEW e, NEW s, NEW q, Timed(H, e, s, q), NEW k \in H
  PROVE  \E r : Timed(H \ {k}, Drop(e, k), Remove(s, k), r)
<1>1. /\ Line(s, q, Item) /\ Items(s) = H /\ None \notin Item
      /\ \A j \in H : \E i \in 1 .. Len(q) : q[i] = j
  BY TimedFacts, PolicyAssumption
<1>2. PICK i \in 1 .. Len(q) : q[i] = k
  BY <1>1
<1>3. Line(Remove(s, k), RemovedAt(q, i), Item) /\ Items(Remove(s, k)) = H \ {k}
  BY <1>1, <1>2, RemoveKeepsLine
<1>4. Timed(H \ {q[i]}, Drop(e, q[i]), Remove(s, k), RemovedAt(q, i))
  BY <1>2, <1>3, TimedWithout
<1> QED BY <1>2, <1>4

(* get, which removes an item it finds expired.                            *)
LEMMA GetKeeps == ASSUME SoundInv, NEW k \in Item, Get(k) PROVE SoundInv'
<1> DEFINE got == Got(base, k, Has(k))
           expired == /\ wrapper = "ttl"
                      /\ GetHits(base, k, Has(k))
                      /\ now >= expiry[k]
<1>1. UNCHANGED <<wrapper, val, now, latest>>
  BY DEF Get
<1>2. /\ Sound(base) /\ Has(k) \in BOOLEAN /\ (Has(k) => k \in Held(base))
  BY PairFacts, HasFacts DEF SoundInv
<1>3. Sound(got) /\ got.policy = base.policy /\ Held(got) = Held(base)
      /\ (GetHits(base, k, Has(k)) => k \in Held(base))
  BY <1>2, GetContract
<1>4. IF expired THEN base' = Removed(got, k) /\ expiry' = Drop(expiry, k) /\ expList' = Remove(expList, k)
      ELSE base' = got /\ UNCHANGED <<expiry, expList>>
  BY DEF Get
<1> HIDE DEF got
<1>5. CASE expired
  <2>1. wrapper = "ttl" /\ wrapper # "keyval" /\ k \in Held(base)
    BY <1>3, <1>5
  <2>2. base' = Removed(got, k) /\ expiry' = Drop(expiry, k) /\ expList' = Remove(expList, k)
    BY <1>4, <1>5
  <2>3. Sound(base') /\ base'.policy = base.policy /\ Held(base') = Held(base) \ {k}
    BY <1>3, <2>2, RemoveContract
  <2>4. PICK q : Timed(Held(base), expiry, expList, q)
    BY <2>1 DEF SoundInv, SoundTimes
  <2>5. PICK r : Timed(Held(base) \ {k}, Drop(expiry, k), Remove(expList, k), r)
    BY <2>1, <2>4, Untimed
  <2>6. Timed(Held(base'), expiry', expList', r)
    BY <2>2, <2>3, <2>5
  <2>7. SoundPair' /\ SoundValues'
    BY <1>1, <2>1, <2>3, SamePair, SameValues DEF SoundInv
  <2>8. SoundTimes'
    BY <1>1, <2>1, <2>6, NewTimes DEF SoundInv
  <2> QED BY <2>7, <2>8 DEF SoundInv
<1>6. CASE ~expired
  <2>1. base' = got /\ UNCHANGED <<expiry, expList>>
    BY <1>4, <1>6
  <2>2. Sound(base') /\ base'.policy = base.policy /\ Held(base') = Held(base)
    BY <1>3, <2>1
  <2> HIDE DEF expired
  <2> QED BY <1>1, <2>1, <2>2, SamePair, SameValues, SameTimes DEF SoundInv
<1> QED BY <1>5, <1>6

(* remove takes the item from the policy and from what the wrapper keeps.  *)
LEMMA RemoveKeeps == ASSUME SoundInv, NEW k \in Item, RemoveItem(k) PROVE SoundInv'
<1>1. /\ base' = Removed(base, k) /\ UNCHANGED <<wrapper, now, latest>>
      /\ val' = IF k \in Held(base) /\ wrapper = "keyval" THEN Drop(val, k) ELSE val
      /\ IF wrapper = "ttl" /\ k \in DOMAIN expiry
         THEN expiry' = Drop(expiry, k) /\ expList' = Remove(expList, k)
         ELSE UNCHANGED <<expiry, expList>>
  BY DEF RemoveItem
<1>2. Sound(base') /\ base'.policy = base.policy /\ Held(base') = Held(base) \ {k}
  BY <1>1, PairFacts, RemoveContract DEF SoundInv
<1>3. SoundPair'
  BY <1>1, <1>2, SamePair DEF SoundInv
<1>4. SoundValues'
  <2> DEFINE H == Held(base)
             G == Held(base')
  <2>1. /\ latest \in [Item -> Value \cup {None}]
        /\ DOMAIN val \subseteq Item /\ \A j \in DOMAIN val : val[j] \in Value
        /\ wrapper = "keyval" => DOMAIN val = H /\ \A j \in H : val[j] = latest[j]
    BY DEF SoundInv, SoundValues
  <2>2. G = H \ {k}
    BY <1>2
  <2> HIDE DEF H, G
  <2>3. CASE k \in H /\ wrapper = "keyval"
    <3>1. val' = Drop(val, k)
      BY <1>1, <2>3 DEF H
    <3>2. DOMAIN val' = G /\ \A j \in G : val'[j] = val[j]
      BY <2>1, <2>2, <2>3, <3>1 DEF Drop
    <3> QED BY <1>1, <2>1, <2>2, <2>3, <3>2 DEF SoundValues, G
  <2>4. CASE ~(k \in H /\ wrapper = "keyval")
    <3>1. val' = val
      BY <1>1, <2>4 DEF H
    <3>2. wrapper = "keyval" => G = H
      BY <2>2, <2>4
    <3> QED BY <1>1, <2>1, <3>1, <3>2 DEF SoundValues, G
  <2> QED BY <2>3, <2>4
<1>5. SoundTimes'
  <2>1. CASE wrapper # "ttl"
    BY <1>1, <2>1, SameTimes DEF SoundInv
  <2>2. CASE wrapper = "ttl"
    <3>1. PICK q : Timed(Held(base), expiry, expList, q)
      BY <2>2 DEF SoundInv, SoundTimes
    <3>2. DOMAIN expiry = Held(base)
      BY <3>1, TimedFacts
    <3>3. CASE k \in Held(base)
      <4>1. expiry' = Drop(expiry, k) /\ expList' = Remove(expList, k)
        BY <1>1, <2>2, <3>2, <3>3
      <4>2. PICK r : Timed(Held(base) \ {k}, Drop(expiry, k), Remove(expList, k), r)
        BY <3>1, <3>3, Untimed
      <4>3. Timed(Held(base'), expiry', expList', r)
        BY <1>2, <4>1, <4>2
      <4> QED BY <1>1, <2>2, <4>3, NewTimes DEF SoundInv
    <3>4. CASE k \notin Held(base)
      <4>1. UNCHANGED <<expiry, expList>> /\ Held(base') = Held(base)
        BY <1>1, <1>2, <3>2, <3>4
      <4> QED BY <1>1, <4>1, SameTimes DEF SoundInv
    <3> QED BY <3>3, <3>4
  <2> QED BY <2>1, <2>2
<1> QED BY <1>3, <1>4, <1>5 DEF SoundInv

(* clear empties them all.                                                 *)
LEMMA ClearKeeps == ASSUME SoundInv, Clear PROVE SoundInv'
<1>1. /\ base' = Cleared(base) /\ val' = <<>> /\ expiry' = <<>> /\ expList' = EmptySet
      /\ UNCHANGED <<wrapper, now, latest>>
  BY DEF Clear
<1>2. Sound(base') /\ base'.policy = base.policy /\ Held(base') = {}
  BY <1>1, PairFacts, ClearContract DEF SoundInv
<1>3. SoundPair'
  BY <1>1, <1>2, SamePair DEF SoundInv
<1>4. DOMAIN val' = {}
  BY <1>1
<1>5. SoundValues'
  BY <1>1, <1>2, <1>4 DEF SoundInv, SoundValues
<1>6. PICK q : Timed(Held(base'), expiry', expList', q)
  BY <1>1, <1>2, NothingTimed
<1>7. SoundTimes'
  BY <1>1, <1>6 DEF SoundInv, SoundTimes
<1> QED BY <1>3, <1>5, <1>7 DEF SoundInv

(* The invariant holds of a new object,                                    *)
LEMMA SoundInitial == ASSUME SoundKinds, Init PROVE SoundInv
<1>1. PICK kind \in Kind : base = New(kind[1]) /\ wrapper = kind[2]
  BY DEF Init
<1>2. kind \in SoundPairs
  BY <1>1 DEF SoundKinds
<1>3. kind = <<kind[1], kind[2]>> /\ kind[1] \in Policies
  BY <1>2 DEF SoundPairs, Policies
<1>4. Sound(base) /\ base.policy = kind[1] /\ Held(base) = {}
  BY <1>1, <1>3, NewContract
<1>5. SoundPair
  BY <1>1, <1>2, <1>3, <1>4 DEF SoundPair
<1>6. /\ val = <<>> /\ expiry = <<>> /\ expList = EmptySet /\ now = 0
      /\ latest \in [Item -> Value \cup {None}]
  BY DEF Init
<1>7. DOMAIN val = {}
  BY <1>6
<1>8. SoundValues
  BY <1>4, <1>6, <1>7 DEF SoundValues
<1>9. \E q : Timed(Held(base), expiry, expList, q)
  BY <1>4, <1>6, NothingTimed
<1>10. SoundTimes
  BY <1>6, <1>9, Times DEF SoundTimes
<1> QED BY <1>5, <1>8, <1>10 DEF SoundInv

(* each call keeps it,                                                     *)
LEMMA SoundStep == ASSUME SoundInv, [Next]_vars PROVE SoundInv'
<1>1. CASE UNCHANGED vars
  BY <1>1 DEF vars, SoundInv, SoundPair, SoundValues, SoundTimes
<1>2. CASE Tick
  BY <1>2, TickKeeps
<1>3. CASE Purge
  BY <1>3, PurgeKeeps
<1>4. CASE Clear
  BY <1>4, ClearKeeps
<1>5. CASE \E k \in Item : PlainPut(k)
  BY <1>5, PlainPutKeeps
<1>6. CASE \E k \in Item : Get(k)
  BY <1>6, GetKeeps
<1>7. CASE \E k \in Item : RemoveItem(k)
  BY <1>7, RemoveKeeps
<1>8. CASE \E k \in Item, v \in Value : KeyvalPut(k, v)
  BY <1>8, KeyvalPutKeeps
<1>9. CASE \E k \in Item, ttl \in 1 .. MaxTtl : TtlPut(k, now + ttl)
  <2>1. PICK k \in Item, ttl \in 1 .. MaxTtl : TtlPut(k, now + ttl)
    BY <1>9
  <2>2. now + ttl \in 1 .. Infinity
    <3>1. now \in 0 .. Horizon
      BY DEF SoundInv, SoundTimes
    <3> QED BY <3>1, Times
  <2> QED BY <2>1, <2>2, TtlPutKeeps
<1>10. CASE \E k \in Item : TtlPut(k, Infinity)
  <2>1. Infinity \in 1 .. Infinity
    BY Times
  <2> QED BY <1>10, <2>1, TtlPutKeeps
<1> QED BY <1>1, <1>2, <1>3, <1>4, <1>5, <1>6, <1>7, <1>8, <1>9, <1>10 DEF Next

(* and so it always holds.                                                 *)
LEMMA SoundInductive == ASSUME SoundKinds PROVE Spec => []SoundInv
<1>1. Init => SoundInv
  BY SoundInitial
<1>2. SoundInv /\ [Next]_vars => SoundInv'
  BY SoundStep
<1> QED BY <1>1, <1>2, PTL DEF Spec

---------------------------------------------------------------------------
(* A line is what its iterator yields, and the items are there once.       *)
LEMMA LinesAreLinked ==
  ASSUME NEW s, NEW q, Line(s, q, Item)
  PROVE  IsLinkedSet(s)
<1>1. Listing(s) = q
  BY PolicyAssumption, ListingIs
<1> QED BY <1>1 DEF IsLinkedSet, Line, Distinct

(* The attributes of every policy and of every wrapper keep their types    *)
(* through any calls, the passing of time included.                        *)
THEOREM CacheTypes == ASSUME SoundKinds PROVE Spec => []TypeOK
<1>1. ASSUME SoundInv PROVE TypeOK
  <2>1. /\ wrapper \in {"plain", "rand_insert", "keyval", "ttl"} /\ Held(base) \subseteq Item
        /\ SoundValues /\ SoundTimes
    BY <1>1, PairFacts, SoundFits DEF SoundInv
  <2>2. /\ DOMAIN expiry \subseteq Item /\ \A k \in DOMAIN expiry : expiry[k] \in 1 .. Infinity
        /\ Items(expList) \subseteq Item
    <3>1. CASE wrapper = "ttl"
      <4>1. PICK q : Timed(Held(base), expiry, expList, q)
        BY <2>1, <3>1 DEF SoundTimes
      <4> QED BY <2>1, <4>1, TimedFacts
    <3>2. CASE wrapper # "ttl"
      <4>1. expiry = <<>> /\ expList = EmptySet
        BY <2>1, <3>2 DEF SoundTimes
      <4>2. DOMAIN expiry = {}
        BY <4>1
      <4> QED BY <4>1, <4>2, EmptyFits
    <3> QED BY <3>1, <3>2
  <2> QED BY <2>1, <2>2 DEF TypeOK, SoundValues, SoundTimes
<1> QED BY <1>1, SoundInductive, PTL

(* The structures of a policy, whichever it is, agree after any calls, and *)
(* no cache holds more than its size.                                      *)
THEOREM StructuresAlwaysAgree == ASSUME SoundKinds PROVE Spec => []PolicyStructuresAgree
<1>1. ASSUME SoundInv PROVE PolicyStructuresAgree
  <2>1. Sound(base) /\ Cardinality(Held(base)) =< MaxLength(base)
    BY <1>1, PairFacts, SoundFits DEF SoundInv
  <2>2. ASSUME base.policy = "LRU" PROVE IsLinkedSet(base.list)
    <3>1. PICK q : Line(base.list, q, Item)
      BY <2>1, <2>2, SoundCases DEF FitsInLine
    <3> QED BY <3>1, LinesAreLinked
  <2>3. ASSUME base.policy = "SLRU", NEW i \in 1 .. Segments
        PROVE  /\ IsLinkedSet(base.segment[i])
               /\ Items(base.segment[i]) = {k \in DOMAIN base.map : base.map[k] = i}
               /\ Cardinality(Items(base.segment[i])) =< SegmentMax(i)
    <3>1. PICK Q : SlruLines(base, Q)
      BY <2>1, <2>3, SoundCases DEF IsSlru
    <3>2. /\ Line(base.segment[i], Q[i], Item) /\ Len(Q[i]) =< SegmentMax(i)
          /\ Items(base.segment[i]) = {k \in DOMAIN base.map : base.map[k] = i}
      BY <3>1 DEF SlruLines
    <3>3. Cardinality(Items(base.segment[i])) = Len(Q[i])
      BY <3>1, SlruFacts
    <3>4. IsLinkedSet(base.segment[i])
      BY <3>2, LinesAreLinked
    <3> QED BY <3>2, <3>3, <3>4
  <2>4. ASSUME base.policy = "FIFO" PROVE InsertedOnce /\ ItemsOf(base.d) = base.set
    <3>1. Distinct(base.d) /\ Elements(base.d) = base.set /\ base.d \in Seq(Item)
      BY <2>1, <2>4, SoundCases DEF IsFifo
    <3> DEFINE d == base.d
    <3>2. DOMAIN d = 1 .. Len(d)
      BY <3>1
    <3> QED BY <3>1, <3>2 DEF InsertedOnce, WithoutRepetition, ItemsOf, Distinct, Elements
  <2>5. ASSUME base.policy = "RAND"
        PROVE  LET used == SubSeq(base.a, 1, Cardinality(base.set))
               IN  WithoutRepetition(used) /\ ItemsOf(used) = base.set
    <3> DEFINE a == base.a
               n == Cardinality(base.set)
               used == SubSeq(a, 1, n)
    <3>1. /\ n =< MaxLen /\ IsFiniteSet(base.set)
          /\ a \in [1 .. MaxLen -> Item \cup {None}]
          /\ base.set = {a[i] : i \in 1 .. n}
          /\ \A i, j \in 1 .. n : a[i] = a[j] => i = j
      BY <2>1, <2>5, SoundCases DEF IsRand
    <3>2. n \in Nat /\ MaxLen \in Nat
      BY <3>1, FS_CardinalityType, PolicyAssumption
    <3> HIDE DEF a, n
    <3>3. a \in Seq(Item \cup {None}) /\ Len(a) = MaxLen
      BY <3>1, <3>2
    <3>4. used = [i \in 1 .. n |-> a[i]]
      BY <3>1, <3>2, <3>3
    <3>5. DOMAIN used = 1 .. n /\ \A i \in 1 .. n : used[i] = a[i]
      BY <3>4
    <3> HIDE DEF used
    <3>6. WithoutRepetition(used) /\ ItemsOf(used) = base.set
      BY <3>1, <3>5 DEF WithoutRepetition, ItemsOf
    <3> QED BY <3>6 DEF used, a, n
  <2> QED BY <2>1, <2>2, <2>3, <2>4, <2>5 DEF PolicyStructuresAgree
<1> QED BY <1>1, SoundInductive, PTL

(* What keyval_cache and ttl_cache keep beside a policy is kept for the    *)
(* items of the policy, through every eviction, purge and removal.         *)
THEOREM WrappersFollow == ASSUME SoundKinds PROVE Spec => []WrapperFollowsPolicy
<1>1. ASSUME SoundInv PROVE WrapperFollowsPolicy
  <2>1. ASSUME wrapper = "keyval"
        PROVE  /\ DOMAIN val = Held(base)
               /\ \A k \in Item : ValueOf(k) = IF k \in Held(base) THEN latest[k] ELSE None
    <3>1. DOMAIN val = Held(base) /\ \A k \in Held(base) : val[k] = latest[k]
      BY <1>1, <2>1 DEF SoundInv, SoundValues
    <3>2. ASSUME NEW k \in Item PROVE GetHits(base, k, Has(k)) <=> k \in Held(base)
      <4>1. Has(k) \in BOOLEAN /\ (Has(k) <=> k \in Held(base))
        BY <2>1, HasFacts
      <4> QED BY <4>1 DEF GetHits
    <3> QED BY <3>1, <3>2 DEF ValueOf
  <2>2. ASSUME wrapper = "ttl"
        PROVE  LET q == Listing(expList) IN
               /\ DOMAIN expiry = Held(base)
               /\ Items(expList) = Held(base)
               /\ IsLinkedSet(expList)
               /\ \A i, j \in DOMAIN q : i < j => expiry[q[i]] >= expiry[q[j]]
    <3>1. PICK q : Timed(Held(base), expiry, expList, q)
      BY <1>1, <2>2 DEF SoundInv, SoundTimes
    <3>2. Listing(expList) = q /\ DOMAIN q = 1 .. Len(q)
      BY <3>1, TimedFacts
    <3>3. IsLinkedSet(expList)
      BY <3>1, LinesAreLinked DEF Timed
    <3> QED BY <3>1, <3>2, <3>3 DEF Timed
  <2> QED BY <2>1, <2>2 DEF WrapperFollowsPolicy
<1> QED BY <1>1, SoundInductive, PTL

(* A purge, which looks at the bottom of its list only and stops at the    *)
(* first item that has not expired, leaves no item that has, and takes     *)
(* none that has not, from a cache of any size.                            *)
THEOREM PurgesAreExact == ASSUME SoundKinds PROVE Spec => []PurgeIsExact
<1>1. ASSUME SoundInv PROVE PurgeIsExact
  <2> SUFFICES ASSUME wrapper = "ttl"
               PROVE  LET p == Purged(now) IN
                      /\ Held(p.base) = {k \in Held(base) : expiry[k] >= now}
                      /\ DOMAIN p.expiry = Held(p.base)
                      /\ Items(p.expList) = Held(p.base)
    BY DEF PurgeIsExact
  <2>1. Sound(base) /\ now \in Int /\ \E q : Timed(Held(base), expiry, expList, q)
    BY <1>1, PairFacts, Times DEF SoundInv, SoundTimes
  <2>2. PICK q : Timed(Held(base), expiry, expList, q)
    BY <2>1
  <2> DEFINE p == Purged(now)
  <2>3. /\ Held(p.base) = {k \in Held(base) : expiry[k] >= now}
        /\ \E r : Timed(Held(p.base), p.expiry, p.expList, r)
    BY <2>1, <2>2, PurgeOutcome
  <2> HIDE DEF p
  <2>4. PICK r : Timed(Held(p.base), p.expiry, p.expList, r)
    BY <2>3
  <2>5. DOMAIN p.expiry = Held(p.base) /\ Items(p.expList) = Held(p.base)
    BY <2>4, TimedFacts
  <2> QED BY <2>3, <2>5 DEF p
<1> QED BY <1>1, SoundInductive, PTL

(* The item put returns is the one that left, for every policy.            *)
THEOREM PutsTell == ASSUME SoundKinds PROVE Spec => []PutTellsWhatLeft
<1>1. ASSUME SoundInv PROVE PutTellsWhatLeft
  <2> SUFFICES ASSUME wrapper # "ttl", NEW k \in Item, NEW o \in PutOutcomes(base, k, Has(k))
               PROVE  LET gone == IF o[2] = None THEN {} ELSE {o[2]} IN
                      \/ base.policy = "NULL" /\ o = <<base, None>>
                      \/ /\ gone \subseteq Held(base) \cup {k}
                         /\ Held(o[1]) = (Held(base) \cup {k}) \ gone
                         /\ k \in Held(base) => gone = {}
    BY DEF PutTellsWhatLeft
  <2>1. Sound(base) /\ Answers(base, k, Has(k)) /\ None \notin Held(base) /\ None \notin Item
    BY <1>1, PairFacts, HasFacts, SoundFits, PolicyAssumption DEF SoundInv
  <2>2. /\ o[2] \in Held(base) \cup {k, None}
        /\ base.policy = "NULL" => o = <<base, None>>
        /\ base.policy # "NULL" => Held(o[1]) = (Held(base) \cup {k}) \ {o[2]}
        /\ k \in Held(base) => o[2] = None
    BY <2>1, PutContract
  <2> DEFINE x == o[2]  H == Held(base)  G == Held(o[1])
  <2> HIDE DEF x, H, G
  <2>3. CASE base.policy = "NULL"
    BY <2>2, <2>3
  <2>4. CASE base.policy # "NULL"
    <3>1. /\ x \in H \cup {k, None} /\ G = (H \cup {k}) \ {x} /\ (k \in H => x = None)
          /\ None \notin H /\ k # None
      BY <2>1, <2>2, <2>4 DEF x, H, G
    <3>2. LET gone == IF x = None THEN {} ELSE {x} IN
            /\ gone \subseteq H \cup {k} /\ G = (H \cup {k}) \ gone /\ (k \in H => gone = {})
      <4>1. CASE x = None
        BY <3>1, <4>1
      <4>2. CASE x # None
        BY <3>1, <4>2
      <4> QED BY <4>1, <4>2
    <3> QED BY <3>2 DEF x, H, G
  <2> QED BY <2>3, <2>4
<1> QED BY <1>1, SoundInductive, PTL

---------------------------------------------------------------------------
(* Every method of the linked set does to the pointers of an LruCache what *)
(* its sequence says, at the top, at the bottom and between.               *)
THEOREM LinkedSetsAreLines == ASSUME SoundKinds PROVE Spec => []LinkedSetIsALine
<1>1. ASSUME SoundInv PROVE LinkedSetIsALine
  <2> SUFFICES ASSUME base.policy = "LRU" PROVE ListOperations(base.list)
    BY DEF LinkedSetIsALine
  <2> DEFINE s == base.list
  <2>1. PICK q : Line(s, q, Item)
    BY <1>1, PairFacts, SoundCases DEF SoundInv, FitsInLine
  <2>2. None \notin Item
    BY PolicyAssumption
  <2> HIDE DEF s
  <2>3. Listing(s) = q /\ Len(q) \in Nat /\ q \in Seq(Item)
    BY <2>1, <2>2, ListingIs, LineFacts DEF Line
  <2>4. ASSUME Len(q) > 0
        PROVE  /\ Represents(PopTop(s), RemovedAt(q, 1))
               /\ Represents(PopBottom(s), RemovedAt(q, Len(q)))
    <3>1. q # <<>>
      BY <2>3, <2>4
    <3> QED BY <2>1, <2>2, <3>1, PopTopKeepsLine, PopBottomKeepsLine DEF Line
  <2>5. ASSUME NEW i \in 1 .. Len(q)
        PROVE  /\ Represents(Remove(s, q[i]), RemovedAt(q, i))
               /\ Represents(MoveToTop(s, q[i]), MovedTo(q, i, 1))
               /\ Represents(MoveToBottom(s, q[i]), MovedTo(q, i, Len(q)))
               /\ Represents(MoveUp(s, q[i]), MovedTo(q, i, IF i = 1 THEN 1 ELSE i - 1))
               /\ Represents(MoveDown(s, q[i]), MovedTo(q, i, IF i = Len(q) THEN Len(q) ELSE i + 1))
    <3>1. Represents(Remove(s, q[i]), RemovedAt(q, i))
      BY <2>1, <2>2, RemoveKeepsLine DEF Line
    <3>2. /\ Represents(MoveToTop(s, q[i]), MovedTo(q, i, 1))
          /\ Represents(MoveToBottom(s, q[i]), MovedTo(q, i, Len(q)))
      BY <2>1, <2>2, MoveToTopKeepsLine, MoveToBottomKeepsLine DEF Line
    <3>3. Represents(MoveUp(s, q[i]), MovedTo(q, i, IF i = 1 THEN 1 ELSE i - 1))
      BY <2>1, <2>2, MoveUpKeepsLine DEF Line
    <3>4. Represents(MoveDown(s, q[i]), MovedTo(q, i, IF i = Len(q) THEN Len(q) ELSE i + 1))
      BY <2>1, <2>2, MoveDownKeepsLine DEF Line
    <3> QED BY <3>1, <3>2, <3>3, <3>4
  <2>6. ASSUME NEW k \in Item \ Items(s)
        PROVE  /\ Represents(AppendTop(s, k), InsertedAt(q, 1, k))
               /\ Represents(AppendBottom(s, k), InsertedAt(q, Len(q) + 1, k))
               /\ \A i \in 1 .. Len(q) :
                    /\ Represents(InsertAbove(s, q[i], k), InsertedAt(q, i, k))
                    /\ Represents(InsertBelow(s, q[i], k), InsertedAt(q, i + 1, k))
    <3>1. /\ Represents(AppendTop(s, k), InsertedAt(q, 1, k))
          /\ Represents(AppendBottom(s, k), InsertedAt(q, Len(q) + 1, k))
      BY <2>1, <2>2, AppendTopKeepsLine, AppendBottomKeepsLine DEF Line
    <3>2. ASSUME NEW i \in 1 .. Len(q)
          PROVE  /\ Represents(InsertAbove(s, q[i], k), InsertedAt(q, i, k))
                 /\ Represents(InsertBelow(s, q[i], k), InsertedAt(q, i + 1, k))
      BY <2>1, <2>2, InsertAboveKeepsLine, InsertBelowKeepsLine DEF Line
    <3> QED BY <3>1, <3>2
  <2>7. ListOperations(s)
    BY <2>3, <2>4, <2>5, <2>6 DEF ListOperations
  <2> QED BY <2>7 DEF s
<1> QED BY <1>1, SoundInductive, PTL

---------------------------------------------------------------------------
(* An item put into a sequence of others, anywhere.                        *)
LEMMA WithPlace ==
  ASSUME NEW q \in Seq(Item), Distinct(q), NEW j \in 1 .. Len(q) + 1,
         NEW k \in Item \ Elements(q)
  PROVE  LET d == InsertedAt(q, j, k) IN
         /\ d \in Seq(Item) /\ Distinct(d) /\ Elements(d) = Elements(q) \cup {k}
         /\ Len(d) = Len(q) + 1 /\ Len(q) \in Nat
<1> DEFINE d == InsertedAt(q, j, k)
           n == Len(q)
<1>1. n \in Nat /\ DOMAIN q = 1 .. n /\ \A i \in 1 .. n : q[i] \in Item
  BY LenProperties, ElementOfSeq
<1>2. /\ DOMAIN d = 1 .. n + 1
      /\ \A i \in 1 .. n + 1 : d[i] = IF i < j THEN q[i] ELSE IF i = j THEN k ELSE q[i - 1]
  BY DEF InsertedAt
<1>3. d = [i \in 1 .. n + 1 |-> d[i]]
  BY DEF InsertedAt
<1> HIDE DEF d, n
<1>4. j \in 1 .. n + 1 /\ \A i \in 1 .. n : q[i] # k
  BY <1>1 DEF n, Elements
<1>5. \A i \in 1 .. n + 1 : d[i] \in Item
  BY <1>1, <1>2, <1>4
<1>6. d \in Seq(Item) /\ Len(d) = n + 1
  <2>1. n + 1 \in Nat /\ d \in [1 .. n + 1 -> Item]
    BY <1>1, <1>3, <1>5
  <2> QED BY <2>1, SeqDef, LenProperties
<1>7. Distinct(d)
  <2>1. \A l, m \in 1 .. n : q[l] = q[m] => l = m
    BY <1>1 DEF Distinct
  <2>2. ASSUME NEW l \in 1 .. n + 1, NEW m \in 1 .. n + 1, d[l] = d[m], l # j, m # j
        PROVE  l = m
    <3> DEFINE from == [i \in 1 .. n + 1 |-> IF i < j THEN i ELSE i - 1]
    <3>1. \A i \in 1 .. n + 1 : i # j => from[i] \in 1 .. n /\ d[i] = q[from[i]]
      BY <1>1, <1>2, <1>4
    <3>2. from[l] = from[m] => l = m
      BY <1>1, <1>4, <2>2
    <3> HIDE DEF from
    <3> QED BY <2>1, <2>2, <3>1, <3>2
  <2>3. ASSUME NEW l \in 1 .. n + 1, l # j PROVE d[l] # k /\ d[j] = k
    BY <1>1, <1>2, <1>4, <2>3
  <2>4. ASSUME NEW l \in 1 .. n + 1, NEW m \in 1 .. n + 1, d[l] = d[m] PROVE l = m
    BY <2>2, <2>3, <2>4
  <2> QED BY <1>2, <2>4 DEF Distinct
<1>8. Elements(d) = Elements(q) \cup {k}
  <2>1. ASSUME NEW x \in Elements(d) PROVE x \in Elements(q) \cup {k}
    BY <1>1, <1>2, <1>4 DEF Elements
  <2>2. ASSUME NEW i \in 1 .. n PROVE q[i] \in Elements(d)
    <3>1. CASE i < j
      <4>1. i \in 1 .. n + 1 /\ d[i] = q[i]
        BY <1>1, <1>2, <3>1
      <4> QED BY <1>2, <4>1 DEF Elements
    <3>2. CASE i >= j
      <4>1. i + 1 \in 1 .. n + 1 /\ d[i + 1] = q[i]
        BY <1>1, <1>2, <1>4, <3>2
      <4> QED BY <1>2, <4>1 DEF Elements
    <3> QED BY <1>1, <1>4, <3>1, <3>2
  <2>3. k \in Elements(d)
    <3>1. d[j] = k
      BY <1>2, <1>4
    <3> QED BY <1>2, <1>4, <3>1 DEF Elements
  <2> QED BY <1>1, <2>1, <2>2, <2>3 DEF Elements
<1> QED BY <1>1, <1>6, <1>7, <1>8 DEF d, n

(* An item moved to another place.                                         *)
LEMMA WithPlaceChanged ==
  ASSUME NEW q \in Seq(Item), Distinct(q), NEW i \in 1 .. Len(q), NEW j \in 1 .. Len(q)
  PROVE  LET d == MovedTo(q, i, j) IN
         /\ d \in Seq(Item) /\ Distinct(d) /\ Elements(d) = Elements(q)
         /\ Len(d) = Len(q)
<1> DEFINE r == RemovedAt(q, i)
           k == q[i]
<1>1. /\ r \in Seq(Item) /\ Distinct(r) /\ Elements(r) = Elements(q) \ {k}
      /\ Len(r) = Len(q) - 1 /\ Len(q) \in Nat
  BY WithoutPlace
<1>2. k \in Item /\ k \in Elements(q)
  BY ElementOfSeq, LenProperties DEF Elements
<1> HIDE DEF r, k
<1>3. j \in 1 .. Len(r) + 1 /\ k \in Item \ Elements(r)
  BY <1>1, <1>2
<1>4. LET d == InsertedAt(r, j, k) IN
      /\ d \in Seq(Item) /\ Distinct(d) /\ Elements(d) = Elements(r) \cup {k}
      /\ Len(d) = Len(r) + 1
  BY <1>1, <1>3, WithPlace
<1> DEFINE d == InsertedAt(r, j, k)
<1>5. MovedTo(q, i, j) = d
  BY DEF MovedTo, r, k
<1> HIDE DEF d
<1>6. Elements(d) = Elements(q) /\ Len(d) = Len(q)
  BY <1>1, <1>2, <1>4 DEF d
<1> QED BY <1>4, <1>5, <1>6 DEF d

(* What may become of a line at a call: an item moves towards the front,   *)
(* one is inserted, and the last one evicted perhaps, one leaves, or all.  *)
Turn(q, p) ==
  \/ \E i \in 1 .. Len(q) : \E j \in 1 .. i : p = MovedTo(q, i, j)
  \/ \E k \in Item \ Elements(q), j \in 1 .. Len(q) + 1 :
       LET line == InsertedAt(q, j, k) IN
         \/ Len(line) =< MaxLen /\ p = line
         \/ p = RemovedAt(line, Len(q) + 1)
  \/ \E i \in 1 .. Len(q) : p = RemovedAt(q, i)
  \/ p = <<>>
  \/ p = q

(* The line q of the items of b, for the policies that have one.           *)
Shaped(b, q) ==
  \/ b.policy = "LRU" /\ Line(b.list, q, Item)
  \/ b.policy = "SLRU" /\ q = Joined(b.segment)
  \/ b.policy = "LFU" /\ \A i, j \in 1 .. Len(q) : i < j => Less(b.count[q[j]], b.count[q[i]])
  \/ b.policy = "FIFO" /\ q = b.d

Arranged(b, q) ==
  /\ q \in Seq(Item) /\ Distinct(q) /\ Elements(q) = Held(b)
  /\ Shaped(b, q)

(* Items are as many as places.                                            *)
LEMMA ArrangedFacts ==
  ASSUME NEW b, NEW q, Arranged(b, q)
  PROVE  /\ q \in Seq(Item) /\ Len(q) \in Nat /\ DOMAIN q = 1 .. Len(q)
         /\ Cardinality(Held(b)) = Len(q) /\ IsFiniteSet(Held(b))
         /\ \A i \in 1 .. Len(q) : q[i] \in Item /\ q[i] \in Held(b)
         /\ \A k \in Held(b) : \E i \in 1 .. Len(q) : q[i] = k
<1>1. q \in Seq(Item) /\ Distinct(q) /\ Elements(q) = Held(b)
  BY DEF Arranged
<1>2. Len(q) \in Nat /\ DOMAIN q = 1 .. Len(q) /\ \A i \in 1 .. Len(q) : q[i] \in Item
  BY <1>1, LenProperties, ElementOfSeq
<1> QED BY <1>1, <1>2, DistinctCardinality DEF Elements

(* A hit, seen from outside.                                               *)
LEMMA HitTurns ==
  ASSUME NEW b, NEW q, Arranged(b, q), NEW c, Held(c) = Held(b),
         NEW i \in 1 .. Len(q), NEW j \in 1 .. i, Shaped(c, MovedTo(q, i, j))
  PROVE  \E p : Arranged(c, p) /\ Turn(q, p)
<1> DEFINE p == MovedTo(q, i, j)
<1>1. Turn(q, p)
  BY DEF Turn
<1>2. Len(q) \in Nat /\ q \in Seq(Item) /\ Distinct(q) /\ Elements(q) = Held(c)
  BY ArrangedFacts DEF Arranged
<1>3. j \in 1 .. Len(q)
  BY <1>2
<1>4. p \in Seq(Item) /\ Distinct(p) /\ Elements(p) = Elements(q)
  BY <1>2, <1>3, WithPlaceChanged
<1> HIDE DEF p
<1> QED BY <1>1, <1>2, <1>4 DEF Arranged, p

(* An insertion without eviction.                                          *)
LEMMA InsertionTurns ==
  ASSUME NEW b, NEW q, Arranged(b, q), NEW c, Sound(c), NEW k \in Item \ Held(b),
         Held(c) = Held(b) \cup {k}, NEW j \in 1 .. Len(q) + 1, Shaped(c, InsertedAt(q, j, k))
  PROVE  \E p : Arranged(c, p) /\ Turn(q, p)
<1> DEFINE p == InsertedAt(q, j, k)
<1>1. q \in Seq(Item) /\ Distinct(q) /\ Elements(q) = Held(b)
  BY DEF Arranged
<1>2. p \in Seq(Item) /\ Distinct(p) /\ Elements(p) = Elements(q) \cup {k}
  BY <1>1, WithPlace
<1> HIDE DEF p
<1>3. Arranged(c, p)
  BY <1>1, <1>2 DEF Arranged, p
<1>4. Len(p) =< MaxLen
  <2>1. Cardinality(Held(c)) = Len(p)
    BY <1>3, ArrangedFacts
  <2>2. Cardinality(Held(c)) =< MaxLength(c) /\ c.policy # "NULL"
    BY <1>3, SoundFits DEF Arranged, Shaped
  <2> QED BY <2>1, <2>2 DEF MaxLength
<1>5. Turn(q, p)
  BY <1>1, <1>4 DEF Turn, p
<1> QED BY <1>3, <1>5

(* An insertion that evicts the last item of the line.                     *)
LEMMA EvictionTurns ==
  ASSUME NEW b, NEW q, Arranged(b, q), NEW c, NEW k \in Item \ Held(b), NEW j \in 1 .. Len(q) + 1,
         Held(c) = (Held(b) \cup {k}) \ {InsertedAt(q, j, k)[Len(q) + 1]},
         Shaped(c, RemovedAt(InsertedAt(q, j, k), Len(q) + 1))
  PROVE  \E p : Arranged(c, p) /\ Turn(q, p)
<1> DEFINE line == InsertedAt(q, j, k)
           n == Len(q) + 1
           p == RemovedAt(line, n)
<1>1. q \in Seq(Item) /\ Distinct(q) /\ Elements(q) = Held(b)
  BY DEF Arranged
<1>2. /\ line \in Seq(Item) /\ Distinct(line) /\ Elements(line) = Elements(q) \cup {k}
      /\ Len(line) = n /\ Len(q) \in Nat
  BY <1>1, WithPlace
<1>3. Turn(q, p)
  BY <1>1 DEF Turn
<1>4. Held(c) = (Held(b) \cup {k}) \ {line[n]} /\ Shaped(c, p)
  OBVIOUS
<1> HIDE DEF line
<1>5. n \in 1 .. Len(line)
  BY <1>2
<1> HIDE DEF n
<1>6. p \in Seq(Item) /\ Distinct(p) /\ Elements(p) = Elements(line) \ {line[n]}
  BY <1>2, <1>5, WithoutPlace
<1> HIDE DEF p
<1> QED BY <1>1, <1>2, <1>3, <1>4, <1>6 DEF Arranged

(* A removal.                                                              *)
LEMMA RemovalTurns ==
  ASSUME NEW b, NEW q, Arranged(b, q), NEW c, NEW i \in 1 .. Len(q),
         Held(c) = Held(b) \ {q[i]}, Shaped(c, RemovedAt(q, i))
  PROVE  \E p : Arranged(c, p) /\ Turn(q, p)
<1> DEFINE p == RemovedAt(q, i)
<1>1. q \in Seq(Item) /\ Distinct(q) /\ Elements(q) = Held(b)
  BY DEF Arranged
<1>2. p \in Seq(Item) /\ Distinct(p) /\ Elements(p) = Elements(q) \ {q[i]}
  BY <1>1, WithoutPlace
<1>3. Turn(q, p)
  BY DEF Turn
<1> HIDE DEF p
<1> QED BY <1>1, <1>2, <1>3 DEF Arranged, p

---------------------------------------------------------------------------
(* A shorthand for what the sequences below are made of.                   *)
LEMMA Glued ==
  ASSUME NEW a \in Seq(Item), NEW q \in Seq(Item)
  PROVE  /\ a \o q \in Seq(Item) /\ Len(a \o q) = Len(a) + Len(q)
         /\ Len(a) \in Nat /\ Len(q) \in Nat
         /\ \A j \in 1 .. Len(a) + Len(q) :
              (a \o q)[j] = IF j =< Len(a) THEN a[j] ELSE q[j - Len(a)]
         /\ a \o q = [j \in 1 .. Len(a) + Len(q) |-> (a \o q)[j]]
<1> DEFINE c == a \o q
<1>1. c \in Seq(Item) /\ Len(c) = Len(a) + Len(q)
  BY ConcatProperties
<1>2. Len(a) \in Nat /\ Len(q) \in Nat
  BY LenProperties
<1>3. \A j \in 1 .. Len(a) + Len(q) : c[j] = IF j =< Len(a) THEN a[j] ELSE q[j - Len(a)]
  BY ConcatProperties
<1>4. c = [j \in 1 .. Len(c) |-> c[j]]
  <2> HIDE DEF c
  <2> QED BY <1>1
<1> QED BY <1>1, <1>2, <1>3, <1>4

(* Sequences with the same values at the same places.                      *)
LEMMA SameSequence ==
  ASSUME NEW n, NEW c, NEW d, c = [j \in 1 .. n |-> c[j]], d = [j \in 1 .. n |-> d[j]],
         \A j \in 1 .. n : c[j] = d[j]
  PROVE  c = d
OBVIOUS

(* Where RemovedAt and InsertedAt leave their items.                       *)
LEMMA RemovedPlaces ==
  ASSUME NEW q \in Seq(Item), NEW i \in 1 .. Len(q)
  PROVE  LET d == RemovedAt(q, i) IN
         /\ d \in Seq(Item) /\ Len(d) = Len(q) - 1
         /\ d = [j \in 1 .. Len(q) - 1 |-> d[j]]
         /\ \A j \in 1 .. Len(q) - 1 : d[j] = IF j < i THEN q[j] ELSE q[j + 1]
<1> DEFINE d == RemovedAt(q, i)
<1>1. Len(q) \in Nat /\ \A j \in 1 .. Len(q) : q[j] \in Item
  BY LenProperties, ElementOfSeq
<1>2. d = [j \in 1 .. Len(q) - 1 |-> d[j]]
      /\ \A j \in 1 .. Len(q) - 1 : d[j] = IF j < i THEN q[j] ELSE q[j + 1]
  BY DEF RemovedAt
<1> HIDE DEF d
<1>3. \A j \in 1 .. Len(q) - 1 : d[j] \in Item
  BY <1>1, <1>2
<1>4. Len(q) - 1 \in Nat /\ d \in [1 .. Len(q) - 1 -> Item]
  BY <1>1, <1>2, <1>3
<1>5. d \in Seq(Item) /\ Len(d) = Len(q) - 1
  BY <1>4, SeqDef, LenProperties
<1> QED BY <1>2, <1>5 DEF d

Opened(q, i, k, d) ==
  /\ d \in Seq(Item) /\ Len(d) = Len(q) + 1
  /\ d = [j \in 1 .. Len(q) + 1 |-> d[j]]
  /\ d[i] = k
  /\ \A j \in 1 .. Len(q) + 1 : j < i => d[j] = q[j]
  /\ \A j \in 1 .. Len(q) + 1 : j > i => d[j] = q[j - 1]

(* The item stands at its place, the others before or behind it.           *)
LEMMA InsertedPlaces ==
  ASSUME NEW q \in Seq(Item), NEW i \in 1 .. Len(q) + 1, NEW k \in Item
  PROVE  Opened(q, i, k, InsertedAt(q, i, k))
<1> DEFINE d == InsertedAt(q, i, k)
<1>1. Len(q) \in Nat /\ \A j \in 1 .. Len(q) : q[j] \in Item
  BY LenProperties, ElementOfSeq
<1>2. d = [j \in 1 .. Len(q) + 1 |-> d[j]]
      /\ \A j \in 1 .. Len(q) + 1 : d[j] = IF j < i THEN q[j] ELSE IF j = i THEN k ELSE q[j - 1]
  BY DEF InsertedAt
<1> HIDE DEF d
<1>3. \A j \in 1 .. Len(q) + 1 : d[j] \in Item
  BY <1>1, <1>2
<1>4. Len(q) + 1 \in Nat /\ d \in [1 .. Len(q) + 1 -> Item]
  BY <1>1, <1>2, <1>3
<1>5. d \in Seq(Item) /\ Len(d) = Len(q) + 1
  BY <1>4, SeqDef, LenProperties
<1>6. d[i] = k
  BY <1>1, <1>2
<1> QED BY <1>1, <1>2, <1>5, <1>6 DEF d, Opened

(* A change in one of two sequences that are joined.                       *)
LEMMA RemovedOnTheRight ==
  ASSUME NEW a \in Seq(Item), NEW q \in Seq(Item), NEW i \in 1 .. Len(q)
  PROVE  a \o RemovedAt(q, i) = RemovedAt(a \o q, Len(a) + i)
<1> DEFINE r == RemovedAt(q, i)
           w == a \o q
           c == a \o r
           d == RemovedAt(w, Len(a) + i)
           n == Len(a) + Len(q) - 1
<1>1. /\ r \in Seq(Item) /\ Len(r) = Len(q) - 1
      /\ \A j \in 1 .. Len(q) - 1 : r[j] = IF j < i THEN q[j] ELSE q[j + 1]
  BY RemovedPlaces
<1>2. /\ w \in Seq(Item) /\ Len(w) = Len(a) + Len(q) /\ Len(a) \in Nat /\ Len(q) \in Nat
      /\ \A j \in 1 .. Len(a) + Len(q) : w[j] = IF j =< Len(a) THEN a[j] ELSE q[j - Len(a)]
  BY Glued
<1> HIDE DEF r, w
<1>3. /\ c = [j \in 1 .. Len(a) + Len(r) |-> c[j]]
      /\ \A j \in 1 .. Len(a) + Len(r) : c[j] = IF j =< Len(a) THEN a[j] ELSE r[j - Len(a)]
  BY <1>1, Glued
<1>4. Len(a) + i \in 1 .. Len(w)
  BY <1>2
<1>5. /\ d = [j \in 1 .. Len(w) - 1 |-> d[j]]
      /\ \A j \in 1 .. Len(w) - 1 : d[j] = IF j < Len(a) + i THEN w[j] ELSE w[j + 1]
  BY <1>2, <1>4, RemovedPlaces
<1>6. Len(a) + Len(r) = n /\ Len(w) - 1 = n
  BY <1>1, <1>2
<1> HIDE DEF c, d, n
<1>7. ASSUME NEW j \in 1 .. n PROVE c[j] = d[j]
  <2>1. CASE j =< Len(a)
    <3>1. c[j] = a[j]
      BY <1>2, <1>3, <1>6, <2>1
    <3>2. j < Len(a) + i /\ j \in 1 .. Len(a) + Len(q)
      BY <1>2, <2>1
    <3>3. w[j] = a[j]
      BY <1>2, <2>1, <3>2
    <3> QED BY <1>5, <1>6, <3>1, <3>2, <3>3
  <2>2. CASE j > Len(a)
    <3>1. c[j] = r[j - Len(a)] /\ j - Len(a) \in 1 .. Len(q) - 1
      BY <1>2, <1>3, <1>6, <2>2 DEF n
    <3>2. c[j] = IF j - Len(a) < i THEN q[j - Len(a)] ELSE q[j - Len(a) + 1]
      BY <1>1, <3>1
    <3>3. d[j] = IF j < Len(a) + i THEN w[j] ELSE w[j + 1]
      BY <1>5, <1>6
    <3>4. w[j] = q[j - Len(a)] /\ w[j + 1] = q[(j + 1) - Len(a)]
      BY <1>2, <2>2 DEF n
    <3> QED BY <1>2, <3>2, <3>3, <3>4
  <2> QED BY <1>2, <2>1, <2>2
<1> QED BY <1>3, <1>5, <1>6, <1>7, SameSequence DEF c, d, r, w

(* A removal from the first of two sequences that are joined.              *)
LEMMA RemovedOnTheLeft ==
  ASSUME NEW a \in Seq(Item), NEW q \in Seq(Item), NEW i \in 1 .. Len(q)
  PROVE  RemovedAt(q, i) \o a = RemovedAt(q \o a, i)
<1> DEFINE r == RemovedAt(q, i)
           w == q \o a
           c == r \o a
           d == RemovedAt(w, i)
           n == Len(a) + Len(q) - 1
<1>1. /\ r \in Seq(Item) /\ Len(r) = Len(q) - 1
      /\ \A j \in 1 .. Len(q) - 1 : r[j] = IF j < i THEN q[j] ELSE q[j + 1]
  BY RemovedPlaces
<1>2. /\ w \in Seq(Item) /\ Len(w) = Len(q) + Len(a) /\ Len(a) \in Nat /\ Len(q) \in Nat
      /\ \A j \in 1 .. Len(q) + Len(a) : w[j] = IF j =< Len(q) THEN q[j] ELSE a[j - Len(q)]
  BY Glued
<1> HIDE DEF r, w
<1>3. /\ c = [j \in 1 .. Len(r) + Len(a) |-> c[j]]
      /\ \A j \in 1 .. Len(r) + Len(a) : c[j] = IF j =< Len(r) THEN r[j] ELSE a[j - Len(r)]
  BY <1>1, Glued
<1>4. i \in 1 .. Len(w)
  BY <1>2
<1>5. /\ d = [j \in 1 .. Len(w) - 1 |-> d[j]]
      /\ \A j \in 1 .. Len(w) - 1 : d[j] = IF j < i THEN w[j] ELSE w[j + 1]
  BY <1>2, <1>4, RemovedPlaces
<1>6. Len(r) + Len(a) = n /\ Len(w) - 1 = n
  BY <1>1, <1>2
<1> HIDE DEF c, d, n
<1>7. ASSUME NEW j \in 1 .. n PROVE c[j] = d[j]
  <2>1. CASE j =< Len(r)
    <3>1. c[j] = r[j] /\ j \in 1 .. Len(q) - 1
      BY <1>1, <1>2, <1>3, <1>6, <2>1
    <3>4. c[j] = IF j < i THEN q[j] ELSE q[j + 1]
      BY <1>1, <3>1
    <3>2. w[j] = q[j] /\ w[j + 1] = q[j + 1]
      BY <1>1, <1>2, <2>1
    <3> QED BY <1>5, <1>6, <3>2, <3>4
  <2>2. CASE j > Len(r)
    <3>1. c[j] = a[j - Len(r)]
      BY <1>3, <1>6, <2>2
    <3>2. ~(j < i) /\ j + 1 > Len(q) /\ j + 1 \in 1 .. Len(q) + Len(a)
          /\ j + 1 - Len(q) = j - Len(r)
      BY <1>1, <1>2, <2>2 DEF n
    <3>3. w[j + 1] = a[j + 1 - Len(q)]
      BY <1>2, <3>2
    <3> QED BY <1>5, <1>6, <3>1, <3>2, <3>3
  <2> QED BY <1>1, <1>2, <2>1, <2>2
<1> QED BY <1>3, <1>5, <1>6, <1>7, SameSequence DEF c, d, r, w

(* An insertion into the second one.                                       *)
LEMMA InsertedOnTheRight ==
  ASSUME NEW a \in Seq(Item), NEW q \in Seq(Item), NEW i \in 1 .. Len(q) + 1, NEW k \in Item
  PROVE  a \o InsertedAt(q, i, k) = InsertedAt(a \o q, Len(a) + i, k)
<1> DEFINE r == InsertedAt(q, i, k)
           w == a \o q
           c == a \o r
           d == InsertedAt(w, Len(a) + i, k)
           n == Len(a) + Len(q) + 1
<1>0. Opened(q, i, k, r)
  BY InsertedPlaces
<1>1. /\ r \in Seq(Item) /\ Len(r) = Len(q) + 1
      /\ r[i] = k
      /\ \A j \in 1 .. Len(q) + 1 : j < i => r[j] = q[j]
      /\ \A j \in 1 .. Len(q) + 1 : j > i => r[j] = q[j - 1]
  BY <1>0 DEF Opened
<1>2. /\ w \in Seq(Item) /\ Len(w) = Len(a) + Len(q) /\ Len(a) \in Nat /\ Len(q) \in Nat
      /\ \A j \in 1 .. Len(a) + Len(q) : w[j] = IF j =< Len(a) THEN a[j] ELSE q[j - Len(a)]
  BY Glued
<1> HIDE DEF r, w
<1>3. /\ c = [j \in 1 .. Len(a) + Len(r) |-> c[j]]
      /\ \A j \in 1 .. Len(a) + Len(r) : c[j] = IF j =< Len(a) THEN a[j] ELSE r[j - Len(a)]
  BY <1>1, Glued
<1>4. Len(a) + i \in 1 .. Len(w) + 1
  BY <1>2
<1>8. Opened(w, Len(a) + i, k, d)
  <2> DEFINE e == Len(a) + i
  <2>1. w \in Seq(Item) /\ e \in 1 .. Len(w) + 1
    BY <1>2, <1>4
  <2> HIDE DEF e
  <2> QED BY <2>1, InsertedPlaces DEF e
<1>5. /\ d = [j \in 1 .. Len(w) + 1 |-> d[j]]
      /\ d[Len(a) + i] = k
      /\ \A j \in 1 .. Len(w) + 1 : j < Len(a) + i => d[j] = w[j]
      /\ \A j \in 1 .. Len(w) + 1 : j > Len(a) + i => d[j] = w[j - 1]
  <2> HIDE DEF d
  <2> QED BY <1>8 DEF Opened
<1>6. Len(a) + Len(r) = n /\ Len(w) + 1 = n
  BY <1>1, <1>2
<1> HIDE DEF c, d, n
<1>7. ASSUME NEW j \in 1 .. n PROVE c[j] = d[j]
  <2>1. CASE j =< Len(a)
    <3>1. c[j] = a[j]
      BY <1>2, <1>3, <1>6, <2>1
    <3>2. j < Len(a) + i /\ j \in 1 .. Len(a) + Len(q)
      BY <1>2, <2>1
    <3>3. w[j] = a[j]
      BY <1>2, <2>1, <3>2
    <3> QED BY <1>5, <1>6, <3>1, <3>2, <3>3
  <2>2. CASE j > Len(a)
    <3> DEFINE m == j - Len(a)
    <3>1. c[j] = r[m] /\ m \in 1 .. Len(q) + 1
      BY <1>2, <1>3, <1>6, <2>2 DEF n
    <3>2. (m < i => c[j] = q[m]) /\ (m = i => c[j] = k) /\ (m > i => c[j] = q[m - 1])
      <4> HIDE DEF m
      <4> QED BY <1>1, <3>1
    <3>3. /\ j < Len(a) + i => d[j] = w[j]
          /\ j = Len(a) + i => d[j] = k
          /\ j > Len(a) + i => d[j] = w[j - 1]
      BY <1>5, <1>6
    <3>4. /\ (m < i <=> j < Len(a) + i) /\ (m = i <=> j = Len(a) + i)
          /\ (m > i <=> j > Len(a) + i) /\ (m < i \/ m = i \/ m > i)
      <4> DEFINE l == Len(a)
      <4>1. j = m + l /\ m \in Int /\ l \in Int /\ i \in Int
        BY <1>2, <3>1 DEF n
      <4> HIDE DEF m, l
      <4>2. /\ (m < i <=> j < l + i) /\ (m = i <=> j = l + i)
            /\ (m > i <=> j > l + i) /\ (m < i \/ m = i \/ m > i)
        BY <4>1
      <4> QED BY <4>2 DEF l
    <3>5. m < i => w[j] = q[m]
      BY <1>2, <2>2 DEF n
    <3>6. m > i => w[j - 1] = q[m - 1]
      <4> SUFFICES ASSUME m > i PROVE w[j - 1] = q[m - 1]
        OBVIOUS
      <4>1. j - 1 \in 1 .. Len(a) + Len(q) /\ ~(j - 1 =< Len(a)) /\ j - 1 - Len(a) = m - 1
        BY <1>2, <3>1 DEF n
      <4> QED BY <1>2, <4>1
    <3> HIDE DEF m
    <3> QED BY <3>2, <3>3, <3>4, <3>5, <3>6
  <2> QED BY <1>2, <2>1, <2>2
<1> QED BY <1>3, <1>5, <1>6, <1>7, SameSequence DEF c, d, r, w

(* An insertion into the first one.                                        *)
LEMMA InsertedOnTheLeft ==
  ASSUME NEW a \in Seq(Item), NEW q \in Seq(Item), NEW i \in 1 .. Len(q) + 1, NEW k \in Item
  PROVE  InsertedAt(q, i, k) \o a = InsertedAt(q \o a, i, k)
<1> DEFINE r == InsertedAt(q, i, k)
           w == q \o a
           c == r \o a
           d == InsertedAt(w, i, k)
           n == Len(a) + Len(q) + 1
<1>0. Opened(q, i, k, r)
  BY InsertedPlaces
<1>1. /\ r \in Seq(Item) /\ Len(r) = Len(q) + 1
      /\ r[i] = k
      /\ \A j \in 1 .. Len(q) + 1 : j < i => r[j] = q[j]
      /\ \A j \in 1 .. Len(q) + 1 : j > i => r[j] = q[j - 1]
  BY <1>0 DEF Opened
<1>2. /\ w \in Seq(Item) /\ Len(w) = Len(q) + Len(a) /\ Len(a) \in Nat /\ Len(q) \in Nat
      /\ \A j \in 1 .. Len(q) + Len(a) : w[j] = IF j =< Len(q) THEN q[j] ELSE a[j - Len(q)]
  BY Glued
<1> HIDE DEF r, w
<1>3. /\ c = [j \in 1 .. Len(r) + Len(a) |-> c[j]]
      /\ \A j \in 1 .. Len(r) + Len(a) : c[j] = IF j =< Len(r) THEN r[j] ELSE a[j - Len(r)]
  BY <1>1, Glued
<1>4. i \in 1 .. Len(w) + 1
  BY <1>2
<1>8. Opened(w, i, k, d)
  <2> DEFINE e == i
  <2>1. w \in Seq(Item) /\ e \in 1 .. Len(w) + 1
    BY <1>2, <1>4
  <2> HIDE DEF e
  <2> QED BY <2>1, InsertedPlaces DEF e
<1>5. /\ d = [j \in 1 .. Len(w) + 1 |-> d[j]]
      /\ d[i] = k
      /\ \A j \in 1 .. Len(w) + 1 : j < i => d[j] = w[j]
      /\ \A j \in 1 .. Len(w) + 1 : j > i => d[j] = w[j - 1]
  <2> HIDE DEF d
  <2> QED BY <1>8 DEF Opened
<1>6. Len(r) + Len(a) = n /\ Len(w) + 1 = n
  BY <1>1, <1>2
<1> HIDE DEF c, d, n
<1>7. ASSUME NEW j \in 1 .. n PROVE c[j] = d[j]
  <2>1. CASE j =< Len(r)
    <3>1. c[j] = r[j] /\ j \in 1 .. Len(q) + 1
      BY <1>1, <1>2, <1>3, <1>6, <2>1
    <3>2. (j < i => c[j] = q[j]) /\ (j = i => c[j] = k) /\ (j > i => c[j] = q[j - 1])
      BY <1>1, <3>1
    <3>3. j < i => w[j] = q[j]
      <4> SUFFICES ASSUME j < i PROVE w[j] = q[j]
        OBVIOUS
      <4>1. j \in 1 .. Len(q) + Len(a) /\ j =< Len(q)
        BY <1>2, <3>1
      <4> QED BY <1>2, <4>1
    <3>4. j > i => w[j - 1] = q[j - 1]
      <4> SUFFICES ASSUME j > i PROVE w[j - 1] = q[j - 1]
        OBVIOUS
      <4>1. j - 1 \in 1 .. Len(q) + Len(a) /\ j - 1 =< Len(q)
        BY <1>2, <3>1
      <4> QED BY <1>2, <4>1
    <3>5. /\ j < i => d[j] = w[j]
          /\ j = i => d[j] = k
          /\ j > i => d[j] = w[j - 1]
      BY <1>5, <1>6
    <3>6. j < i \/ j = i \/ j > i
      BY <3>1
    <3> QED BY <3>2, <3>3, <3>4, <3>5, <3>6
  <2>2. CASE j > Len(r)
    <3>1. c[j] = a[j - Len(r)]
      BY <1>3, <1>6, <2>2
    <3>2. j > i /\ j - 1 > Len(q) /\ j - 1 \in 1 .. Len(q) + Len(a)
          /\ j - 1 - Len(q) = j - Len(r)
      BY <1>1, <1>2, <2>2 DEF n
    <3>3. w[j - 1] = a[j - 1 - Len(q)]
      BY <1>2, <3>2
    <3> QED BY <1>5, <1>6, <3>1, <3>2, <3>3
  <2> QED BY <1>1, <1>2, <2>1, <2>2
<1> QED BY <1>3, <1>5, <1>6, <1>7, SameSequence DEF c, d, r, w

---------------------------------------------------------------------------
(* What a hit does to the lines of two segments that are joined: the item  *)
(* moves to the front of the first one, demotion or not.                   *)
LEMMA SecondPromoted ==
  ASSUME NEW u \in Seq(Item), NEW v \in Seq(Item), NEW i \in 1 .. Len(v)
  PROVE  InsertedAt(u, 1, v[i]) \o RemovedAt(v, i) = MovedTo(u \o v, Len(u) + i, 1)
<1> DEFINE r == RemovedAt(v, i)
           k == v[i]
           w == u \o v
<1>1. r \in Seq(Item) /\ k \in Item /\ 1 \in 1 .. Len(u) + 1
  BY RemovedPlaces, ElementOfSeq, LenProperties
<1>2. InsertedAt(u, 1, k) \o r = InsertedAt(u \o r, 1, k)
  <2> HIDE DEF r, k
  <2> QED BY <1>1, InsertedOnTheLeft
<1>3. u \o r = RemovedAt(w, Len(u) + i)
  BY RemovedOnTheRight
<1>4. w[Len(u) + i] = k
  <2>1. /\ Len(u) \in Nat /\ Len(v) \in Nat
        /\ \A j \in 1 .. Len(u) + Len(v) : w[j] = IF j =< Len(u) THEN u[j] ELSE v[j - Len(u)]
    BY Glued
  <2>2. Len(u) + i \in 1 .. Len(u) + Len(v) /\ ~(Len(u) + i =< Len(u)) /\ Len(u) + i - Len(u) = i
    BY <2>1
  <2> QED BY <2>1, <2>2
<1> QED BY <1>2, <1>3, <1>4 DEF MovedTo

(* The last of one sequence made the first of the next changes nothing.    *)
LEMMA LastDemoted ==
  ASSUME NEW u \in Seq(Item), NEW v \in Seq(Item), Len(u) > 0
  PROVE  RemovedAt(u, Len(u)) \o InsertedAt(v, 1, u[Len(u)]) = u \o v
<1> DEFINE n == Len(u)
           x == u[n]
           a == RemovedAt(u, n)
           e == InsertedAt(v, 1, x)
           c == a \o e
           d == u \o v
           m == Len(u) + Len(v)
<1>1. n \in 1 .. Len(u) /\ n \in Nat /\ Len(v) \in Nat /\ x \in Item /\ 1 \in 1 .. Len(v) + 1
  BY LenProperties, ElementOfSeq
<1>2. /\ a \in Seq(Item) /\ Len(a) = n - 1
      /\ \A j \in 1 .. n - 1 : a[j] = u[j]
  <2> HIDE DEF n
  <2>1. /\ a \in Seq(Item) /\ Len(a) = Len(u) - 1
        /\ \A j \in 1 .. Len(u) - 1 : a[j] = IF j < n THEN u[j] ELSE u[j + 1]
    BY <1>1, RemovedPlaces
  <2> HIDE DEF a
  <2> QED BY <1>1, <2>1 DEF n
<1>3. /\ e \in Seq(Item) /\ Len(e) = Len(v) + 1 /\ e[1] = x
      /\ \A j \in 1 .. Len(v) + 1 : j > 1 => e[j] = v[j - 1]
  <2> HIDE DEF x
  <2>1. Opened(v, 1, x, e)
    BY <1>1, InsertedPlaces
  <2> QED BY <2>1 DEF Opened
<1> HIDE DEF a, e
<1>4. /\ c = [j \in 1 .. Len(a) + Len(e) |-> c[j]]
      /\ \A j \in 1 .. Len(a) + Len(e) : c[j] = IF j =< Len(a) THEN a[j] ELSE e[j - Len(a)]
  BY <1>2, <1>3, Glued
<1>5. /\ d = [j \in 1 .. m |-> d[j]]
      /\ \A j \in 1 .. m : d[j] = IF j =< n THEN u[j] ELSE v[j - n]
  BY Glued
<1>6. Len(a) + Len(e) = m
  BY <1>1, <1>2, <1>3
<1> HIDE DEF c, d, m
<1>7. ASSUME NEW j \in 1 .. m PROVE c[j] = d[j]
  <2>0. j \in Int /\ m = n + Len(v)
    BY <1>1 DEF m
  <2>1. CASE j =< n - 1
    BY <1>1, <1>2, <1>4, <1>5, <1>6, <2>0, <2>1
  <2>2. CASE j = n
    <3>1. ~(j =< Len(a)) /\ j - Len(a) = 1
      BY <1>1, <1>2, <2>2
    <3>2. c[j] = e[1]
      BY <1>4, <1>6, <3>1
    <3> QED BY <1>3, <1>5, <2>0, <2>2, <3>2
  <2>3. CASE j > n
    <3>1. ~(j =< Len(a)) /\ j - Len(a) \in 1 .. Len(v) + 1 /\ j - Len(a) > 1
          /\ j - Len(a) - 1 = j - n /\ ~(j =< n)
      BY <1>1, <1>2, <2>0, <2>3
    <3>2. c[j] = e[j - Len(a)] /\ d[j] = v[j - n]
      BY <1>4, <1>5, <1>6, <3>1
    <3> QED BY <1>3, <3>1, <3>2
  <2> QED BY <1>1, <2>0, <2>1, <2>2, <2>3
<1> QED BY <1>4, <1>5, <1>6, <1>7, SameSequence DEF c, d, a, e

(* So with demotion, too.                                                  *)
LEMMA SecondExchanged ==
  ASSUME NEW u \in Seq(Item), NEW v \in Seq(Item), NEW i \in 1 .. Len(v), Len(u) > 0
  PROVE  RemovedAt(InsertedAt(u, 1, v[i]), Len(u) + 1) \o InsertedAt(RemovedAt(v, i), 1, u[Len(u)])
           = MovedTo(u \o v, Len(u) + i, 1)
<1> DEFINE k == v[i]
           more == InsertedAt(u, 1, k)
           r == RemovedAt(v, i)
<1>1. r \in Seq(Item) /\ k \in Item /\ 1 \in 1 .. Len(u) + 1 /\ Len(u) \in Nat
  BY RemovedPlaces, ElementOfSeq, LenProperties
<1>2. more \in Seq(Item) /\ Len(more) = Len(u) + 1 /\ more[Len(u) + 1] = u[Len(u)]
  <2> HIDE DEF k
  <2>1. Opened(u, 1, k, more)
    BY <1>1, InsertedPlaces
  <2> HIDE DEF more
  <2>2. /\ more \in Seq(Item) /\ Len(more) = Len(u) + 1
        /\ \A j \in 1 .. Len(u) + 1 : j > 1 => more[j] = u[j - 1]
    BY <2>1 DEF Opened
  <2>3. Len(u) + 1 \in 1 .. Len(u) + 1 /\ Len(u) + 1 > 1 /\ Len(u) + 1 - 1 = Len(u)
    BY <1>1
  <2> QED BY <2>2, <2>3
<1>3. InsertedAt(u, 1, k) \o r = MovedTo(u \o v, Len(u) + i, 1)
  BY SecondPromoted
<1> HIDE DEF r, more
<1>4. RemovedAt(more, Len(more)) \o InsertedAt(r, 1, more[Len(more)]) = more \o r
  <2>1. Len(more) > 0
    BY <1>1, <1>2
  <2> QED BY <1>1, <1>2, <2>1, LastDemoted
<1> QED BY <1>2, <1>3, <1>4 DEF more, r

(* A move within one of several sequences that are joined.                 *)
LEMMA MovedBetween ==
  ASSUME NEW a \in Seq(Item), NEW q \in Seq(Item), NEW e \in Seq(Item),
         NEW i \in 1 .. Len(q), NEW j \in 1 .. Len(q)
  PROVE  (a \o MovedTo(q, i, j)) \o e = MovedTo((a \o q) \o e, Len(a) + i, Len(a) + j)
<1> DEFINE r == RemovedAt(q, i)
           k == q[i]
           w == a \o q
           z == w \o e
           l == Len(a)
<1>1. r \in Seq(Item) /\ Len(r) = Len(q) - 1 /\ k \in Item
  BY RemovedPlaces, ElementOfSeq, LenProperties
<1>2. /\ w \in Seq(Item) /\ Len(w) = l + Len(q) /\ l \in Nat /\ Len(q) \in Nat /\ Len(e) \in Nat
      /\ \A x \in 1 .. l + Len(q) : w[x] = IF x =< l THEN a[x] ELSE q[x - l]
  BY Glued
<1>3. a \o r = RemovedAt(w, l + i)
  BY RemovedOnTheRight
<1>4. (a \o r) \o e = RemovedAt(z, l + i)
  <2>1. l + i \in 1 .. Len(w)
    BY <1>2
  <2>2. w \in Seq(Item)
    BY <1>2
  <2> DEFINE m == l + i
  <2> HIDE DEF w, m
  <2>3. RemovedAt(w, m) \o e = RemovedAt(w \o e, m)
    BY <2>1, <2>2, RemovedOnTheLeft DEF m
  <2> HIDE DEF r
  <2> QED BY <1>3, <2>3 DEF m
<1>5. z[l + i] = k
  <2>1. l + i \in 1 .. l + Len(q) /\ ~(l + i =< l) /\ l + i - l = i
    BY <1>2
  <2>2. w[l + i] = k
    BY <1>2, <2>1
  <2> HIDE DEF w
  <2>3. \A x \in 1 .. Len(w) + Len(e) : z[x] = IF x =< Len(w) THEN w[x] ELSE e[x - Len(w)]
    BY <1>2, Glued
  <2>4. l + i \in 1 .. Len(w) + Len(e) /\ l + i =< Len(w)
    BY <1>2, <2>1
  <2> QED BY <2>2, <2>3, <2>4
<1> DEFINE b == a \o r
<1>6. b \in Seq(Item) /\ Len(b) = l + Len(r)
  <2> HIDE DEF r
  <2> QED BY <1>1, Glued
<1>7. a \o InsertedAt(r, j, k) = InsertedAt(b, l + j, k)
  <2>1. j \in 1 .. Len(r) + 1
    BY <1>1, <1>2
  <2> HIDE DEF r, k
  <2> QED BY <1>1, <2>1, InsertedOnTheRight
<1>8. InsertedAt(b, l + j, k) \o e = InsertedAt(b \o e, l + j, k)
  <2>1. l + j \in 1 .. Len(b) + 1
    BY <1>1, <1>2, <1>6
  <2> HIDE DEF b, k, l
  <2> QED BY <1>1, <1>6, <2>1, InsertedOnTheLeft
<1> QED BY <1>4, <1>5, <1>7, <1>8 DEF MovedTo

---------------------------------------------------------------------------
(* The sequences that dump joins, one after another.                       *)
JoinsOf(g, f) ==
  /\ f[0] = <<>>
  /\ \A n \in 1 .. Segments : f[n] = f[n - 1] \o Listing(g[n])

(* Lists, of which all are sequences of items, or which are the same up to *)
(* a place or from there on.                                               *)
OfItems(g) == \A n \in 1 .. Segments : Listing(g[n]) \in Seq(Item)
SameUpTo(g, h, l) == \A n \in 1 .. l : Listing(g[n]) = Listing(h[n])
SameFrom(g, h, l) == \A n \in l + 1 .. Segments : Listing(g[n]) = Listing(h[n])

(* Where the sequence of h has v, that of g has u, at the same place.      *)
Around(g, h, u, v, s) ==
  \E a \in Seq(Item), e \in Seq(Item) :
    /\ Joined(g) = (a \o u) \o e
    /\ Joined(h) = (a \o v) \o e
    /\ s = Segments => e = <<>>

Followed(x, y, b) == x = y \o b

(* Joined is the last of the steps its recursion makes.                    *)
LEMMA JoinedSteps ==
  ASSUME NEW g
  PROVE  \E f : JoinsOf(g, f) /\ Joined(g) = f[Segments]
<1> DEFINE Rule(f, i) == f = [n \in 0 .. i |-> IF n = 0 THEN <<>> ELSE f[n - 1] \o Listing(g[n])]
           none == {i \in Nat : ~ \E f : Rule(f, i)}
<1>1. none = {}
  <2> SUFFICES ASSUME none # {} PROVE FALSE
    OBVIOUS
  <2>1. PICK i \in none : \A j \in none : i =< j
    <3>1. none \in SUBSET Nat
      OBVIOUS
    <3> HIDE DEF none
    <3> QED BY <3>1, LeastNumber
  <2>2. i \in Nat /\ ~ \E f : Rule(f, i)
    OBVIOUS
  <2>3. CASE i = 0
    <3> DEFINE f == [n \in 0 .. i |-> <<>>]
    <3>1. Rule(f, i)
      BY <2>3
    <3> QED BY <2>2, <3>1
  <2>4. CASE i # 0
    <3>1. i - 1 \in Nat /\ ~(i =< i - 1)
      BY <2>2, <2>4
    <3>2. PICK f : Rule(f, i - 1)
      BY <2>1, <3>1
    <3> DEFINE h == [n \in 0 .. i |-> IF n = i THEN f[i - 1] \o Listing(g[i]) ELSE f[n]]
    <3>3. ASSUME NEW n \in 0 .. i PROVE h[n] = IF n = 0 THEN <<>> ELSE h[n - 1] \o Listing(g[n])
      <4>1. CASE n = i
        <5>1. i - 1 \in 0 .. i /\ i - 1 # i
          BY <2>2, <2>4
        <5>2. h[i - 1] = f[i - 1]
          BY <5>1
        <5> QED BY <2>4, <4>1, <5>2
      <4>2. CASE n # i
        <5>1. n \in 0 .. i - 1
          BY <2>2, <4>2
        <5>2. h[n] = f[n]
          BY <4>2
        <5>3. f[n] = IF n = 0 THEN <<>> ELSE f[n - 1] \o Listing(g[n])
          BY <3>2, <5>1
        <5>4. n # 0 => n - 1 \in 0 .. i /\ n - 1 # i
          BY <2>2, <5>1
        <5>5. n # 0 => h[n - 1] = f[n - 1]
          BY <5>4
        <5> QED BY <5>2, <5>3, <5>5
      <4> QED BY <4>1, <4>2
    <3>4. h = [n \in 0 .. i |-> h[n]]
      OBVIOUS
    <3> HIDE DEF h
    <3>5. Rule(h, i)
      BY <3>3, <3>4
    <3> QED BY <2>2, <3>5
  <2> QED BY <2>3, <2>4
<1>0. Segments \in Nat
  BY SegmentsHaveRoom
<1>2. \E f : Rule(f, Segments)
  BY <1>0, <1>1
<1> DEFINE h == CHOOSE f : Rule(f, Segments)
<1>3. Joined(g) = h[Segments]
  BY DEF Joined
<1>4. h = [n \in 0 .. Segments |-> IF n = 0 THEN <<>> ELSE h[n - 1] \o Listing(g[n])]
  BY <1>2
<1> HIDE DEF h
<1>5. h[0] = <<>>
  <2>1. 0 \in 0 .. Segments
    BY <1>0
  <2> QED BY <1>4, <2>1
<1>6. \A n \in 1 .. Segments : h[n] = h[n - 1] \o Listing(g[n])
  <2>1. ASSUME NEW n \in 1 .. Segments PROVE n \in 0 .. Segments /\ n # 0
    BY <1>0
  <2> QED BY <1>4, <2>1
<1> QED BY <1>3, <1>5, <1>6 DEF JoinsOf

(* Each of them is a sequence of items.                                    *)
LEMMA JoinsAreSequences ==
  ASSUME NEW g, NEW f, JoinsOf(g, f), OfItems(g)
  PROVE  \A n \in 0 .. Segments : f[n] \in Seq(Item)
<1> DEFINE T == {n \in 0 .. Segments : f[n] \notin Seq(Item)}
<1>0. Segments \in Nat
  BY SegmentsHaveRoom
<1> SUFFICES ASSUME T # {} PROVE FALSE
  OBVIOUS
<1>1. PICK n \in T : \A m \in T : n =< m
  <2>1. T \in SUBSET Nat
    BY <1>0
  <2> HIDE DEF T
  <2> QED BY <2>1, LeastNumber
<1>2. n # 0
  <2>1. <<>> \in Seq(Item)
    OBVIOUS
  <2> QED BY <1>1, <2>1 DEF JoinsOf
<1>3. n \in 1 .. Segments /\ n - 1 \in 0 .. Segments /\ ~(n =< n - 1)
  BY <1>0, <1>1, <1>2
<1>4. f[n - 1] \in Seq(Item)
  BY <1>1, <1>3
<1>5. f[n] = f[n - 1] \o Listing(g[n])
  BY <1>3 DEF JoinsOf
<1>6. f[n] \in Seq(Item)
  BY <1>3, <1>4, <1>5, Glued DEF OfItems
<1> QED BY <1>1, <1>6

(* What comes before a difference is the same.                             *)
LEMMA SameBefore ==
  ASSUME NEW g, NEW h, NEW f, NEW e, JoinsOf(g, f), JoinsOf(h, e),
         NEW l \in 0 .. Segments, SameUpTo(g, h, l)
  PROVE  f[l] = e[l]
<1> DEFINE T == {n \in 0 .. l : f[n] # e[n]}
<1>0. Segments \in Nat /\ l \in Nat
  BY SegmentsHaveRoom
<1> SUFFICES ASSUME T # {} PROVE FALSE
  <2>1. l \in 0 .. l
    BY <1>0
  <2> QED BY <2>1
<1>1. PICK n \in T : \A m \in T : n =< m
  <2>1. T \in SUBSET Nat
    BY <1>0
  <2> HIDE DEF T
  <2> QED BY <2>1, LeastNumber
<1>2. n # 0
  BY <1>1 DEF JoinsOf
<1>3. n \in 1 .. Segments /\ n \in 1 .. l /\ n - 1 \in 0 .. l /\ ~(n =< n - 1)
  BY <1>0, <1>1, <1>2
<1>4. f[n - 1] = e[n - 1]
  BY <1>1, <1>3
<1>5. f[n] = f[n - 1] \o Listing(g[n]) /\ e[n] = e[n - 1] \o Listing(h[n])
  BY <1>3 DEF JoinsOf
<1> QED BY <1>1, <1>3, <1>4, <1>5 DEF SameUpTo

(* It does not matter which are joined first.                              *)
LEMMA Associative ==
  ASSUME NEW a \in Seq(Item), NEW b \in Seq(Item), NEW s \in Seq(Item)
  PROVE  (a \o b) \o s = a \o (b \o s)
BY ConcatAssociative

(* What comes after it, too.                                               *)
LEMMA SameBehind ==
  ASSUME NEW g, NEW h, NEW f, NEW e, JoinsOf(g, f), JoinsOf(h, e),
         OfItems(g), OfItems(h), NEW l \in 0 .. Segments, SameFrom(g, h, l)
  PROVE  \E b \in Seq(Item) : /\ Followed(f[Segments], f[l], b) /\ Followed(e[Segments], e[l], b)
                              /\ l = Segments => b = <<>>
<1> DEFINE Ok(n) == \E b \in Seq(Item) : /\ f[n] = f[l] \o b /\ e[n] = e[l] \o b
                                         /\ l = n => b = <<>>
           T == {n \in l .. Segments : ~Ok(n)}
<1>0. Segments \in Nat /\ l \in Nat /\ l =< Segments
  BY SegmentsHaveRoom
<1>7. \A n \in 0 .. Segments : f[n] \in Seq(Item) /\ e[n] \in Seq(Item)
  BY JoinsAreSequences
<1> SUFFICES ASSUME T # {} PROVE FALSE
  <2>1. Segments \in l .. Segments
    BY <1>0
  <2>2. Ok(Segments)
    BY <2>1
  <2> QED BY <2>2 DEF Followed
<1> HIDE DEF Ok
<1>1. PICK n \in T : \A m \in T : n =< m
  <2>1. T \in SUBSET Nat
    BY <1>0
  <2> HIDE DEF T
  <2> QED BY <2>1, LeastNumber
<1>2. n # l
  <2>1. f[l] = f[l] \o <<>> /\ e[l] = e[l] \o <<>> /\ <<>> \in Seq(Item)
    BY <1>7, ConcatEmptySeq
  <2>2. Ok(l)
    BY <2>1 DEF Ok
  <2> QED BY <1>1, <2>2
<1>3. n \in 1 .. Segments /\ n \in l + 1 .. Segments /\ n - 1 \in l .. Segments /\ ~(n =< n - 1)
  BY <1>0, <1>1, <1>2
<1>4. Ok(n - 1)
  BY <1>1, <1>3
<1>5. PICK b \in Seq(Item) : f[n - 1] = f[l] \o b /\ e[n - 1] = e[l] \o b
  BY <1>4 DEF Ok
<1> DEFINE s == Listing(g[n])
<1>6. f[n] = f[n - 1] \o s /\ e[n] = e[n - 1] \o s /\ s \in Seq(Item)
  BY <1>3 DEF JoinsOf, SameFrom, OfItems
<1> HIDE DEF s
<1>8. (f[l] \o b) \o s = f[l] \o (b \o s) /\ (e[l] \o b) \o s = e[l] \o (b \o s)
  <2>1. f[l] \in Seq(Item) /\ e[l] \in Seq(Item)
    BY <1>0, <1>7
  <2>2. \A a \in Seq(Item) : (a \o b) \o s = a \o (b \o s)
    <3> TAKE a \in Seq(Item)
    <3> QED BY <1>6, Associative
  <2> QED BY <2>1, <2>2
<1>9. b \o s \in Seq(Item)
  BY <1>6, Glued
<1>10. Ok(n)
  BY <1>2, <1>5, <1>6, <1>8, <1>9 DEF Ok
<1> QED BY <1>1, <1>10

---------------------------------------------------------------------------
LEMMA SlruListings ==
  ASSUME NEW b, NEW Q, SlruLines(b, Q)
  PROVE  \A n \in 1 .. Segments : Listing(b.segment[n]) = Q[n] /\ Q[n] \in Seq(Item)
<1> TAKE n \in 1 .. Segments
<1>1. Line(b.segment[n], Q[n], Item)
  BY DEF SlruLines
<1> QED BY <1>1, ListingIs, PolicyAssumption DEF Line

(* Where one segment differs, and where two do that follow each other.     *)
SameBut(Q, P, S) == \A n \in (1 .. Segments) \ S : P[n] = Q[n]

(* What stands around the one segment that differs.                        *)
LEMMA OneSegment ==
  ASSUME NEW b, NEW Q, SlruLines(b, Q), NEW c, NEW P, SlruLines(c, P), NEW s \in 1 .. Segments,
         SameBut(Q, P, {s})
  PROVE  Around(b.segment, c.segment, Q[s], P[s], s)
<1> DEFINE g == b.segment  h == c.segment  u == Q[s]  v == P[s]  r == s - 1
<1>1. /\ \A n \in 1 .. Segments : Listing(g[n]) = Q[n] /\ Q[n] \in Seq(Item)
      /\ \A n \in 1 .. Segments : Listing(h[n]) = P[n] /\ P[n] \in Seq(Item)
  BY SlruListings
<1> HIDE DEF g, h
<1>2. PICK f : JoinsOf(g, f) /\ Joined(g) = f[Segments]
  BY JoinedSteps
<1>3. PICK d : JoinsOf(h, d) /\ Joined(h) = d[Segments]
  BY JoinedSteps
<1>4. /\ Segments \in Nat /\ r \in 0 .. Segments /\ s \in 0 .. Segments /\ s \in Nat
      /\ \A n \in 1 .. r : n \in (1 .. Segments) \ {s}
      /\ \A n \in s + 1 .. Segments : n \in (1 .. Segments) \ {s}
  BY SegmentsHaveRoom
<1>8. OfItems(g) /\ OfItems(h)
  BY <1>1 DEF OfItems
<1>9. SameUpTo(g, h, r) /\ SameFrom(g, h, s)
  <2> HIDE DEF r
  <2> QED BY <1>1, <1>4 DEF SameUpTo, SameFrom, SameBut
<1>7. f[s] = f[r] \o u /\ d[s] = d[r] \o v
  BY <1>1, <1>2, <1>3 DEF JoinsOf
<1> HIDE DEF u, v, r
<1>5. f[r] = d[r] /\ f[r] \in Seq(Item)
  BY <1>2, <1>3, <1>4, <1>8, <1>9, SameBefore, JoinsAreSequences
<1>6. PICK e \in Seq(Item) : /\ Followed(f[Segments], f[s], e) /\ Followed(d[Segments], d[s], e)
                             /\ s = Segments => e = <<>>
  BY <1>2, <1>3, <1>4, <1>8, <1>9, SameBehind
<1>10. Around(g, h, u, v, s)
  BY <1>2, <1>3, <1>5, <1>6, <1>7 DEF Around, Followed
<1> QED BY <1>10 DEF g, h, u, v

(* What stands around the two.                                             *)
LEMMA TwoSegments ==
  ASSUME NEW b, NEW Q, SlruLines(b, Q), NEW c, NEW P, SlruLines(c, P), NEW s \in 2 .. Segments,
         SameBut(Q, P, {s - 1, s})
  PROVE  Around(b.segment, c.segment, Q[s - 1] \o Q[s], P[s - 1] \o P[s], s)
<1> DEFINE g == b.segment  h == c.segment  t == s - 1  r == s - 2
           u == Q[t]  v == Q[s]  x == P[t]  y == P[s]
<1>1. /\ \A n \in 1 .. Segments : Listing(g[n]) = Q[n] /\ Q[n] \in Seq(Item)
      /\ \A n \in 1 .. Segments : Listing(h[n]) = P[n] /\ P[n] \in Seq(Item)
  BY SlruListings
<1> HIDE DEF g, h
<1>2. PICK f : JoinsOf(g, f) /\ Joined(g) = f[Segments]
  BY JoinedSteps
<1>3. PICK d : JoinsOf(h, d) /\ Joined(h) = d[Segments]
  BY JoinedSteps
<1>4. /\ Segments \in Nat /\ r \in 0 .. Segments /\ s \in 0 .. Segments /\ s \in Nat
      /\ s \in 1 .. Segments /\ t \in 1 .. Segments /\ t - 1 = r
      /\ \A n \in 1 .. r : n \in (1 .. Segments) \ {t, s}
      /\ \A n \in s + 1 .. Segments : n \in (1 .. Segments) \ {t, s}
  BY SegmentsHaveRoom
<1>8. OfItems(g) /\ OfItems(h)
  BY <1>1 DEF OfItems
<1>9. SameUpTo(g, h, r) /\ SameFrom(g, h, s)
  <2> HIDE DEF r
  <2> QED BY <1>1, <1>4 DEF SameUpTo, SameFrom, SameBut
<1>7. f[s] = f[t] \o v /\ d[s] = d[t] \o y /\ f[t] = f[r] \o u /\ d[t] = d[r] \o x
  <2>1. f[s] = f[t] \o v /\ d[s] = d[t] \o y
    BY <1>1, <1>2, <1>3, <1>4 DEF JoinsOf
  <2>2. f[t] = f[t - 1] \o Listing(g[t]) /\ d[t] = d[t - 1] \o Listing(h[t])
    <3> HIDE DEF t, r
    <3> QED BY <1>2, <1>3, <1>4 DEF JoinsOf
  <2>3. Listing(g[t]) = u /\ Listing(h[t]) = x
    <3> HIDE DEF t
    <3> QED BY <1>1, <1>4 DEF JoinsOf
  <2> HIDE DEF t, r, u, x, v, y
  <2> QED BY <1>4, <2>1, <2>2, <2>3
<1>11. u \in Seq(Item) /\ v \in Seq(Item) /\ x \in Seq(Item) /\ y \in Seq(Item)
  <2> HIDE DEF t
  <2> QED BY <1>1, <1>4
<1> HIDE DEF u, v, x, y, r, t
<1>5. f[r] = d[r] /\ f[r] \in Seq(Item)
  BY <1>2, <1>3, <1>4, <1>8, <1>9, SameBefore, JoinsAreSequences
<1>6. PICK e \in Seq(Item) : /\ Followed(f[Segments], f[s], e) /\ Followed(d[Segments], d[s], e)
                             /\ s = Segments => e = <<>>
  BY <1>2, <1>3, <1>4, <1>8, <1>9, SameBehind
<1> DEFINE a == f[r]
<1>12. (a \o u) \o v = a \o (u \o v) /\ (a \o x) \o y = a \o (x \o y) /\ a \in Seq(Item)
  <2>1. a \in Seq(Item)
    BY <1>5
  <2> HIDE DEF a
  <2>2. (a \o u) \o v = a \o (u \o v)
    BY <1>11, <2>1, Associative
  <2>3. (a \o x) \o y = a \o (x \o y)
    BY <1>11, <2>1, Associative
  <2> QED BY <2>1, <2>2, <2>3
<1>13. Joined(g) = (a \o (u \o v)) \o e /\ Joined(h) = (a \o (x \o y)) \o e
  <2>1. f[s] = a \o (u \o v) /\ d[s] = a \o (x \o y)
    BY <1>5, <1>7, <1>12
  <2> HIDE DEF a
  <2> QED BY <1>2, <1>3, <1>6, <2>1 DEF Followed
<1>10. Around(g, h, u \o v, x \o y, s)
  <2> DEFINE uv == u \o v  xy == x \o y
  <2>1. Joined(g) = (a \o uv) \o e /\ Joined(h) = (a \o xy) \o e
    BY <1>13
  <2> HIDE DEF a, uv, xy
  <2>2. Around(g, h, uv, xy, s)
    BY <1>6, <1>12, <2>1 DEF Around
  <2> QED BY <2>2 DEF uv, xy
<1> QED BY <1>10 DEF g, h, u, v, x, y, t

(* A hit moves the item to the front of its segment, or of the one above.  *)
LEMMA SlruHitTurns ==
  ASSUME NEW b, NEW q, IsSlru(b), b.policy = "SLRU", Arranged(b, q), NEW k \in DOMAIN b.map
  PROVE  \E p : Arranged(SlruHit(b, k), p) /\ Turn(q, p)
<1> DEFINE c == SlruHit(b, k)
           s == b.map[k]
<1>1. PICK Q : SlruLines(b, Q)
  BY DEF IsSlru
<1>2. s \in 1 .. Segments
  BY <1>1, SlruPlace
<1>3. PICK i \in 1 .. Len(Q[s]) : Q[s][i] = k
  BY <1>1, SlruPlace
<1>4. q = Joined(b.segment)
  BY DEF Arranged, Shaped
<1>5. Q[s] \in Seq(Item) /\ Q \in [1 .. Segments -> Seq(Item)] /\ Len(Q[s]) \in Nat
  BY <1>1, <1>2, SlruListings, LenProperties DEF SlruLines
<1>6. ASSUME DOMAIN c.map = DOMAIN b.map, NEW P, SlruLines(c, P),
             NEW a \in Seq(Item), NEW u \in Seq(Item), NEW e \in Seq(Item),
             NEW m \in 1 .. Len(u), q = (a \o u) \o e,
             Joined(c.segment) = (a \o MovedTo(u, m, 1)) \o e
      PROVE  \E p : Arranged(c, p) /\ Turn(q, p)
  <2> DEFINE l == Len(a)
  <2>1. l \in Nat /\ Len(u) \in Nat
    BY LenProperties
  <2>2. 1 \in 1 .. Len(u)
    BY <2>1
  <2>3. Joined(c.segment) = MovedTo(q, l + m, l + 1)
    BY <1>6, <2>2, MovedBetween
  <2>4. Len(q) = l + Len(u) + Len(e) /\ Len(e) \in Nat
    <3>1. a \o u \in Seq(Item) /\ Len(a \o u) = l + Len(u)
      BY Glued
    <3> DEFINE w == a \o u
    <3> HIDE DEF w
    <3>2. Len(w \o e) = Len(w) + Len(e) /\ Len(e) \in Nat
      BY <3>1, Glued DEF w
    <3> QED BY <1>6, <3>1, <3>2 DEF w
  <2>5. l + m \in 1 .. Len(q) /\ l + 1 \in 1 .. l + m
    BY <2>1, <2>4
  <2>6. c.policy = "SLRU"
    BY <1>6, SlruFacts
  <2>7. Held(c) = Held(b)
    BY <1>6, <2>6 DEF Held
  <2> HIDE DEF c, l
  <2>8. Shaped(c, MovedTo(q, l + m, l + 1))
    BY <2>3, <2>6 DEF Shaped
  <2> DEFINE x == l + m  y == l + 1
  <2> HIDE DEF x, y
  <2>9. x \in 1 .. Len(q) /\ y \in 1 .. x /\ Shaped(c, MovedTo(q, x, y))
    BY <2>5, <2>8 DEF x, y
  <2> QED BY <2>7, <2>9, HitTurns
<1>7. CASE s = 1
  <2>1. SlruLines(c, SlruTop(Q, i)) /\ DOMAIN c.map = DOMAIN b.map
    BY <1>1, <1>3, <1>7, SlruHitFirst
  <2> DEFINE P == SlruTop(Q, i)
  <2>2. P[1] = MovedTo(Q[1], i, 1) /\ SameBut(Q, P, {1})
    BY <1>2, <1>5, <1>7 DEF SlruTop, SameBut
  <2>4. SlruLines(c, P) /\ 1 \in 1 .. Segments
    BY <1>2, <1>7, <2>1
  <2> HIDE DEF P, c
  <2>3. PICK a \in Seq(Item), e \in Seq(Item) :
           /\ Joined(b.segment) = (a \o Q[1]) \o e
           /\ Joined(c.segment) = (a \o P[1]) \o e
    <3>1. Around(b.segment, c.segment, Q[1], P[1], 1)
      BY <1>1, <2>2, <2>4, OneSegment
    <3> QED BY <3>1 DEF Around
  <2> QED BY <1>3, <1>4, <1>5, <1>6, <1>7, <2>1, <2>2, <2>3 DEF P, c
<1>8. CASE s # 1
  <2>1. SlruLines(c, SlruMoved(Q, s, i)) /\ DOMAIN c.map = DOMAIN b.map
    BY <1>1, <1>3, <1>8, SlruHitBelow
  <2> DEFINE P == SlruMoved(Q, s, i)
             u == Q[s - 1]
             v == Q[s]
  <2>2. s \in 2 .. Segments /\ s - 1 \in 1 .. Segments /\ s - 1 # s
    <3>1. Segments \in Nat
      BY SegmentsHaveRoom
    <3> HIDE DEF s
    <3> QED BY <1>2, <1>8, <3>1
  <2>3. u \in Seq(Item) /\ v \in Seq(Item) /\ Len(u) \in Nat /\ Len(v) \in Nat
        /\ SegmentMax(s - 1) \in Nat \ {0}
    BY <1>5, <2>2, SegmentsHaveRoom, LenProperties
  <2>4. /\ P[s - 1] \o P[s] = MovedTo(u \o v, Len(u) + i, 1)
        /\ SameBut(Q, P, {s - 1, s})
    <3>1. CASE Len(u) < SegmentMax(s - 1)
      <4>1. P = SlruPromoted(Q, s, i)
        BY <1>8, <3>1 DEF SlruMoved
      <4>2. P[s - 1] = InsertedAt(u, 1, v[i]) /\ P[s] = RemovedAt(v, i)
        BY <1>2, <1>5, <2>2, <4>1 DEF SlruPromoted
      <4>3. SameBut(Q, P, {s - 1, s})
        BY <1>5, <4>1 DEF SlruPromoted, SameBut
      <4> HIDE DEF P, u, v, s
      <4> QED BY <1>3, <2>3, <4>2, <4>3, SecondPromoted DEF v
    <3>2. CASE ~(Len(u) < SegmentMax(s - 1))
      <4>1. P = SlruExchanged(Q, s, i) /\ Len(u) > 0
        BY <1>8, <2>3, <3>2 DEF SlruMoved
      <4>2. /\ P[s - 1] = RemovedAt(InsertedAt(u, 1, v[i]), Len(u) + 1)
            /\ P[s] = InsertedAt(RemovedAt(v, i), 1, u[Len(u)])
        BY <1>2, <1>5, <2>2, <4>1 DEF SlruExchanged
      <4>3. SameBut(Q, P, {s - 1, s})
        BY <1>5, <4>1 DEF SlruExchanged, SameBut
      <4> HIDE DEF P, u, v, s
      <4> QED BY <1>3, <2>3, <4>1, <4>2, <4>3, SecondExchanged DEF v
    <3> QED BY <3>1, <3>2
  <2>9. /\ u \o v \in Seq(Item) /\ Len(u) + i \in 1 .. Len(u \o v)
    <3>1. u \o v \in Seq(Item) /\ Len(u \o v) = Len(u) + Len(v)
      <4> HIDE DEF u, v
      <4> QED BY <2>3, Glued
    <3>2. i \in 1 .. Len(v)
      OBVIOUS
    <3> HIDE DEF u, v
    <3>3. Len(u) + i \in 1 .. Len(u) + Len(v)
      BY <2>3, <3>2
    <3> QED BY <3>1, <3>3
  <2> HIDE DEF P, c
  <2>5. PICK a \in Seq(Item), e \in Seq(Item) :
           /\ Joined(b.segment) = (a \o (u \o v)) \o e
           /\ Joined(c.segment) = (a \o (P[s - 1] \o P[s])) \o e
    <3>1. SlruLines(c, P)
      BY <2>1 DEF P
    <3>2. Around(b.segment, c.segment, u \o v, P[s - 1] \o P[s], s)
      <4> HIDE DEF s
      <4> QED BY <1>1, <2>2, <2>4, <3>1, TwoSegments
    <3> HIDE DEF u, v, s
    <3> DEFINE w == u \o v  z == P[s - 1] \o P[s]
    <3>3. Around(b.segment, c.segment, w, z, s)
      BY <3>2
    <3> HIDE DEF w, z
    <3>4. \E a \in Seq(Item), e \in Seq(Item) :
             Joined(b.segment) = (a \o w) \o e /\ Joined(c.segment) = (a \o z) \o e
      BY <3>3 DEF Around
    <3> QED BY <3>4 DEF w, z
  <2> DEFINE w == u \o v  m == Len(u) + i
  <2>6. /\ w \in Seq(Item) /\ m \in 1 .. Len(w) /\ q = (a \o w) \o e
        /\ Joined(c.segment) = (a \o MovedTo(w, m, 1)) \o e
    BY <1>4, <2>4, <2>5, <2>9
  <2> HIDE DEF w, m, s
  <2> QED BY <1>6, <2>1, <2>6 DEF c
<1> QED BY <1>7, <1>8

---------------------------------------------------------------------------
(* An item removed from one of several sequences that are joined.          *)
LEMMA RemovedBetween ==
  ASSUME NEW a \in Seq(Item), NEW q \in Seq(Item), NEW e \in Seq(Item), NEW i \in 1 .. Len(q)
  PROVE  /\ (a \o RemovedAt(q, i)) \o e = RemovedAt((a \o q) \o e, Len(a) + i)
         /\ Len(a) + i \in 1 .. Len((a \o q) \o e)
         /\ ((a \o q) \o e)[Len(a) + i] = q[i]
<1> DEFINE w == a \o q
           r == RemovedAt(q, i)
           m == Len(a) + i
<1>1. /\ w \in Seq(Item) /\ Len(w) = Len(a) + Len(q)
      /\ Len(a) \in Nat /\ Len(q) \in Nat /\ Len(e) \in Nat
      /\ \A j \in 1 .. Len(a) + Len(q) : w[j] = IF j =< Len(a) THEN a[j] ELSE q[j - Len(a)]
  BY Glued
<1>2. a \o r = RemovedAt(w, m)
  BY RemovedOnTheRight
<1>3. m \in 1 .. Len(w) /\ w[m] = q[i] /\ w \in Seq(Item)
  <2>1. m \in 1 .. Len(a) + Len(q) /\ ~(m =< Len(a)) /\ m - Len(a) = i
    BY <1>1
  <2> HIDE DEF m, w
  <2> QED BY <1>1, <2>1
<1> HIDE DEF w, m, r
<1>4. RemovedAt(w, m) \o e = RemovedAt(w \o e, m)
  BY <1>3, RemovedOnTheLeft
<1>5. /\ Len(w \o e) = Len(w) + Len(e) /\ Len(w) \in Nat /\ Len(e) \in Nat
      /\ \A j \in 1 .. Len(w) + Len(e) : (w \o e)[j] = IF j =< Len(w) THEN w[j] ELSE e[j - Len(w)]
  BY <1>3, Glued
<1>6. m \in 1 .. Len(w \o e) /\ (w \o e)[m] = q[i]
  BY <1>3, <1>5
<1> QED BY <1>2, <1>4, <1>6 DEF w, m, r

(* A removal takes the item out of its segment.                            *)
LEMMA SlruRemoveTurns ==
  ASSUME NEW b, NEW q, IsSlru(b), b.policy = "SLRU", Arranged(b, q), NEW k \in DOMAIN b.map
  PROVE  \E p : Arranged(SlruTaken(b, k), p) /\ Turn(q, p)
<1>1. PICK Q : SlruLines(b, Q)
  BY DEF IsSlru
<1>2. b.map[k] \in 1 .. Segments
  BY <1>1, SlruPlace
<1>3. PICK i \in 1 .. Len(Q[b.map[k]]) : Q[b.map[k]][i] = k
  BY <1>1, SlruPlace
<1>4. LET s == b.map[k]
          o == SlruTaken(b, k)
      IN  /\ SlruLines(o, [Q EXCEPT ![s] = RemovedAt(Q[s], i)])
          /\ DOMAIN o.map = DOMAIN b.map \ {k}
  BY <1>1, <1>3, SlruRemoveLines
<1> DEFINE c == SlruTaken(b, k)
           s == b.map[k]
           P == [Q EXCEPT ![s] = RemovedAt(Q[s], i)]
           u == Q[s]
           v == RemovedAt(u, i)
<1>5. SlruLines(c, P) /\ DOMAIN c.map = DOMAIN b.map \ {k}
  BY <1>4
<1>6. s \in 1 .. Segments
  BY <1>2
<1>7. q = Joined(b.segment)
  BY DEF Arranged, Shaped
<1>8. u \in Seq(Item) /\ P[s] = v /\ SameBut(Q, P, {s})
  BY <1>1, <1>2, SlruListings DEF SlruLines, SameBut
<1> HIDE DEF c, P
<1>9. Around(b.segment, c.segment, u, v, s)
  <2>1. Around(b.segment, c.segment, Q[s], P[s], s)
    <3> HIDE DEF s, u, v
    <3> QED BY <1>1, <1>6, <1>5, <1>8, OneSegment
  <2> QED BY <1>8, <2>1
<1>10. i \in 1 .. Len(u) /\ u[i] = k
  BY <1>3
<1> HIDE DEF u
<1>11. PICK a \in Seq(Item), e \in Seq(Item) :
         q = (a \o u) \o e /\ Joined(c.segment) = (a \o v) \o e
  <2> HIDE DEF v
  <2> QED BY <1>7, <1>9 DEF Around
<1>12. PICK m \in 1 .. Len(q) : q[m] = k /\ Joined(c.segment) = RemovedAt(q, m)
  <2>1. Len(a) + i \in 1 .. Len(q) /\ q[Len(a) + i] = u[i]
        /\ Joined(c.segment) = RemovedAt(q, Len(a) + i)
    BY <1>8, <1>10, <1>11, RemovedBetween
  <2> QED BY <1>10, <2>1
<1>13. c.policy = "SLRU"
  BY <1>5, SlruFacts
<1>14. Held(c) = Held(b) \ {q[m]}
  BY <1>5, <1>12, <1>13 DEF Held
<1>15. Shaped(c, RemovedAt(q, m))
  BY <1>12, <1>13 DEF Shaped
<1>16. \E p : Arranged(c, p) /\ Turn(q, p)
  BY <1>14, <1>15, RemovalTurns
<1> QED BY <1>16 DEF c

(* An item inserted at the top of the last one of two sequences, and the   *)
(* last item taken away.                                                   *)
LEMMA PushedBehind ==
  ASSUME NEW a \in Seq(Item), NEW u \in Seq(Item), NEW k \in Item
  PROVE  LET j    == Len(a) + 1
             q    == a \o u
             line == InsertedAt(q, j, k)
         IN
         /\ j \in 1 .. Len(q) + 1
         /\ a \o InsertedAt(u, 1, k) = line
         /\ a \o RemovedAt(InsertedAt(u, 1, k), Len(u) + 1) = RemovedAt(line, Len(q) + 1)
         /\ Len(u) > 0 => line[Len(q) + 1] = u[Len(u)]
<1> DEFINE j    == Len(a) + 1
           q    == a \o u
           line == InsertedAt(q, j, k)
           more == InsertedAt(u, 1, k)
           n    == Len(u) + 1
<1>1. /\ q \in Seq(Item) /\ Len(q) = Len(a) + Len(u) /\ Len(a) \in Nat /\ Len(u) \in Nat
      /\ \A i \in 1 .. Len(a) + Len(u) : q[i] = IF i =< Len(a) THEN a[i] ELSE u[i - Len(a)]
  BY Glued
<1>2. 1 \in 1 .. n /\ n \in Nat
  BY <1>1
<1>3. a \o more = line
  BY <1>2, InsertedOnTheRight
<1>4. Opened(u, 1, k, more)
  BY <1>2, InsertedPlaces
<1>5. more \in Seq(Item) /\ Len(more) = n
  <2> HIDE DEF more
  <2> QED BY <1>4 DEF Opened
<1>6. n \in 1 .. Len(more)
  BY <1>2, <1>5
<1> HIDE DEF more, n
<1>7. a \o RemovedAt(more, n) = RemovedAt(a \o more, Len(a) + n)
  BY <1>5, <1>6, RemovedOnTheRight
<1>8. Len(a) + n = Len(q) + 1 /\ j \in 1 .. Len(q) + 1
  BY <1>1 DEF n
<1>9. ASSUME Len(u) > 0 PROVE line[Len(q) + 1] = u[Len(u)]
  <2>1. Opened(q, j, k, line)
    <3> HIDE DEF q, j
    <3> QED BY <1>1, <1>8, InsertedPlaces
  <2> HIDE DEF line
  <2>2. \A i \in 1 .. Len(q) + 1 : i > j => line[i] = q[i - 1]
    BY <2>1 DEF Opened
  <2>3. Len(q) + 1 \in 1 .. Len(q) + 1 /\ Len(q) + 1 > j /\ Len(q) + 1 - 1 = Len(q)
    BY <1>1, <1>9
  <2>4. line[Len(q) + 1] = q[Len(q)]
    <3> HIDE DEF q, j
    <3> QED BY <2>2, <2>3
  <2>5. Len(q) \in 1 .. Len(a) + Len(u) /\ ~(Len(q) =< Len(a)) /\ Len(q) - Len(a) = Len(u)
    BY <1>1, <1>9
  <2>6. q[Len(q)] = u[Len(u)]
    <3> HIDE DEF q
    <3> QED BY <1>1, <2>5
  <2> QED BY <2>4, <2>6
<1> QED BY <1>3, <1>7, <1>8, <1>9 DEF more, n

(* An insertion puts the item at the front of the last segment.            *)
LEMMA SlruInsertTurns ==
  ASSUME NEW b, NEW q, IsSlru(b), b.policy = "SLRU", Arranged(b, q), NEW k \in Item \ DOMAIN b.map
  PROVE  \E p : Arranged(SlruInsert(b, k)[1], p) /\ Turn(q, p)
<1>1. PICK Q : SlruLines(b, Q)
  BY DEF IsSlru
<1>2. LET o    == SlruInsert(b, k)
           line == Q[Segments]
           more == InsertedAt(line, 1, k)
       IN
       /\ DOMAIN o[1].map = (DOMAIN b.map \cup {k}) \ {o[2]}
       /\ \/ /\ o[2] = None
             /\ SlruLines(o[1], [Q EXCEPT ![Segments] = more])
          \/ /\ Len(line) > 0 /\ o[2] = line[Len(line)] /\ o[2] \in DOMAIN b.map
             /\ SlruLines(o[1], [Q EXCEPT ![Segments] = RemovedAt(more, Len(more))])
  BY <1>1, SlruInsertLines
<1> DEFINE o == SlruInsert(b, k)
           c == o[1]
           gone == o[2]
           s == Segments
<1> DEFINE u    == Q[s]
           more == InsertedAt(u, 1, k)
           less == RemovedAt(more, Len(more))
<1>3. s \in 1 .. Segments /\ k \in Item
  BY SegmentsHaveRoom
<1>4. u \in Seq(Item) /\ Q \in [1 .. Segments -> Seq(Item)] /\ Len(u) \in Nat
  BY <1>1, <1>3, SlruListings, LenProperties DEF SlruLines
<1>5. Len(more) = Len(u) + 1
  <2>1. 1 \in 1 .. Len(u) + 1
    BY <1>4
  <2>2. Opened(u, 1, k, more)
    BY <1>3, <1>4, <2>1, InsertedPlaces
  <2> HIDE DEF more
  <2> QED BY <2>2 DEF Opened
<1>6. /\ DOMAIN c.map = (DOMAIN b.map \cup {k}) \ {gone}
      /\ \/ /\ gone = None
            /\ SlruLines(c, [Q EXCEPT ![s] = more])
         \/ /\ Len(u) > 0 /\ gone = u[Len(u)]
            /\ SlruLines(c, [Q EXCEPT ![s] = less])
  BY <1>2
<1>7. q = Joined(b.segment) /\ Held(b) = DOMAIN b.map
  BY DEF Arranged, Shaped, Held
<1> HIDE DEF o, c, gone
<1>8. ASSUME NEW v, SlruLines(c, [Q EXCEPT ![s] = v])
      PROVE  /\ c.policy = "SLRU" /\ Held(c) = DOMAIN c.map /\ Sound(c)
             /\ \E a \in Seq(Item) : q = a \o u /\ Joined(c.segment) = a \o v
  <2> DEFINE P == [Q EXCEPT ![s] = v]
  <2>1. SlruLines(c, P) /\ P[s] = v /\ SameBut(Q, P, {s})
    BY <1>3, <1>4, <1>8 DEF SameBut
  <2>2. c.policy = "SLRU" /\ Sound(c)
    BY <1>8, SlruFacts DEF Sound, IsSlru
  <2>3. v \in Seq(Item)
    BY <1>3, <2>1, SlruListings
  <2> HIDE DEF P, u
  <2>4. Around(b.segment, c.segment, Q[s], P[s], s)
    BY <1>1, <1>3, <2>1, OneSegment
  <2>5. Around(b.segment, c.segment, u, v, s)
    BY <2>1, <2>4 DEF u
  <2>6. PICK a \in Seq(Item), e \in Seq(Item) :
           q = (a \o u) \o e /\ Joined(c.segment) = (a \o v) \o e /\ e = <<>>
    BY <1>7, <2>5 DEF Around
  <2>7. a \o u \in Seq(Item) /\ a \o v \in Seq(Item)
    BY <1>4, <2>3, Glued
  <2> DEFINE w == a \o u  z == a \o v
  <2> HIDE DEF w, z
  <2>8. w \o <<>> = w /\ z \o <<>> = z
    BY <2>7, ConcatEmptySeq DEF w, z
  <2>9. q = a \o u /\ Joined(c.segment) = a \o v
    BY <2>6, <2>8 DEF w, z
  <2> QED BY <2>2, <2>9 DEF Held
<1>9. CASE gone = None /\ SlruLines(c, [Q EXCEPT ![s] = more])
  <2>1. /\ c.policy = "SLRU" /\ Held(c) = DOMAIN c.map /\ Sound(c)
        /\ \E a \in Seq(Item) : q = a \o u /\ Joined(c.segment) = a \o more
    BY <1>8, <1>9
  <2>2. PICK a \in Seq(Item) : q = a \o u /\ Joined(c.segment) = a \o more
    BY <2>1
  <2> DEFINE j == Len(a) + 1
  <2>3. j \in 1 .. Len(q) + 1 /\ Joined(c.segment) = InsertedAt(q, j, k)
    BY <1>3, <1>4, <2>2, PushedBehind
  <2> HIDE DEF j
  <2>4. Held(c) = Held(b) \cup {k}
    <3>1. None \notin Held(b) \cup {k}
      BY <1>1, <1>7, SlruFacts, PolicyAssumption
    <3> QED BY <1>6, <1>7, <1>9, <2>1, <3>1
  <2>5. Shaped(c, InsertedAt(q, j, k))
    BY <2>1, <2>3 DEF Shaped
  <2>6. \E p : Arranged(c, p) /\ Turn(q, p)
    BY <1>7, <2>1, <2>3, <2>4, <2>5, InsertionTurns
  <2> QED BY <2>6 DEF c, o
<1>10. CASE Len(u) > 0 /\ gone = u[Len(u)] /\ SlruLines(c, [Q EXCEPT ![s] = less])
  <2>1. /\ c.policy = "SLRU" /\ Held(c) = DOMAIN c.map
        /\ \E a \in Seq(Item) : q = a \o u /\ Joined(c.segment) = a \o less
    BY <1>8, <1>10
  <2>2. PICK a \in Seq(Item) : q = a \o u /\ Joined(c.segment) = a \o less
    BY <2>1
  <2> DEFINE j == Len(a) + 1
             line == InsertedAt(q, j, k)
             n == Len(q) + 1
  <2>3. j \in 1 .. n /\ Joined(c.segment) = RemovedAt(line, n) /\ line[n] = gone
    <3>1. a \o RemovedAt(more, Len(u) + 1) = RemovedAt(line, n) /\ j \in 1 .. n
          /\ line[n] = u[Len(u)]
      BY <1>3, <1>4, <1>10, <2>2, PushedBehind
    <3> QED BY <1>5, <1>10, <2>2, <3>1
  <2>4. Held(c) = (Held(b) \cup {k}) \ {line[n]}
    BY <1>6, <1>7, <2>1, <2>3
  <2>5. Shaped(c, RemovedAt(line, n))
    BY <2>1, <2>3 DEF Shaped
  <2> HIDE DEF j
  <2>6. \E p : Arranged(c, p) /\ Turn(q, p)
    BY <1>7, <2>3, <2>4, <2>5, EvictionTurns
  <2> QED BY <2>6 DEF c, o
<1> QED BY <1>6, <1>9, <1>10

---------------------------------------------------------------------------
(* appendleft inserts at the first place.                                  *)
LEMMA FrontIs ==
  ASSUME NEW q \in Seq(Item), NEW k \in Item
  PROVE  /\ <<k>> \o q = InsertedAt(q, 1, k) /\ InsertedAt(q, 1, k) \in Seq(Item)
         /\ Len(InsertedAt(q, 1, k)) = Len(q) + 1
<1> DEFINE line == InsertedAt(q, 1, k)
           d    == <<k>> \o q
<1>1. Len(q) \in Nat /\ <<k>> \in Seq(Item) /\ Len(<<k>>) = 1 /\ <<k>>[1] = k
  BY LenProperties
<1>2. d \in Seq(Item) /\ Len(d) = Len(q) + 1
      /\ \A i \in 1 .. 1 + Len(q) : d[i] = IF i =< 1 THEN <<k>>[i] ELSE q[i - 1]
  <2> DEFINE a == <<k>>
  <2>1. a \in Seq(Item) /\ Len(a) = 1
    BY <1>1
  <2> HIDE DEF a
  <2>2. /\ a \o q \in Seq(Item) /\ Len(a \o q) = Len(a) + Len(q)
        /\ \A i \in 1 .. Len(a) + Len(q) : (a \o q)[i] = IF i =< Len(a) THEN a[i] ELSE q[i - Len(a)]
    BY <2>1, Glued
  <2>3. Len(a \o q) = Len(q) + 1
    BY <1>1, <2>1, <2>2
  <2> QED BY <2>1, <2>2, <2>3 DEF a
<1>3. 1 \in 1 .. Len(q) + 1
  BY <1>1
<1>4. Opened(q, 1, k, line)
  BY <1>3, InsertedPlaces
<1> HIDE DEF line, d
<1>5. /\ line \in Seq(Item) /\ Len(line) = Len(q) + 1 /\ line[1] = k
      /\ \A i \in 1 .. Len(q) + 1 : i > 1 => line[i] = q[i - 1]
  BY <1>4 DEF Opened
<1>6. \A i \in 1 .. Len(q) + 1 : d[i] = line[i]
  <2>1. ASSUME NEW i \in 1 .. Len(q) + 1 PROVE d[i] = line[i]
    <3>1. i \in 1 .. 1 + Len(q) /\ (i = 1 \/ (i > 1 /\ ~(i =< 1)))
      BY <1>1
    <3>2. d[i] = IF i =< 1 THEN <<k>>[i] ELSE q[i - 1]
      BY <1>2, <3>1
    <3>3. CASE i = 1
      <4>1. d[i] = <<k>>[1]
        BY <3>2, <3>3
      <4> QED BY <1>1, <1>5, <3>3, <4>1
    <3>4. CASE i > 1 /\ ~(i =< 1)
      BY <1>5, <3>2, <3>4
    <3> QED BY <3>1, <3>3, <3>4
  <2> QED BY <2>1
<1>7. d = line
  BY <1>2, <1>5, <1>6, SameSequence
<1> QED BY <1>5, <1>7 DEF d, line

(* The deque after a put of a new item.                                    *)
LEMMA FifoPutLines ==
  ASSUME NEW b, IsFifo(b), NEW k \in Item \ b.set
  PROVE  LET o    == FifoPut(b, k, FALSE)
             line == InsertedAt(b.d, 1, k)
             n    == Len(b.d) + 1
         IN  /\ o[1].policy = "FIFO"
             /\ \/ o[2] = None /\ o[1].d = line
                \/ o[2] = line[n] /\ o[1].d = RemovedAt(line, n)
<1> DEFINE o    == FifoPut(b, k, FALSE)
           line == InsertedAt(b.d, 1, k)
           n    == Len(b.d) + 1
           set  == b.set \cup {k}
           gone == line[n]
           less == RemovedAt(line, n)
<1>1. b = FifoObject(b.set, b.d) /\ b.d \in Seq(Item) /\ Elements(b.d) = b.set
  BY DEF IsFifo
<1>2. <<k>> \o b.d = line /\ line \in Seq(Item) /\ Len(line) = n
  <2> DEFINE q == b.d
  <2>1. q \in Seq(Item)
    BY <1>1
  <2> HIDE DEF q
  <2>2. <<k>> \o q = InsertedAt(q, 1, k) /\ InsertedAt(q, 1, k) \in Seq(Item)
        /\ Len(InsertedAt(q, 1, k)) = Len(q) + 1
    BY <2>1, FrontIs
  <2> QED BY <2>2 DEF q
<1>3. n > 0 /\ n \in Nat
  BY <1>1, LenProperties
<1> HIDE DEF line
<1>4. SubSeq(line, 1, Len(line) - 1) = less
  <2>1. SubSeq(line, 1, Len(line) - 1) = RemovedAt(line, Len(line))
    BY <1>2, <1>3, PoppedIs
  <2> QED BY <1>2, <2>1
<1>5. gone \in set
  <2>1. gone = k \/ gone \in Elements(b.d)
    <3>1. n = 1 \/ (n > 1 /\ n - 1 \in DOMAIN b.d)
      BY <1>1, <1>3, LenProperties
    <3>2. n \in 1 .. Len(b.d) + 1 /\ (n < 1 \/ n = 1 \/ n > 1)
      BY <1>3
    <3>3. line[n] = IF n < 1 THEN b.d[n] ELSE IF n = 1 THEN k ELSE b.d[n - 1]
      BY <3>2 DEF line, InsertedAt
    <3> QED BY <1>3, <3>1, <3>3 DEF Elements
  <2> QED BY <1>1, <2>1
<1>6. \A x, y : /\ WithQueue(b, x, y) = FifoObject(x, y)
                /\ FifoObject(x, y).d = y /\ FifoObject(x, y).policy = "FIFO"
  <2> DEFINE s == b.set  d == b.d
  <2>1. b = FifoObject(s, d)
    BY <1>1
  <2> HIDE DEF s, d
  <2> QED BY <2>1, FifoAssigned
<1>7. o = IF Cardinality(set) =< MaxLen THEN << WithQueue(b, set, line), None >>
          ELSE << WithQueue(b, set \ {gone}, less), gone >>
  BY <1>2, <1>4, <1>5 DEF FifoPut, WithQueue
<1> HIDE DEF o, gone, less, set
<1>8. \/ o[1] = FifoObject(set, line) /\ o[2] = None
      \/ o[1] = FifoObject(set \ {gone}, less) /\ o[2] = gone
  BY <1>6, <1>7
<1>9. /\ o[1].policy = "FIFO"
      /\ \/ o[2] = None /\ o[1].d = line
         \/ o[2] = gone /\ o[1].d = less
  BY <1>6, <1>8
<1> QED BY <1>9 DEF o, gone, less, line

(* A put of FifoCache.                                                     *)
LEMMA FifoPutTurns ==
  ASSUME NEW b, NEW q, IsFifo(b), b.policy = "FIFO", Arranged(b, q), NEW k \in Item
  PROVE  \E p : Arranged(FifoPut(b, k, k \in b.set)[1], p) /\ Turn(q, p)
<1> DEFINE o == FifoPut(b, k, k \in b.set)
           c == o[1]
           line == InsertedAt(q, 1, k)
           n == Len(q) + 1
<1>1. q = b.d /\ Held(b) = b.set /\ Len(q) \in Nat
  BY ArrangedFacts DEF Arranged, Shaped, Held
<1>2. CASE k \in b.set
  <2>1. b = FifoObject(b.set, b.d) /\ b.set \cup {k} = b.set /\ Cardinality(b.set) =< MaxLen
    <3>1. Cardinality(b.set) = Len(q)
      BY <1>1, ArrangedFacts
    <3> QED BY <1>1, <1>2, <3>1 DEF IsFifo
  <2>2. o = << WithQueue(b, b.set, b.d), None >>
    BY <1>2, <2>1 DEF FifoPut, WithQueue
  <2>3. WithQueue(b, b.set, b.d) = b
    <3> DEFINE s == b.set  d == b.d
    <3>1. b = FifoObject(s, d)
      BY <2>1
    <3> HIDE DEF s, d
    <3>2. WithQueue(b, s, d) = b
      BY <3>1, FifoAssigned
    <3> QED BY <3>2 DEF s, d
  <2>4. c = b
    BY <2>2, <2>3
  <2> QED BY <2>4 DEF Turn
<1>3. CASE k \notin b.set
  <2>1. (k \in b.set) = FALSE
    BY <1>3
  <2>2. o = FifoPut(b, k, FALSE)
    BY <2>1
  <2>3. /\ c.policy = "FIFO"
        /\ \/ o[2] = None /\ c.d = line
           \/ o[2] = line[n] /\ c.d = RemovedAt(line, n)
    BY <1>1, <1>3, <2>2, FifoPutLines
  <2>4. IsFifo(c) /\ c.set = (b.set \cup {k}) \ {o[2]}
    <3>1. FALSE \in BOOLEAN /\ (FALSE <=> k \in b.set)
      BY <1>3
    <3>2. LET r == FifoPut(b, k, FALSE) IN IsFifo(r[1]) /\ r[1].set = (b.set \cup {k}) \ {r[2]}
      BY <3>1, FifoPutOutcome
    <3> HIDE DEF o
    <3> QED BY <2>2, <3>2
  <2> HIDE DEF o
  <2>5. Held(c) = (Held(b) \cup {k}) \ {o[2]} /\ Sound(c) /\ k \in Item \ Held(b)
    BY <1>1, <1>3, <2>3, <2>4 DEF Held, Sound
  <2>6. CASE o[2] = None /\ c.d = line
    <3>1. Shaped(c, line)
      BY <2>3, <2>6 DEF Shaped
    <3>2. Held(c) = Held(b) \cup {k}
      <4>1. \A x \in Held(b) : x \in Item
        BY ArrangedFacts DEF Arranged, Elements
      <4> QED BY <2>5, <2>6, <4>1, PolicyAssumption
    <3>3. 1 \in 1 .. Len(q) + 1
      BY <1>1
    <3> HIDE DEF c
    <3>4. \E p : Arranged(c, p) /\ Turn(q, p)
      BY <2>5, <3>1, <3>2, <3>3, InsertionTurns
    <3> QED BY <3>4 DEF c, o
  <2>7. CASE o[2] = line[n] /\ c.d = RemovedAt(line, n)
    <3>1. Shaped(c, RemovedAt(line, n))
      BY <2>3, <2>7 DEF Shaped
    <3>2. Held(c) = (Held(b) \cup {k}) \ {line[n]}
      BY <2>5, <2>7
    <3>3. 1 \in 1 .. Len(q) + 1
      BY <1>1
    <3> HIDE DEF c
    <3>4. \E p : Arranged(c, p) /\ Turn(q, p)
      BY <2>5, <3>1, <3>2, <3>3, EvictionTurns
    <3> QED BY <3>4 DEF c, o
  <2> QED BY <2>3, <2>6, <2>7
<1> QED BY <1>2, <1>3

(* A removal of FifoCache.                                                 *)
LEMMA FifoRemoveTurns ==
  ASSUME NEW b, NEW q, IsFifo(b), b.policy = "FIFO", Arranged(b, q), NEW k \in b.set
  PROVE  LET c == [b EXCEPT !.set = @ \ {k}, !.d = RemovedAt(@, FirstPlace(@, k))] IN
         \E p : Arranged(c, p) /\ Turn(q, p)
<1> DEFINE c == [b EXCEPT !.set = @ \ {k}, !.d = RemovedAt(@, FirstPlace(@, k))]
           i == FirstPlace(q, k)
<1>1. q = b.d /\ Held(b) = b.set /\ Len(q) \in Nat /\ DOMAIN q = 1 .. Len(q) /\ Distinct(q)
      /\ \E m \in 1 .. Len(q) : q[m] = k
  BY ArrangedFacts DEF Arranged, Shaped, Held
<1>2. i \in 1 .. Len(q) /\ q[i] = k
  <2>1. PICK j \in 1 .. Len(q) : q[j] = k
    BY <1>1
  <2>2. \A m \in 1 .. j - 1 : q[m] # k
    BY <1>1, <2>1 DEF Distinct
  <2>3. \E m \in DOMAIN q : q[m] = k /\ \A l \in 1 .. m - 1 : q[l] # k
    BY <1>1, <2>1, <2>2
  <2>4. i \in DOMAIN q /\ q[i] = k
    BY <2>3 DEF FirstPlace
  <2> QED BY <1>1, <2>4
<1>3. c = WithQueue(b, b.set \ {k}, RemovedAt(q, i))
  BY <1>1 DEF WithQueue
<1>4. c.set = b.set \ {k} /\ c.d = RemovedAt(q, i) /\ c.policy = "FIFO"
  <2> DEFINE s == b.set  d == b.d  r == RemovedAt(q, i)  t == s \ {k}
  <2>1. b = FifoObject(s, d)
    BY DEF IsFifo
  <2>2. c = WithQueue(b, t, r)
    BY <1>3
  <2> HIDE DEF c, s, d, r, t
  <2>3. c = FifoObject(t, r)
    BY <2>1, <2>2, FifoAssigned
  <2>4. c.set = t /\ c.d = r /\ c.policy = "FIFO"
    BY <2>3, FifoAssigned
  <2> QED BY <2>4 DEF s, r, t
<1> HIDE DEF c, i
<1>5. Held(c) = Held(b) \ {q[i]} /\ Shaped(c, RemovedAt(q, i))
  BY <1>1, <1>2, <1>4 DEF Held, Shaped
<1>6. \E p : Arranged(c, p) /\ Turn(q, p)
  BY <1>2, <1>5, RemovalTurns
<1> QED BY <1>6 DEF c

---------------------------------------------------------------------------
(* The line after a put, as a sequence.                                    *)
LEMMA LruPutLine ==
  ASSUME NEW b, IsLru(b), NEW q, Line(b.list, q, Item), Len(q) =< MaxLen, NEW k \in Item
  PROVE  \E p :
           /\ Line(LruPut(b, k)[1].list, p, Item)
           /\ \/ \E i \in 1 .. Len(q) : p = MovedTo(q, i, 1)
              \/ /\ k \notin Items(b.list)
                 /\ \/ Len(q) + 1 =< MaxLen /\ p = InsertedAt(q, 1, k)
                    \/ p = RemovedAt(InsertedAt(q, 1, k), Len(q) + 1)
<1> DEFINE s == b.list
           o == LruPut(b, k)
           top == AppendTop(s, k)
           line == InsertedAt(q, 1, k)
<1>1. /\ Cardinality(Items(s)) = Len(q)
      /\ \A j \in Items(s) : \E i \in 1 .. Len(q) : q[i] = j
  BY LineItems
<1>2. \A l : [b EXCEPT !.list = l] = [policy |-> "LRU", list |-> l]
  BY DEF IsLru
<1>3. None \notin Item /\ MaxLen \in Nat \ {0} /\ Len(q) \in Nat
  BY PolicyAssumption, LineFacts
<1>4. CASE k \in Items(s)
  <2>1. PICK i \in 1 .. Len(q) : q[i] = k
    BY <1>1, <1>4
  <2>2. Line(MoveToTop(s, k), MovedTo(q, i, 1), Item)
    BY <1>3, <2>1, MoveToTopKeepsLine
  <2>3. o = << [policy |-> "LRU", list |-> MoveToTop(s, k)], None >>
    BY <1>2, <1>4 DEF LruPut
  <2>4. o[1].list = MoveToTop(s, k)
    BY <2>3
  <2> QED BY <2>2, <2>4
<1>5. CASE k \notin Items(s)
  <2>1. Line(top, line, Item) /\ Len(line) = Len(q) + 1
    BY <1>3, <1>5, AppendTopKeepsLine
  <2>2. Cardinality(Items(top)) = Len(q) + 1
    BY <2>1, LineItems
  <2>3. CASE Len(q) + 1 =< MaxLen
    <3>1. ~(Cardinality(Items(top)) > MaxLen)
      BY <1>3, <2>2, <2>3
    <3>2. o = << [policy |-> "LRU", list |-> top], None >>
      BY <1>2, <1>5, <3>1 DEF LruPut
    <3>3. o[1].list = top
      BY <3>2
    <3> QED BY <1>5, <2>1, <2>3, <3>3
  <2>4. CASE Len(q) + 1 > MaxLen
    <3>1. Cardinality(Items(top)) > MaxLen
      BY <1>3, <2>2, <2>4
    <3>2. Line(PopBottom(top), RemovedAt(line, Len(line)), Item)
      BY <1>3, <1>5, PushAndPop
    <3>3. o = << [policy |-> "LRU", list |-> PopBottom(top)], top.bottom >>
      BY <1>2, <1>5, <3>1 DEF LruPut
    <3>4. o[1].list = PopBottom(top)
      BY <3>3
    <3> QED BY <1>5, <2>1, <3>2, <3>4
  <2> QED BY <1>3, <2>3, <2>4
<1> QED BY <1>4, <1>5

(* A line of the list is one of the cache.                                 *)
LEMMA LineArranged ==
  ASSUME NEW c, c.policy = "LRU", NEW p, Line(c.list, p, Item)
  PROVE  Arranged(c, p)
<1>1. p \in Seq(Item) /\ Distinct(p)
  BY DEF Line
<1>2. Elements(p) = Items(c.list)
  BY LineFacts, PolicyAssumption DEF Elements
<1>3. Shaped(c, p) /\ Held(c) = Items(c.list)
  BY DEF Shaped, Held
<1> QED BY <1>1, <1>2, <1>3 DEF Arranged

(* The calls of LruCache.                                                  *)
LEMMA LruPutTurns ==
  ASSUME NEW b, NEW q, IsLru(b), FitsInLine(b.list), b.policy = "LRU", Arranged(b, q), NEW k \in Item
  PROVE  \E p : Arranged(LruPut(b, k)[1], p) /\ Turn(q, p)
<1> DEFINE c == LruPut(b, k)[1]
           line == InsertedAt(q, 1, k)
<1>1. Line(b.list, q, Item) /\ Held(b) = Items(b.list)
  BY DEF Arranged, Shaped, Held
<1>2. Len(q) =< MaxLen /\ Len(q) \in Nat
  <2>1. PICK r : Line(b.list, r, Item) /\ Len(r) =< MaxLen
    BY DEF FitsInLine
  <2>2. Len(q) = Len(r)
    BY <1>1, <2>1, LineItems
  <2> QED BY <2>1, <2>2, ArrangedFacts
<1>3. PICK p :
        /\ Line(c.list, p, Item)
        /\ \/ \E i \in 1 .. Len(q) : p = MovedTo(q, i, 1)
           \/ /\ k \notin Items(b.list)
              /\ \/ Len(q) + 1 =< MaxLen /\ p = line
                 \/ p = RemovedAt(line, Len(q) + 1)
  BY <1>1, <1>2, LruPutLine
<1>4. c.policy = "LRU"
  <2>1. \A l : [b EXCEPT !.list = l].policy = "LRU"
    BY DEF IsLru
  <2> QED BY <2>1 DEF LruPut
<1>5. Len(line) = Len(q) + 1 /\ 1 \in 1 .. Len(q) + 1
  <2>1. q \in Seq(Item)
    BY DEF Arranged
  <2>2. Len(line) = Len(q) + 1
    BY <2>1, FrontIs
  <2>3. 1 \in 1 .. Len(q) + 1
    BY <1>2
  <2> QED BY <2>2, <2>3
<1> HIDE DEF c, line
<1>6. Arranged(c, p)
  BY <1>3, <1>4, LineArranged
<1>7. Turn(q, p)
  <2>1. CASE \E i \in 1 .. Len(q) : p = MovedTo(q, i, 1)
    <3>1. \A i \in 1 .. Len(q) : 1 \in 1 .. i
      BY <1>2
    <3> QED BY <2>1, <3>1 DEF Turn
  <2>2. CASE /\ k \notin Items(b.list)
             /\ \/ Len(q) + 1 =< MaxLen /\ p = line
                \/ p = RemovedAt(line, Len(q) + 1)
    <3>1. k \in Item \ Elements(q)
      BY <1>1, <2>2 DEF Arranged
    <3> QED BY <1>5, <2>2, <3>1 DEF Turn, line
  <2> QED BY <1>3, <2>1, <2>2
<1> QED BY <1>6, <1>7 DEF c

(* A hit moves the item to the front, a removal takes it out.              *)
LEMMA LruOtherTurns ==
  ASSUME NEW b, NEW q, b.policy = "LRU", Arranged(b, q), NEW k \in Items(b.list)
  PROVE  /\ \E p : Arranged([policy |-> "LRU", list |-> MoveToTop(b.list, k)], p) /\ Turn(q, p)
         /\ \E p : Arranged([policy |-> "LRU", list |-> Remove(b.list, k)], p) /\ Turn(q, p)
<1> DEFINE s == MoveToTop(b.list, k)
           r == Remove(b.list, k)
<1>1. Line(b.list, q, Item) /\ Held(b) = Items(b.list)
  BY DEF Arranged, Shaped, Held
<1>2. PICK i \in 1 .. Len(q) : q[i] = k
  BY <1>1, LineItems
<1>3. Line(s, MovedTo(q, i, 1), Item) /\ Line(r, RemovedAt(q, i), Item)
  BY <1>1, <1>2, MoveToTopKeepsLine, RemoveKeepsLine, PolicyAssumption
<1>4. 1 \in 1 .. i
  BY <1>2, ArrangedFacts
<1>5. Turn(q, MovedTo(q, i, 1)) /\ Turn(q, RemovedAt(q, i))
  BY <1>4 DEF Turn
<1> HIDE DEF s, r
<1>6. /\ Arranged([policy |-> "LRU", list |-> s], MovedTo(q, i, 1))
      /\ Arranged([policy |-> "LRU", list |-> r], RemovedAt(q, i))
  BY <1>3, LineArranged
<1> QED BY <1>5, <1>6 DEF s, r

(* No items, and an empty line.                                            *)
LEMMA NothingJoined ==
  ASSUME NEW g, \A n \in 1 .. Segments : Listing(g[n]) = <<>>
  PROVE  Joined(g) = <<>>
<1>1. PICK f : JoinsOf(g, f) /\ Joined(g) = f[Segments]
  BY JoinedSteps
<1> DEFINE some == {n \in 0 .. Segments : f[n] # <<>>}
<1>2. some = {}
  <2> SUFFICES ASSUME some # {} PROVE FALSE
    OBVIOUS
  <2>1. some \in SUBSET Nat
    OBVIOUS
  <2>2. PICK n \in some : \A m \in some : n =< m
    <3> HIDE DEF some
    <3> QED BY <2>1, LeastNumber
  <2>3. n # 0 /\ n \in 0 .. Segments
    BY <1>1, <2>2 DEF JoinsOf
  <2>4. n \in 1 .. Segments /\ n - 1 \in 0 .. Segments /\ n - 1 \notin some
    BY <2>2, <2>3, SegmentsHaveRoom
  <2>5. f[n - 1] = <<>> /\ f[n] = f[n - 1] \o Listing(g[n]) /\ Listing(g[n]) = <<>>
    BY <1>1, <2>4 DEF JoinsOf
  <2>6. f[n] = <<>> \o <<>>
    BY <2>5
  <2>7. <<>> \o <<>> = <<>>
    <3>1. <<>> \in Seq(Item)
      OBVIOUS
    <3> QED BY <3>1, ConcatEmptySeq
  <2> QED BY <2>2, <2>6, <2>7
<1>3. Segments \in 0 .. Segments
  BY SegmentsHaveRoom
<1> QED BY <1>1, <1>2, <1>3

(* A cache without items has the empty line.                               *)
LEMMA EmptyArranged ==
  ASSUME NEW b, Sound(b), Held(b) = {}, b.policy \in {"LRU", "SLRU", "LFU", "FIFO"}
  PROVE  Arranged(b, <<>>)
<1>1. <<>> \in Seq(Item) /\ Len(<<>>) = 0 /\ DOMAIN <<>> = {}
  OBVIOUS
<1>2. Distinct(<<>>) /\ Elements(<<>>) = {}
  BY <1>1 DEF Distinct, Elements
<1>3. CASE b.policy = "LRU"
  <2>1. PICK q : Line(b.list, q, Item)
    BY <1>3, SoundCases DEF FitsInLine
  <2>2. Items(b.list) = {}
    BY <1>3 DEF Held
  <2>3. Cardinality({}) = Len(q) /\ q \in Seq(Item)
    BY <2>1, <2>2, LineItems DEF Line
  <2>4. q = <<>>
    BY <2>3, FS_EmptySet, EmptySeq
  <2> QED BY <1>3, <2>1, <2>4, LineArranged
<1>4. CASE b.policy = "SLRU"
  <2>1. PICK Q : SlruLines(b, Q)
    BY <1>4, SoundCases DEF IsSlru
  <2>2. DOMAIN b.map = {}
    BY <1>4 DEF Held
  <2>3. ASSUME NEW n \in 1 .. Segments PROVE Listing(b.segment[n]) = <<>>
    <3>1. Items(b.segment[n]) = {}
      BY <2>1, <2>2 DEF SlruLines
    <3>2. Cardinality({}) = Len(Q[n]) /\ Q[n] \in Seq(Item)
      <4>1. Cardinality(Items(b.segment[n])) = Len(Q[n]) /\ Q[n] \in Seq(Item)
        BY <2>1, SlruFacts
      <4> QED BY <3>1, <4>1
    <3>3. Q[n] = <<>>
      BY <3>2, FS_EmptySet, EmptySeq
    <3> QED BY <2>1, <3>3, SlruListings
  <2>4. Joined(b.segment) = <<>>
    BY <2>3, NothingJoined
  <2> QED BY <1>1, <1>2, <1>4, <2>4 DEF Arranged, Shaped
<1>5. CASE b.policy = "LFU"
  <2>1. 1 .. Len(<<>>) = {}
    BY <1>1
  <2> QED BY <1>1, <1>2, <1>5, <2>1 DEF Arranged, Shaped
<1>6. CASE b.policy = "FIFO"
  <2>1. b.d \in Seq(Item) /\ Elements(b.d) = {}
    BY <1>6, SoundCases DEF IsFifo, Held
  <2>2. Len(b.d) = 0
    <3>1. DOMAIN b.d = {}
      BY <2>1 DEF Elements
    <3>2. Len(b.d) \in Nat /\ DOMAIN b.d = 1 .. Len(b.d)
      BY <2>1, LenProperties
    <3>3. Len(b.d) # 0 => 1 \in 1 .. Len(b.d)
      BY <3>2
    <3> QED BY <3>1, <3>2, <3>3
  <2>3. b.d = <<>>
    BY <2>1, <2>2, EmptySeq
  <2> QED BY <1>1, <1>2, <1>6, <2>3 DEF Arranged, Shaped
<1> QED BY <1>3, <1>4, <1>5, <1>6

---------------------------------------------------------------------------
(* Pairs of a frequency and a time are in line by Less.                    *)
LEMMA LessIs ==
  ASSUME NEW x \in Nat \X Nat, NEW y \in Nat \X Nat
  PROVE  /\ ~(Less(x, y) /\ Less(y, x))
         /\ x[2] # y[2] => Less(x, y) \/ Less(y, x)
         /\ \A z \in Nat \X Nat : Less(x, y) /\ Less(y, z) => Less(x, z)
<1>1. /\ x[1] \in Nat /\ x[2] \in Nat /\ y[1] \in Nat /\ y[2] \in Nat
      /\ \A z \in Nat \X Nat : z[1] \in Nat /\ z[2] \in Nat
  OBVIOUS
<1> QED BY <1>1 DEF Less

(* The counts c of the items of q are pairs, and in line.                  *)
Counts(c, q) == \A i \in 1 .. Len(q) : c[q[i]] \in Nat \X Nat

Sinking(c, q) == \A i, j \in 1 .. Len(q) : i < j => Less(c[q[j]], c[q[i]])

(* The place of a pair among them.                                         *)
PlaceOf(c, q, x, j) ==
  /\ j \in 1 .. Len(q) + 1
  /\ \A i \in 1 .. Len(q) : i < j => Less(x, c[q[i]])
  /\ \A i \in 1 .. Len(q) : i >= j => Less(c[q[i]], x)

(* There is one: before the first pair that is less.                       *)
LEMMA LfuPlace ==
  ASSUME NEW c, NEW q \in Seq(Item), Counts(c, q), Sinking(c, q), NEW x \in Nat \X Nat,
         \A i \in 1 .. Len(q) : c[q[i]][2] # x[2]
  PROVE  \E j : PlaceOf(c, q, x, j)
<1> DEFINE n == Len(q)
           T == {i \in 1 .. n + 1 : i = n + 1 \/ Less(c[q[i]], x)}
<1>1. n \in Nat /\ \A i \in 1 .. n : c[q[i]] \in Nat \X Nat
  BY LenProperties DEF Counts
<1>2. T \in SUBSET Nat /\ T # {}
  <2>1. n + 1 \in T
    BY <1>1
  <2>2. T \in SUBSET Nat
    BY <1>1
  <2> QED BY <2>1, <2>2
<1>3. PICK j \in T : \A i \in T : j =< i
  <2> HIDE DEF T
  <2> QED BY <1>2, LeastNumber
<1>4. ASSUME NEW i \in 1 .. n, i < j PROVE Less(x, c[q[i]])
  <2>1. ~Less(c[q[i]], x)
    <3>1. i \notin T
      BY <1>1, <1>3, <1>4
    <3> QED BY <1>1, <3>1
  <2>2. c[q[i]] \in Nat \X Nat /\ c[q[i]][2] # x[2]
    BY <1>1
  <2> DEFINE y == c[q[i]]
  <2> HIDE DEF y
  <2>3. ~Less(y, x) /\ y \in Nat \X Nat /\ y[2] # x[2]
    BY <2>1, <2>2 DEF y
  <2>4. Less(x, y)
    BY <2>3, LessIs
  <2> QED BY <2>4 DEF y
<1>5. ASSUME NEW i \in 1 .. n, i >= j PROVE Less(c[q[i]], x)
  <2>1. j \in 1 .. n /\ Less(c[q[j]], x)
    BY <1>1, <1>3, <1>5
  <2>2. CASE i = j
    BY <2>1, <2>2
  <2>3. CASE i > j
    <3>1. Less(c[q[i]], c[q[j]])
      BY <1>1, <2>1, <2>3 DEF Sinking
    <3>2. c[q[i]] \in Nat \X Nat /\ c[q[j]] \in Nat \X Nat
      BY <1>1, <2>1
    <3> DEFINE y == c[q[i]]  z == c[q[j]]
    <3> HIDE DEF y, z
    <3>3. Less(y, z) /\ Less(z, x) /\ y \in Nat \X Nat /\ z \in Nat \X Nat
      BY <2>1, <3>1, <3>2 DEF y, z
    <3>4. Less(y, x)
      BY <3>3, LessIs
    <3> QED BY <3>4 DEF y
  <2> QED BY <1>5, <2>1, <2>2, <2>3
<1>6. j \in 1 .. n + 1
  BY <1>3
<1> QED BY <1>4, <1>5, <1>6 DEF PlaceOf

(* The line with the item, and without one.                                *)
LEMMA SinkingWith ==
  ASSUME NEW c, NEW q \in Seq(Item), Counts(c, q), Sinking(c, q), NEW d, NEW k \in Item,
         d[k] \in Nat \X Nat, \A i \in 1 .. Len(q) : d[q[i]] = c[q[i]],
         NEW j, PlaceOf(c, q, d[k], j)
  PROVE  Sinking(d, InsertedAt(q, j, k)) /\ Counts(d, InsertedAt(q, j, k))
<1> DEFINE line == InsertedAt(q, j, k)
           n == Len(q)
<1>1. j \in 1 .. n + 1 /\ n \in Nat
  BY LenProperties DEF PlaceOf
<1>2. Opened(q, j, k, line)
  BY <1>1, InsertedPlaces
<1> HIDE DEF line
<1>3. /\ Len(line) = n + 1 /\ line[j] = k
      /\ \A i \in 1 .. n + 1 : i < j => line[i] = q[i]
      /\ \A i \in 1 .. n + 1 : i > j => line[i] = q[i - 1]
  BY <1>2 DEF Opened
<1>4. \A i \in 1 .. n + 1 :
        \/ i = j
        \/ i < j /\ i \in 1 .. n
        \/ i > j /\ i - 1 \in 1 .. n /\ i - 1 >= j
  BY <1>1
<1>5. \A i \in 1 .. n + 1 :
        /\ i < j => i \in 1 .. n /\ d[line[i]] = c[q[i]]
        /\ i > j => i - 1 \in 1 .. n /\ d[line[i]] = c[q[i - 1]]
  <2>1. ASSUME NEW i \in 1 .. n + 1, i < j PROVE i \in 1 .. n /\ d[line[i]] = c[q[i]]
    <3>1. i \in 1 .. n
      BY <1>1, <2>1
    <3>2. line[i] = q[i]
      BY <1>3, <2>1
    <3>3. d[q[i]] = c[q[i]]
      BY <3>1
    <3> QED BY <3>1, <3>2, <3>3
  <2>2. ASSUME NEW i \in 1 .. n + 1, i > j PROVE i - 1 \in 1 .. n /\ d[line[i]] = c[q[i - 1]]
    <3>1. i - 1 \in 1 .. n
      BY <1>1, <2>2
    <3>2. line[i] = q[i - 1]
      BY <1>3, <2>2
    <3>3. d[q[i - 1]] = c[q[i - 1]]
      BY <3>1
    <3> QED BY <3>1, <3>2, <3>3
  <2> QED BY <2>1, <2>2
<1>6. ASSUME NEW i \in 1 .. n + 1, NEW l \in 1 .. n + 1, i < l
      PROVE  Less(d[line[l]], d[line[i]])
  <2>1. CASE l < j
    <3>1. i < j /\ i \in 1 .. n /\ l \in 1 .. n
      BY <1>1, <1>6, <2>1
    <3>2. Less(c[q[l]], c[q[i]])
      BY <1>6, <3>1 DEF Sinking
    <3> QED BY <1>5, <2>1, <3>1, <3>2
  <2>2. CASE l = j
    <3>1. i < j /\ i \in 1 .. n
      BY <1>1, <1>6, <2>2
    <3>2. Less(d[k], c[q[i]])
      BY <3>1 DEF PlaceOf
    <3> QED BY <1>3, <1>5, <2>2, <3>1, <3>2
  <2>3. CASE i = j
    <3>1. l > j /\ l - 1 \in 1 .. n /\ l - 1 >= j
      BY <1>1, <1>6, <2>3
    <3>2. Less(c[q[l - 1]], d[k])
      BY <3>1 DEF PlaceOf
    <3> QED BY <1>3, <1>5, <2>3, <3>1, <3>2
  <2>4. CASE i < j /\ l > j
    <3>1. i \in 1 .. n /\ l - 1 \in 1 .. n /\ i < l - 1
      BY <1>1, <2>4
    <3>2. Less(c[q[l - 1]], c[q[i]])
      BY <3>1 DEF Sinking
    <3> QED BY <1>5, <2>4, <3>2
  <2>5. CASE i > j
    <3>1. l > j /\ i - 1 \in 1 .. n /\ l - 1 \in 1 .. n /\ i - 1 < l - 1
      BY <1>1, <1>6, <2>5
    <3>2. Less(c[q[l - 1]], c[q[i - 1]])
      BY <3>1 DEF Sinking
    <3> QED BY <1>5, <2>5, <3>1, <3>2
  <2> QED BY <1>1, <1>6, <2>1, <2>2, <2>3, <2>4, <2>5
<1>7. ASSUME NEW i \in 1 .. n + 1 PROVE d[line[i]] \in Nat \X Nat
  BY <1>3, <1>4, <1>5 DEF Counts
<1> QED BY <1>3, <1>6, <1>7 DEF Sinking, Counts, line

(* A line without one of its items sinks, too.                             *)
LEMMA SinkingWithout ==
  ASSUME NEW c, NEW q \in Seq(Item), Counts(c, q), Sinking(c, q), NEW i \in 1 .. Len(q),
         NEW d, \A l \in (1 .. Len(q)) \ {i} : d[q[l]] = c[q[l]]
  PROVE  Sinking(d, RemovedAt(q, i)) /\ Counts(d, RemovedAt(q, i))
<1> DEFINE r == RemovedAt(q, i)
           n == Len(q)
           at(m) == IF m < i THEN m ELSE m + 1
<1>1. n \in Nat
  BY LenProperties
<1>2. Len(r) = n - 1 /\ \A m \in 1 .. n - 1 : r[m] = IF m < i THEN q[m] ELSE q[m + 1]
  BY RemovedPlaces
<1> HIDE DEF r
<1>3. \A m \in 1 .. n - 1 : at(m) \in (1 .. n) \ {i} /\ r[m] = q[at(m)]
  BY <1>1, <1>2
<1>4. \A m, l \in 1 .. n - 1 : m < l => at(m) < at(l)
  BY <1>1
<1> HIDE DEF at
<1>5. ASSUME NEW m \in 1 .. n - 1, NEW l \in 1 .. n - 1, m < l PROVE Less(d[r[l]], d[r[m]])
  <2>1. at(m) \in 1 .. n /\ at(l) \in 1 .. n /\ at(m) < at(l)
    BY <1>3, <1>4, <1>5
  <2>2. Less(c[q[at(l)]], c[q[at(m)]])
    BY <2>1 DEF Sinking
  <2>3. d[r[l]] = c[q[at(l)]] /\ d[r[m]] = c[q[at(m)]]
    BY <1>3
  <2> QED BY <2>2, <2>3
<1>6. ASSUME NEW m \in 1 .. n - 1 PROVE d[r[m]] \in Nat \X Nat
  <2>1. d[r[m]] = c[q[at(m)]] /\ at(m) \in 1 .. n
    BY <1>3
  <2> QED BY <2>1 DEF Counts
<1> QED BY <1>2, <1>5, <1>6 DEF Sinking, Counts, r

---------------------------------------------------------------------------
(* What CHOOSE finds as the least pair stands last.                        *)
LEMMA LastIsLeast ==
  ASSUME NEW c, NEW q \in Seq(Item), Counts(c, q), Sinking(c, q), Distinct(q),
         Elements(q) = DOMAIN c, Len(q) > 0
  PROVE  (CHOOSE x \in DOMAIN c : \A y \in DOMAIN c \ {x} : Less(c[x], c[y])) = q[Len(q)]
<1> DEFINE n == Len(q)
           e == CHOOSE x \in DOMAIN c : \A y \in DOMAIN c \ {x} : Less(c[x], c[y])
           z == q[n]
<1>1. n \in 1 .. n /\ n \in Nat /\ DOMAIN q = 1 .. n
  BY LenProperties
<1>2. z \in DOMAIN c /\ \A y \in DOMAIN c : \E i \in 1 .. n : y = q[i]
  BY <1>1 DEF Elements
<1>3. \A y \in DOMAIN c : c[y] \in Nat \X Nat
  BY <1>2 DEF Counts
<1>4. ASSUME NEW y \in DOMAIN c \ {z} PROVE Less(c[z], c[y])
  <2>1. PICK i \in 1 .. n : y = q[i]
    BY <1>2
  <2>2. i < n
    BY <1>1, <1>4, <2>1
  <2> QED BY <1>1, <2>1, <2>2 DEF Sinking
<1>5. e \in DOMAIN c /\ \A y \in DOMAIN c \ {e} : Less(c[e], c[y])
  BY <1>2, <1>4
<1> HIDE DEF e, z
<1>6. CASE e # z
  <2>1. Less(c[e], c[z]) /\ Less(c[z], c[e])
    BY <1>2, <1>4, <1>5, <1>6
  <2> DEFINE x == c[e]  y == c[z]
  <2>2. x \in Nat \X Nat /\ y \in Nat \X Nat /\ Less(x, y) /\ Less(y, x)
    BY <1>2, <1>3, <1>5, <2>1
  <2> HIDE DEF x, y
  <2> QED BY <2>2, LessIs
<1> QED BY <1>6 DEF e, z

(* There is one line of the items in which their counts sink: what         *)
(* Descending finds.                                                       *)
LEMMA OneDescent ==
  ASSUME NEW c, NEW p \in Seq(Item), NEW q \in Seq(Item), Counts(c, p), Counts(c, q),
         Sinking(c, p), Sinking(c, q), Elements(p) = Elements(q), Len(p) = Len(q)
  PROVE  p = q
<1> DEFINE n == Len(q)
           T == {m \in 1 .. n : p[m] # q[m]}
<1>1. /\ n \in Nat /\ DOMAIN p = 1 .. n /\ DOMAIN q = 1 .. n
      /\ p = [i \in 1 .. n |-> p[i]] /\ q = [i \in 1 .. n |-> q[i]]
  BY LenProperties
<1>2. /\ \A i \in 1 .. n : \E j \in 1 .. n : p[i] = q[j]
      /\ \A i \in 1 .. n : \E j \in 1 .. n : q[i] = p[j]
  <2>1. /\ \A i \in 1 .. n : p[i] \in Elements(p) /\ q[i] \in Elements(q)
        /\ \A x \in Elements(p) : \E j \in 1 .. n : x = p[j]
        /\ \A x \in Elements(q) : \E j \in 1 .. n : x = q[j]
    BY <1>1 DEF Elements
  <2> QED BY <2>1
<1>3. /\ \A i, j \in 1 .. n : i < j => Less(c[p[j]], c[p[i]])
      /\ \A i, j \in 1 .. n : i < j => Less(c[q[j]], c[q[i]])
      /\ \A i \in 1 .. n : c[p[i]] \in Nat \X Nat /\ c[q[i]] \in Nat \X Nat
  BY DEF Sinking, Counts
<1>4. \A i, j \in 1 .. n :
        /\ i < j => p[i] # p[j]
        /\ i < j => q[i] # q[j]
  <2> SUFFICES ASSUME NEW i \in 1 .. n, NEW j \in 1 .. n, i < j PROVE p[i] # p[j] /\ q[i] # q[j]
    OBVIOUS
  <2>1. \A x \in Nat \X Nat : ~Less(x, x)
    BY LessIs
  <2> QED BY <1>3, <2>1
<1>5. T = {}
  <2> SUFFICES ASSUME T # {} PROVE FALSE
    OBVIOUS
  <2>1. T \in SUBSET Nat
    BY <1>1
  <2>2. PICK m \in T : \A i \in T : m =< i
    <3> HIDE DEF T
    <3> QED BY <2>1, LeastNumber
  <2>3. m \in 1 .. n /\ p[m] # q[m] /\ \A i \in 1 .. n : i < m => p[i] = q[i]
    BY <1>1, <2>2
  <2>4. PICK l \in 1 .. n : p[m] = q[l]
    BY <1>2, <2>3
  <2>5. PICK h \in 1 .. n : q[m] = p[h]
    BY <1>2, <2>3
  <2>6. l > m
    <3>1. ~(l < m)
      BY <1>4, <2>3, <2>4
    <3> QED BY <1>1, <2>3, <2>4, <3>1
  <2>7. h > m
    <3>1. ~(h < m)
      BY <1>4, <2>3, <2>5
    <3> QED BY <1>1, <2>3, <2>5, <3>1
  <2> DEFINE x == c[p[m]]  y == c[q[m]]
  <2>8. Less(x, y) /\ Less(y, x) /\ x \in Nat \X Nat /\ y \in Nat \X Nat
    BY <1>3, <2>3, <2>4, <2>5, <2>6, <2>7
  <2> HIDE DEF x, y
  <2> QED BY <2>8, LessIs
<1>6. \A i \in 1 .. n : p[i] = q[i]
  BY <1>5
<1> QED BY <1>1, <1>6, SameSequence

(* Descending finds it.                                                    *)
LEMMA DescendingIs ==
  ASSUME NEW c, NEW q \in Seq(Item), Counts(c, q), Sinking(c, q), Distinct(q), Elements(q) = DOMAIN c
  PROVE  Descending(c) = q
<1> DEFINE D == DOMAIN c
           Q == [1 .. Cardinality(D) -> D]
           Sinks(p) == \A i, j \in DOMAIN p : i < j => Less(c[p[j]], c[p[i]])
           r == CHOOSE p \in Q : Sinks(p)
<1>1. /\ Cardinality(D) = Len(q) /\ IsFiniteSet(D) /\ Len(q) \in Nat /\ DOMAIN q = 1 .. Len(q)
      /\ q = [i \in 1 .. Len(q) |-> q[i]] /\ \A i \in 1 .. Len(q) : q[i] \in D /\ q[i] \in Item
  <2>1. Len(q) \in Nat /\ DOMAIN q = 1 .. Len(q) /\ \A i \in 1 .. Len(q) : q[i] \in Item
    BY LenProperties, ElementOfSeq
  <2>2. Cardinality(D) = Len(q) /\ IsFiniteSet(D)
    BY DistinctCardinality
  <2>3. q = [i \in 1 .. Len(q) |-> q[i]]
    BY LenProperties
  <2> QED BY <2>1, <2>2, <2>3 DEF Elements
<1>2. q \in Q /\ Sinks(q)
  BY <1>1 DEF Sinking
<1>3. r \in Q /\ Sinks(r)
  <2> HIDE DEF Q, Sinks
  <2> QED BY <1>2
<1>4. \A k \in D : k \in Item /\ c[k] \in Nat \X Nat
  BY <1>1 DEF Counts, Elements
<1>5. Descending(c) = r
  BY DEF Descending
<1> HIDE DEF r
<1>6. DOMAIN r = 1 .. Len(q) /\ \A i \in 1 .. Len(q) : r[i] \in D
  BY <1>1, <1>3
<1>7. r \in Seq(Item) /\ Len(r) = Len(q)
  <2>1. r \in [1 .. Len(q) -> Item]
    BY <1>1, <1>3, <1>4
  <2> QED BY <1>1, <2>1, SeqDef, LenProperties
<1>8. Sinking(c, r) /\ Counts(c, r)
  BY <1>3, <1>4, <1>6, <1>7 DEF Sinking, Counts
<1>9. Elements(r) = D
  <2>1. Distinct(r)
    <3>1. \A x \in Nat \X Nat : ~Less(x, x)
      BY LessIs
    <3>2. ASSUME NEW i \in 1 .. Len(q), NEW j \in 1 .. Len(q), i < j PROVE r[i] # r[j]
      BY <1>3, <1>4, <1>6, <3>1, <3>2
    <3> QED BY <1>1, <1>6, <3>2 DEF Distinct
  <2>2. Elements(r) \in SUBSET D
    BY <1>6 DEF Elements
  <2>3. Cardinality(Elements(r)) = Len(r)
    BY <1>7, <2>1, DistinctCardinality
  <2> HIDE DEF D
  <2> QED BY <1>1, <1>7, <2>2, <2>3, FS_Subset
<1>10. r = q
  BY <1>7, <1>8, <1>9, OneDescent
<1> QED BY <1>5, <1>10

---------------------------------------------------------------------------
(* The counts of LfuCache, along its line.                                 *)
LEMMA LfuLine ==
  ASSUME NEW b, NEW q, IsLfu(b), b.policy = "LFU", Arranged(b, q)
  PROVE  /\ Counts(b.count, q) /\ Sinking(b.count, q) /\ Held(b) = DOMAIN b.count
         /\ q \in Seq(Item) /\ Distinct(q) /\ Elements(q) = DOMAIN b.count
         /\ \A i \in 1 .. Len(q) : q[i] \in DOMAIN b.count
         /\ b.t \in Nat
         /\ \A k \in DOMAIN b.count : b.count[k] \in (Nat \ {0}) \X (1 .. b.t)
<1>1. Held(b) = DOMAIN b.count /\ q \in Seq(Item) /\ Distinct(q) /\ Elements(q) = Held(b)
  BY DEF Arranged, Held
<1>2. Sinking(b.count, q)
  BY DEF Arranged, Shaped, Sinking
<1>3. \A i \in 1 .. Len(q) : q[i] \in DOMAIN b.count
  BY <1>1, ArrangedFacts
<1>4. b.t \in Nat /\ \A k \in DOMAIN b.count : b.count[k] \in (Nat \ {0}) \X (1 .. b.t)
  BY DEF IsLfu
<1>5. Counts(b.count, q)
  BY <1>3, <1>4 DEF Counts
<1> QED BY <1>1, <1>2, <1>3, <1>4, <1>5

(* The counts after a put of a new item.                                   *)
LEMMA LfuPutLines ==
  ASSUME NEW b, IsLfu(b), NEW k \in Item
  PROVE  LET o == LfuPut(b, k)
             c == Put1(b.count, k, <<1, b.t + 1>>)
             x == CHOOSE x \in DOMAIN c : \A y \in DOMAIN c \ {x} : Less(c[x], c[y])
         IN  /\ o[1].policy = "LFU"
             /\ \/ o[2] = None /\ o[1].count = c
                \/ o[2] = x /\ o[1].count = Drop(c, x)
<1> DEFINE o == LfuPut(b, k)
           c == Put1(b.count, k, <<1, b.t + 1>>)
           x == CHOOSE x \in DOMAIN c : \A y \in DOMAIN c \ {x} : Less(c[x], c[y])
           e == Drop(c, x)
<1>1. \A u : Counted(b, u).count = u /\ Counted(b, u).policy = "LFU"
  <2> DEFINE n == b.count  t == b.t
  <2>1. b = LfuObject(n, t)
    BY DEF IsLfu
  <2> HIDE DEF n, t
  <2>2. \A u : Counted(b, u) = LfuObject(u, t + 1)
    BY <2>1, LfuAssigned
  <2>3. \A u : LfuObject(u, t + 1).count = u /\ LfuObject(u, t + 1).policy = "LFU"
    BY LfuAssigned
  <2> QED BY <2>2, <2>3
<1>2. o = IF Cardinality(DOMAIN c) > MaxLen THEN << Counted(b, e), x >> ELSE << Counted(b, c), None >>
  BY DEF LfuPut, Counted
<1> HIDE DEF o, e, x, c
<1>3. \/ o[1] = Counted(b, e) /\ o[2] = x
      \/ o[1] = Counted(b, c) /\ o[2] = None
  BY <1>2
<1>4. /\ o[1].policy = "LFU"
      /\ \/ o[2] = None /\ o[1].count = c
         \/ o[2] = x /\ o[1].count = e
  BY <1>1, <1>3
<1> QED BY <1>4 DEF o, e, x, c

(* A put of a new item: it sinks to the place of its count.                *)
LEMMA LfuPutTurns ==
  ASSUME NEW b, NEW q, IsLfu(b), b.policy = "LFU", Arranged(b, q), NEW k \in Item \ DOMAIN b.count
  PROVE  \E p : Arranged(LfuPut(b, k)[1], p) /\ Turn(q, p)
<1> DEFINE o == LfuPut(b, k)
           c == Put1(b.count, k, <<1, b.t + 1>>)
           x == CHOOSE x \in DOMAIN c : \A y \in DOMAIN c \ {x} : Less(c[x], c[y])
           pair == <<1, b.t + 1>>
           n == Len(q) + 1
           d == o[1]
<1>1. /\ Counts(b.count, q) /\ Sinking(b.count, q) /\ Held(b) = DOMAIN b.count
      /\ q \in Seq(Item) /\ Distinct(q) /\ Elements(q) = DOMAIN b.count
      /\ \A i \in 1 .. Len(q) : q[i] \in DOMAIN b.count
      /\ b.t \in Nat /\ Len(q) \in Nat
      /\ \A l \in DOMAIN b.count : b.count[l] \in (Nat \ {0}) \X (1 .. b.t)
  BY LfuLine, ArrangedFacts
<1>2. /\ d.policy = "LFU"
      /\ \/ o[2] = None /\ d.count = c
         \/ o[2] = x /\ d.count = Drop(c, x)
  BY LfuPutLines
<1>3. IsLfu(d) /\ DOMAIN d.count = (DOMAIN b.count \cup {k}) \ {o[2]}
  BY LfuPutOutcome
<1> HIDE DEF o
<1>4. Held(d) = (Held(b) \cup {k}) \ {o[2]} /\ Sound(d) /\ k \in Item \ Held(b)
  BY <1>1, <1>2, <1>3 DEF Held, Sound
<1>5. /\ DOMAIN c = DOMAIN b.count \cup {k} /\ c[k] = pair
      /\ \A l \in DOMAIN b.count : c[l] = b.count[l]
  BY DEF Put1
<1> HIDE DEF c
<1>6. pair \in Nat \X Nat /\ \A i \in 1 .. Len(q) : b.count[q[i]][2] # pair[2]
  <2>1. pair \in Nat \X Nat /\ pair[2] = b.t + 1
    BY <1>1
  <2>2. ASSUME NEW i \in 1 .. Len(q) PROVE b.count[q[i]][2] \in 1 .. b.t
    <3>1. b.count[q[i]] \in (Nat \ {0}) \X (1 .. b.t)
      BY <1>1
    <3> QED BY <3>1
  <2> HIDE DEF pair
  <2>3. b.t + 1 \notin 1 .. b.t
    BY <1>1
  <2> QED BY <2>1, <2>2, <2>3
<1> HIDE DEF pair
<1>7. PICK j : PlaceOf(b.count, q, pair, j)
  BY <1>1, <1>6, LfuPlace
<1> DEFINE line == InsertedAt(q, j, k)
<1>8. j \in 1 .. n
  BY <1>7 DEF PlaceOf
<1>9. Sinking(c, line) /\ Counts(c, line)
  <2>1. /\ c[k] \in Nat \X Nat /\ PlaceOf(b.count, q, c[k], j)
        /\ \A i \in 1 .. Len(q) : c[q[i]] = b.count[q[i]]
    BY <1>1, <1>5, <1>6, <1>7
  <2> QED BY <1>1, <2>1, SinkingWith
<1>10. /\ line \in Seq(Item) /\ Distinct(line) /\ Elements(line) = DOMAIN c
       /\ Len(line) = n
  <2>1. k \in Item \ Elements(q)
    BY <1>1
  <2>2. /\ line \in Seq(Item) /\ Distinct(line) /\ Elements(line) = Elements(q) \cup {k}
        /\ Len(line) = n
    BY <1>1, <1>8, <2>1, WithPlace
  <2> QED BY <1>1, <1>5, <2>2
<1>11. CASE o[2] = None /\ d.count = c
  <2>1. Held(d) = Held(b) \cup {k}
    <3>1. \A l \in Held(b) : l \in Item
      BY <1>1, LenProperties, ElementOfSeq DEF Elements
    <3> QED BY <1>4, <1>11, <3>1, PolicyAssumption
  <2>2. Shaped(d, line)
    BY <1>2, <1>9, <1>11 DEF Shaped, Sinking
  <2> HIDE DEF d
  <2>3. \E p : Arranged(d, p) /\ Turn(q, p)
    BY <1>4, <1>8, <2>1, <2>2, InsertionTurns
  <2> QED BY <2>3 DEF d, o
<1>12. CASE o[2] = x /\ d.count = Drop(c, x)
  <2> HIDE DEF line
  <2>1. n > 0 /\ n \in 1 .. Len(line)
    BY <1>1, <1>10
  <2>2. x = line[n]
    BY <1>9, <1>10, <2>1, LastIsLeast
  <2>3. \A l \in (1 .. Len(line)) \ {n} : d.count[line[l]] = c[line[l]]
    <3> SUFFICES ASSUME NEW l \in (1 .. Len(line)) \ {n} PROVE d.count[line[l]] = c[line[l]]
      OBVIOUS
    <3>1. line[l] # line[n] /\ line[l] \in DOMAIN c
      BY <1>10, <2>1, LenProperties DEF Distinct, Elements
    <3> HIDE DEF x
    <3> QED BY <1>12, <2>2, <3>1 DEF Drop
  <2>4. Sinking(d.count, RemovedAt(line, n))
    <3> HIDE DEF d
    <3> QED BY <1>9, <1>10, <2>1, <2>3, SinkingWithout
  <2>5. Shaped(d, RemovedAt(line, n))
    BY <1>2, <2>4 DEF Shaped, Sinking
  <2>6. Held(d) = (Held(b) \cup {k}) \ {line[n]}
    BY <1>4, <1>12, <2>2
  <2> HIDE DEF d
  <2>7. \E p : Arranged(d, p) /\ Turn(q, p)
    BY <1>4, <1>8, <2>5, <2>6, EvictionTurns DEF line
  <2> QED BY <2>7 DEF d, o
<1> QED BY <1>2, <1>11, <1>12

---------------------------------------------------------------------------
(* The counts after a hit and after a removal.                             *)
LfuCounted(b, k) == [b EXCEPT !.count[k][1] = @ + 1]

LfuTaken(b, k) == [b EXCEPT !.count = Drop(@, k)]

(* Only the count of the one item changes.                                 *)
LEMMA LfuOtherLines ==
  ASSUME NEW b, IsLfu(b), NEW k \in DOMAIN b.count
  PROVE  LET g == LfuCounted(b, k)
             r == LfuTaken(b, k)
         IN  /\ g.policy = "LFU" /\ DOMAIN g.count = DOMAIN b.count
             /\ g.count[k] = << b.count[k][1] + 1, b.count[k][2] >>
             /\ \A l \in DOMAIN b.count \ {k} : g.count[l] = b.count[l]
             /\ r.policy = "LFU" /\ DOMAIN r.count = DOMAIN b.count \ {k}
             /\ \A l \in DOMAIN b.count \ {k} : r.count[l] = b.count[l]
<1> DEFINE c == [b.count EXCEPT ![k][1] = @ + 1]
           d == Drop(b.count, k)
           g == LfuCounted(b, k)
           r == LfuTaken(b, k)
<1>1. g = WithCount(b, c) /\ r = WithCount(b, d)
  BY DEF WithCount, LfuCounted, LfuTaken
<1>2. /\ DOMAIN c = DOMAIN b.count /\ c[k] = << b.count[k][1] + 1, b.count[k][2] >>
      /\ \A l \in DOMAIN b.count \ {k} : c[l] = b.count[l]
  <2>1. b.count[k] \in (Nat \ {0}) \X (1 .. b.t)
    BY DEF IsLfu
  <2>2. [b.count[k] EXCEPT ![1] = @ + 1] = << b.count[k][1] + 1, b.count[k][2] >>
    BY <2>1
  <2> QED BY <2>2
<1>3. DOMAIN d = DOMAIN b.count \ {k} /\ \A l \in DOMAIN b.count \ {k} : d[l] = b.count[l]
  BY DEF Drop
<1>4. \A u : WithCount(b, u).count = u /\ WithCount(b, u).policy = "LFU"
  <2> DEFINE n == b.count  t == b.t
  <2>1. b = LfuObject(n, t)
    BY DEF IsLfu
  <2> HIDE DEF n, t
  <2>2. \A u : WithCount(b, u) = LfuObject(u, t)
    BY <2>1, LfuAssigned
  <2>3. \A u : LfuObject(u, t).count = u /\ LfuObject(u, t).policy = "LFU"
    BY LfuAssigned
  <2> QED BY <2>2, <2>3
<1> HIDE DEF c, d, g, r
<1>5. g.count = c /\ r.count = d /\ g.policy = "LFU" /\ r.policy = "LFU"
  BY <1>1, <1>4
<1> QED BY <1>2, <1>3, <1>5 DEF g, r

(* A hit: the item rises past those whose count it exceeds now.            *)
LEMMA LfuHitTurns ==
  ASSUME NEW b, NEW q, IsLfu(b), b.policy = "LFU", Arranged(b, q), NEW k \in DOMAIN b.count
  PROVE  \E p : Arranged(LfuCounted(b, k), p) /\ Turn(q, p)
<1> DEFINE g == LfuCounted(b, k)
           c == b.count
           x == << c[k][1] + 1, c[k][2] >>
<1>1. /\ Counts(c, q) /\ Sinking(c, q) /\ Held(b) = DOMAIN c
      /\ q \in Seq(Item) /\ Distinct(q) /\ Elements(q) = DOMAIN c
      /\ \A i \in 1 .. Len(q) : q[i] \in DOMAIN c
      /\ Len(q) \in Nat /\ DOMAIN q = 1 .. Len(q)
      /\ \E i \in 1 .. Len(q) : q[i] = k
  BY LfuLine, ArrangedFacts
<1>2. /\ g.policy = "LFU" /\ DOMAIN g.count = DOMAIN c /\ g.count[k] = x
      /\ \A l \in DOMAIN c \ {k} : g.count[l] = c[l]
  BY LfuOtherLines
<1>3. /\ \A l \in DOMAIN c : c[l] \in Nat \X Nat
      /\ \A l \in DOMAIN c \ {k} : c[l][2] # c[k][2]
  BY LfuLine DEF IsLfu
<1>4. PICK i \in 1 .. Len(q) : q[i] = k
  BY <1>1
<1> DEFINE r == RemovedAt(q, i)
<1>5. /\ r \in Seq(Item) /\ Len(r) = Len(q) - 1
      /\ \A m \in 1 .. Len(q) - 1 : r[m] = IF m < i THEN q[m] ELSE q[m + 1]
  BY <1>1, RemovedPlaces
<1>6. Sinking(c, r) /\ Counts(c, r)
  <2>1. \A l \in (1 .. Len(q)) \ {i} : c[q[l]] = c[q[l]]
    OBVIOUS
  <2> HIDE DEF c
  <2> QED BY <1>1, <2>1, SinkingWithout
<1>7. \A m \in 1 .. Len(r) : r[m] \in DOMAIN c \ {k}
  <2>1. Distinct(q) /\ Elements(r) = Elements(q) \ {k}
    BY <1>1, <1>4, WithoutPlace
  <2>2. \A m \in 1 .. Len(r) : r[m] \in Elements(r)
    BY <1>5, LenProperties DEF Elements
  <2> QED BY <1>1, <2>1, <2>2
<1> HIDE DEF g, r
<1>8. x \in Nat \X Nat /\ x[2] = c[k][2] /\ c[k] \in Nat \X Nat /\ Less(c[k], x)
  <2>1. c[k] \in Nat \X Nat
    BY <1>3
  <2> QED BY <2>1 DEF Less
<1> HIDE DEF c
<1>9. \A m \in 1 .. Len(r) : c[r[m]][2] # x[2]
  BY <1>3, <1>7, <1>8
<1> HIDE DEF x
<1>10. PICK j : PlaceOf(c, r, x, j)
  BY <1>5, <1>6, <1>8, <1>9, LfuPlace
<1>11. j \in 1 .. i
  <2>1. j \in 1 .. Len(q)
    BY <1>1, <1>5, <1>10 DEF PlaceOf
  <2> SUFFICES ASSUME i < j PROVE FALSE
    BY <1>1, <2>1
  <2>2. i \in 1 .. Len(r) /\ i + 1 \in 1 .. Len(q) /\ i < i + 1 /\ r[i] = q[i + 1]
    BY <1>1, <1>5, <2>1
  <2>3. Less(x, c[r[i]])
    BY <1>10, <2>2 DEF PlaceOf
  <2>4. Less(c[q[i + 1]], c[k])
    BY <1>1, <1>4, <2>2 DEF Sinking
  <2> DEFINE y == c[r[i]]  z == c[k]
  <2>5. /\ Less(x, y) /\ Less(y, z) /\ Less(z, x)
        /\ y \in Nat \X Nat /\ z \in Nat \X Nat
    BY <1>3, <1>7, <1>8, <2>2, <2>3, <2>4
  <2> HIDE DEF y, z
  <2>6. Less(x, z)
    BY <1>8, <2>5, LessIs
  <2> QED BY <1>8, <2>5, <2>6, LessIs
<1>12. Sinking(g.count, MovedTo(q, i, j))
  <2>1. MovedTo(q, i, j) = InsertedAt(r, j, k)
    BY <1>4 DEF MovedTo, r
  <2>2. g.count[k] \in Nat \X Nat /\ PlaceOf(c, r, g.count[k], j)
        /\ \A m \in 1 .. Len(r) : g.count[r[m]] = c[r[m]]
    BY <1>2, <1>7, <1>8, <1>10
  <2>3. k \in Item
    BY <1>1, <1>4, ElementOfSeq
  <2>4. Sinking(g.count, InsertedAt(r, j, k))
    BY <1>5, <1>6, <2>2, <2>3, SinkingWith
  <2> QED BY <2>1, <2>4
<1>13. Shaped(g, MovedTo(q, i, j)) /\ Held(g) = Held(b)
  BY <1>1, <1>2, <1>12 DEF Shaped, Sinking, Held
<1>14. \E p : Arranged(g, p) /\ Turn(q, p)
  BY <1>11, <1>13, HitTurns
<1> QED BY <1>14 DEF g

(* A removal: the others keep their counts.                                *)
LEMMA LfuRemoveTurns ==
  ASSUME NEW b, NEW q, IsLfu(b), b.policy = "LFU", Arranged(b, q), NEW k \in DOMAIN b.count
  PROVE  \E p : Arranged(LfuTaken(b, k), p) /\ Turn(q, p)
<1> DEFINE r == LfuTaken(b, k)
           c == b.count
<1>1. /\ Counts(c, q) /\ Sinking(c, q) /\ Held(b) = DOMAIN c
      /\ q \in Seq(Item) /\ Distinct(q)
      /\ \A i \in 1 .. Len(q) : q[i] \in DOMAIN c
      /\ DOMAIN q = 1 .. Len(q)
      /\ \E i \in 1 .. Len(q) : q[i] = k
  BY LfuLine, ArrangedFacts
<1>2. /\ r.policy = "LFU" /\ DOMAIN r.count = DOMAIN c \ {k}
      /\ \A l \in DOMAIN c \ {k} : r.count[l] = c[l]
  BY LfuOtherLines
<1>3. PICK i \in 1 .. Len(q) : q[i] = k
  BY <1>1
<1> HIDE DEF r, c
<1>4. \A l \in (1 .. Len(q)) \ {i} : r.count[q[l]] = c[q[l]]
  BY <1>1, <1>2, <1>3 DEF Distinct
<1>5. Sinking(r.count, RemovedAt(q, i))
  BY <1>1, <1>4, SinkingWithout
<1>6. Shaped(r, RemovedAt(q, i)) /\ Held(r) = Held(b) \ {q[i]}
  BY <1>1, <1>2, <1>3, <1>5 DEF Shaped, Sinking, Held
<1>7. \E p : Arranged(r, p) /\ Turn(q, p)
  BY <1>6, RemovalTurns
<1> QED BY <1>7 DEF r

---------------------------------------------------------------------------
InOrder == {"LRU", "SLRU", "LFU", "FIFO"}

(* The calls of the policies with an order, for what has answers of an     *)
(* object that ttl_cache has not changed.                                  *)
LEMMA PutTurns ==
  ASSUME NEW b, NEW q, Sound(b), b.policy \in InOrder, Arranged(b, q), NEW k \in Item,
         NEW o \in PutOutcomes(b, k, k \in Held(b))
  PROVE  \E p : Arranged(o[1], p) /\ Turn(q, p)
<1>1. CASE b.policy = "LRU"
  <2>1. o = LruPut(b, k)
    BY <1>1 DEF PutOutcomes
  <2>2. IsLru(b) /\ FitsInLine(b.list)
    BY <1>1, SoundCases
  <2> QED BY <1>1, <2>1, <2>2, LruPutTurns
<1>2. CASE b.policy = "SLRU"
  <2>1. o = IF k \in DOMAIN b.map THEN << SlruHit(b, k), None >> ELSE SlruInsert(b, k)
    BY <1>2 DEF PutOutcomes, SlruPut
  <2>2. IsSlru(b)
    BY <1>2, SoundCases
  <2>3. CASE k \in DOMAIN b.map
    <3>1. o[1] = SlruHit(b, k)
      BY <2>1, <2>3
    <3> QED BY <1>2, <2>2, <2>3, <3>1, SlruHitTurns
  <2>4. CASE k \notin DOMAIN b.map
    <3>1. o = SlruInsert(b, k)
      BY <2>1, <2>4
    <3> QED BY <1>2, <2>2, <2>4, <3>1, SlruInsertTurns
  <2> QED BY <2>3, <2>4
<1>3. CASE b.policy = "LFU"
  <2>1. o = IF k \in Held(b) THEN <<b, None>> ELSE LfuPut(b, k)
    BY <1>3 DEF PutOutcomes
  <2>2. IsLfu(b) /\ Held(b) = DOMAIN b.count
    BY <1>3, SoundCases
  <2>3. CASE k \in Held(b)
    <3>1. o[1] = b
      BY <2>1, <2>3
    <3> QED BY <3>1 DEF Turn
  <2>4. CASE k \notin Held(b)
    <3>1. o = LfuPut(b, k)
      BY <2>1, <2>4
    <3> QED BY <1>3, <2>2, <2>4, <3>1, LfuPutTurns
  <2> QED BY <2>3, <2>4
<1>4. CASE b.policy = "FIFO"
  <2>1. IsFifo(b) /\ Held(b) = b.set
    BY <1>4, SoundCases
  <2>2. o = FifoPut(b, k, k \in b.set)
    BY <1>4, <2>1 DEF PutOutcomes
  <2> QED BY <1>4, <2>1, <2>2, FifoPutTurns
<1> QED BY <1>1, <1>2, <1>3, <1>4 DEF InOrder

(* The same for get,                                                       *)
LEMMA GetTurns ==
  ASSUME NEW b, NEW q, Sound(b), b.policy \in InOrder, Arranged(b, q), NEW k
  PROVE  \E p : Arranged(Got(b, k, k \in Held(b)), p) /\ Turn(q, p)
<1> DEFINE c == Got(b, k, k \in Held(b))
<1>1. CASE k \notin Held(b)
  <2>1. c = b
    BY <1>1 DEF Got, GetHits
  <2> QED BY <2>1 DEF Turn
<1>2. CASE k \in Held(b)
  <2>1. CASE b.policy = "LRU"
    <3>1. IsLru(b) /\ k \in Items(b.list)
      BY <1>2, <2>1, SoundCases DEF Held
    <3>2. c = [policy |-> "LRU", list |-> MoveToTop(b.list, k)]
      BY <3>1, LruCases
    <3> QED BY <2>1, <3>1, <3>2, LruOtherTurns
  <2>2. CASE b.policy = "SLRU"
    <3>1. IsSlru(b) /\ k \in DOMAIN b.map
      BY <1>2, <2>2, SoundCases DEF Held
    <3>2. c = SlruHit(b, k)
      BY <1>2, <2>2 DEF Got, GetHits
    <3> QED BY <2>2, <3>1, <3>2, SlruHitTurns
  <2>3. CASE b.policy = "LFU"
    <3>1. IsLfu(b) /\ k \in DOMAIN b.count
      BY <1>2, <2>3, SoundCases DEF Held
    <3>2. c = LfuCounted(b, k)
      BY <1>2, <2>3 DEF Got, GetHits, LfuCounted
    <3> QED BY <2>3, <3>1, <3>2, LfuHitTurns
  <2>4. CASE b.policy = "FIFO"
    <3>1. c = b
      BY <1>2, <2>4 DEF Got
    <3> QED BY <3>1 DEF Turn
  <2> QED BY <2>1, <2>2, <2>3, <2>4 DEF InOrder
<1> QED BY <1>1, <1>2

(* for remove                                                              *)
LEMMA RemoveTurns ==
  ASSUME NEW b, NEW q, Sound(b), b.policy \in InOrder, Arranged(b, q), NEW k
  PROVE  \E p : Arranged(Removed(b, k), p) /\ Turn(q, p)
<1>1. CASE k \notin Held(b)
  <2>1. Removed(b, k) = b
    BY <1>1 DEF Removed
  <2> QED BY <2>1 DEF Turn
<1>2. CASE k \in Held(b)
  <2>1. CASE b.policy = "LRU"
    <3>1. IsLru(b) /\ k \in Items(b.list)
      BY <1>2, <2>1, SoundCases DEF Held
    <3>2. Removed(b, k) = [policy |-> "LRU", list |-> Remove(b.list, k)]
      BY <3>1, LruCases
    <3> QED BY <2>1, <3>1, <3>2, LruOtherTurns
  <2>2. CASE b.policy = "SLRU"
    <3>1. IsSlru(b) /\ k \in DOMAIN b.map
      BY <1>2, <2>2, SoundCases DEF Held
    <3>2. Removed(b, k) = SlruTaken(b, k)
      BY <1>2, <2>2 DEF Removed, SlruTaken
    <3> QED BY <2>2, <3>1, <3>2, SlruRemoveTurns
  <2>3. CASE b.policy = "LFU"
    <3>1. IsLfu(b) /\ k \in DOMAIN b.count
      BY <1>2, <2>3, SoundCases DEF Held
    <3>2. Removed(b, k) = LfuTaken(b, k)
      BY <1>2, <2>3 DEF Removed, LfuTaken
    <3> QED BY <2>3, <3>1, <3>2, LfuRemoveTurns
  <2>4. CASE b.policy = "FIFO"
    <3> DEFINE c == [b EXCEPT !.set = @ \ {k}, !.d = RemovedAt(@, FirstPlace(@, k))]
    <3>1. IsFifo(b) /\ k \in b.set
      BY <1>2, <2>4, SoundCases DEF Held
    <3>2. Removed(b, k) = c
      BY <1>2, <2>4 DEF Removed
    <3>3. \E p : Arranged(c, p) /\ Turn(q, p)
      BY <2>4, <3>1, FifoRemoveTurns
    <3> HIDE DEF c
    <3> QED BY <3>2, <3>3
  <2> QED BY <2>1, <2>2, <2>3, <2>4 DEF InOrder
<1> QED BY <1>1, <1>2

(* and for clear.                                                          *)
LEMMA ClearTurns ==
  ASSUME NEW b, NEW q, Sound(b), b.policy \in InOrder
  PROVE  \E p : Arranged(Cleared(b), p) /\ Turn(q, p)
<1>1. Arranged(Cleared(b), <<>>)
  BY ClearContract, EmptyArranged DEF InOrder
<1>2. Turn(q, <<>>)
  BY DEF Turn
<1> QED BY <1>1, <1>2

(* dump yields the line.                                                   *)
LEMMA DumpIs ==
  ASSUME NEW b, NEW q, Sound(b), b.policy \in InOrder, Arranged(b, q)
  PROVE  Dump(b) = q
<1>1. CASE b.policy = "LRU"
  <2>1. Line(b.list, q, Item)
    BY <1>1 DEF Arranged, Shaped
  <2>2. Listing(b.list) = q
    BY <2>1, ListingIs, PolicyAssumption
  <2> QED BY <1>1, <2>2 DEF Dump
<1>2. CASE b.policy = "SLRU"
  BY <1>2 DEF Arranged, Shaped, Dump
<1>3. CASE b.policy = "LFU"
  <2>1. IsLfu(b)
    BY <1>3, SoundCases
  <2>2. Descending(b.count) = q
    BY <1>3, <2>1, LfuLine, DescendingIs
  <2> QED BY <1>3, <2>2 DEF Dump
<1>4. CASE b.policy = "FIFO"
  BY <1>4 DEF Arranged, Shaped, Dump
<1> QED BY <1>1, <1>2, <1>3, <1>4 DEF InOrder

---------------------------------------------------------------------------
(* The line of the state, for the mapping.                                 *)
Shown == IF Ordered THEN Dump(base) ELSE <<>>

InLine == Ordered => \E q : Arranged(base, q)

(* What the mapping shows is the line.                                     *)
LEMMA OrderedFacts ==
  ASSUME SoundInv
  PROVE  /\ Ordered <=> base.policy \in InOrder /\ wrapper # "ttl"
         /\ Ordered => Sound(base)
         /\ \A q : Ordered /\ Arranged(base, q) => Shown = q
<1>1. Sound(base)
  BY PairFacts DEF SoundInv
<1>2. Ordered <=> base.policy \in InOrder /\ wrapper # "ttl"
  BY DEF Ordered, InOrder
<1> QED BY <1>1, <1>2, DumpIs DEF Shown

(* A new object has an empty line.                                         *)
LEMMA InLineAtFirst == ASSUME SoundKinds, Init PROVE InLine /\ Shown = <<>>
<1>1. SoundInv
  BY SoundInitial
<1>2. CASE Ordered
  <2>1. PICK kind \in Kind : base = New(kind[1]) /\ kind \in SoundPairs
    BY DEF Init, SoundKinds
  <2>2. kind[1] \in Policies
    BY <2>1 DEF SoundPairs, Policies
  <2>3. Sound(base) /\ Held(base) = {} /\ base.policy \in InOrder
    BY <1>1, <1>2, <2>1, <2>2, NewContract, OrderedFacts
  <2>4. Arranged(base, <<>>)
    BY <2>3, EmptyArranged DEF InOrder
  <2> QED BY <1>1, <1>2, <2>4, OrderedFacts DEF InLine
<1>3. CASE ~Ordered
  BY <1>3 DEF InLine, Shown
<1> QED BY <1>2, <1>3

(* get leaves the class of the object alone.                               *)
LEMMA GotSame ==
  ASSUME NEW b, Sound(b), NEW k
  PROVE  Got(b, k, k \in Held(b)).policy = b.policy
<1> DEFINE has == k \in Held(b)
<1>1. has \in BOOLEAN /\ (has => k \in Held(b))
  OBVIOUS
<1> HIDE DEF has
<1>2. Got(b, k, has).policy = b.policy
  BY <1>1, GetContract
<1> QED BY <1>2 DEF has

(* What a step does to an object that ttl_cache has not changed.           *)
LEMMA Calls ==
  ASSUME [Next]_vars
  PROVE  /\ wrapper' = wrapper
         /\ wrapper # "ttl" =>
              \/ base' = base \/ base' = Cleared(base)
              \/ \E k \in Item :
                   \/ \E o \in PutOutcomes(base, k, k \in Held(base)) : base' = o[1]
                   \/ base' = Got(base, k, k \in Held(base))
                   \/ base' = Removed(base, k)
<1>1. wrapper' = wrapper
  BY DEF Next, vars, Tick, Purge, Clear, PlainPut, KeyvalPut, TtlPut, Get, RemoveItem
<1>2. ASSUME wrapper # "ttl"
      PROVE  \/ base' = base \/ base' = Cleared(base)
             \/ \E k \in Item :
                  \/ \E o \in PutOutcomes(base, k, k \in Held(base)) : base' = o[1]
                  \/ base' = Got(base, k, k \in Held(base))
                  \/ base' = Removed(base, k)
  <2>1. \A k : Has(k) = (k \in Held(base))
    BY <1>2 DEF Has
  <2>2. CASE UNCHANGED vars \/ Clear
    BY <2>2 DEF vars, Clear
  <2>3. CASE \E k \in Item : PlainPut(k)
    BY <2>1, <2>3 DEF PlainPut
  <2>4. CASE \E k \in Item, v \in Value : KeyvalPut(k, v)
    BY <2>1, <2>4 DEF KeyvalPut
  <2>5. CASE \E k \in Item : Get(k)
    <3>1. PICK k \in Item : Get(k)
      BY <2>5
    <3>2. base' = Got(base, k, Has(k))
      BY <1>2, <3>1 DEF Get
    <3> QED BY <2>1, <3>2
  <2>6. CASE \E k \in Item : RemoveItem(k)
    BY <2>6 DEF RemoveItem
  <2>7. CASE Tick \/ Purge \/ \E k \in Item :
               (\E ttl \in 1 .. MaxTtl : TtlPut(k, now + ttl)) \/ TtlPut(k, Infinity)
    BY <1>2, <2>7 DEF Tick, Purge, TtlPut
  <2> QED BY <2>2, <2>3, <2>4, <2>5, <2>6, <2>7 DEF Next
<1> QED BY <1>1, <1>2

(* Every call turns the line into another one, as Turn allows.             *)
LEMMA CallsTurn ==
  ASSUME SoundInv, SoundInv', InLine, [Next]_vars
  PROVE  InLine' /\ Turn(Shown, Shown')
<1>1. wrapper' = wrapper
  BY Calls
<1>2. CASE Ordered
  <2>1. Sound(base) /\ base.policy \in InOrder /\ wrapper # "ttl"
    BY <1>2, OrderedFacts
  <2>2. PICK q : Arranged(base, q)
    BY <1>2 DEF InLine
  <2>3. Shown = q
    BY <1>2, <2>2, OrderedFacts
  <2>4. base'.policy \in InOrder /\ \E p : Arranged(base', p) /\ Turn(q, p)
    <3>1. CASE base' = base
      BY <2>1, <2>2, <3>1 DEF Turn
    <3>2. CASE base' = Cleared(base)
      BY <2>1, <3>2, ClearContract, ClearTurns
    <3>3. CASE \E k \in Item : \E o \in PutOutcomes(base, k, k \in Held(base)) : base' = o[1]
      <4>1. PICK k \in Item : \E o \in PutOutcomes(base, k, k \in Held(base)) : base' = o[1]
        BY <3>3
      <4>2. PICK o \in PutOutcomes(base, k, k \in Held(base)) : base' = o[1]
        BY <4>1
      <4>3. o[1].policy = base.policy
        <5>1. Answers(base, k, k \in Held(base))
          BY DEF Answers
        <5> QED BY <2>1, <5>1, PutContract
      <4>4. \E p : Arranged(o[1], p) /\ Turn(q, p)
        BY <2>1, <2>2, PutTurns
      <4> QED BY <2>1, <4>2, <4>3, <4>4
    <3>4. CASE \E k \in Item : base' = Got(base, k, k \in Held(base))
      <4>1. PICK k \in Item : base' = Got(base, k, k \in Held(base))
        BY <3>4
      <4>2. Got(base, k, k \in Held(base)).policy = base.policy
        BY <2>1, GotSame
      <4>3. \E p : Arranged(Got(base, k, k \in Held(base)), p) /\ Turn(q, p)
        BY <2>1, <2>2, GetTurns
      <4> QED BY <2>1, <4>1, <4>2, <4>3
    <3>5. CASE \E k \in Item : base' = Removed(base, k)
      <4>1. PICK k \in Item : base' = Removed(base, k)
        BY <3>5
      <4>2. Removed(base, k).policy = base.policy
        BY <2>1, RemoveContract
      <4>3. \E p : Arranged(Removed(base, k), p) /\ Turn(q, p)
        BY <2>1, <2>2, RemoveTurns
      <4> QED BY <2>1, <4>1, <4>2, <4>3
    <3> QED BY <2>1, <3>1, <3>2, <3>3, <3>4, <3>5, Calls
  <2>5. PICK p : Arranged(base', p) /\ Turn(q, p)
    BY <2>4
  <2>6. Ordered'
    BY <1>1, <2>1, <2>4 DEF Ordered, InOrder
  <2>7. Sound(base')
    BY DEF SoundInv, SoundPair
  <2>8. Shown' = p
    <3>1. Dump(base') = p
      BY <2>4, <2>5, <2>7, DumpIs
    <3> QED BY <2>6, <3>1 DEF Shown
  <2> QED BY <2>3, <2>5, <2>8 DEF InLine
<1>3. CASE ~Ordered
  <2>1. ~Ordered'
    <3>1. CASE wrapper = "ttl"
      BY <1>1, <3>1 DEF Ordered
    <3>2. CASE base.policy \notin InOrder /\ wrapper # "ttl"
      <4>1. base'.policy = base.policy
        <5>1. Sound(base)
          BY PairFacts DEF SoundInv
        <5>2. ASSUME NEW k \in Item, NEW o \in PutOutcomes(base, k, k \in Held(base))
              PROVE  o[1].policy = base.policy
          <6>1. Answers(base, k, k \in Held(base))
            BY DEF Answers
          <6> QED BY <5>1, <6>1, PutContract
        <5>3. \A k : /\ Got(base, k, k \in Held(base)).policy = base.policy
                     /\ Removed(base, k).policy = base.policy
          BY <5>1, GotSame, RemoveContract
        <5>4. Cleared(base).policy = base.policy
          BY <5>1, ClearContract
        <5> QED BY <3>2, <5>2, <5>3, <5>4, Calls
      <4> QED BY <3>2, <4>1 DEF Ordered, InOrder
    <3> QED BY <1>3, <3>1, <3>2 DEF Ordered, InOrder
  <2>2. Shown = <<>> /\ Shown' = <<>>
    BY <1>3, <2>1 DEF Shown
  <2> QED BY <2>1, <2>2 DEF InLine, Turn
<1> QED BY <1>2, <1>3

(* To cut the last place off is to remove it.                              *)
LEMMA LastCut ==
  ASSUME NEW q \in Seq(Item), NEW j \in 1 .. Len(q) + 1, NEW k \in Item
  PROVE  LET line == InsertedAt(q, j, k) IN
         RemovedAt(line, Len(q) + 1) = SubSeq(line, 1, Len(line) - 1)
<1> DEFINE line == InsertedAt(q, j, k)
<1>1. Opened(q, j, k, line)
  BY InsertedPlaces
<1> HIDE DEF line
<1>2. line \in Seq(Item) /\ Len(line) = Len(q) + 1
  BY <1>1 DEF Opened
<1>3. Len(line) > 0
  BY <1>2, LenProperties
<1>4. SubSeq(line, 1, Len(line) - 1) = RemovedAt(line, Len(line))
  BY <1>2, <1>3, PoppedIs
<1> QED BY <1>2, <1>4 DEF line

(* Every policy with an order implements EvictionOrder, as it is and under *)
(* rand_insert_cache and keyval_cache: a hit moves its item towards the    *)
(* front, if anywhere, no call moves one item past a third, and only an    *)
(* insertion evicts, the last of the line with the new item in it.         *)
THEOREM PoliciesImplementEvictionOrder == ASSUME SoundKinds PROVE Spec => ImplementsEvictionOrder
<1>1. ASSUME Init PROVE InLine /\ Order!Init
  <2>1. InLine /\ Shown = <<>>
    BY <1>1, InLineAtFirst
  <2> QED BY <2>1 DEF Order!Init, Shown
<1>2. ASSUME SoundInv, SoundInv', InLine, [Next]_vars
      PROVE  InLine' /\ [Order!Next]_Shown
  <2>1. /\ \A q, i, p : Order!Queue!MovedTo(q, i, p) = MovedTo(q, i, p)
        /\ \A q, i : Order!Queue!RemovedAt(q, i) = RemovedAt(q, i)
        /\ \A q, i, k : Order!Queue!InsertedAt(q, i, k) = InsertedAt(q, i, k)
    BY DEF Order!Queue!MovedTo, MovedTo, Order!Queue!RemovedAt, RemovedAt,
           Order!Queue!InsertedAt, InsertedAt
  <2>2. InLine' /\ Turn(Shown, Shown')
    BY <1>2, CallsTurn
  <2>3. Len(Shown) \in Nat /\ DOMAIN Shown = 1 .. Len(Shown) /\ Shown \in Seq(Item)
    <3>1. CASE Ordered
      <4>1. PICK q : Arranged(base, q)
        BY <1>2, <3>1 DEF InLine
      <4>2. Shown = q
        BY <1>2, <3>1, <4>1, OrderedFacts
      <4> QED BY <4>1, <4>2, ArrangedFacts
    <3>2. CASE ~Ordered
      <4>1. Shown = <<>>
        BY <3>2 DEF Shown
      <4>2. <<>> \in Seq(Item)
        OBVIOUS
      <4> QED BY <4>1, <4>2, LenProperties
    <3> QED BY <3>1, <3>2
  <2>4. CASE \E i \in 1 .. Len(Shown) : \E j \in 1 .. i : Shown' = MovedTo(Shown, i, j)
    <3>1. Order!Hit
      BY <2>1, <2>3, <2>4 DEF Order!Hit, Shown
    <3> QED BY <2>2, <3>1 DEF Order!Next
  <2>5. CASE \E k \in Item \ Elements(Shown), j \in 1 .. Len(Shown) + 1 :
               LET line == InsertedAt(Shown, j, k) IN
                 \/ Len(line) =< MaxLen /\ Shown' = line
                 \/ Shown' = RemovedAt(line, Len(Shown) + 1)
    <3>1. PICK k \in Item \ Elements(Shown), j \in 1 .. Len(Shown) + 1 :
               LET line == InsertedAt(Shown, j, k) IN
                 \/ Len(line) =< MaxLen /\ Shown' = line
                 \/ Shown' = RemovedAt(line, Len(Shown) + 1)
      BY <2>5
    <3> DEFINE line == InsertedAt(Shown, j, k)
    <3>2. RemovedAt(line, Len(Shown) + 1) = SubSeq(line, 1, Len(line) - 1)
      BY <2>3, <3>1, LastCut
    <3>3. /\ k \in Item \ Order!InLine
          /\ line = Order!Queue!InsertedAt(Shown, j, k)
      BY <2>1, <2>3, <3>1 DEF Order!InLine, Shown, Elements
    <3>4. \/ Len(line) =< MaxLen /\ Shown' = line
          \/ Shown' = SubSeq(line, 1, Len(line) - 1)
      BY <3>1, <3>2
    <3>5. Order!Insert
      <4> HIDE DEF line
      <4> QED BY <3>1, <3>3, <3>4 DEF Order!Insert, Shown
    <3> QED BY <2>2, <3>5 DEF Order!Next
  <2>6. CASE \E i \in 1 .. Len(Shown) : Shown' = RemovedAt(Shown, i)
    <3>1. Order!Leave
      BY <2>1, <2>3, <2>6 DEF Order!Leave, Shown
    <3> QED BY <2>2, <3>1 DEF Order!Next
  <2>7. CASE Shown' = <<>>
    <3>1. Order!Clear
      BY <2>7 DEF Order!Clear, Shown
    <3> QED BY <2>2, <3>1 DEF Order!Next
  <2>8. CASE Shown' = Shown
    BY <2>2, <2>8
  <2> QED BY <2>2, <2>4, <2>5, <2>6, <2>7, <2>8 DEF Turn
<1> QED BY <1>1, <1>2, SoundInductive, PTL DEF Spec, ImplementsEvictionOrder, Order!Spec, Shown
=============================================================================
