------------------------ MODULE IcarusPoliciesProofs ------------------------
(***************************************************************************)
(* What the operators on cache objects and their linked sets do, for any   *)
(* set of items and any size: the lemmas the proofs about the caches and   *)
(* about the network share.                                                *)
(*                                                                         *)
(* The operations of LinkedSet are those of a line of items: each keeps    *)
(* the pointers of a list of any length those of a sequence without        *)
(* repetition, the one the operation stands for.                           *)
(*                                                                         *)
(* Two shapes carry the proofs.  Spliced puts a new node between two       *)
(* neighbours, Remove takes a node away, and the other operations at the   *)
(* top or upwards are shown to be equal to one of them or to one after the *)
(* other.  Those at the bottom or downwards are the same operations of the *)
(* mirrored set.                                                           *)
(*                                                                         *)
(* The other policies keep their items in other ways, each with what makes *)
(* an object of it sound: SLRU one line per segment and a map that names   *)
(* the segment of each item, LFU a count and a time per item, FIFO a deque *)
(* beside the set of its items, RAND an array whose first places are the   *)
(* items.  For every policy the contracts at the end say what put, get,    *)
(* remove and clear make of a sound object: a sound one, with the items    *)
(* the call should leave in it.                                            *)
(***************************************************************************)
EXTENDS IcarusPolicies, WellFoundedInduction, FiniteSetTheorems, SequenceTheorems,
        FunctionTheorems, TLAPS

Elements(s) == {s[i] : i \in DOMAIN s}

Distinct(s) == \A i, j \in DOMAIN s : s[i] = s[j] => i = j

(* A sequence without repetition has as many elements as places.           *)
LEMMA DistinctCardinality ==
  ASSUME NEW S, NEW s \in Seq(S), Distinct(s)
  PROVE  IsFiniteSet(Elements(s)) /\ Cardinality(Elements(s)) = Len(s)
<1>1. Len(s) \in Nat /\ DOMAIN s = 1 .. Len(s) /\ s \in [1 .. Len(s) -> S]
  BY LenProperties
<1>2. s \in [1 .. Len(s) -> Elements(s)]
  BY <1>1 DEF Elements
<1>3. s \in Bijection(1 .. Len(s), Elements(s))
  BY <1>1, <1>2, Fun_IsBij DEF Elements, Distinct
<1>4. ExistsBijection(1 .. Len(s), Elements(s))
  BY <1>3 DEF ExistsBijection
<1> QED BY <1>1, <1>4, FS_CountingElements, FS_NatBijection

(* A nonempty set of numbers has a least one.                              *)
LEMMA LeastNumber ==
  ASSUME NEW T \in SUBSET Nat, T # {}
  PROVE  \E x \in T : \A y \in T : x =< y
<1> DEFINE U == {0 .. n : n \in T}
<1>1. U \subseteq FiniteSubsetsOf(Nat) /\ U # {}
  <2>1. ASSUME NEW n \in T PROVE 0 .. n \in FiniteSubsetsOf(Nat)
    <3>1. n \in Int /\ 0 \in Int /\ 0 .. n \in SUBSET Nat
      OBVIOUS
    <3>2. IsFiniteSet(0 .. n)
      BY <3>1, FS_Interval
    <3> QED BY <3>1, <3>2 DEF FiniteSubsetsOf
  <2> QED BY <2>1
<1>2. PICK u \in U : \A w \in U : <<w, u>> \notin StrictSubsetOrdering(Nat)
  <2> HIDE DEF U
  <2> QED BY <1>1, FS_StrictSubsetOrderingWellFounded, WFMin
<1>3. PICK n \in T : u = 0 .. n
  OBVIOUS
<1>4. ASSUME NEW y \in T, y < n PROVE FALSE
  <2>1. /\ 0 .. y \in SUBSET Nat /\ 0 .. n \in SUBSET Nat
        /\ 0 .. y \subseteq 0 .. n /\ n \in 0 .. n /\ n \notin 0 .. y
    BY <1>4
  <2>2. <<0 .. y, 0 .. n>> \in StrictSubsetOrdering(Nat)
    BY <2>1 DEF StrictSubsetOrdering
  <2> QED BY <1>2, <1>3, <2>2
<1> QED BY <1>4

(* s is an object of LinkedSet.                                            *)
IsObject(s) ==
  /\ s = [top |-> s.top, bottom |-> s.bottom, up |-> s.up, down |-> s.down]
  /\ s.up = [j \in DOMAIN s.up |-> s.up[j]]
  /\ s.down = [j \in DOMAIN s.down |-> s.down[j]]

(* s is the line q of items of T.                                          *)
Line(s, q, T) ==
  /\ q \in Seq(T) /\ Distinct(q)
  /\ IsObject(s) /\ Represents(s, q)

(* The neighbours of place i, before something is inserted there.          *)
Above(q, i) == IF i = 1 THEN None ELSE q[i - 1]

Below(q, i) == IF i = Len(q) + 1 THEN None ELSE q[i]

(* A node for k between the nodes u and d.                                 *)
Spliced(s, k, u, d) ==
  [top    |-> IF u = None THEN k ELSE s.top,
   bottom |-> IF d = None THEN k ELSE s.bottom,
   up     |-> [j \in Items(s) \cup {k} |-> IF j = k THEN u ELSE IF j = d THEN k ELSE s.up[j]],
   down   |-> [j \in Items(s) \cup {k} |-> IF j = k THEN d ELSE IF j = u THEN k ELSE s.down[j]]]

---------------------------------------------------------------------------
(* What a line says of its pointers.                                       *)
LEMMA LineFacts ==
  ASSUME NEW T, None \notin T, NEW s, NEW q, Line(s, q, T)
  PROVE  /\ Len(q) \in Nat /\ DOMAIN q = 1 .. Len(q)
         /\ \A i \in 1 .. Len(q) : q[i] \in T /\ q[i] # None
         /\ Items(s) = {q[i] : i \in 1 .. Len(q)}
         /\ DOMAIN s.up = Items(s) /\ DOMAIN s.down = Items(s)
         /\ Items(s) \subseteq T
BY DEF Line, Represents, Items

(* The first m values of q.                                                *)
Prefix(q, m) == [i \in 1 .. m |-> q[i]]

(* A prefix grows by one value to the next, and is empty only to begin with. *)
LEMMA PrefixIs ==
  ASSUME NEW T, NEW q \in Seq(T), NEW m \in 0 .. Len(q)
  PROVE  /\ Prefix(q, m) \in Seq(T) /\ Len(Prefix(q, m)) = m
         /\ Prefix(q, m) = <<>> <=> m = 0
         /\ \A i \in 1 .. m : Prefix(q, m)[i] = q[i]
         /\ m < Len(q) => Append(Prefix(q, m), q[m + 1]) = Prefix(q, m + 1)
<1>1. Len(q) \in Nat /\ m \in Nat /\ \A i \in 1 .. Len(q) : q[i] \in T
  BY LenProperties, ElementOfSeq
<1>2. Prefix(q, m) \in [1 .. m -> T]
  BY <1>1 DEF Prefix
<1>3. Prefix(q, m) \in Seq(T) /\ Len(Prefix(q, m)) = m
  BY <1>1, <1>2
<1>4. Prefix(q, m) = <<>> <=> m = 0
  BY <1>3, EmptySeq
<1>5. \A i \in 1 .. m : Prefix(q, m)[i] = q[i]
  BY DEF Prefix
<1>6. ASSUME m < Len(q) PROVE Append(Prefix(q, m), q[m + 1]) = Prefix(q, m + 1)
  <2>1. q[m + 1] \in T /\ m + 1 \in Nat
    BY <1>1, <1>6
  <2>2. /\ Append(Prefix(q, m), q[m + 1]) \in Seq(T)
        /\ Len(Append(Prefix(q, m), q[m + 1])) = m + 1
        /\ \A i \in 1 .. m : Append(Prefix(q, m), q[m + 1])[i] = Prefix(q, m)[i]
        /\ Append(Prefix(q, m), q[m + 1])[m + 1] = q[m + 1]
    BY <1>3, <2>1, AppendProperties
  <2>3. Prefix(q, m + 1) \in [1 .. m + 1 -> T]
    BY <1>1, <1>6 DEF Prefix
  <2>4. Prefix(q, m + 1) \in Seq(T) /\ Len(Prefix(q, m + 1)) = m + 1
    BY <2>1, <2>3
  <2>5. \A i \in 1 .. m + 1 : Append(Prefix(q, m), q[m + 1])[i] = Prefix(q, m + 1)[i]
    <3> TAKE i \in 1 .. m + 1
    <3>1. Prefix(q, m + 1)[i] = q[i]
      BY DEF Prefix
    <3>2. i \in 1 .. m \/ i = m + 1
      BY <1>1
    <3> QED BY <1>5, <2>2, <3>1, <3>2
  <2> QED BY <2>2, <2>4, <2>5, SeqEqual
<1> QED BY <1>3, <1>4, <1>5, <1>6

(* The iterator walks the line from one end to the other.                  *)
LEMMA ListingIs ==
  ASSUME NEW T, None \notin T, NEW s, NEW q, Line(s, q, T)
  PROVE  Listing(s) = q
<1> DEFINE C == Cardinality(Items(s))
           L == Len(q)
           D == 0 .. C + 1
           m(n) == IF n =< L THEN n ELSE L
           g == [n \in D |-> Prefix(q, m(n))]
           Step(f, n) ==
             LET before == f[n - 1]
                 cur == IF before = <<>> THEN s.top ELSE s.down[before[Len(before)]]
             IN  IF cur = None THEN before ELSE Append(before, cur)
<1>1. /\ L \in Nat /\ q \in Seq(T) /\ DOMAIN q = 1 .. L
      /\ \A i \in 1 .. L : q[i] \in T /\ q[i] # None
  BY LineFacts DEF Line
<1>2. C = L
  <2>1. Items(s) = Elements(q)
    BY DEF Line, Represents, Elements
  <2> QED BY <2>1, DistinctCardinality DEF Line
<1>3. /\ s.top = IF L = 0 THEN None ELSE q[1]
      /\ \A i \in 1 .. L : s.down[q[i]] = IF i = L THEN None ELSE q[i + 1]
  BY <1>1 DEF Line, Represents
<1>p. \A j \in 0 .. L :
        /\ Len(Prefix(q, j)) = j
        /\ Prefix(q, j) = <<>> <=> j = 0
        /\ \A i \in 1 .. j : Prefix(q, j)[i] = q[i]
        /\ j < L => Append(Prefix(q, j), q[j + 1]) = Prefix(q, j + 1)
  BY <1>1, PrefixIs
<1>q. Prefix(q, L) = q
  BY <1>1 DEF Prefix
<1> HIDE DEF C, L
<1>n. C \in Nat /\ D \in SUBSET Nat
  BY <1>1, <1>2
<1>4. g[0] = <<>>
  <2>1. 0 \in D /\ m(0) = 0 /\ 0 \in 0 .. L
    BY <1>1, <1>n
  <2> QED BY <1>p, <2>1
<1>5. \A n \in D \ {0} : g[n] = Step(g, n)
  <2> TAKE n \in D \ {0}
  <2>1. /\ n - 1 \in D /\ n - 1 \in 0 .. L /\ m(n - 1) = n - 1
        /\ n \in Nat /\ n - 1 + 1 = n
    BY <1>1, <1>2, <1>n
  <2> DEFINE b == Prefix(q, n - 1)
             cur == IF b = <<>> THEN s.top ELSE s.down[b[Len(b)]]
  <2>2. g[n - 1] = b
    BY <2>1
  <2>3. /\ Len(b) = n - 1
        /\ b = <<>> <=> n - 1 = 0
        /\ \A i \in 1 .. n - 1 : b[i] = q[i]
        /\ n - 1 < L => Append(b, q[n]) = Prefix(q, n)
    BY <1>p, <2>1
  <2> HIDE DEF b, D
  <2>4. cur = IF n - 1 = L THEN None ELSE q[n]
    <3>1. CASE n - 1 = 0
      <4>1. cur = s.top /\ n = 1
        BY <2>1, <2>3, <3>1
      <4> QED BY <1>1, <1>3, <3>1, <4>1
    <3>2. CASE n - 1 # 0
      <4>1. n - 1 \in 1 .. n - 1 /\ n - 1 \in 1 .. L
        BY <1>1, <2>1, <3>2
      <4>2. cur = s.down[q[n - 1]]
        BY <2>3, <3>2, <4>1
      <4> QED BY <1>3, <2>1, <4>1, <4>2
    <3> QED BY <3>1, <3>2
  <2>5. Step(g, n) = IF cur = None THEN b ELSE Append(b, cur)
    BY <2>2
  <2>6. g[n] = Prefix(q, m(n))
    BY DEF D
  <2> HIDE DEF g, Step, cur
  <2>7. CASE n - 1 = L
    <3>1. m(n) = n - 1
      <4>1. ~(n =< L)
        BY <1>1, <2>1, <2>7
      <4> QED BY <2>7, <4>1
    <3> QED BY <2>4, <2>5, <2>6, <2>7, <3>1 DEF b
  <2>8. CASE n - 1 # L
    <3>1. n =< L /\ n - 1 < L /\ n \in 1 .. L
      BY <1>1, <2>1, <2>8
    <3>2. m(n) = n
      BY <3>1
    <3>3. q[n] # None
      BY <1>1, <3>1
    <3> QED BY <2>3, <2>4, <2>5, <2>6, <2>8, <3>1, <3>2, <3>3
  <2> QED BY <2>7, <2>8
<1>6. g = [n \in D |-> IF n = 0 THEN <<>> ELSE Step(g, n)]
  <2>1. \A n \in D : g[n] = IF n = 0 THEN <<>> ELSE Step(g, n)
    BY <1>4, <1>5
  <2>2. g = [n \in D |-> g[n]]
    OBVIOUS
  <2> HIDE DEF g, Step
  <2> QED BY <2>1, <2>2
<1> DEFINE h == Heads(s)
<1>7. h = [n \in D |-> IF n = 0 THEN <<>> ELSE Step(h, n)]
  <2> HIDE DEF g
  <2> QED BY <1>6 DEF Heads, C
<1> DEFINE U == {n \in D : h[n] # g[n]}
<1> HIDE DEF h
<1>8. U = {}
  <2> SUFFICES ASSUME U # {} PROVE FALSE
    OBVIOUS
  <2>1. U \in SUBSET Nat
    BY <1>n
  <2> HIDE DEF g, Step
  <2>2. PICK n \in U : \A j \in U : n =< j
    <3> HIDE DEF U
    <3> QED BY <2>1, LeastNumber
  <2>3. CASE n = 0
    BY <1>4, <1>7, <2>3
  <2>4. CASE n # 0
    <3>1. n - 1 \in D /\ n - 1 \notin U
      BY <1>n, <2>2, <2>4
    <3>2. h[n - 1] = g[n - 1]
      BY <3>1
    <3>3. Step(h, n) = Step(g, n)
      BY <3>2 DEF Step
    <3>4. h[n] = Step(h, n) /\ g[n] = Step(g, n)
      BY <1>5, <1>7, <2>4
    <3> QED BY <3>3, <3>4
  <2> QED BY <2>3, <2>4
<1>9. C + 1 \in D
  BY <1>n
<1>10. m(C + 1) = L
  <2>1. ~(C + 1 =< L)
    BY <1>1, <1>2
  <2> QED BY <2>1
<1>11. h[C + 1] = Prefix(q, L)
  BY <1>8, <1>9, <1>10
<1> QED BY <1>11, <1>q DEF Listing, C, h

(* An item spliced in between two neighbours makes a longer line.          *)
LEMMA SpliceLine ==
  ASSUME NEW T, None \notin T, NEW s, NEW q, Line(s, q, T),
         NEW i \in 1 .. Len(q) + 1, NEW k \in T \ Items(s)
  PROVE  LET r == Spliced(s, k, Above(q, i), Below(q, i)) IN
         /\ Line(r, InsertedAt(q, i, k), T)
         /\ Items(r) = Items(s) \cup {k}
         /\ Len(InsertedAt(q, i, k)) = Len(q) + 1
<1> DEFINE p == InsertedAt(q, i, k)
           r == Spliced(s, k, Above(q, i), Below(q, i))
<1>1. /\ Len(q) \in Nat /\ DOMAIN q = 1 .. Len(q)
      /\ \A j \in 1 .. Len(q) : q[j] \in T /\ q[j] # None /\ q[j] # k
      /\ Items(s) = {q[j] : j \in 1 .. Len(q)}
      /\ Distinct(q)
  BY LineFacts DEF Line
<1>2. /\ p \in Seq(T) /\ Len(p) = Len(q) + 1 /\ DOMAIN p = 1 .. Len(q) + 1
      /\ \A j \in 1 .. Len(q) + 1 :
           p[j] = IF j < i THEN q[j] ELSE IF j = i THEN k ELSE q[j - 1]
  <2>1. \A j \in 1 .. Len(q) + 1 :
          (IF j < i THEN q[j] ELSE IF j = i THEN k ELSE q[j - 1]) \in T
    BY <1>1
  <2>2. p \in [1 .. Len(q) + 1 -> T]
    BY <2>1 DEF InsertedAt
  <2> QED BY <1>1, <2>2 DEF InsertedAt
<1>n. Len(q) \in Nat /\ i \in 1 .. Len(q) + 1
  BY <1>1
<1> HIDE DEF p
<1>3. Distinct(p)
  <2> SUFFICES ASSUME NEW a \in 1 .. Len(q) + 1, NEW b \in 1 .. Len(q) + 1,
                      a < b, p[a] = p[b]
               PROVE  FALSE
    BY <1>1, <1>2 DEF Distinct
  <2> DEFINE x == IF a < i THEN a ELSE a - 1
             y == IF b < i THEN b ELSE b - 1
  <2>1. CASE a = i
    BY <1>1, <1>2, <2>1
  <2>2. CASE b = i
    BY <1>1, <1>2, <2>2
  <2>3. CASE a # i /\ b # i
    <3>1. x \in DOMAIN q /\ y \in DOMAIN q /\ x # y
      BY <1>1, <2>3
    <3>2. p[a] = q[x] /\ p[b] = q[y]
      BY <1>1, <1>2, <2>3
    <3> HIDE DEF x, y
    <3> QED BY <1>1, <3>1, <3>2 DEF Distinct
  <2> QED BY <2>1, <2>2, <2>3
<1>4. IsObject(r)
  BY DEF IsObject, Spliced
<1>5. Items(r) = {p[j] : j \in DOMAIN p} /\ DOMAIN r.down = Items(r)
  <2>1. {p[j] : j \in 1 .. Len(q) + 1} = {q[j] : j \in 1 .. Len(q)} \cup {k}
    <3>1. \A j \in 1 .. Len(q) : \E l \in 1 .. Len(q) + 1 : p[l] = q[j]
      <4> TAKE j \in 1 .. Len(q)
      <4>1. CASE j < i
        BY <1>1, <1>2, <4>1
      <4>2. CASE j >= i
        <5>1. j + 1 \in 1 .. Len(q) + 1 /\ p[j + 1] = q[j]
          BY <1>1, <1>2, <4>2
        <5> QED BY <5>1
      <4> QED BY <1>1, <4>1, <4>2
    <3>2. p[i] = k
      BY <1>1, <1>2
    <3>3. \A j \in 1 .. Len(q) + 1 : p[j] = k \/ \E l \in 1 .. Len(q) : p[j] = q[l]
      BY <1>1, <1>2
    <3> HIDE DEF p, r
    <3>4. {p[j] : j \in 1 .. Len(q) + 1} \subseteq {q[j] : j \in 1 .. Len(q)} \cup {k}
      BY <3>3
    <3>5. {q[j] : j \in 1 .. Len(q)} \cup {k} \subseteq {p[j] : j \in 1 .. Len(q) + 1}
      BY <3>1, <3>2
    <3> QED BY <3>4, <3>5
  <2> QED BY <1>1, <1>2, <2>1 DEF Items, Spliced
<1>6. /\ r.top = IF Len(p) = 0 THEN None ELSE p[1]
      /\ r.bottom = IF Len(p) = 0 THEN None ELSE p[Len(p)]
  BY <1>1, <1>2 DEF Line, Represents, Spliced, Above, Below
<1>7. \A j \in DOMAIN p :
        /\ r.up[p[j]] = IF j = 1 THEN None ELSE p[j - 1]
        /\ r.down[p[j]] = IF j = Len(p) THEN None ELSE p[j + 1]
  <2>1. \A j \in DOMAIN q :
           /\ s.up[q[j]] = IF j = 1 THEN None ELSE q[j - 1]
           /\ s.down[q[j]] = IF j = Len(q) THEN None ELSE q[j + 1]
    BY DEF Line, Represents
  <2> SUFFICES ASSUME NEW j \in 1 .. Len(q) + 1
               PROVE  /\ r.up[p[j]] = IF j = 1 THEN None ELSE p[j - 1]
                      /\ r.down[p[j]] = IF j = Len(q) + 1 THEN None ELSE p[j + 1]
    BY <1>2
  <2>2. p[j] \in Items(s) \cup {k}
    BY <1>1, <1>2
  <2>3. /\ r.up[p[j]] = IF p[j] = k THEN Above(q, i) ELSE IF p[j] = Below(q, i) THEN k ELSE s.up[p[j]]
        /\ r.down[p[j]] = IF p[j] = k THEN Below(q, i) ELSE IF p[j] = Above(q, i) THEN k ELSE s.down[p[j]]
    BY <2>2 DEF Spliced
  <2> HIDE DEF r
  <2>4. CASE j = i
    BY <1>1, <1>2, <2>3, <2>4 DEF Above, Below
  <2>5. CASE j < i
    <3>1. j \in 1 .. Len(q) /\ p[j] = q[j] /\ p[j] # k
      BY <1>1, <1>2, <2>5
    <3>2. p[j] # Below(q, i)
      BY <1>1, <2>5, <3>1 DEF Below, Distinct
    <3>3. p[j] = Above(q, i) <=> j = i - 1
      BY <1>1, <2>5, <3>1 DEF Above, Distinct
    <3>4. r.up[p[j]] = IF j = 1 THEN None ELSE p[j - 1]
      BY <1>1, <1>2, <2>1, <2>3, <2>5, <3>1, <3>2
    <3>5. r.down[p[j]] = IF j = Len(q) + 1 THEN None ELSE p[j + 1]
      <4>1. CASE j = i - 1
        <5>1. j + 1 = i /\ j # Len(q) + 1 /\ j + 1 \in 1 .. Len(q) + 1
          BY <1>n, <2>5, <4>1
        <5>2. p[j + 1] = k
          BY <1>2, <1>n, <5>1
        <5> QED BY <2>3, <3>1, <3>3, <4>1, <5>1, <5>2
      <4>2. CASE j # i - 1
        <5>1. j + 1 < i /\ j # Len(q) /\ j # Len(q) + 1 /\ j + 1 \in 1 .. Len(q) + 1
          BY <1>n, <2>5, <4>2
        <5>2. p[j + 1] = q[j + 1]
          BY <1>2, <5>1
        <5>3. r.down[p[j]] = s.down[p[j]]
          BY <2>3, <3>1, <3>3, <4>2
        <5>4. s.down[q[j]] = q[j + 1]
          BY <1>1, <2>1, <3>1, <5>1
        <5> QED BY <3>1, <5>1, <5>2, <5>3, <5>4
      <4> QED BY <4>1, <4>2
    <3> QED BY <3>4, <3>5
  <2>6. CASE j > i
    <3>1. j - 1 \in 1 .. Len(q) /\ p[j] = q[j - 1] /\ p[j] # k
      BY <1>1, <1>2, <2>6
    <3>2. p[j] # Above(q, i)
      BY <1>1, <2>6, <3>1 DEF Above, Distinct
    <3>3. p[j] = Below(q, i) <=> j = i + 1
      BY <1>1, <2>6, <3>1 DEF Below, Distinct
    <3>4. r.up[p[j]] = IF j = 1 THEN None ELSE p[j - 1]
      <4>1. CASE j = i + 1
        BY <1>1, <1>2, <2>3, <3>1, <3>3, <4>1
      <4>2. CASE j > i + 1
        <5>1. j - 1 # 1 /\ j # 1 /\ p[j - 1] = q[j - 2] /\ j - 1 - 1 = j - 2
          BY <1>1, <1>2, <4>2
        <5>2. r.up[p[j]] = s.up[q[j - 1]]
          BY <1>1, <2>3, <3>1, <3>3, <4>2
        <5>3. s.up[q[j - 1]] = q[j - 2]
          <6>1. (j - 1 = 1) = FALSE /\ j - 1 \in DOMAIN q
            BY <1>1, <3>1, <5>1
          <6>2. s.up[q[j - 1]] = IF j - 1 = 1 THEN None ELSE q[j - 1 - 1]
            BY <2>1, <6>1
          <6> QED BY <5>1, <6>1, <6>2
        <5> QED BY <5>1, <5>2, <5>3
      <4> QED BY <1>1, <2>6, <4>1, <4>2
    <3>5. r.down[p[j]] = IF j = Len(q) + 1 THEN None ELSE p[j + 1]
      <4>1. r.down[p[j]] = s.down[p[j]]
        BY <2>2, <2>3, <3>1, <3>2
      <4>2. r.down[p[j]] = IF j - 1 = Len(q) THEN None ELSE q[j - 1 + 1]
        BY <2>1, <1>1, <3>1, <4>1
      <4>3. j - 1 = Len(q) <=> j = Len(q) + 1
        BY <1>n
      <4>4. CASE j # Len(q) + 1
        <5>1. j + 1 \in 1 .. Len(q) + 1 /\ ~(j + 1 < i) /\ j + 1 # i /\ j + 1 - 1 = j - 1 + 1
          BY <1>n, <2>6, <4>4
        <5>2. p[j + 1] = q[j + 1 - 1]
          BY <1>2, <5>1
        <5> QED BY <4>2, <4>3, <4>4, <5>1, <5>2
      <4> QED BY <4>2, <4>3, <4>4
    <3> QED BY <3>4, <3>5
  <2> QED BY <1>1, <2>4, <2>5, <2>6
<1>8. Line(r, p, T)
  BY <1>2, <1>3, <1>4, <1>5, <1>6, <1>7 DEF Line, Represents
<1>9. Items(r) = Items(s) \cup {k}
  BY DEF Items, Spliced
<1> QED BY <1>2, <1>8, <1>9 DEF p

(* The assignments of the operations, field by field.                      *)
LEMMA Fields ==
  ASSUME NEW s, IsObject(s)
  PROVE  /\ \A n, u : SetUp(s, n, u) = [top |-> s.top, bottom |-> s.bottom,
                       up |-> [j \in Items(s) |-> IF j = n THEN u ELSE s.up[j]], down |-> s.down]
         /\ \A n, d : SetDown(s, n, d) = [top |-> s.top, bottom |-> s.bottom,
                       up |-> s.up, down |-> [j \in Items(s) |-> IF j = n THEN d ELSE s.down[j]]]
         /\ \A t : [s EXCEPT !.top = t] = [top |-> t, bottom |-> s.bottom, up |-> s.up, down |-> s.down]
         /\ \A b : [s EXCEPT !.bottom = b] = [top |-> s.top, bottom |-> b, up |-> s.up, down |-> s.down]
         /\ \A k : Forget(s, k) = [top |-> s.top, bottom |-> s.bottom,
                       up |-> [j \in Items(s) \ {k} |-> s.up[j]],
                       down |-> [j \in Items(s) \ {k} |-> s.down[j]]]
<1>1. PICK t, b, u, d : s = [top |-> t, bottom |-> b, up |-> u, down |-> d]
  BY DEF IsObject
<1>2. s.top = t /\ s.bottom = b /\ s.up = u /\ s.down = d
  BY <1>1
<1>3. ASSUME NEW f
      PROVE  /\ [s EXCEPT !.up = f] = [top |-> t, bottom |-> b, up |-> f, down |-> d]
             /\ [s EXCEPT !.down = f] = [top |-> t, bottom |-> b, up |-> u, down |-> f]
             /\ [s EXCEPT !.top = f] = [top |-> f, bottom |-> b, up |-> u, down |-> d]
             /\ [s EXCEPT !.bottom = f] = [top |-> t, bottom |-> f, up |-> u, down |-> d]
  BY <1>1
<1>4. ASSUME NEW f, NEW g
      PROVE  [s EXCEPT !.up = f, !.down = g] = [top |-> t, bottom |-> b, up |-> f, down |-> g]
  <2>1. [s EXCEPT !.up = f] = [top |-> t, bottom |-> b, up |-> f, down |-> d]
    BY <1>3
  <2>2. [[top |-> t, bottom |-> b, up |-> f, down |-> d] EXCEPT !.down = g]
          = [top |-> t, bottom |-> b, up |-> f, down |-> g]
    OBVIOUS
  <2> QED BY <2>1, <2>2
<1>5. ASSUME NEW n, NEW v
      PROVE  SetUp(s, n, v) = [top |-> s.top, bottom |-> s.bottom,
               up |-> [j \in Items(s) |-> IF j = n THEN v ELSE s.up[j]], down |-> s.down]
  <2> DEFINE f == [j \in Items(s) |-> IF j = n THEN v ELSE s.up[j]]
  <2>1. SetUp(s, n, v) = [s EXCEPT !.up = f]
    BY DEF SetUp
  <2> HIDE DEF f
  <2>2. SetUp(s, n, v) = [top |-> s.top, bottom |-> s.bottom, up |-> f, down |-> s.down]
    BY <1>2, <1>3, <2>1
  <2> QED BY <2>2 DEF f
<1>6. ASSUME NEW n, NEW v
      PROVE  SetDown(s, n, v) = [top |-> s.top, bottom |-> s.bottom,
               up |-> s.up, down |-> [j \in Items(s) |-> IF j = n THEN v ELSE s.down[j]]]
  <2> DEFINE f == [j \in Items(s) |-> IF j = n THEN v ELSE s.down[j]]
  <2>1. SetDown(s, n, v) = [s EXCEPT !.down = f]
    BY DEF SetDown
  <2> HIDE DEF f
  <2>2. SetDown(s, n, v) = [top |-> s.top, bottom |-> s.bottom, up |-> s.up, down |-> f]
    BY <1>2, <1>3, <2>1
  <2> QED BY <2>2 DEF f
<1>7. ASSUME NEW k
      PROVE  Forget(s, k) = [top |-> s.top, bottom |-> s.bottom,
               up |-> [j \in Items(s) \ {k} |-> s.up[j]],
               down |-> [j \in Items(s) \ {k} |-> s.down[j]]]
  <2> DEFINE f == [j \in Items(s) \ {k} |-> s.up[j]]
             g == [j \in Items(s) \ {k} |-> s.down[j]]
  <2>1. Forget(s, k) = [s EXCEPT !.up = f, !.down = g]
    BY DEF Forget
  <2> HIDE DEF f, g
  <2>2. Forget(s, k) = [top |-> s.top, bottom |-> s.bottom, up |-> f, down |-> g]
    BY <1>2, <1>4, <2>1
  <2> QED BY <2>2 DEF f, g
<1>8. ASSUME NEW f
      PROVE  /\ [s EXCEPT !.top = f] = [top |-> f, bottom |-> s.bottom, up |-> s.up, down |-> s.down]
             /\ [s EXCEPT !.bottom = f] = [top |-> s.top, bottom |-> f, up |-> s.up, down |-> s.down]
  BY <1>2, <1>3
<1> QED BY <1>5, <1>6, <1>7, <1>8

(* The pointers of a new node.                                             *)
LEMMA NewNodeFields ==
  ASSUME NEW s, IsObject(s), NEW k, NEW u, NEW d
  PROVE  LET r == NewNode(s, k, u, d) IN
         /\ IsObject(r) /\ r.top = s.top /\ r.bottom = s.bottom
         /\ Items(r) = Items(s) \cup {k} /\ DOMAIN r.down = Items(s) \cup {k}
         /\ \A j \in Items(s) \cup {k} :
              /\ r.up[j] = IF j = k THEN u ELSE s.up[j]
              /\ r.down[j] = IF j = k THEN d ELSE s.down[j]
<1> DEFINE f == [j \in Items(s) \cup {k} |-> IF j = k THEN u ELSE s.up[j]]
           g == [j \in Items(s) \cup {k} |-> IF j = k THEN d ELSE s.down[j]]
<1>1. PICK t, b, v, w : s = [top |-> t, bottom |-> b, up |-> v, down |-> w]
  BY DEF IsObject
<1>2. s.top = t /\ s.bottom = b
  BY <1>1
<1>3. NewNode(s, k, u, d) = [s EXCEPT !.up = f, !.down = g]
  BY DEF NewNode
<1> HIDE DEF f, g
<1>4. [s EXCEPT !.up = f] = [top |-> t, bottom |-> b, up |-> f, down |-> w]
  BY <1>1
<1>5. [[top |-> t, bottom |-> b, up |-> f, down |-> w] EXCEPT !.down = g]
        = [top |-> t, bottom |-> b, up |-> f, down |-> g]
  OBVIOUS
<1>6. NewNode(s, k, u, d) = [top |-> s.top, bottom |-> s.bottom, up |-> f, down |-> g]
  BY <1>2, <1>3, <1>4, <1>5
<1> DEFINE r == NewNode(s, k, u, d)
<1>7. r.top = s.top /\ r.bottom = s.bottom /\ r.up = f /\ r.down = g
  BY <1>6
<1> HIDE DEF r
<1> QED BY <1>6, <1>7 DEF f, g, Items, IsObject, r

(* Objects with the same pointers are the same.                            *)
LEMMA SameObject ==
  ASSUME NEW r, NEW s, IsObject(r), IsObject(s), r.top = s.top, r.bottom = s.bottom,
         DOMAIN r.up = DOMAIN s.up, \A j \in DOMAIN s.up : r.up[j] = s.up[j],
         DOMAIN r.down = DOMAIN s.down, \A j \in DOMAIN s.down : r.down[j] = s.down[j]
  PROVE  r = s
<1>1. r.up = s.up /\ r.down = s.down
  BY DEF IsObject
<1> QED BY <1>1 DEF IsObject

(* Remove, pointer by pointer.                                             *)
LEMMA RemoveShape ==
  ASSUME NEW s, IsObject(s), DOMAIN s.down = Items(s), NEW k
  PROVE  LET r == Remove(s, k) IN
         /\ IsObject(r)
         /\ DOMAIN r.up = Items(s) \ {k} /\ DOMAIN r.down = Items(s) \ {k}
         /\ r.top = IF s.top = k THEN s.down[k] ELSE s.top
         /\ r.bottom = IF s.bottom = k THEN s.up[k] ELSE s.bottom
         /\ \A j \in Items(s) \ {k} :
              /\ r.up[j] = IF s.bottom # k /\ j = s.down[k] THEN s.up[k] ELSE s.up[j]
              /\ r.down[j] = IF s.top # k /\ j = s.up[k] THEN s.down[k] ELSE s.down[j]
<1> DEFINE below == IF s.bottom = k THEN [s EXCEPT !.bottom = s.up[k]]
                    ELSE SetUp(s, s.down[k], s.up[k])
           above == IF s.top = k THEN [below EXCEPT !.top = s.down[k]]
                    ELSE SetDown(below, s.up[k], s.down[k])
<1>1. /\ IsObject(below)
      /\ below.top = s.top
      /\ below.bottom = IF s.bottom = k THEN s.up[k] ELSE s.bottom
      /\ Items(below) = Items(s) /\ below.down = s.down
      /\ \A j \in Items(s) :
           below.up[j] = IF s.bottom # k /\ j = s.down[k] THEN s.up[k] ELSE s.up[j]
  <2>1. CASE s.bottom = k
    <3>1. below = [top |-> s.top, bottom |-> s.up[k], up |-> s.up, down |-> s.down]
      BY <2>1, Fields
    <3> HIDE DEF below
    <3> QED BY <2>1, <3>1 DEF IsObject, Items
  <2>2. CASE s.bottom # k
    <3>1. below = [top |-> s.top, bottom |-> s.bottom, down |-> s.down,
                   up |-> [j \in Items(s) |-> IF j = s.down[k] THEN s.up[k] ELSE s.up[j]]]
      BY <2>2, Fields
    <3> HIDE DEF below
    <3> QED BY <2>2, <3>1 DEF IsObject, Items
  <2> QED BY <2>1, <2>2
<1> HIDE DEF below
<1>2. /\ IsObject(above)
      /\ above.top = IF s.top = k THEN s.down[k] ELSE s.top
      /\ above.bottom = below.bottom
      /\ above.up = below.up /\ DOMAIN above.down = Items(s)
      /\ \A j \in Items(s) :
           above.down[j] = IF s.top # k /\ j = s.up[k] THEN s.down[k] ELSE s.down[j]
  <2>1. CASE s.top = k
    <3>1. above = [top |-> s.down[k], bottom |-> below.bottom, up |-> below.up, down |-> below.down]
      BY <1>1, <2>1, Fields
    <3> HIDE DEF above
    <3> QED BY <1>1, <2>1, <3>1 DEF IsObject, Items
  <2>2. CASE s.top # k
    <3>1. above = [top |-> below.top, bottom |-> below.bottom, up |-> below.up,
                   down |-> [j \in Items(s) |-> IF j = s.up[k] THEN s.down[k] ELSE s.down[j]]]
      BY <1>1, <2>2, Fields
    <3> HIDE DEF above
    <3> QED BY <1>1, <2>2, <3>1 DEF IsObject, Items
  <2> QED BY <2>1, <2>2
<1> HIDE DEF above
<1>3. Remove(s, k) = [top |-> above.top, bottom |-> above.bottom,
                      up |-> [j \in Items(above) \ {k} |-> above.up[j]],
                      down |-> [j \in Items(above) \ {k} |-> above.down[j]]]
  <2>1. Remove(s, k) = Forget(above, k)
    BY DEF Remove, above, below
  <2> QED BY <1>2, <2>1, Fields
<1>4. Items(above) = Items(s)
  BY <1>1, <1>2 DEF Items
<1> QED BY <1>1, <1>2, <1>3, <1>4 DEF IsObject

(* remove takes the i-th item out and leaves the order of the others.      *)
THEOREM RemoveKeepsLine ==
  ASSUME NEW T, None \notin T, NEW s, NEW q, Line(s, q, T), NEW i \in 1 .. Len(q)
  PROVE  /\ Line(Remove(s, q[i]), RemovedAt(q, i), T)
         /\ Items(Remove(s, q[i])) = Items(s) \ {q[i]}
         /\ Len(RemovedAt(q, i)) = Len(q) - 1
<1> DEFINE p == RemovedAt(q, i)
           r == Remove(s, q[i])
<1>1. /\ Len(q) \in Nat /\ DOMAIN q = 1 .. Len(q)
      /\ \A j \in 1 .. Len(q) : q[j] \in T /\ q[j] # None /\ (q[j] = q[i] => j = i)
      /\ Items(s) = {q[j] : j \in 1 .. Len(q)}
      /\ Distinct(q)
  BY LineFacts DEF Line, Distinct
<1>2. /\ p \in Seq(T) /\ Len(p) = Len(q) - 1 /\ DOMAIN p = 1 .. Len(q) - 1
      /\ \A j \in 1 .. Len(q) - 1 : p[j] = IF j < i THEN q[j] ELSE q[j + 1]
  <2>1. \A j \in 1 .. Len(q) - 1 : (IF j < i THEN q[j] ELSE q[j + 1]) \in T
    BY <1>1
  <2>2. p \in [1 .. Len(q) - 1 -> T]
    BY <2>1 DEF RemovedAt
  <2>3. Len(q) - 1 \in Nat
    BY <1>1
  <2>4. PICK n \in Nat : n = Len(q) - 1
    BY <2>3
  <2>5. p \in Seq(T) /\ Len(p) = n /\ DOMAIN p = 1 .. n
    <3>1. p \in [1 .. n -> T]
      BY <2>2, <2>4
    <3> HIDE DEF p
    <3> QED BY <3>1
  <2> QED BY <2>4, <2>5 DEF RemovedAt
<1>3. /\ IsObject(r)
      /\ DOMAIN r.up = Items(s) \ {q[i]} /\ DOMAIN r.down = Items(s) \ {q[i]}
      /\ r.top = IF s.top = q[i] THEN s.down[q[i]] ELSE s.top
      /\ r.bottom = IF s.bottom = q[i] THEN s.up[q[i]] ELSE s.bottom
      /\ \A j \in Items(s) \ {q[i]} :
           /\ r.up[j] = IF s.bottom # q[i] /\ j = s.down[q[i]] THEN s.up[q[i]] ELSE s.up[j]
           /\ r.down[j] = IF s.top # q[i] /\ j = s.up[q[i]] THEN s.down[q[i]] ELSE s.down[j]
  <2>1. IsObject(s) /\ DOMAIN s.down = Items(s)
    BY DEF Line, Represents
  <2> QED BY <2>1, RemoveShape
<1>4. /\ \A j \in 1 .. Len(q) :
           /\ s.up[q[j]] = IF j = 1 THEN None ELSE q[j - 1]
           /\ s.down[q[j]] = IF j = Len(q) THEN None ELSE q[j + 1]
      /\ s.top = q[1] /\ s.bottom = q[Len(q)]
      /\ 1 \in 1 .. Len(q) /\ Len(q) \in 1 .. Len(q)
  <2>1. 1 \in 1 .. Len(q) /\ Len(q) \in 1 .. Len(q) /\ Len(q) # 0
    BY <1>1
  <2> QED BY <1>1, <2>1 DEF Line, Represents
<1>a. /\ s.up[q[i]] = IF i = 1 THEN None ELSE q[i - 1]
      /\ s.down[q[i]] = IF i = Len(q) THEN None ELSE q[i + 1]
  BY <1>4
<1>n. Len(q) \in Nat /\ i \in 1 .. Len(q)
  BY <1>1
<1> HIDE DEF p, r
<1>5. \A j \in 1 .. Len(q) - 1 :
        LET x == IF j < i THEN j ELSE j + 1 IN x \in 1 .. Len(q) /\ p[j] = q[x] /\ x # i
  BY <1>1, <1>2
<1>6. Distinct(p)
  <2> SUFFICES ASSUME NEW a \in 1 .. Len(q) - 1, NEW b \in 1 .. Len(q) - 1, p[a] = p[b]
               PROVE  a = b
    BY <1>2 DEF Distinct
  <2> DEFINE x == IF a < i THEN a ELSE a + 1
             y == IF b < i THEN b ELSE b + 1
  <2>1. x \in DOMAIN q /\ y \in DOMAIN q /\ p[a] = q[x] /\ p[b] = q[y]
    BY <1>1, <1>5
  <2>2. x = y
    <3> HIDE DEF x, y
    <3> QED BY <1>1, <2>1 DEF Distinct
  <2> QED BY <1>1, <2>2
<1>7. {p[j] : j \in 1 .. Len(q) - 1} = Items(s) \ {q[i]}
  <2>1. \A j \in 1 .. Len(q) - 1 : p[j] \in Items(s) \ {q[i]}
    BY <1>1, <1>5
  <2>2. \A j \in 1 .. Len(q) : j # i => \E l \in 1 .. Len(q) - 1 : p[l] = q[j]
    <3> SUFFICES ASSUME NEW j \in 1 .. Len(q), j # i
                 PROVE  \E l \in 1 .. Len(q) - 1 : p[l] = q[j]
      OBVIOUS
    <3>1. CASE j < i
      BY <1>1, <1>2, <3>1
    <3>2. CASE j > i
      <4>1. j - 1 \in 1 .. Len(q) - 1 /\ p[j - 1] = q[j]
        BY <1>1, <1>2, <3>2
      <4> QED BY <4>1
    <3> QED BY <1>1, <3>1, <3>2
  <2>3. Items(s) \ {q[i]} \subseteq {p[j] : j \in 1 .. Len(q) - 1}
    <3> SUFFICES ASSUME NEW y \in Items(s), y # q[i]
                 PROVE  y \in {p[j] : j \in 1 .. Len(q) - 1}
      OBVIOUS
    <3>1. PICK l \in 1 .. Len(q) : y = q[l]
      BY <1>1
    <3>2. PICK m \in 1 .. Len(q) - 1 : p[m] = q[l]
      BY <2>2, <3>1
    <3> QED BY <3>1, <3>2
  <2> QED BY <2>1, <2>3
<1>8. /\ r.top = IF Len(p) = 0 THEN None ELSE p[1]
      /\ r.bottom = IF Len(p) = 0 THEN None ELSE p[Len(p)]
  <2>1. s.top = q[i] <=> i = 1
    BY <1>1, <1>4
  <2>2. s.bottom = q[i] <=> i = Len(q)
    BY <1>1, <1>4
  <2>3. r.top = IF i = 1 THEN IF Len(q) = 1 THEN None ELSE q[2] ELSE q[1]
    <3>1. CASE i = 1
      <4>1. r.top = s.down[q[i]]
        BY <1>3, <2>1, <3>1
      <4>2. s.down[q[i]] = IF Len(q) = 1 THEN None ELSE q[2]
        BY <1>a, <3>1
      <4> QED BY <3>1, <4>1, <4>2
    <3>2. CASE i # 1
      BY <1>3, <1>4, <2>1, <3>2
    <3> QED BY <3>1, <3>2
  <2>4. r.bottom = IF i = Len(q) THEN IF Len(q) = 1 THEN None ELSE q[Len(q) - 1] ELSE q[Len(q)]
    <3>1. CASE i = Len(q)
      BY <1>1, <1>3, <1>4, <2>2, <3>1
    <3>2. CASE i # Len(q)
      BY <1>3, <1>4, <2>2, <3>2
    <3> QED BY <3>1, <3>2
  <2>5. CASE Len(q) = 1
    BY <1>1, <1>2, <2>3, <2>4, <2>5
  <2>6. CASE Len(q) > 1
    <3>1. Len(p) # 0 /\ 1 \in 1 .. Len(q) - 1 /\ Len(q) - 1 \in 1 .. Len(q) - 1
      BY <1>1, <1>2, <2>6
    <3>2. p[1] = (IF i = 1 THEN q[2] ELSE q[1])
      BY <1>1, <1>2, <3>1
    <3>3. p[Len(q) - 1] = (IF i = Len(q) THEN q[Len(q) - 1] ELSE q[Len(q)])
      <4>1. p[Len(q) - 1] = IF Len(q) - 1 < i THEN q[Len(q) - 1] ELSE q[Len(q) - 1 + 1]
        BY <1>2, <3>1
      <4>2. Len(q) - 1 < i <=> i = Len(q)
        BY <1>n
      <4>3. Len(q) - 1 + 1 = Len(q)
        BY <1>1
      <4> QED BY <4>1, <4>2, <4>3
    <3> QED BY <1>2, <2>3, <2>4, <2>6, <3>1, <3>2, <3>3
  <2> QED BY <1>1, <2>5, <2>6
<1>9. \A j \in DOMAIN p :
        /\ r.up[p[j]] = IF j = 1 THEN None ELSE p[j - 1]
        /\ r.down[p[j]] = IF j = Len(p) THEN None ELSE p[j + 1]
  <2> SUFFICES ASSUME NEW j \in 1 .. Len(q) - 1
               PROVE  /\ r.up[p[j]] = IF j = 1 THEN None ELSE p[j - 1]
                      /\ r.down[p[j]] = IF j = Len(q) - 1 THEN None ELSE p[j + 1]
    BY <1>2
  <2> DEFINE x == IF j < i THEN j ELSE j + 1
  <2>1. x \in 1 .. Len(q) /\ p[j] = q[x] /\ x # i /\ q[x] \in Items(s) \ {q[i]}
    BY <1>1, <1>5
  <2>x. x = IF j < i THEN j ELSE j + 1
    OBVIOUS
  <2> HIDE DEF x
  <2>2. (s.bottom # q[i] /\ q[x] = s.down[q[i]]) <=> x = i + 1
    <3>1. CASE i = Len(q)
      <4>1. s.bottom = q[i]
        BY <1>4, <3>1
      <4>2. x # i + 1
        <5>1. x \in 1 .. Len(q)
          BY <2>1
        <5> QED BY <1>n, <3>1, <5>1
      <4> QED BY <4>1, <4>2
    <3>2. CASE i # Len(q)
      <4>1. i + 1 \in DOMAIN q /\ s.down[q[i]] = q[i + 1] /\ s.bottom # q[i]
        <5>1. i + 1 \in DOMAIN q
          BY <1>1, <3>2
        <5>2. q[Len(q)] # q[i]
          BY <1>1, <1>4, <3>2
        <5> QED BY <1>4, <1>a, <3>2, <5>1, <5>2
      <4> QED BY <1>1, <2>1, <4>1 DEF Distinct
    <3> QED BY <3>1, <3>2
  <2>3. (s.top # q[i] /\ q[x] = s.up[q[i]]) <=> x = i - 1
    <3>1. CASE i = 1
      <4>1. s.top = q[i]
        BY <1>4, <3>1
      <4>2. x # i - 1
        BY <1>1, <2>1, <3>1
      <4> QED BY <4>1, <4>2
    <3>2. CASE i # 1
      <4>1. i - 1 \in DOMAIN q /\ s.up[q[i]] = q[i - 1] /\ s.top # q[i]
        <5>1. i - 1 \in DOMAIN q
          BY <1>1, <3>2
        <5>2. q[1] # q[i]
          BY <1>1, <1>4, <3>2
        <5> QED BY <1>4, <1>a, <3>2, <5>1, <5>2
      <4> QED BY <1>1, <2>1, <4>1 DEF Distinct
    <3> QED BY <3>1, <3>2
  <2>4. /\ r.up[q[x]] = IF x = i + 1 THEN s.up[q[i]] ELSE s.up[q[x]]
        /\ r.down[q[x]] = IF x = i - 1 THEN s.down[q[i]] ELSE s.down[q[x]]
    BY <1>3, <2>1, <2>2, <2>3
  <2>5. /\ r.up[q[x]] = IF x = i + 1 THEN IF i = 1 THEN None ELSE q[i - 1]
                         ELSE IF x = 1 THEN None ELSE q[x - 1]
        /\ r.down[q[x]] = IF x = i - 1 THEN IF i = Len(q) THEN None ELSE q[i + 1]
                           ELSE IF x = Len(q) THEN None ELSE q[x + 1]
    BY <1>4, <2>1, <2>4
  <2>6. CASE j < i
    <3>1. x = j /\ x # i + 1 /\ p[j] = q[j]
      BY <1>1, <2>1, <2>x, <2>6
    <3>2. r.up[p[j]] = IF j = 1 THEN None ELSE p[j - 1]
      <4>1. r.up[p[j]] = IF j = 1 THEN None ELSE q[j - 1]
        BY <2>1, <2>5, <3>1
      <4>2. CASE j # 1
        <5>1. j - 1 \in 1 .. Len(q) - 1 /\ j - 1 < i
          BY <1>1, <2>6, <4>2
        <5>2. p[j - 1] = q[j - 1]
          BY <1>2, <5>1
        <5> QED BY <4>1, <4>2, <5>2
      <4> QED BY <4>1, <4>2
    <3>3. r.down[p[j]] = IF j = Len(q) - 1 THEN None ELSE p[j + 1]
      <4>1. CASE j = i - 1
        <5>1. x = i - 1 /\ (j = Len(q) - 1 <=> i = Len(q))
          BY <1>n, <3>1, <4>1
        <5>2. r.down[p[j]] = IF i = Len(q) THEN None ELSE q[i + 1]
          BY <2>1, <2>5, <5>1
        <5>3. CASE i # Len(q)
          <6>1. j + 1 \in 1 .. Len(q) - 1 /\ ~(j + 1 < i) /\ j + 1 = i
            BY <1>n, <4>1, <5>3
          <6>2. p[j + 1] = q[j + 1 + 1]
            BY <1>2, <6>1
          <6> QED BY <5>1, <5>2, <5>3, <6>1, <6>2
        <5> QED BY <5>1, <5>2, <5>3
      <4>2. CASE j # i - 1
        <5>1. j + 1 \in 1 .. Len(q) - 1 /\ j + 1 < i /\ j # Len(q) - 1 /\ j # Len(q)
          BY <1>n, <2>6, <4>2
        <5>2. p[j + 1] = q[j + 1]
          BY <1>2, <5>1
        <5> QED BY <2>1, <2>5, <3>1, <4>2, <5>1, <5>2
      <4> QED BY <4>1, <4>2
    <3> QED BY <3>2, <3>3
  <2>7. CASE j >= i
    <3>1. x = j + 1 /\ x # i - 1 /\ p[j] = q[j + 1]
      BY <1>1, <2>1, <2>x, <2>7
    <3>2. r.up[p[j]] = IF j = 1 THEN None ELSE p[j - 1]
      <4>1. CASE j = i
        <5>1. x = i + 1 /\ (j = 1 <=> i = 1)
          BY <1>n, <3>1, <4>1
        <5>2. r.up[p[j]] = IF i = 1 THEN None ELSE q[i - 1]
          BY <2>1, <2>5, <5>1
        <5>3. CASE i # 1
          <6>1. j - 1 \in 1 .. Len(q) - 1 /\ j - 1 < i /\ j - 1 = i - 1
            BY <1>n, <4>1, <5>3
          <6>2. p[j - 1] = q[j - 1]
            BY <1>2, <6>1
          <6> QED BY <5>1, <5>2, <5>3, <6>1, <6>2
        <5> QED BY <5>1, <5>2, <5>3
      <4>2. CASE j # i
        <5>1. j > i /\ j # 1 /\ j - 1 \in 1 .. Len(q) - 1 /\ x - 1 = j
          BY <1>1, <2>7, <3>1, <4>2
        <5>2. p[j - 1] = q[j]
          BY <1>1, <1>2, <5>1
        <5>3. x # i + 1 /\ x # 1
          BY <1>1, <3>1, <4>2, <5>1
        <5>4. r.up[q[x]] = q[x - 1]
          BY <2>5, <5>3
        <5> QED BY <2>1, <5>1, <5>2, <5>4
      <4> QED BY <4>1, <4>2
    <3>3. r.down[p[j]] = IF j = Len(q) - 1 THEN None ELSE p[j + 1]
      <4>1. r.down[p[j]] = IF x = Len(q) THEN None ELSE q[x + 1]
        BY <2>1, <2>5, <3>1
      <4>2. x = Len(q) <=> j = Len(q) - 1
        BY <1>1, <3>1
      <4>3. CASE j # Len(q) - 1
        <5>1. j + 1 \in 1 .. Len(q) - 1 /\ ~(j + 1 < i) /\ x + 1 = j + 1 + 1
          <6>1. j + 1 \in 1 .. Len(q) - 1
            BY <1>n, <4>3
          <6>2. ~(j + 1 < i)
            BY <1>n, <2>7
          <6>3. x + 1 = j + 1 + 1
            BY <1>n, <3>1
          <6> QED BY <6>1, <6>2, <6>3
        <5>2. p[j + 1] = q[j + 1 + 1]
          BY <1>2, <5>1
        <5> QED BY <4>1, <4>2, <4>3, <5>1, <5>2
      <4> QED BY <4>1, <4>2, <4>3
    <3> QED BY <3>2, <3>3
  <2>8. j < i \/ j >= i
    BY <1>n
  <2> QED BY <2>6, <2>7, <2>8
<1>10. Line(r, p, T)
  BY <1>2, <1>3, <1>6, <1>7, <1>8, <1>9 DEF Line, Represents, Items
<1>11. Items(r) = Items(s) \ {q[i]}
  BY <1>3 DEF Items
<1> QED BY <1>2, <1>10, <1>11 DEF p, r

---------------------------------------------------------------------------
(* What a line says of its ends.                                           *)
LEMMA Ends ==
  ASSUME NEW T, None \notin T, NEW s, NEW q, Line(s, q, T)
  PROVE  /\ IsObject(s) /\ DOMAIN s.up = Items(s) /\ DOMAIN s.down = Items(s)
         /\ None \notin Items(s)
         /\ s.top = Below(q, 1) /\ s.bottom = Above(q, Len(q) + 1)
         /\ (s.top = None <=> Len(q) = 0) /\ (s.bottom = None <=> Len(q) = 0)
<1>1. /\ Len(q) \in Nat /\ \A i \in 1 .. Len(q) : q[i] # None
      /\ DOMAIN s.up = Items(s) /\ DOMAIN s.down = Items(s) /\ Items(s) \subseteq T
  BY LineFacts
<1>2. /\ IsObject(s)
      /\ s.top = IF Len(q) = 0 THEN None ELSE q[1]
      /\ s.bottom = IF Len(q) = 0 THEN None ELSE q[Len(q)]
  BY DEF Line, Represents
<1>3. CASE Len(q) = 0
  BY <1>1, <1>2, <1>3 DEF Above, Below
<1>4. CASE Len(q) # 0
  <2>1. 1 \in 1 .. Len(q) /\ Len(q) \in 1 .. Len(q) /\ 1 # Len(q) + 1 /\ Len(q) + 1 - 1 = Len(q)
    BY <1>1, <1>4
  <2> QED BY <1>1, <1>2, <1>4, <2>1 DEF Above, Below
<1> QED BY <1>3, <1>4

(* append_top puts the new item before all others.                         *)
THEOREM AppendTopKeepsLine ==
  ASSUME NEW T, None \notin T, NEW s, NEW q, Line(s, q, T), NEW k \in T \ Items(s)
  PROVE  /\ Line(AppendTop(s, k), InsertedAt(q, 1, k), T)
         /\ Items(AppendTop(s, k)) = Items(s) \cup {k}
         /\ Len(InsertedAt(q, 1, k)) = Len(q) + 1
<1> DEFINE linked == IF s.top = None /\ s.bottom = None
                     THEN [s EXCEPT !.bottom = k] ELSE SetUp(s, s.top, k)
           named  == [linked EXCEPT !.top = k]
           r      == Spliced(s, k, None, s.top)
<1>1. /\ IsObject(s) /\ DOMAIN s.up = Items(s) /\ DOMAIN s.down = Items(s)
      /\ None \notin Items(s) /\ s.top = Below(q, 1) /\ (s.top = None <=> s.bottom = None)
  BY Ends
<1>2. /\ IsObject(linked) /\ Items(linked) = Items(s) /\ linked.down = s.down
      /\ linked.bottom = IF s.top = None THEN k ELSE s.bottom
      /\ \A j \in Items(s) : linked.up[j] = IF j = s.top THEN k ELSE s.up[j]
  <2>1. CASE s.top = None
    <3>1. linked = [top |-> s.top, bottom |-> k, up |-> s.up, down |-> s.down]
      BY <1>1, <2>1, Fields
    <3> HIDE DEF linked
    <3> QED BY <1>1, <2>1, <3>1 DEF IsObject, Items
  <2>2. CASE s.top # None
    <3>1. linked = [top |-> s.top, bottom |-> s.bottom, down |-> s.down,
                    up |-> [j \in Items(s) |-> IF j = s.top THEN k ELSE s.up[j]]]
      BY <1>1, <2>2, Fields
    <3> HIDE DEF linked
    <3> QED BY <1>1, <2>2, <3>1 DEF IsObject, Items
  <2> QED BY <2>1, <2>2
<1> HIDE DEF linked
<1>3. /\ IsObject(named) /\ Items(named) = Items(s) /\ named.down = s.down /\ named.top = k
      /\ named.bottom = linked.bottom /\ named.up = linked.up
  <2>1. named = [top |-> k, bottom |-> linked.bottom, up |-> linked.up, down |-> linked.down]
    BY <1>2, Fields
  <2> HIDE DEF named
  <2> QED BY <1>2, <2>1 DEF IsObject, Items
<1>4. AppendTop(s, k) = NewNode(named, k, None, s.top)
  BY DEF AppendTop, named, linked
<1> HIDE DEF named
<1>5. /\ IsObject(AppendTop(s, k))
      /\ AppendTop(s, k).top = named.top /\ AppendTop(s, k).bottom = named.bottom
      /\ DOMAIN AppendTop(s, k).up = Items(s) \cup {k}
      /\ DOMAIN AppendTop(s, k).down = Items(s) \cup {k}
      /\ \A j \in Items(s) \cup {k} :
           /\ AppendTop(s, k).up[j] = IF j = k THEN None ELSE named.up[j]
           /\ AppendTop(s, k).down[j] = IF j = k THEN s.top ELSE named.down[j]
  <2>1. IsObject(named)
    BY <1>3
  <2>2. Items(AppendTop(s, k)) = DOMAIN AppendTop(s, k).up
    BY DEF Items
  <2> QED BY <1>3, <1>4, <2>1, <2>2, NewNodeFields
<1>6. AppendTop(s, k) = r
  <2>1. IsObject(AppendTop(s, k)) /\ IsObject(r)
    BY <1>5 DEF IsObject, Spliced
  <2>2. /\ AppendTop(s, k).top = r.top /\ AppendTop(s, k).bottom = r.bottom
        /\ DOMAIN AppendTop(s, k).up = DOMAIN r.up /\ DOMAIN AppendTop(s, k).down = DOMAIN r.down
    BY <1>2, <1>3, <1>5 DEF Spliced
  <2>3. \A j \in DOMAIN r.up : AppendTop(s, k).up[j] = r.up[j]
    BY <1>2, <1>3, <1>5 DEF Spliced
  <2>4. \A j \in DOMAIN r.down : AppendTop(s, k).down[j] = r.down[j]
    BY <1>1, <1>3, <1>5 DEF Spliced
  <2> HIDE DEF r
  <2> QED BY <2>1, <2>2, <2>3, <2>4, SameObject
<1>7. Above(q, 1) = None /\ 1 \in 1 .. Len(q) + 1
  <2>1. Len(q) \in Nat
    BY LineFacts
  <2> QED BY <2>1 DEF Above
<1> QED BY <1>1, <1>6, <1>7, SpliceLine

(* insert_above puts it right above the i-th item.                         *)
THEOREM InsertAboveKeepsLine ==
  ASSUME NEW T, None \notin T, NEW s, NEW q, Line(s, q, T),
         NEW i \in 1 .. Len(q), NEW k \in T \ Items(s)
  PROVE  /\ Line(InsertAbove(s, q[i], k), InsertedAt(q, i, k), T)
         /\ Items(InsertAbove(s, q[i], k)) = Items(s) \cup {k}
         /\ Len(InsertedAt(q, i, k)) = Len(q) + 1
<1>1. /\ IsObject(s) /\ DOMAIN s.up = Items(s) /\ DOMAIN s.down = Items(s)
      /\ None \notin Items(s)
  BY Ends
<1>2. /\ Len(q) \in Nat /\ DOMAIN q = 1 .. Len(q)
      /\ \A j \in 1 .. Len(q) : q[j] # None /\ q[j] \in Items(s)
  BY LineFacts
<1>3. s.up[q[i]] = IF i = 1 THEN None ELSE q[i - 1]
  BY <1>2 DEF Line, Represents
<1>4. CASE i = 1
  <2>1. InsertAbove(s, q[i], k) = AppendTop(s, k)
    BY <1>3, <1>4 DEF InsertAbove
  <2> QED BY <1>4, <2>1, AppendTopKeepsLine
<1>5. CASE i # 1
  <2> DEFINE u == q[i - 1]
             d == q[i]
             a == SetDown(s, u, k)
             b == SetUp(a, d, k)
             t == InsertAbove(s, q[i], k)
             r == Spliced(s, k, u, d)
  <2>1. u # None /\ d # None /\ s.up[d] = u /\ u = Above(q, i) /\ d = Below(q, i)
    <3>1. i - 1 \in 1 .. Len(q) /\ i # Len(q) + 1
      BY <1>2, <1>5
    <3> QED BY <1>2, <1>3, <1>5, <3>1 DEF Above, Below
  <2>2. t = NewNode(b, k, u, d)
    BY <2>1 DEF InsertAbove
  <2> HIDE DEF u, d
  <2>3. /\ IsObject(a) /\ a.top = s.top /\ a.bottom = s.bottom /\ a.up = s.up
        /\ Items(a) = Items(s) /\ DOMAIN a.down = Items(s)
        /\ \A j \in Items(s) : a.down[j] = IF j = u THEN k ELSE s.down[j]
    <3>1. a = [top |-> s.top, bottom |-> s.bottom, up |-> s.up,
               down |-> [j \in Items(s) |-> IF j = u THEN k ELSE s.down[j]]]
      BY <1>1, Fields
    <3> HIDE DEF a
    <3> QED BY <1>1, <3>1 DEF IsObject, Items
  <2> HIDE DEF a
  <2>4. /\ IsObject(b) /\ b.top = s.top /\ b.bottom = s.bottom /\ b.down = a.down
        /\ Items(b) = Items(s)
        /\ \A j \in Items(s) : b.up[j] = IF j = d THEN k ELSE s.up[j]
    <3>1. b = [top |-> a.top, bottom |-> a.bottom, down |-> a.down,
               up |-> [j \in Items(a) |-> IF j = d THEN k ELSE a.up[j]]]
      BY <2>3, Fields
    <3> HIDE DEF b
    <3> QED BY <2>3, <3>1 DEF IsObject, Items
  <2> HIDE DEF b
  <2>5. /\ IsObject(t) /\ t.top = s.top /\ t.bottom = s.bottom
        /\ DOMAIN t.up = Items(s) \cup {k} /\ DOMAIN t.down = Items(s) \cup {k}
        /\ \A j \in Items(s) \cup {k} :
             /\ t.up[j] = IF j = k THEN u ELSE b.up[j]
             /\ t.down[j] = IF j = k THEN d ELSE b.down[j]
    <3>1. Items(t) = DOMAIN t.up
      BY DEF Items
    <3> HIDE DEF t
    <3> QED BY <2>2, <2>4, <3>1, NewNodeFields
  <2> HIDE DEF t
  <2>6. t = r
    <3>1. IsObject(r)
      BY DEF IsObject, Spliced
    <3>2. /\ t.top = r.top /\ t.bottom = r.bottom
          /\ DOMAIN t.up = DOMAIN r.up /\ DOMAIN t.down = DOMAIN r.down
      BY <2>1, <2>5 DEF Spliced
    <3>3. \A j \in DOMAIN r.up : t.up[j] = r.up[j]
      BY <2>4, <2>5 DEF Spliced
    <3>4. \A j \in DOMAIN r.down : t.down[j] = r.down[j]
      BY <2>3, <2>4, <2>5 DEF Spliced
    <3> HIDE DEF r
    <3> QED BY <2>5, <3>1, <3>2, <3>3, <3>4, SameObject
  <2>7. i \in 1 .. Len(q) + 1
    BY <1>2
  <2> QED BY <2>1, <2>6, <2>7, SpliceLine DEF t
<1> QED BY <1>4, <1>5

(* pop_bottom takes the last item away.                                    *)
THEOREM PopBottomKeepsLine ==
  ASSUME NEW T, None \notin T, NEW s, NEW q, Line(s, q, T), q # <<>>
  PROVE  /\ Line(PopBottom(s), RemovedAt(q, Len(q)), T)
         /\ Items(PopBottom(s)) = Items(s) \ {q[Len(q)]}
         /\ Len(RemovedAt(q, Len(q))) = Len(q) - 1
<1> DEFINE b == s.bottom
           t == PopBottom(s)
           r == Remove(s, b)
<1>1. /\ IsObject(s) /\ DOMAIN s.up = Items(s) /\ DOMAIN s.down = Items(s)
      /\ None \notin Items(s)
  BY Ends
<1>2. /\ Len(q) \in Nat /\ DOMAIN q = 1 .. Len(q) /\ q \in Seq(T)
      /\ \A j \in 1 .. Len(q) : q[j] # None /\ q[j] \in Items(s)
  BY LineFacts DEF Line
<1>3. 1 \in 1 .. Len(q) /\ Len(q) \in 1 .. Len(q) /\ Len(q) # 0
  BY <1>2
<1>4. /\ s.top = q[1] /\ b = q[Len(q)] /\ b # None /\ b \in Items(s)
      /\ s.down[b] = None
      /\ s.up[b] = IF Len(q) = 1 THEN None ELSE q[Len(q) - 1]
      /\ (s.top = b <=> Len(q) = 1)
  BY <1>2, <1>3 DEF Line, Represents, Distinct
<1> HIDE DEF b
<1>5. /\ IsObject(r) /\ DOMAIN r.up = Items(s) \ {b} /\ DOMAIN r.down = Items(s) \ {b}
      /\ r.top = (IF s.top = b THEN None ELSE s.top) /\ r.bottom = s.up[b]
      /\ \A j \in Items(s) \ {b} :
           /\ r.up[j] = s.up[j]
           /\ r.down[j] = IF s.top # b /\ j = s.up[b] THEN None ELSE s.down[j]
  <2>1. s.bottom = b
    BY DEF b
  <2>2. /\ IsObject(r) /\ DOMAIN r.up = Items(s) \ {b} /\ DOMAIN r.down = Items(s) \ {b}
        /\ r.top = (IF s.top = b THEN s.down[b] ELSE s.top)
        /\ r.bottom = (IF s.bottom = b THEN s.up[b] ELSE s.bottom)
        /\ \A j \in Items(s) \ {b} :
             /\ r.up[j] = IF s.bottom # b /\ j = s.down[b] THEN s.up[b] ELSE s.up[j]
             /\ r.down[j] = IF s.top # b /\ j = s.up[b] THEN s.down[b] ELSE s.down[j]
    BY <1>1, RemoveShape
  <2> HIDE DEF r
  <2> QED BY <1>4, <2>1, <2>2
<1>6. /\ IsObject(t) /\ DOMAIN t.up = Items(s) \ {b} /\ DOMAIN t.down = Items(s) \ {b}
      /\ t.top = (IF s.top = b THEN None ELSE s.top) /\ t.bottom = s.up[b]
      /\ \A j \in Items(s) \ {b} :
           /\ t.up[j] = s.up[j]
           /\ t.down[j] = IF s.top # b /\ j = s.up[b] THEN None ELSE s.down[j]
  <2>1. CASE s.top = b
    <3> DEFINE a == [s EXCEPT !.top = None, !.bottom = None]
    <3>1. t = Forget(a, b)
      BY <1>4, <2>1 DEF PopBottom, b
    <3>2. PICK x, y, v, w : s = [top |-> x, bottom |-> y, up |-> v, down |-> w]
      BY <1>1 DEF IsObject
    <3>3. a = [top |-> None, bottom |-> None, up |-> s.up, down |-> s.down]
      <4>1. [s EXCEPT !.top = None] = [top |-> None, bottom |-> y, up |-> v, down |-> w]
        BY <3>2
      <4>2. [[top |-> None, bottom |-> y, up |-> v, down |-> w] EXCEPT !.bottom = None]
              = [top |-> None, bottom |-> None, up |-> v, down |-> w]
        OBVIOUS
      <4>3. s.up = v /\ s.down = w
        BY <3>2
      <4> QED BY <4>1, <4>2, <4>3
    <3> HIDE DEF a, t
    <3>4. IsObject(a) /\ Items(a) = Items(s)
      BY <1>1, <3>3 DEF IsObject, Items
    <3>5. t = [top |-> a.top, bottom |-> a.bottom, up |-> [j \in Items(a) \ {b} |-> a.up[j]],
               down |-> [j \in Items(a) \ {b} |-> a.down[j]]]
      BY <3>1, <3>4, Fields
    <3> QED BY <1>4, <2>1, <3>3, <3>4, <3>5 DEF IsObject
  <2>2. CASE s.top # b
    <3> DEFINE a == SetDown(s, s.up[b], None)
               c == [a EXCEPT !.bottom = s.up[b]]
    <3>1. t = Forget(c, b)
      BY <1>4, <2>2 DEF PopBottom, b
    <3>2. a = [top |-> s.top, bottom |-> s.bottom, up |-> s.up,
               down |-> [j \in Items(s) |-> IF j = s.up[b] THEN None ELSE s.down[j]]]
      BY <1>1, Fields
    <3> HIDE DEF a, t
    <3>3. /\ IsObject(a) /\ a.top = s.top /\ a.up = s.up /\ DOMAIN a.down = Items(s)
          /\ \A j \in Items(s) : a.down[j] = IF j = s.up[b] THEN None ELSE s.down[j]
      BY <1>1, <3>2 DEF IsObject
    <3>4. c = [top |-> a.top, bottom |-> s.up[b], up |-> a.up, down |-> a.down]
      BY <3>3, Fields
    <3> HIDE DEF c
    <3>5. IsObject(c) /\ Items(c) = Items(s)
      BY <1>1, <3>3, <3>4 DEF IsObject, Items
    <3>6. t = [top |-> c.top, bottom |-> c.bottom, up |-> [j \in Items(c) \ {b} |-> c.up[j]],
               down |-> [j \in Items(c) \ {b} |-> c.down[j]]]
      BY <3>1, <3>5, Fields
    <3> QED BY <2>2, <3>3, <3>4, <3>5, <3>6 DEF IsObject
  <2> QED BY <2>1, <2>2
<1>7. t = r
  <2> HIDE DEF t, r
  <2>1. t.top = r.top /\ t.bottom = r.bottom /\ DOMAIN t.up = DOMAIN r.up /\ DOMAIN t.down = DOMAIN r.down
    BY <1>5, <1>6
  <2>2. \A j \in DOMAIN r.up : t.up[j] = r.up[j]
    BY <1>5, <1>6
  <2>3. \A j \in DOMAIN r.down : t.down[j] = r.down[j]
    BY <1>5, <1>6
  <2> QED BY <1>5, <1>6, <2>1, <2>2, <2>3, SameObject
<1> HIDE DEF t, r
<1>8. /\ Line(r, RemovedAt(q, Len(q)), T)
      /\ Items(r) = Items(s) \ {q[Len(q)]} /\ Len(RemovedAt(q, Len(q))) = Len(q) - 1
  <2>1. Len(q) \in 1 .. Len(q)
    BY <1>3
  <2>2. /\ Line(Remove(s, q[Len(q)]), RemovedAt(q, Len(q)), T)
        /\ Items(Remove(s, q[Len(q)])) = Items(s) \ {q[Len(q)]}
        /\ Len(RemovedAt(q, Len(q))) = Len(q) - 1
    BY <2>1, RemoveKeepsLine
  <2> QED BY <1>4, <2>2 DEF r
<1> QED BY <1>7, <1>8 DEF t

(* What put leaves of a line that was at its limit: the new item on top    *)
(* and, where the list has become too long, its last item gone.            *)
THEOREM PushAndPop ==
  ASSUME NEW T, None \notin T, NEW s, NEW q, Line(s, q, T), NEW k \in T \ Items(s)
  PROVE  LET line == InsertedAt(q, 1, k)
             top  == AppendTop(s, k)
         IN  /\ Line(PopBottom(top), RemovedAt(line, Len(line)), T)
             /\ Items(PopBottom(top)) = (Items(s) \cup {k}) \ {top.bottom}
             /\ Len(RemovedAt(line, Len(line))) = Len(q)
             /\ Len(q) > 0 => top.bottom = q[Len(q)]
<1> DEFINE line == InsertedAt(q, 1, k)
           top  == AppendTop(s, k)
<1>1. /\ Line(top, line, T) /\ Items(top) = Items(s) \cup {k}
      /\ Len(line) = Len(q) + 1
  BY AppendTopKeepsLine
<1>2. Len(q) \in Nat
  BY LineFacts
<1>3. Len(q) > 0 => line[Len(q) + 1] = q[Len(q)]
  <2> SUFFICES ASSUME Len(q) > 0 PROVE line[Len(q) + 1] = q[Len(q)]
    OBVIOUS
  <2>1. Len(q) + 1 \in 1 .. Len(q) + 1 /\ ~(Len(q) + 1 < 1) /\ Len(q) + 1 # 1 /\ Len(q) + 1 - 1 = Len(q)
    BY <1>2
  <2> QED BY <2>1 DEF InsertedAt
<1> HIDE DEF line, top
<1>4. Len(line) # 0 /\ line # <<>> /\ Len(line) - 1 = Len(q)
  BY <1>1, <1>2
<1>5. top.bottom = line[Len(line)]
  BY <1>1, <1>4 DEF Line, Represents
<1>6. /\ Line(PopBottom(top), RemovedAt(line, Len(line)), T)
      /\ Items(PopBottom(top)) = Items(top) \ {line[Len(line)]}
      /\ Len(RemovedAt(line, Len(line))) = Len(line) - 1
  BY <1>1, <1>4, PopBottomKeepsLine
<1> QED BY <1>1, <1>3, <1>4, <1>5, <1>6 DEF line, top

(* An item put back where it was taken out changes nothing.                *)
LEMMA MovedNowhere ==
  ASSUME NEW T, NEW q \in Seq(T), NEW i \in 1 .. Len(q)
  PROVE  MovedTo(q, i, i) = q
<1> DEFINE p == RemovedAt(q, i)
           m == MovedTo(q, i, i)
<1>1. Len(q) \in Nat /\ DOMAIN q = 1 .. Len(q) /\ q = [j \in 1 .. Len(q) |-> q[j]]
  OBVIOUS
<1>2. Len(p) = Len(q) - 1 /\ \A j \in 1 .. Len(q) - 1 : p[j] = IF j < i THEN q[j] ELSE q[j + 1]
  <2>1. Len(q) - 1 \in Nat
    BY <1>1
  <2> QED BY <2>1 DEF RemovedAt
<1> HIDE DEF p
<1>3. m = [j \in 1 .. Len(q) |-> IF j < i THEN p[j] ELSE IF j = i THEN q[i] ELSE p[j - 1]]
  <2>1. Len(p) + 1 = Len(q)
    BY <1>1, <1>2
  <2> QED BY <2>1 DEF MovedTo, InsertedAt, p
<1> HIDE DEF m
<1>4. ASSUME NEW j \in 1 .. Len(q) PROVE m[j] = q[j]
  <2>1. CASE j < i
    <3>1. j \in 1 .. Len(q) - 1
      BY <1>1, <2>1
    <3> QED BY <1>2, <1>3, <2>1, <3>1
  <2>2. CASE j = i
    <3>1. ~(j < i)
      BY <1>1, <2>2
    <3> QED BY <1>3, <2>2, <3>1
  <2>3. CASE j > i
    <3>1. j - 1 \in 1 .. Len(q) - 1 /\ j - 1 + 1 = j /\ ~(j - 1 < i) /\ ~(j < i) /\ j # i
      BY <1>1, <2>3
    <3> QED BY <1>2, <1>3, <3>1
  <2> QED BY <1>1, <2>1, <2>2, <2>3
<1>5. DOMAIN m = 1 .. Len(q) /\ m = [j \in DOMAIN m |-> m[j]]
  BY <1>3
<1>6. m = q
  BY <1>1, <1>4, <1>5
<1> QED BY <1>6 DEF m

(* The first half of a move is remove without the last step.               *)
LEMMA UnlinkedShape ==
  ASSUME NEW T, None \notin T, NEW s, NEW q, Line(s, q, T), NEW i \in 1 .. Len(q)
  PROVE  LET n == q[i] cut == Unlinked(s, n) rem == Remove(s, n) IN
         /\ IsObject(cut) /\ Items(cut) = Items(s) /\ DOMAIN cut.down = Items(s)
         /\ IsObject(rem) /\ Items(rem) = Items(s) \ {n} /\ DOMAIN rem.down = Items(s) \ {n}
         /\ cut.top = rem.top /\ cut.bottom = rem.bottom
         /\ \A j \in Items(s) \ {n} : cut.up[j] = rem.up[j] /\ cut.down[j] = rem.down[j]
<1> DEFINE n     == q[i]
           below == IF s.down[n] = None THEN [s EXCEPT !.bottom = s.up[n]]
                    ELSE SetUp(s, s.down[n], s.up[n])
           cut   == Unlinked(s, n)
           rem   == Remove(s, n)
<1>1. /\ IsObject(s) /\ DOMAIN s.up = Items(s) /\ DOMAIN s.down = Items(s)
  BY Ends
<1>2. /\ Len(q) \in Nat /\ Distinct(q) /\ DOMAIN q = 1 .. Len(q)
      /\ \A j \in 1 .. Len(q) : q[j] # None
      /\ 1 \in 1 .. Len(q) /\ Len(q) \in 1 .. Len(q) /\ Len(q) # 0
      /\ (i # 1 => i - 1 \in 1 .. Len(q)) /\ (i # Len(q) => i + 1 \in 1 .. Len(q))
  <2>1. /\ Len(q) \in Nat /\ Distinct(q) /\ DOMAIN q = 1 .. Len(q)
        /\ \A j \in 1 .. Len(q) : q[j] # None
    BY LineFacts DEF Line
  <2> HIDE DEF n, below, cut, rem
  <2>2. ASSUME NEW len \in Nat, NEW j \in 1 .. len
        PROVE  /\ 1 \in 1 .. len /\ len \in 1 .. len /\ len # 0
               /\ (j # 1 => j - 1 \in 1 .. len) /\ (j # len => j + 1 \in 1 .. len)
    OBVIOUS
  <2> QED BY <2>1, <2>2
<1>3. /\ s.top = q[1] /\ s.bottom = q[Len(q)]
      /\ s.up[n] = (IF i = 1 THEN None ELSE q[i - 1])
      /\ s.down[n] = (IF i = Len(q) THEN None ELSE q[i + 1])
  BY <1>2 DEF Line, Represents
<1>4. s.top = n <=> s.up[n] = None
  <2>1. CASE i = 1
    BY <1>3, <2>1
  <2>2. CASE i # 1
    BY <1>2, <1>3, <2>2 DEF Distinct
  <2> QED BY <2>1, <2>2
<1>5. s.bottom = n <=> s.down[n] = None
  <2>1. CASE i = Len(q)
    BY <1>3, <2>1
  <2>2. CASE i # Len(q)
    BY <1>2, <1>3, <2>2 DEF Distinct
  <2> QED BY <2>1, <2>2
<1> HIDE DEF n
<1>6. rem = Forget(cut, n)
  BY <1>4, <1>5 DEF Remove, Unlinked
<1>7. cut = IF s.up[n] = None THEN [below EXCEPT !.top = s.down[n]]
            ELSE SetDown(below, s.up[n], s.down[n])
  BY DEF Unlinked
<1> HIDE DEF cut, rem
<1>8. IsObject(below) /\ Items(below) = Items(s) /\ DOMAIN below.down = Items(s)
  <2>1. CASE s.down[n] = None
    <3>1. below = [top |-> s.top, bottom |-> s.up[n], up |-> s.up, down |-> s.down]
      BY <1>1, <2>1, Fields
    <3> HIDE DEF below
    <3> QED BY <1>1, <3>1 DEF IsObject, Items
  <2>2. CASE s.down[n] # None
    <3>1. below = [top |-> s.top, bottom |-> s.bottom, down |-> s.down,
                   up |-> [j \in Items(s) |-> IF j = s.down[n] THEN s.up[n] ELSE s.up[j]]]
      BY <1>1, <2>2, Fields
    <3> HIDE DEF below
    <3> QED BY <1>1, <3>1 DEF IsObject, Items
  <2> QED BY <2>1, <2>2
<1> HIDE DEF below
<1>9. IsObject(cut) /\ Items(cut) = Items(s) /\ DOMAIN cut.down = Items(s)
  <2>1. CASE s.up[n] = None
    <3>1. cut = [top |-> s.down[n], bottom |-> below.bottom, up |-> below.up, down |-> below.down]
      BY <1>7, <1>8, <2>1, Fields
    <3> QED BY <1>8, <3>1 DEF IsObject, Items
  <2>2. CASE s.up[n] # None
    <3>1. cut = [top |-> below.top, bottom |-> below.bottom, up |-> below.up,
                 down |-> [j \in Items(below) |-> IF j = s.up[n] THEN s.down[n] ELSE below.down[j]]]
      BY <1>7, <1>8, <2>2, Fields
    <3> QED BY <1>8, <3>1 DEF IsObject, Items
  <2> QED BY <2>1, <2>2
<1>10. rem = [top |-> cut.top, bottom |-> cut.bottom,
              up |-> [j \in Items(cut) \ {n} |-> cut.up[j]],
              down |-> [j \in Items(cut) \ {n} |-> cut.down[j]]]
  BY <1>6, <1>9, Fields
<1>11. /\ IsObject(rem) /\ Items(rem) = Items(s) \ {n} /\ DOMAIN rem.down = Items(s) \ {n}
       /\ cut.top = rem.top /\ cut.bottom = rem.bottom
       /\ \A j \in Items(s) \ {n} : cut.up[j] = rem.up[j] /\ cut.down[j] = rem.down[j]
  BY <1>9, <1>10 DEF IsObject, Items
<1> QED BY <1>9, <1>11 DEF cut, rem, n

(* An item taken out and linked in again at place h has moved there.       *)
LEMMA Relinked ==
  ASSUME NEW T, None \notin T, NEW s, NEW q, Line(s, q, T),
         NEW i \in 1 .. Len(q), NEW h \in 1 .. Len(q), NEW cut, cut = Unlinked(s, q[i]),
         NEW u, u = Above(RemovedAt(q, i), h), NEW d, d = Below(RemovedAt(q, i), h),
         NEW t, IsObject(t), DOMAIN t.up = Items(s), DOMAIN t.down = Items(s),
         t.top = (IF u = None THEN q[i] ELSE cut.top),
         t.bottom = (IF d = None THEN q[i] ELSE cut.bottom),
         \A j \in Items(s) :
           /\ t.up[j] = IF j = q[i] THEN u ELSE IF j = d THEN q[i] ELSE cut.up[j]
           /\ t.down[j] = IF j = q[i] THEN d ELSE IF j = u THEN q[i] ELSE cut.down[j]
  PROVE  /\ Line(t, MovedTo(q, i, h), T)
         /\ Items(t) = Items(s)
         /\ Len(MovedTo(q, i, h)) = Len(q)
<1> DEFINE n   == q[i]
           p   == RemovedAt(q, i)
           rem == Remove(s, n)
           r   == Spliced(rem, n, u, d)
<1>1. /\ IsObject(rem) /\ Items(rem) = Items(s) \ {n} /\ DOMAIN rem.down = Items(s) \ {n}
      /\ cut.top = rem.top /\ cut.bottom = rem.bottom
      /\ \A j \in Items(s) \ {n} : cut.up[j] = rem.up[j] /\ cut.down[j] = rem.down[j]
  BY UnlinkedShape
<1>2. Line(rem, p, T) /\ Len(p) = Len(q) - 1 /\ Len(q) \in Nat
  BY RemoveKeepsLine, LineFacts
<1>3. n \in Items(s) /\ n \in T /\ (Items(s) \ {n}) \cup {n} = Items(s)
  BY LineFacts
<1>n. /\ u = Above(p, h) /\ d = Below(p, h)
      /\ t.top = (IF u = None THEN n ELSE cut.top)
      /\ t.bottom = (IF d = None THEN n ELSE cut.bottom)
      /\ \A j \in Items(s) :
           /\ t.up[j] = IF j = n THEN u ELSE IF j = d THEN n ELSE cut.up[j]
           /\ t.down[j] = IF j = n THEN d ELSE IF j = u THEN n ELSE cut.down[j]
  OBVIOUS
<1> HIDE DEF n, p, rem
<1>4. t = r
  <2>1. IsObject(r)
    BY DEF IsObject, Spliced
  <2>2. /\ t.top = r.top /\ t.bottom = r.bottom
        /\ DOMAIN t.up = DOMAIN r.up /\ DOMAIN t.down = DOMAIN r.down
    BY <1>1, <1>3, <1>n DEF Spliced
  <2>3. \A j \in Items(s) : t.up[j] = r.up[j]
    BY <1>1, <1>3, <1>n DEF Spliced
  <2>4. \A j \in Items(s) : t.down[j] = r.down[j]
    BY <1>1, <1>3, <1>n DEF Spliced
  <2> HIDE DEF r
  <2> QED BY <2>1, <2>2, <2>3, <2>4, SameObject
<1>5. n \in T \ Items(rem) /\ h \in 1 .. Len(p) + 1 /\ Len(p) + 1 = Len(q)
  BY <1>1, <1>2, <1>3
<1>6. /\ Line(r, InsertedAt(p, h, n), T)
      /\ Items(r) = Items(rem) \cup {n} /\ Len(InsertedAt(p, h, n)) = Len(p) + 1
  BY <1>2, <1>5, <1>n, SpliceLine
<1> HIDE DEF r
<1> QED BY <1>1, <1>3, <1>4, <1>5, <1>6 DEF MovedTo, p, n

(* move_to_top brings the i-th item to the top and moves no other.         *)
THEOREM MoveToTopKeepsLine ==
  ASSUME NEW T, None \notin T, NEW s, NEW q, Line(s, q, T), NEW i \in 1 .. Len(q)
  PROVE  /\ Line(MoveToTop(s, q[i]), MovedTo(q, i, 1), T)
         /\ Items(MoveToTop(s, q[i])) = Items(s)
         /\ Len(MovedTo(q, i, 1)) = Len(q)
<1> DEFINE n   == q[i]
           p   == RemovedAt(q, i)
           cut == Unlinked(s, n)
           rem == Remove(s, n)
           b   == SetUp(cut, n, None)
           c   == SetDown(b, n, s.top)
           d   == SetUp(c, s.top, n)
           t   == MoveToTop(s, n)
<1>1. /\ Len(q) \in Nat /\ 1 \in 1 .. Len(q) /\ q \in Seq(T) /\ Distinct(q)
      /\ DOMAIN q = 1 .. Len(q) /\ \A j \in 1 .. Len(q) : q[j] # None
  BY LineFacts DEF Line
<1>2. s.top = q[1] /\ s.up[n] = IF i = 1 THEN None ELSE q[i - 1]
  BY <1>1 DEF Line, Represents
<1>3. CASE i = 1
  <2>1. t = s
    BY <1>2, <1>3 DEF MoveToTop
  <2>2. MovedTo(q, i, 1) = q
    BY <1>1, <1>3, MovedNowhere
  <2> QED BY <2>1, <2>2
<1>4. CASE i # 1
  <2>1. s.up[n] # None /\ s.top # n
    <3>1. i - 1 \in 1 .. Len(q)
      BY <1>1, <1>4
    <3> QED BY <1>1, <1>2, <1>4, <3>1 DEF Distinct
  <2>2. t = [d EXCEPT !.top = n]
    BY <2>1 DEF MoveToTop
  <2>3. /\ IsObject(cut) /\ Items(cut) = Items(s) /\ DOMAIN cut.down = Items(s)
        /\ cut.top = rem.top
    BY UnlinkedShape
  <2>4. Line(rem, p, T) /\ Len(p) \in Nat
    BY RemoveKeepsLine, LineFacts
  <2>5. rem.top = s.top
    <3>1. IsObject(s) /\ DOMAIN s.down = Items(s)
      BY Ends
    <3> QED BY <2>1, <3>1, RemoveShape
  <2>6. /\ None = Above(p, 1) /\ s.top = Below(p, 1)
    BY <2>4, <2>5, Ends DEF Above
  <2> HIDE DEF n, p, cut, rem, t
  <2>7. /\ IsObject(b) /\ b.top = cut.top /\ b.bottom = cut.bottom /\ b.down = cut.down
        /\ Items(b) = Items(s) /\ \A j \in Items(s) : b.up[j] = IF j = n THEN None ELSE cut.up[j]
    <3>1. b = [top |-> cut.top, bottom |-> cut.bottom, down |-> cut.down,
               up |-> [j \in Items(cut) |-> IF j = n THEN None ELSE cut.up[j]]]
      BY <2>3, Fields
    <3> HIDE DEF b
    <3> QED BY <2>3, <3>1 DEF IsObject, Items
  <2> HIDE DEF b
  <2>8. /\ IsObject(c) /\ c.top = cut.top /\ c.bottom = cut.bottom /\ c.up = b.up
        /\ Items(c) = Items(s) /\ DOMAIN c.down = Items(s)
        /\ \A j \in Items(s) : c.down[j] = IF j = n THEN s.top ELSE cut.down[j]
    <3>1. c = [top |-> b.top, bottom |-> b.bottom, up |-> b.up,
               down |-> [j \in Items(b) |-> IF j = n THEN s.top ELSE b.down[j]]]
      BY <2>7, Fields
    <3> HIDE DEF c
    <3> QED BY <2>7, <3>1 DEF IsObject, Items
  <2> HIDE DEF c
  <2>9. /\ IsObject(d) /\ d.bottom = cut.bottom /\ d.down = c.down /\ Items(d) = Items(s)
        /\ \A j \in Items(s) : d.up[j] = IF j = s.top THEN n ELSE b.up[j]
    <3>1. d = [top |-> c.top, bottom |-> c.bottom, down |-> c.down,
               up |-> [j \in Items(c) |-> IF j = s.top THEN n ELSE c.up[j]]]
      BY <2>8, Fields
    <3> HIDE DEF d
    <3> QED BY <2>8, <3>1 DEF IsObject, Items
  <2> HIDE DEF d
  <2>10. /\ IsObject(t) /\ t.top = n /\ t.bottom = cut.bottom
         /\ DOMAIN t.up = Items(s) /\ DOMAIN t.down = Items(s)
         /\ \A j \in Items(s) :
              /\ t.up[j] = IF j = n THEN None ELSE IF j = s.top THEN n ELSE cut.up[j]
              /\ t.down[j] = IF j = n THEN s.top ELSE IF j = None THEN n ELSE cut.down[j]
    <3>1. t = [top |-> n, bottom |-> d.bottom, up |-> d.up, down |-> d.down]
      BY <2>2, <2>9, Fields
    <3>2. IsObject(t)
      BY <2>9, <3>1 DEF IsObject
    <3>3. None \notin Items(s)
      BY Ends
    <3> QED BY <2>1, <2>7, <2>8, <2>9, <3>1, <3>2, <3>3 DEF Items
  <2>11. s.top # None
    BY <1>1, <1>2
  <2> QED BY <1>1, <2>6, <2>10, <2>11, Relinked DEF t, n, p, cut
<1> QED BY <1>3, <1>4

(* move_up exchanges the i-th item with the one above it.                  *)
THEOREM MoveUpKeepsLine ==
  ASSUME NEW T, None \notin T, NEW s, NEW q, Line(s, q, T), NEW i \in 1 .. Len(q)
  PROVE  LET m == MovedTo(q, i, IF i = 1 THEN 1 ELSE i - 1) IN
         /\ Line(MoveUp(s, q[i]), m, T)
         /\ Items(MoveUp(s, q[i])) = Items(s)
         /\ Len(m) = Len(q)
<1> DEFINE n    == q[i]
           p    == RemovedAt(q, i)
           cut  == Unlinked(s, n)
           w    == s.up[n]
           u    == s.up[w]
           over == IF u # None THEN SetDown(cut, u, n) ELSE [cut EXCEPT !.top = n]
           b    == SetUp(over, w, n)
           c    == SetUp(b, n, u)
           t    == MoveUp(s, n)
<1>1. /\ Len(q) \in Nat /\ 1 \in 1 .. Len(q) /\ q \in Seq(T) /\ Distinct(q)
      /\ DOMAIN q = 1 .. Len(q) /\ \A j \in 1 .. Len(q) : q[j] # None /\ q[j] \in Items(s)
  BY LineFacts DEF Line
<1>2. w = IF i = 1 THEN None ELSE q[i - 1]
  BY <1>1 DEF Line, Represents
<1>3. CASE i = 1
  <2>1. t = s
    BY <1>2, <1>3 DEF MoveUp
  <2>2. MovedTo(q, i, 1) = q
    BY <1>1, <1>3, MovedNowhere
  <2> QED BY <1>3, <2>1, <2>2
<1>4. CASE i # 1
  <2> DEFINE h == i - 1
  <2>1. h \in 1 .. Len(q) /\ h # i /\ h < i /\ h - 1 < i /\ h \in 1 .. Len(q) - 1
    BY <1>1, <1>4
  <2>2. /\ w = q[h] /\ w # None /\ w # n /\ w \in Items(s)
        /\ u = IF h = 1 THEN None ELSE q[h - 1]
    BY <1>1, <1>2, <1>4, <2>1 DEF Line, Represents, Distinct
  <2>3. u = Above(p, h) /\ w = Below(p, h)
    <3>1. Len(p) = Len(q) - 1 /\ \A j \in 1 .. Len(q) - 1 : p[j] = IF j < i THEN q[j] ELSE q[j + 1]
      <4>1. Len(q) - 1 \in Nat
        BY <1>1
      <4> QED BY <4>1 DEF RemovedAt
    <3>2. p[h] = q[h] /\ h # Len(p) + 1 /\ (h # 1 => p[h - 1] = q[h - 1])
      <4>1. h # 1 => h - 1 \in 1 .. Len(q) - 1
        BY <1>1, <2>1
      <4>2. h # Len(q) - 1 + 1
        BY <1>1, <2>1
      <4> HIDE DEF p, h
      <4> QED BY <2>1, <3>1, <4>1, <4>2
    <3> HIDE DEF p, h
    <3> QED BY <2>2, <3>2 DEF Above, Below
  <2>4. t = SetDown(c, n, w)
    BY <2>2 DEF MoveUp
  <2>5. IsObject(cut) /\ Items(cut) = Items(s) /\ DOMAIN cut.down = Items(s)
    BY UnlinkedShape
  <2>6. None \notin Items(s)
    BY Ends
  <2> HIDE DEF n, p, cut, t, h, w, u
  <2>7. /\ IsObject(over) /\ over.up = cut.up /\ over.bottom = cut.bottom
        /\ over.top = (IF u = None THEN n ELSE cut.top)
        /\ Items(over) = Items(s) /\ DOMAIN over.down = Items(s)
        /\ \A j \in Items(s) : over.down[j] = IF j = u THEN n ELSE cut.down[j]
    <3>1. CASE u = None
      <4>1. over = [top |-> n, bottom |-> cut.bottom, up |-> cut.up, down |-> cut.down]
        BY <2>5, <3>1, Fields
      <4> HIDE DEF over
      <4> QED BY <2>5, <2>6, <3>1, <4>1 DEF IsObject, Items
    <3>2. CASE u # None
      <4>1. over = [top |-> cut.top, bottom |-> cut.bottom, up |-> cut.up,
                    down |-> [j \in Items(cut) |-> IF j = u THEN n ELSE cut.down[j]]]
        BY <2>5, <3>2, Fields
      <4> HIDE DEF over
      <4> QED BY <2>5, <3>2, <4>1 DEF IsObject, Items
    <3> QED BY <3>1, <3>2
  <2> HIDE DEF over
  <2>8. /\ IsObject(b) /\ b.top = over.top /\ b.bottom = over.bottom /\ b.down = over.down
        /\ Items(b) = Items(s) /\ \A j \in Items(s) : b.up[j] = IF j = w THEN n ELSE cut.up[j]
    <3>1. b = [top |-> over.top, bottom |-> over.bottom, down |-> over.down,
               up |-> [j \in Items(over) |-> IF j = w THEN n ELSE over.up[j]]]
      BY <2>7, Fields
    <3> HIDE DEF b
    <3> QED BY <2>7, <3>1 DEF IsObject, Items
  <2> HIDE DEF b
  <2>9. /\ IsObject(c) /\ c.top = over.top /\ c.bottom = over.bottom /\ c.down = over.down
        /\ Items(c) = Items(s) /\ \A j \in Items(s) : c.up[j] = IF j = n THEN u ELSE b.up[j]
    <3>1. c = [top |-> b.top, bottom |-> b.bottom, down |-> b.down,
               up |-> [j \in Items(b) |-> IF j = n THEN u ELSE b.up[j]]]
      BY <2>8, Fields
    <3> HIDE DEF c
    <3> QED BY <2>8, <3>1 DEF IsObject, Items
  <2> HIDE DEF c
  <2>10. /\ IsObject(t) /\ t.top = over.top /\ t.bottom = cut.bottom
         /\ DOMAIN t.up = Items(s) /\ DOMAIN t.down = Items(s)
         /\ \A j \in Items(s) :
              /\ t.up[j] = IF j = n THEN u ELSE IF j = w THEN n ELSE cut.up[j]
              /\ t.down[j] = IF j = n THEN w ELSE IF j = u THEN n ELSE cut.down[j]
    <3>1. t = [top |-> c.top, bottom |-> c.bottom, up |-> c.up,
               down |-> [j \in Items(c) |-> IF j = n THEN w ELSE c.down[j]]]
      BY <2>4, <2>9, Fields
    <3> QED BY <2>7, <2>8, <2>9, <3>1 DEF IsObject, Items
  <2>11. /\ Line(t, MovedTo(q, i, h), T) /\ Items(t) = Items(s) /\ Len(MovedTo(q, i, h)) = Len(q)
    <3>1. cut = Unlinked(s, q[i]) /\ u = Above(RemovedAt(q, i), h) /\ w = Below(RemovedAt(q, i), h)
      BY <2>3 DEF n, p, cut
    <3>2. t.top = (IF u = None THEN q[i] ELSE cut.top) /\ t.bottom = (IF w = None THEN q[i] ELSE cut.bottom)
      BY <2>2, <2>7, <2>10 DEF n
    <3>3. \A j \in Items(s) :
            /\ t.up[j] = IF j = q[i] THEN u ELSE IF j = w THEN q[i] ELSE cut.up[j]
            /\ t.down[j] = IF j = q[i] THEN w ELSE IF j = u THEN q[i] ELSE cut.down[j]
      BY <2>10 DEF n
    <3> QED BY <2>1, <2>10, <3>1, <3>2, <3>3, Relinked
  <2> QED BY <1>4, <2>11 DEF t, n, h
<1> QED BY <1>3, <1>4

---------------------------------------------------------------------------
(* A linked set seen from its other end.  An operation at the bottom or    *)
(* downwards is one at the top or upwards of the mirrored set.             *)
Mirrored(s) == [top |-> s.bottom, bottom |-> s.top, up |-> s.down, down |-> s.up]

(* An object whose two pointer functions are of the same nodes.            *)
Whole(s) == IsObject(s) /\ DOMAIN s.down = Items(s)

(* The assignments to the ends.                                            *)
WithTop(s, t) == [s EXCEPT !.top = t]

WithBottom(s, b) == [s EXCEPT !.bottom = b]

(* An assignment to the mirrored set is the mirrored assignment.           *)
LEMMA MirroredAssignments ==
  ASSUME NEW s, Whole(s)
  PROVE  /\ Whole(Mirrored(s)) /\ Items(Mirrored(s)) = Items(s) /\ Mirrored(Mirrored(s)) = s
         /\ Mirrored(s).top = s.bottom /\ Mirrored(s).bottom = s.top
         /\ Mirrored(s).up = s.down /\ Mirrored(s).down = s.up
         /\ \A n, v : /\ Whole(SetUp(s, n, v)) /\ Mirrored(SetUp(s, n, v)) = SetDown(Mirrored(s), n, v)
                      /\ Whole(SetDown(s, n, v)) /\ Mirrored(SetDown(s, n, v)) = SetUp(Mirrored(s), n, v)
         /\ \A v : /\ Whole(WithTop(s, v))
                   /\ Mirrored(WithTop(s, v)) = WithBottom(Mirrored(s), v)
                   /\ Whole(WithBottom(s, v))
                   /\ Mirrored(WithBottom(s, v)) = WithTop(Mirrored(s), v)
         /\ \A k : Mirrored(Forget(s, k)) = Forget(Mirrored(s), k)
         /\ \A k, u, d : Mirrored(NewNode(s, k, u, d)) = NewNode(Mirrored(s), k, d, u)
<1> DEFINE m == Mirrored(s)
<1>1. /\ m = [top |-> s.bottom, bottom |-> s.top, up |-> s.down, down |-> s.up]
      /\ m.top = s.bottom /\ m.bottom = s.top /\ m.up = s.down /\ m.down = s.up
  BY DEF Mirrored
<1>2. IsObject(s) /\ DOMAIN s.up = Items(s) /\ DOMAIN s.down = Items(s)
  BY DEF Whole, Items
<1>3. IsObject(m) /\ Items(m) = Items(s) /\ Whole(m)
  BY <1>1, <1>2 DEF IsObject, Items, Whole
<1>4. Mirrored(m) = s
  <2>1. Mirrored(m) = [top |-> m.bottom, bottom |-> m.top, up |-> m.down, down |-> m.up]
    BY DEF Mirrored
  <2> HIDE DEF m
  <2> QED BY <1>1, <1>2, <2>1 DEF IsObject
<1> HIDE DEF m
<1>5. ASSUME NEW n, NEW v
      PROVE  /\ Whole(SetUp(s, n, v)) /\ Mirrored(SetUp(s, n, v)) = SetDown(m, n, v)
             /\ Whole(SetDown(s, n, v)) /\ Mirrored(SetDown(s, n, v)) = SetUp(m, n, v)
  <2> DEFINE x == SetUp(s, n, v)
             y == SetDown(s, n, v)
  <2>1. /\ x = [top |-> s.top, bottom |-> s.bottom, down |-> s.down,
                up |-> [j \in Items(s) |-> IF j = n THEN v ELSE s.up[j]]]
        /\ y = [top |-> s.top, bottom |-> s.bottom, up |-> s.up,
                down |-> [j \in Items(s) |-> IF j = n THEN v ELSE s.down[j]]]
    BY <1>2, Fields
  <2>2. /\ SetDown(m, n, v) = [top |-> m.top, bottom |-> m.bottom, up |-> m.up,
                down |-> [j \in Items(s) |-> IF j = n THEN v ELSE m.down[j]]]
        /\ SetUp(m, n, v) = [top |-> m.top, bottom |-> m.bottom, down |-> m.down,
                up |-> [j \in Items(s) |-> IF j = n THEN v ELSE m.up[j]]]
    BY <1>3, Fields
  <2> HIDE DEF x, y
  <2>3. Whole(x) /\ Whole(y)
    BY <1>2, <2>1 DEF Whole, IsObject, Items
  <2>4. Mirrored(x) = SetDown(m, n, v)
    BY <1>1, <2>1, <2>2 DEF Mirrored
  <2>5. Mirrored(y) = SetUp(m, n, v)
    BY <1>1, <2>1, <2>2 DEF Mirrored
  <2> QED BY <2>3, <2>4, <2>5 DEF x, y
<1>6. ASSUME NEW v
      PROVE  /\ Whole(WithTop(s, v)) /\ Mirrored(WithTop(s, v)) = WithBottom(m, v)
             /\ Whole(WithBottom(s, v)) /\ Mirrored(WithBottom(s, v)) = WithTop(m, v)
  <2> DEFINE x == WithTop(s, v)
             y == WithBottom(s, v)
  <2>1. /\ x = [top |-> v, bottom |-> s.bottom, up |-> s.up, down |-> s.down]
        /\ y = [top |-> s.top, bottom |-> v, up |-> s.up, down |-> s.down]
    BY <1>2, Fields DEF WithTop, WithBottom
  <2>2. /\ WithBottom(m, v) = [top |-> m.top, bottom |-> v, up |-> m.up, down |-> m.down]
        /\ WithTop(m, v) = [top |-> v, bottom |-> m.bottom, up |-> m.up, down |-> m.down]
    BY <1>3, Fields DEF WithTop, WithBottom
  <2> HIDE DEF x, y
  <2>3. Whole(x) /\ Whole(y)
    BY <1>2, <2>1 DEF Whole, IsObject, Items
  <2>4. Mirrored(x) = WithBottom(m, v)
    BY <1>1, <2>1, <2>2 DEF Mirrored
  <2>5. Mirrored(y) = WithTop(m, v)
    BY <1>1, <2>1, <2>2 DEF Mirrored
  <2> QED BY <2>3, <2>4, <2>5 DEF x, y
<1>7. ASSUME NEW k PROVE Mirrored(Forget(s, k)) = Forget(m, k)
  <2>1. Forget(s, k) = [top |-> s.top, bottom |-> s.bottom,
                        up |-> [j \in Items(s) \ {k} |-> s.up[j]],
                        down |-> [j \in Items(s) \ {k} |-> s.down[j]]]
    BY <1>2, Fields
  <2>2. Forget(m, k) = [top |-> m.top, bottom |-> m.bottom,
                        up |-> [j \in Items(s) \ {k} |-> m.up[j]],
                        down |-> [j \in Items(s) \ {k} |-> m.down[j]]]
    BY <1>3, Fields
  <2> QED BY <1>1, <2>1, <2>2 DEF Mirrored
<1>8. ASSUME NEW k, NEW u, NEW d PROVE Mirrored(NewNode(s, k, u, d)) = NewNode(m, k, d, u)
  <2> DEFINE x == NewNode(s, k, u, d)
             y == NewNode(m, k, d, u)
             z == Mirrored(x)
  <2>1. /\ IsObject(x) /\ x.top = s.top /\ x.bottom = s.bottom
        /\ Items(x) = Items(s) \cup {k} /\ DOMAIN x.down = Items(s) \cup {k}
        /\ \A j \in Items(s) \cup {k} :
             /\ x.up[j] = IF j = k THEN u ELSE s.up[j]
             /\ x.down[j] = IF j = k THEN d ELSE s.down[j]
    BY <1>2, NewNodeFields
  <2>2. /\ IsObject(y) /\ y.top = m.top /\ y.bottom = m.bottom
        /\ Items(y) = Items(s) \cup {k} /\ DOMAIN y.down = Items(s) \cup {k}
        /\ \A j \in Items(s) \cup {k} :
             /\ y.up[j] = IF j = k THEN d ELSE m.up[j]
             /\ y.down[j] = IF j = k THEN u ELSE m.down[j]
    BY <1>3, NewNodeFields
  <2> HIDE DEF x, y
  <2>3. IsObject(z) /\ z.top = x.bottom /\ z.bottom = x.top /\ z.up = x.down /\ z.down = x.up
    BY <2>1 DEF Mirrored, IsObject
  <2> HIDE DEF z
  <2>4. /\ z.top = y.top /\ z.bottom = y.bottom
        /\ DOMAIN z.up = DOMAIN y.up /\ DOMAIN z.down = DOMAIN y.down
    BY <1>1, <2>1, <2>2, <2>3 DEF Items
  <2>5. /\ \A j \in DOMAIN y.up : z.up[j] = y.up[j]
        /\ \A j \in DOMAIN y.down : z.down[j] = y.down[j]
    BY <1>1, <2>1, <2>2, <2>3 DEF Items
  <2>6. z = y
    BY <2>2, <2>3, <2>4, <2>5, SameObject
  <2> QED BY <2>6 DEF x, y, z
<1> QED BY <1>1, <1>3, <1>4, <1>5, <1>6, <1>7, <1>8 DEF m

(* The sequence from its other end (SequencesExt has a Remove of its own,  *)
(* which this module cannot have beside that of LinkedSet).                *)
Reverse(q) == [i \in 1 .. Len(q) |-> q[Len(q) - i + 1]]

(* The mirrored set of a line is the line of the reversed sequence.        *)
LEMMA ReversedLine ==
  ASSUME NEW T, None \notin T, NEW s, NEW q, Line(s, q, T)
  PROVE  /\ Whole(s) /\ Line(Mirrored(s), Reverse(q), T)
         /\ Len(Reverse(q)) = Len(q)
         /\ \A i \in 1 .. Len(q) : Reverse(q)[i] = q[Len(q) + 1 - i]
<1> DEFINE p == Reverse(q)
           m == Mirrored(s)
<1>1. /\ Len(q) \in Nat /\ q \in Seq(T) /\ DOMAIN q = 1 .. Len(q) /\ Distinct(q)
      /\ \A j \in 1 .. Len(q) : q[j] \in T
      /\ Items(s) = {q[j] : j \in 1 .. Len(q)}
  BY LineFacts DEF Line
<1>2. Whole(s) /\ IsObject(m) /\ Items(m) = Items(s) /\ DOMAIN m.down = Items(s)
  <2>1. Whole(s)
    BY Ends DEF Whole
  <2> QED BY <2>1, MirroredAssignments DEF Whole
<1>3. /\ p \in Seq(T) /\ Len(p) = Len(q) /\ DOMAIN p = 1 .. Len(q)
      /\ \A j \in 1 .. Len(q) : p[j] = q[Len(q) + 1 - j]
  <2>1. \A j \in 1 .. Len(q) : Len(q) - j + 1 \in 1 .. Len(q) /\ Len(q) - j + 1 = Len(q) + 1 - j
    BY <1>1
  <2>2. p = [j \in 1 .. Len(q) |-> q[Len(q) - j + 1]]
    BY DEF Reverse
  <2>3. p \in [1 .. Len(q) -> T]
    BY <1>1, <2>1, <2>2
  <2> HIDE DEF p
  <2> QED BY <1>1, <2>1, <2>2, <2>3
<1> HIDE DEF p
<1>4. ASSUME NEW j \in 1 .. Len(q)
      PROVE  /\ Len(q) + 1 - j \in 1 .. Len(q) /\ Len(q) + 1 - (Len(q) + 1 - j) = j
             /\ (Len(q) + 1 - j = 1 <=> j = Len(q)) /\ (Len(q) + 1 - j = Len(q) <=> j = 1)
             /\ (j # 1 => j - 1 \in 1 .. Len(q) /\ Len(q) + 1 - (j - 1) = Len(q) + 1 - j + 1)
             /\ (j # Len(q) => j + 1 \in 1 .. Len(q) /\ Len(q) + 1 - (j + 1) = Len(q) + 1 - j - 1)
  <2>1. ASSUME NEW n \in Nat, NEW a \in 1 .. n
        PROVE  /\ n + 1 - a \in 1 .. n /\ n + 1 - (n + 1 - a) = a
               /\ (n + 1 - a = 1 <=> a = n) /\ (n + 1 - a = n <=> a = 1)
               /\ (a # 1 => a - 1 \in 1 .. n /\ n + 1 - (a - 1) = n + 1 - a + 1)
               /\ (a # n => a + 1 \in 1 .. n /\ n + 1 - (a + 1) = n + 1 - a - 1)
    OBVIOUS
  <2>2. Len(q) \in Nat
    BY <1>1
  <2> QED BY <2>1, <2>2
<1> DEFINE flip(j) == Len(q) + 1 - j
<1>f. ASSUME NEW j \in 1 .. Len(q)
      PROVE  /\ flip(j) \in 1 .. Len(q) /\ flip(flip(j)) = j /\ p[j] = q[flip(j)]
             /\ (flip(j) = 1 <=> j = Len(q)) /\ (flip(j) = Len(q) <=> j = 1)
             /\ (j # 1 => j - 1 \in 1 .. Len(q) /\ flip(j - 1) = flip(j) + 1)
             /\ (j # Len(q) => j + 1 \in 1 .. Len(q) /\ flip(j + 1) = flip(j) - 1)
  <2>1. p[j] = q[flip(j)]
    BY <1>3
  <2>2. /\ flip(j) \in 1 .. Len(q) /\ flip(flip(j)) = j
        /\ (flip(j) = 1 <=> j = Len(q)) /\ (flip(j) = Len(q) <=> j = 1)
    BY <1>4
  <2>3. /\ (j # 1 => j - 1 \in 1 .. Len(q) /\ flip(j - 1) = flip(j) + 1)
        /\ (j # Len(q) => j + 1 \in 1 .. Len(q) /\ flip(j + 1) = flip(j) - 1)
    BY <1>4
  <2> HIDE DEF flip
  <2> QED BY <2>1, <2>2, <2>3
<1> HIDE DEF flip
<1>5. Distinct(p)
  <2> SUFFICES ASSUME NEW a \in 1 .. Len(q), NEW b \in 1 .. Len(q), p[a] = p[b]
               PROVE  a = b
    BY <1>3 DEF Distinct
  <2>1. flip(a) \in DOMAIN q /\ flip(b) \in DOMAIN q /\ q[flip(a)] = q[flip(b)]
    BY <1>1, <1>f
  <2>2. flip(a) = flip(b)
    BY <1>1, <2>1 DEF Distinct
  <2> QED BY <1>f, <2>2
<1>6. Represents(s, q)
  BY DEF Line
<1>7. m.top = s.bottom /\ m.bottom = s.top /\ m.up = s.down /\ m.down = s.up
  BY <1>2, MirroredAssignments
<1> HIDE DEF m
<1>8. Items(m) = {p[j] : j \in DOMAIN p}
  <2>1. ASSUME NEW j \in 1 .. Len(q) PROVE q[j] = p[flip(j)] /\ flip(j) \in 1 .. Len(q)
    BY <1>f
  <2>2. Items(m) = {q[j] : j \in 1 .. Len(q)} /\ DOMAIN p = 1 .. Len(q)
    BY <1>1, <1>2, <1>3
  <2>3. {q[j] : j \in 1 .. Len(q)} \subseteq {p[j] : j \in 1 .. Len(q)}
    BY <2>1
  <2>4. {p[j] : j \in 1 .. Len(q)} \subseteq {q[j] : j \in 1 .. Len(q)}
    BY <1>f
  <2> QED BY <2>2, <2>3, <2>4
<1>9. /\ m.top = IF Len(p) = 0 THEN None ELSE p[1]
      /\ m.bottom = IF Len(p) = 0 THEN None ELSE p[Len(p)]
  <2>1. CASE Len(q) = 0
    BY <1>3, <1>6, <1>7, <2>1 DEF Represents
  <2>2. CASE Len(q) # 0
    <3>1. /\ 1 \in 1 .. Len(q) /\ Len(q) \in 1 .. Len(q)
          /\ Len(q) + 1 - 1 = Len(q) /\ Len(q) + 1 - Len(q) = 1
      BY <1>1, <2>2
    <3> QED BY <1>3, <1>6, <1>7, <2>2, <3>1 DEF Represents
  <2> QED BY <2>1, <2>2
<1>10. ASSUME NEW j \in 1 .. Len(q)
       PROVE  /\ m.up[p[j]] = IF j = 1 THEN None ELSE p[j - 1]
              /\ m.down[p[j]] = IF j = Len(p) THEN None ELSE p[j + 1]
  <2> DEFINE a == flip(j)
  <2>1. a \in 1 .. Len(q) /\ p[j] = q[a] /\ (a = 1 <=> j = Len(q)) /\ (a = Len(q) <=> j = 1)
        /\ (j # 1 => p[j - 1] = q[a + 1]) /\ (j # Len(q) => p[j + 1] = q[a - 1])
    <3>1. a \in 1 .. Len(q) /\ p[j] = q[a] /\ (a = 1 <=> j = Len(q)) /\ (a = Len(q) <=> j = 1)
      BY <1>f
    <3>2. ASSUME j # 1 PROVE p[j - 1] = q[a + 1]
      <4>1. j - 1 \in 1 .. Len(q) /\ flip(j - 1) = a + 1
        BY <1>f, <3>2
      <4>2. p[j - 1] = q[flip(j - 1)]
        BY <1>f, <4>1
      <4> QED BY <4>1, <4>2
    <3>3. ASSUME j # Len(q) PROVE p[j + 1] = q[a - 1]
      <4>1. j + 1 \in 1 .. Len(q) /\ flip(j + 1) = a - 1
        BY <1>f, <3>3
      <4>2. p[j + 1] = q[flip(j + 1)]
        BY <1>f, <4>1
      <4> QED BY <4>1, <4>2
    <3> QED BY <3>1, <3>2, <3>3
  <2> HIDE DEF a
  <2>2. /\ s.up[q[a]] = IF a = 1 THEN None ELSE q[a - 1]
        /\ s.down[q[a]] = IF a = Len(q) THEN None ELSE q[a + 1]
    BY <1>1, <1>6, <2>1 DEF Represents
  <2> QED BY <1>3, <1>7, <2>1, <2>2
<1>11. Represents(m, p)
  BY <1>2, <1>3, <1>8, <1>9, <1>10 DEF Represents
<1>12. Line(m, p, T)
  BY <1>2, <1>3, <1>5, <1>11 DEF Line
<1> QED BY <1>2, <1>3, <1>12 DEF m, p

(* Assignments to different fields may be exchanged.                       *)
LEMMA UpAndDown ==
  ASSUME NEW s, Whole(s), NEW n, NEW v, NEW k, NEW w
  PROVE  SetUp(SetDown(s, n, v), k, w) = SetDown(SetUp(s, k, w), n, v)
<1>a. IsObject(s) /\ DOMAIN s.up = Items(s) /\ DOMAIN s.down = Items(s)
  BY DEF Whole, Items
<1> DEFINE x == SetDown(s, n, v)
           y == SetUp(s, k, w)
<1>1. /\ x = [top |-> s.top, bottom |-> s.bottom, up |-> s.up,
              down |-> [j \in Items(s) |-> IF j = n THEN v ELSE s.down[j]]]
      /\ y = [top |-> s.top, bottom |-> s.bottom, down |-> s.down,
              up |-> [j \in Items(s) |-> IF j = k THEN w ELSE s.up[j]]]
  BY <1>a, Fields
<1> HIDE DEF x, y
<1>2. IsObject(x) /\ Items(x) = Items(s) /\ IsObject(y) /\ Items(y) = Items(s)
  BY <1>a, <1>1 DEF IsObject, Items
<1>3. SetUp(x, k, w) = [top |-> x.top, bottom |-> x.bottom, down |-> x.down,
                        up |-> [j \in Items(x) |-> IF j = k THEN w ELSE x.up[j]]]
  BY <1>2, Fields
<1>4. SetDown(y, n, v) = [top |-> y.top, bottom |-> y.bottom, up |-> y.up,
                          down |-> [j \in Items(y) |-> IF j = n THEN v ELSE y.down[j]]]
  BY <1>2, Fields
<1>5. SetUp(x, k, w) = SetDown(y, n, v)
  BY <1>1, <1>2, <1>3, <1>4
<1> QED BY <1>5 DEF x, y

(* An end of the list and the pointers of the other direction are apart.   *)
LEMMA EndAndPointer ==
  ASSUME NEW s, Whole(s), NEW n, NEW v, NEW w
  PROVE  /\ WithBottom(SetDown(s, n, v), w) = SetDown(WithBottom(s, w), n, v)
         /\ WithTop(SetUp(s, n, v), w) = SetUp(WithTop(s, w), n, v)
<1>a. IsObject(s) /\ DOMAIN s.up = Items(s) /\ DOMAIN s.down = Items(s)
  BY DEF Whole, Items
<1> DEFINE x == SetDown(s, n, v)
           y == SetUp(s, n, v)
           b == WithBottom(s, w)
           t == WithTop(s, w)
<1>1. /\ x = [top |-> s.top, bottom |-> s.bottom, up |-> s.up,
              down |-> [j \in Items(s) |-> IF j = n THEN v ELSE s.down[j]]]
      /\ y = [top |-> s.top, bottom |-> s.bottom, down |-> s.down,
              up |-> [j \in Items(s) |-> IF j = n THEN v ELSE s.up[j]]]
      /\ b = [top |-> s.top, bottom |-> w, up |-> s.up, down |-> s.down]
      /\ t = [top |-> w, bottom |-> s.bottom, up |-> s.up, down |-> s.down]
  BY <1>a, Fields DEF WithTop, WithBottom
<1> HIDE DEF x, y, b, t
<1>2. /\ IsObject(x) /\ IsObject(y) /\ IsObject(b) /\ IsObject(t)
      /\ Items(b) = Items(s) /\ Items(t) = Items(s)
  BY <1>a, <1>1 DEF IsObject, Items
<1>3. /\ WithBottom(x, w) = [top |-> x.top, bottom |-> w, up |-> x.up, down |-> x.down]
      /\ WithTop(y, w) = [top |-> w, bottom |-> y.bottom, up |-> y.up, down |-> y.down]
  BY <1>2, Fields DEF WithTop, WithBottom
<1>4. /\ SetDown(b, n, v) = [top |-> b.top, bottom |-> b.bottom, up |-> b.up,
           down |-> [j \in Items(b) |-> IF j = n THEN v ELSE b.down[j]]]
      /\ SetUp(t, n, v) = [top |-> t.top, bottom |-> t.bottom, down |-> t.down,
           up |-> [j \in Items(t) |-> IF j = n THEN v ELSE t.up[j]]]
  BY <1>2, Fields
<1>5. WithBottom(x, w) = SetDown(b, n, v) /\ WithTop(y, w) = SetUp(t, n, v)
  BY <1>1, <1>2, <1>3, <1>4
<1> QED BY <1>5 DEF x, y, b, t

(* So are the two ends.                                                    *)
LEMMA TopAndBottom ==
  ASSUME NEW s, Whole(s), NEW v, NEW w
  PROVE  /\ WithTop(WithBottom(s, v), w) = WithBottom(WithTop(s, w), v)
         /\ [s EXCEPT !.top = w, !.bottom = v] = WithBottom(WithTop(s, w), v)
<1>a. IsObject(s) /\ DOMAIN s.up = Items(s) /\ DOMAIN s.down = Items(s)
  BY DEF Whole, Items
<1>1. PICK a, b, f, g : s = [top |-> a, bottom |-> b, up |-> f, down |-> g]
  BY <1>a DEF IsObject
<1>2. /\ WithBottom(s, v) = [top |-> a, bottom |-> v, up |-> f, down |-> g]
      /\ WithTop(s, w) = [top |-> w, bottom |-> b, up |-> f, down |-> g]
  BY <1>1 DEF WithTop, WithBottom
<1>3. /\ [[top |-> a, bottom |-> v, up |-> f, down |-> g] EXCEPT !.top = w]
           = [top |-> w, bottom |-> v, up |-> f, down |-> g]
      /\ [[top |-> w, bottom |-> b, up |-> f, down |-> g] EXCEPT !.bottom = v]
           = [top |-> w, bottom |-> v, up |-> f, down |-> g]
  OBVIOUS
<1>4. [s EXCEPT !.top = w, !.bottom = v] = [top |-> w, bottom |-> v, up |-> f, down |-> g]
  <2>1. [s EXCEPT !.top = w] = [top |-> w, bottom |-> b, up |-> f, down |-> g]
    BY <1>1
  <2> QED BY <1>3, <2>1
<1> QED BY <1>2, <1>3, <1>4 DEF WithTop, WithBottom

(* The operations at one end are those at the other of the mirrored set.   *)
LEMMA MirroredOperations ==
  ASSUME NEW m, Whole(m)
  PROVE  /\ Mirrored(PopBottom(m)) = PopTop(Mirrored(m))
         /\ \A k : Mirrored(AppendTop(m, k)) = AppendBottom(Mirrored(m), k)
         /\ \A i, k : Mirrored(InsertAbove(m, i, k)) = InsertBelow(Mirrored(m), i, k)
         /\ \A n : Mirrored(MoveToTop(m, n)) = MoveToBottom(Mirrored(m), n)
         /\ \A n : Mirrored(MoveUp(m, n)) = MoveDown(Mirrored(m), n)
<1> DEFINE s == Mirrored(m)
<1>1. Whole(s) /\ s.top = m.bottom /\ s.bottom = m.top /\ s.up = m.down /\ s.down = m.up
  BY MirroredAssignments
<1> HIDE DEF s
<1>2. Mirrored(m) = s
  BY DEF s
<1>3. Mirrored(PopBottom(m)) = PopTop(s)
  <2> DEFINE b == m.bottom
  <2>1. CASE b = None
    BY <1>1, <1>2, <2>1 DEF PopTop, PopBottom
  <2>2. CASE b # None /\ b = m.top
    <3> DEFINE x == WithTop(m, None)
               y == WithBottom(x, None)
    <3>1. PopBottom(m) = Forget(y, b)
      <4>1. [m EXCEPT !.top = None, !.bottom = None] = y
        BY TopAndBottom
      <4> HIDE DEF y
      <4> QED BY <2>2, <4>1 DEF PopBottom
    <3>2. PopTop(s) = Forget(WithTop(WithBottom(s, None), None), b)
      <4>1. [s EXCEPT !.top = None, !.bottom = None] = WithTop(WithBottom(s, None), None)
        <5>1. [s EXCEPT !.top = None, !.bottom = None] = WithBottom(WithTop(s, None), None)
          BY <1>1, TopAndBottom
        <5>2. WithTop(WithBottom(s, None), None) = WithBottom(WithTop(s, None), None)
          BY <1>1, TopAndBottom
        <5> QED BY <5>1, <5>2
      <4> QED BY <1>1, <2>2, <4>1 DEF PopTop
    <3>3. Whole(x) /\ Mirrored(x) = WithBottom(s, None)
      BY <1>2, MirroredAssignments
    <3> HIDE DEF x
    <3>4. Whole(y) /\ Mirrored(y) = WithTop(WithBottom(s, None), None)
      BY <3>3, MirroredAssignments
    <3> HIDE DEF y
    <3> QED BY <3>1, <3>2, <3>4, MirroredAssignments
  <2>3. CASE b # None /\ b # m.top
    <3> DEFINE x == SetDown(m, m.up[b], None)
               y == WithBottom(x, m.up[b])
    <3>1. PopBottom(m) = Forget(y, b)
      BY <2>3 DEF PopBottom, WithBottom
    <3>2. PopTop(s) = Forget(WithTop(SetUp(s, m.up[b], None), m.up[b]), b)
      BY <1>1, <2>3 DEF PopTop, WithTop
    <3>3. Whole(x) /\ Mirrored(x) = SetUp(s, m.up[b], None)
      BY <1>2, MirroredAssignments
    <3> HIDE DEF x
    <3>4. Whole(y) /\ Mirrored(y) = WithTop(SetUp(s, m.up[b], None), m.up[b])
      BY <3>3, MirroredAssignments
    <3> HIDE DEF y
    <3> QED BY <3>1, <3>2, <3>4, MirroredAssignments
  <2> QED BY <2>1, <2>2, <2>3
<1>4. ASSUME NEW k PROVE Mirrored(AppendTop(m, k)) = AppendBottom(s, k)
  <2> DEFINE x == IF m.top = None /\ m.bottom = None THEN WithBottom(m, k) ELSE SetUp(m, m.top, k)
             z == IF s.top = None /\ s.bottom = None THEN WithTop(s, k) ELSE SetDown(s, s.bottom, k)
             y == WithTop(x, k)
  <2>1. AppendTop(m, k) = NewNode(y, k, None, m.top)
    BY DEF AppendTop, WithTop, WithBottom
  <2>2. AppendBottom(s, k) = NewNode(WithBottom(z, k), k, m.top, None)
    BY <1>1 DEF AppendBottom, WithTop, WithBottom
  <2>3. Whole(x) /\ Mirrored(x) = z
    <3>1. CASE m.top = None /\ m.bottom = None
      <4>1. x = WithBottom(m, k) /\ z = WithTop(s, k)
        BY <1>1, <3>1
      <4> HIDE DEF x, z
      <4> QED BY <1>2, <4>1, MirroredAssignments
    <3>2. CASE ~(m.top = None /\ m.bottom = None)
      <4>1. x = SetUp(m, m.top, k) /\ z = SetDown(s, m.top, k)
        BY <1>1, <3>2
      <4> HIDE DEF x, z
      <4> QED BY <1>2, <4>1, MirroredAssignments
    <3> QED BY <3>1, <3>2
  <2> HIDE DEF x, z
  <2>4. Whole(y) /\ Mirrored(y) = WithBottom(z, k)
    BY <2>3, MirroredAssignments
  <2> HIDE DEF y
  <2> QED BY <2>1, <2>2, <2>4, MirroredAssignments
<1>5. ASSUME NEW i, NEW k PROVE Mirrored(InsertAbove(m, i, k)) = InsertBelow(s, i, k)
  <2>1. CASE m.up[i] = None
    <3>1. InsertAbove(m, i, k) = AppendTop(m, k) /\ InsertBelow(s, i, k) = AppendBottom(s, k)
      BY <1>1, <2>1 DEF InsertAbove, InsertBelow
    <3> QED BY <1>4, <3>1
  <2>2. CASE m.up[i] # None
    <3> DEFINE x == SetDown(m, m.up[i], k)
               y == SetUp(x, i, k)
    <3>1. InsertAbove(m, i, k) = NewNode(y, k, m.up[i], i)
      BY <2>2 DEF InsertAbove
    <3>2. InsertBelow(s, i, k) = NewNode(SetDown(SetUp(s, m.up[i], k), i, k), k, i, m.up[i])
      BY <1>1, <2>2 DEF InsertBelow
    <3>3. Whole(x) /\ Mirrored(x) = SetUp(s, m.up[i], k)
      BY <1>2, MirroredAssignments
    <3> HIDE DEF x
    <3>4. Whole(y) /\ Mirrored(y) = SetDown(SetUp(s, m.up[i], k), i, k)
      BY <3>3, MirroredAssignments
    <3> HIDE DEF y
    <3> QED BY <3>1, <3>2, <3>4, MirroredAssignments
  <2> QED BY <2>1, <2>2
<1>6. ASSUME NEW n PROVE Whole(Unlinked(m, n)) /\ Mirrored(Unlinked(m, n)) = Unlinked(s, n)
  <2> DEFINE u == m.up[n]
             d == m.down[n]
             x == IF d = None THEN WithBottom(m, u) ELSE SetUp(m, d, u)
             y == IF u = None THEN WithTop(x, d) ELSE SetDown(x, u, d)
             v == IF d = None THEN WithTop(s, u) ELSE SetDown(s, d, u)
             w == IF u = None THEN WithBottom(s, d) ELSE SetUp(s, u, d)
  <2>1. Unlinked(m, n) = y
    BY DEF Unlinked, WithTop, WithBottom
  <2>2. Unlinked(s, n) = IF d = None THEN WithTop(w, u) ELSE SetDown(w, d, u)
    BY <1>1 DEF Unlinked, WithTop, WithBottom
  <2>3. Whole(x) /\ Mirrored(x) = v /\ Whole(v)
    <3>1. CASE d = None
      <4>1. x = WithBottom(m, u) /\ v = WithTop(s, u)
        BY <3>1
      <4> HIDE DEF x, v
      <4> QED BY <1>1, <1>2, <4>1, MirroredAssignments
    <3>2. CASE d # None
      <4>1. x = SetUp(m, d, u) /\ v = SetDown(s, d, u)
        BY <3>2
      <4> HIDE DEF x, v
      <4> QED BY <1>1, <1>2, <4>1, MirroredAssignments
    <3> QED BY <3>1, <3>2
  <2> HIDE DEF x
  <2>4. Whole(y) /\ Mirrored(y) = IF u = None THEN WithBottom(v, d) ELSE SetUp(v, u, d)
    <3>1. CASE u = None
      <4>1. y = WithTop(x, d)
        BY <3>1
      <4> HIDE DEF y, v
      <4> QED BY <2>3, <3>1, <4>1, MirroredAssignments
    <3>2. CASE u # None
      <4>1. y = SetDown(x, u, d)
        BY <3>2
      <4> HIDE DEF y, v
      <4> QED BY <2>3, <3>2, <4>1, MirroredAssignments
    <3> QED BY <3>1, <3>2
  <2> HIDE DEF y
  <2>5. (IF u = None THEN WithBottom(v, d) ELSE SetUp(v, u, d))
          = IF d = None THEN WithTop(w, u) ELSE SetDown(w, d, u)
    <3> HIDE DEF u, d
    <3>1. CASE u = None /\ d = None
      <4>1. WithTop(WithBottom(s, d), u) = WithBottom(WithTop(s, u), d)
        BY <1>1, TopAndBottom
      <4> QED BY <3>1, <4>1
    <3>2. CASE u = None /\ d # None
      <4>1. WithBottom(SetDown(s, d, u), d) = SetDown(WithBottom(s, d), d, u)
        BY <1>1, EndAndPointer
      <4> QED BY <3>2, <4>1
    <3>3. CASE u # None /\ d = None
      <4>1. WithTop(SetUp(s, u, d), u) = SetUp(WithTop(s, u), u, d)
        BY <1>1, EndAndPointer
      <4> QED BY <3>3, <4>1
    <3>4. CASE u # None /\ d # None
      <4>1. SetUp(SetDown(s, d, u), u, d) = SetDown(SetUp(s, u, d), d, u)
        BY <1>1, UpAndDown
      <4> QED BY <3>4, <4>1
    <3> QED BY <3>1, <3>2, <3>3, <3>4
  <2> HIDE DEF v, w
  <2> QED BY <2>1, <2>2, <2>4, <2>5
<1>7. ASSUME NEW n PROVE Mirrored(MoveToTop(m, n)) = MoveToBottom(s, n)
  <2>1. CASE m.up[n] = None
    BY <1>1, <1>2, <2>1 DEF MoveToTop, MoveToBottom
  <2>2. CASE m.up[n] # None
    <3> DEFINE a == Unlinked(m, n)
               b == SetUp(a, n, None)
               c == SetDown(b, n, m.top)
               d == SetUp(c, m.top, n)
    <3>1. MoveToTop(m, n) = WithTop(d, n)
      BY <2>2 DEF MoveToTop, WithTop
    <3>2. MoveToBottom(s, n)
            = WithBottom(SetDown(SetUp(SetDown(Unlinked(s, n), n, None), n, m.top), m.top, n), n)
      BY <1>1, <2>2 DEF MoveToBottom, WithBottom
    <3>3. Whole(a) /\ Mirrored(a) = Unlinked(s, n)
      BY <1>6
    <3> HIDE DEF a
    <3>4. Whole(b) /\ Mirrored(b) = SetDown(Unlinked(s, n), n, None)
      BY <3>3, MirroredAssignments
    <3> HIDE DEF b
    <3>5. Whole(c) /\ Mirrored(c) = SetUp(SetDown(Unlinked(s, n), n, None), n, m.top)
      BY <3>4, MirroredAssignments
    <3> HIDE DEF c
    <3>6. Whole(d) /\ Mirrored(d) = SetDown(SetUp(SetDown(Unlinked(s, n), n, None), n, m.top), m.top, n)
      BY <3>5, MirroredAssignments
    <3> HIDE DEF d
    <3> QED BY <3>1, <3>2, <3>6, MirroredAssignments
  <2> QED BY <2>1, <2>2
<1>8. ASSUME NEW n PROVE Mirrored(MoveUp(m, n)) = MoveDown(s, n)
  <2>1. CASE m.up[n] = None
    BY <1>1, <1>2, <2>1 DEF MoveUp, MoveDown
  <2>2. CASE m.up[n] # None
    <3> DEFINE w == m.up[n]
               v == m.up[w]
               a == Unlinked(m, n)
               e == Unlinked(s, n)
               x == IF v # None THEN SetDown(a, v, n) ELSE WithTop(a, n)
               y == IF v # None THEN SetUp(e, v, n) ELSE WithBottom(e, n)
               b == SetUp(x, w, n)
               c == SetUp(b, n, v)
    <3>1. MoveUp(m, n) = SetDown(c, n, w)
      BY <2>2 DEF MoveUp, WithTop
    <3>2. MoveDown(s, n) =
            SetDown(SetUp(IF v # None THEN SetUp(SetDown(e, w, n), v, n)
                          ELSE WithBottom(SetDown(e, w, n), n), n, w), n, v)
      BY <1>1, <2>2 DEF MoveDown, WithBottom
    <3>3. Whole(a) /\ Mirrored(a) = e /\ Whole(e)
      <4>1. Whole(a) /\ Mirrored(a) = e
        BY <1>6
      <4> HIDE DEF a, e
      <4> QED BY <4>1, MirroredAssignments
    <3> HIDE DEF w, v, a, e
    <3>4. Whole(x) /\ Mirrored(x) = y /\ Whole(y)
      <4>1. CASE v # None
        <5>1. x = SetDown(a, v, n) /\ y = SetUp(e, v, n)
          BY <4>1
        <5> HIDE DEF x, y
        <5> QED BY <3>3, <5>1, MirroredAssignments
      <4>2. CASE v = None
        <5>1. x = WithTop(a, n) /\ y = WithBottom(e, n)
          BY <4>2
        <5> HIDE DEF x, y
        <5> QED BY <3>3, <5>1, MirroredAssignments
      <4> QED BY <4>1, <4>2
    <3>5. (IF v # None THEN SetUp(SetDown(e, w, n), v, n)
           ELSE WithBottom(SetDown(e, w, n), n)) = SetDown(y, w, n)
      <4>1. CASE v # None
        <5>1. SetUp(SetDown(e, w, n), v, n) = SetDown(SetUp(e, v, n), w, n)
          BY <3>3, UpAndDown
        <5> QED BY <4>1, <5>1
      <4>2. CASE v = None
        <5>1. WithBottom(SetDown(e, w, n), n) = SetDown(WithBottom(e, n), w, n)
          BY <3>3, EndAndPointer
        <5> QED BY <4>2, <5>1
      <4> QED BY <4>1, <4>2
    <3> HIDE DEF x, y
    <3>6. Whole(b) /\ Mirrored(b) = SetDown(y, w, n) /\ Whole(SetDown(y, w, n))
      BY <3>4, MirroredAssignments
    <3> HIDE DEF b
    <3>7. Whole(c) /\ Mirrored(c) = SetDown(SetDown(y, w, n), n, v)
      BY <3>6, MirroredAssignments
    <3> HIDE DEF c
    <3>8. Mirrored(SetDown(c, n, w)) = SetUp(SetDown(SetDown(y, w, n), n, v), n, w)
      BY <3>7, MirroredAssignments
    <3>9. SetUp(SetDown(SetDown(y, w, n), n, v), n, w) = SetDown(SetUp(SetDown(y, w, n), n, w), n, v)
      BY <3>6, UpAndDown
    <3> QED BY <3>1, <3>2, <3>5, <3>8, <3>9
  <2> QED BY <2>1, <2>2
<1> QED BY <1>3, <1>4, <1>5, <1>7, <1>8 DEF s

(* r is the sequence s from its other end.                                 *)
IsReverse(r, s) ==
  /\ Len(s) \in Nat /\ Len(r) = Len(s) /\ s = [j \in 1 .. Len(s) |-> s[j]]
  /\ \A j \in 1 .. Len(s) : r[j] = s[Len(s) + 1 - j]

(* Reverse finds the sequence.                                             *)
LEMMA ReverseIs ==
  ASSUME NEW r, NEW s, IsReverse(r, s)
  PROVE  Reverse(r) = s
<1> DEFINE n == Len(s)
<1>1. n \in Nat /\ Len(r) = n /\ s = [j \in 1 .. n |-> s[j]] /\ \A j \in 1 .. n : r[j] = s[n + 1 - j]
  BY DEF IsReverse
<1> HIDE DEF n
<1>2. ASSUME NEW j \in 1 .. n PROVE r[n - j + 1] = s[j]
  <2>1. n - j + 1 \in 1 .. n /\ n + 1 - (n - j + 1) = j
    BY <1>1
  <2> QED BY <1>1, <2>1
<1> QED BY <1>1, <1>2 DEF Reverse

(* Place i from one end is place Len(s) + 2 - i from the other, with the   *)
(* new item counted.                                                       *)
LEMMA InsertedReverse ==
  ASSUME NEW r, NEW s, IsReverse(r, s), NEW i \in 1 .. Len(s) + 1, NEW k
  PROVE  IsReverse(InsertedAt(r, i, k), InsertedAt(s, Len(s) + 2 - i, k))
<1> DEFINE n == Len(s)
           x == InsertedAt(r, i, k)
           y == InsertedAt(s, n + 2 - i, k)
<1>1. n \in Nat /\ Len(r) = n /\ i \in 1 .. n + 1 /\ \A j \in 1 .. n : r[j] = s[n + 1 - j]
  BY DEF IsReverse
<1>2. /\ Len(x) = n + 1
      /\ \A j \in 1 .. n + 1 : x[j] = IF j < i THEN r[j] ELSE IF j = i THEN k ELSE r[j - 1]
  BY <1>1 DEF InsertedAt
<1>3. /\ Len(y) = n + 1 /\ y = [j \in 1 .. n + 1 |-> y[j]]
      /\ \A j \in 1 .. n + 1 :
           y[j] = IF j < n + 2 - i THEN s[j] ELSE IF j = n + 2 - i THEN k ELSE s[j - 1]
  BY <1>1 DEF InsertedAt
<1> HIDE DEF n, x, y
<1>4. ASSUME NEW j \in 1 .. n + 1 PROVE x[j] = y[n + 1 + 1 - j]
  <2> DEFINE h == n + 1 + 1 - j
  <2>1. h \in 1 .. n + 1
    BY <1>1
  <2>2. y[h] = IF h < n + 2 - i THEN s[h] ELSE IF h = n + 2 - i THEN k ELSE s[h - 1]
    BY <1>3, <2>1
  <2>3. CASE j < i
    <3>1. j \in 1 .. n /\ ~(h < n + 2 - i) /\ h # n + 2 - i /\ h - 1 = n + 1 - j
      BY <1>1, <2>3
    <3> HIDE DEF h
    <3>2. y[h] = s[n + 1 - j] /\ x[j] = r[j] /\ r[j] = s[n + 1 - j]
      BY <1>1, <1>2, <2>2, <2>3, <3>1
    <3> QED BY <3>2 DEF h
  <2>4. CASE j = i
    <3>1. ~(j < i) /\ ~(h < n + 2 - i) /\ h = n + 2 - i
      BY <1>1, <2>4
    <3> HIDE DEF h
    <3>2. y[h] = k /\ x[j] = k
      BY <1>2, <2>2, <2>4, <3>1
    <3> QED BY <3>2 DEF h
  <2>5. CASE j > i
    <3>1. ~(j < i) /\ j # i /\ j - 1 \in 1 .. n /\ h < n + 2 - i /\ h = n + 1 - (j - 1)
      BY <1>1, <2>5
    <3> HIDE DEF h
    <3>2. y[h] = s[h] /\ x[j] = r[j - 1] /\ r[j - 1] = s[n + 1 - (j - 1)]
      BY <1>1, <1>2, <2>2, <3>1
    <3> QED BY <3>1, <3>2 DEF h
  <2> QED BY <1>1, <2>3, <2>4, <2>5
<1>5. IsReverse(x, y)
  <2>1. Len(y) = n + 1 /\ Len(x) = n + 1 /\ n + 1 \in Nat
    BY <1>1, <1>2, <1>3
  <2>2. Len(y) \in Nat /\ Len(x) = Len(y) /\ y = [j \in 1 .. Len(y) |-> y[j]]
    BY <1>3, <2>1
  <2>3. \A j \in 1 .. Len(y) : x[j] = y[Len(y) + 1 - j]
    BY <1>4, <2>1
  <2> QED BY <2>2, <2>3 DEF IsReverse
<1> QED BY <1>5 DEF x, y, n

(* And place Len(s) + 1 - i, for an item that is there.                    *)
LEMMA RemovedReverse ==
  ASSUME NEW r, NEW s, IsReverse(r, s), NEW i \in 1 .. Len(s)
  PROVE  /\ IsReverse(RemovedAt(r, i), RemovedAt(s, Len(s) + 1 - i))
         /\ Len(RemovedAt(s, Len(s) + 1 - i)) = Len(s) - 1
         /\ r[i] = s[Len(s) + 1 - i]
<1> DEFINE n == Len(s)
           x == RemovedAt(r, i)
           y == RemovedAt(s, n + 1 - i)
<1>1. n \in Nat /\ Len(r) = n /\ i \in 1 .. n /\ \A j \in 1 .. n : r[j] = s[n + 1 - j]
  BY DEF IsReverse
<1>2. n - 1 \in Nat
  BY <1>1
<1>3. Len(x) = n - 1 /\ \A j \in 1 .. n - 1 : x[j] = IF j < i THEN r[j] ELSE r[j + 1]
  BY <1>1, <1>2 DEF RemovedAt
<1>4. /\ Len(y) = n - 1 /\ y = [j \in 1 .. n - 1 |-> y[j]]
      /\ \A j \in 1 .. n - 1 : y[j] = IF j < n + 1 - i THEN s[j] ELSE s[j + 1]
  BY <1>2 DEF RemovedAt
<1> HIDE DEF n, x, y
<1>5. ASSUME NEW j \in 1 .. n - 1 PROVE x[j] = y[n - 1 + 1 - j]
  <2> DEFINE h == n - 1 + 1 - j
  <2>1. h \in 1 .. n - 1 /\ j \in 1 .. n /\ j + 1 \in 1 .. n
    BY <1>1
  <2>2. y[h] = IF h < n + 1 - i THEN s[h] ELSE s[h + 1]
    BY <1>4, <2>1
  <2>3. CASE j < i
    <3>1. ~(h < n + 1 - i) /\ h + 1 = n + 1 - j
      BY <1>1, <2>3
    <3> HIDE DEF h
    <3>2. y[h] = s[n + 1 - j] /\ x[j] = r[j] /\ r[j] = s[n + 1 - j]
      BY <1>1, <1>3, <2>1, <2>2, <2>3, <3>1
    <3> QED BY <3>2 DEF h
  <2>4. CASE ~(j < i)
    <3>1. h < n + 1 - i /\ h = n + 1 - (j + 1)
      BY <1>1, <2>4
    <3> HIDE DEF h
    <3>2. y[h] = s[h] /\ x[j] = r[j + 1] /\ r[j + 1] = s[n + 1 - (j + 1)]
      BY <1>1, <1>3, <2>1, <2>2, <2>4, <3>1
    <3> QED BY <3>1, <3>2 DEF h
  <2> QED BY <2>3, <2>4
<1>6. IsReverse(x, y)
  <2>1. Len(y) = n - 1 /\ Len(x) = n - 1
    BY <1>3, <1>4
  <2>2. Len(y) \in Nat /\ Len(x) = Len(y) /\ y = [j \in 1 .. Len(y) |-> y[j]]
    BY <1>2, <1>4, <2>1
  <2>3. \A j \in 1 .. Len(y) : x[j] = y[Len(y) + 1 - j]
    BY <1>5, <2>1
  <2> QED BY <2>2, <2>3 DEF IsReverse
<1> QED BY <1>1, <1>4, <1>6 DEF x, y, n

(* A move corresponds to the move between the corresponding places.        *)
LEMMA MovedReverse ==
  ASSUME NEW r, NEW s, IsReverse(r, s), NEW i \in 1 .. Len(s), NEW h \in 1 .. Len(s)
  PROVE  IsReverse(MovedTo(r, i, h), MovedTo(s, Len(s) + 1 - i, Len(s) + 1 - h))
<1> DEFINE x == RemovedAt(r, i)
           y == RemovedAt(s, Len(s) + 1 - i)
<1>1. IsReverse(x, y) /\ Len(y) = Len(s) - 1 /\ r[i] = s[Len(s) + 1 - i]
  BY RemovedReverse
<1>2. h \in 1 .. Len(y) + 1 /\ Len(y) + 2 - h = Len(s) + 1 - h
  <2>1. Len(s) \in Nat
    BY DEF IsReverse
  <2> HIDE DEF y
  <2> QED BY <1>1, <2>1
<1>3. /\ MovedTo(r, i, h) = InsertedAt(x, h, r[i])
      /\ MovedTo(s, Len(s) + 1 - i, Len(s) + 1 - h) = InsertedAt(y, Len(s) + 1 - h, s[Len(s) + 1 - i])
  BY DEF MovedTo
<1> HIDE DEF x, y
<1>4. IsReverse(InsertedAt(x, h, r[i]), InsertedAt(y, Len(y) + 2 - h, r[i]))
  BY <1>1, <1>2, InsertedReverse
<1> QED BY <1>1, <1>2, <1>3, <1>4

(* What holds at one end holds at the other.                               *)
LEMMA OtherEnd ==
  ASSUME NEW T, None \notin T, NEW s, NEW q, Line(s, q, T)
  PROVE  /\ Whole(Mirrored(s)) /\ Mirrored(Mirrored(s)) = s
         /\ Line(Mirrored(s), Reverse(q), T) /\ IsReverse(Reverse(q), q)
         /\ Items(Mirrored(s)) = Items(s)
         /\ Len(Reverse(q)) = Len(q) /\ Len(q) \in Nat
<1>1. /\ Whole(s) /\ Line(Mirrored(s), Reverse(q), T) /\ Len(Reverse(q)) = Len(q)
      /\ \A i \in 1 .. Len(q) : Reverse(q)[i] = q[Len(q) + 1 - i]
  BY ReversedLine
<1>2. Len(q) \in Nat /\ q = [j \in 1 .. Len(q) |-> q[j]]
  BY LineFacts DEF Line
<1> QED BY <1>1, <1>2, MirroredAssignments DEF IsReverse

(* A line of the mirrored set is mirrored back.                            *)
LEMMA BackAgain ==
  ASSUME NEW T, None \notin T, NEW x, NEW y, Line(x, y, T), NEW z, IsReverse(y, z)
  PROVE  Line(Mirrored(x), z, T) /\ Items(Mirrored(x)) = Items(x)
<1>1. Reverse(y) = z
  BY ReverseIs
<1> QED BY <1>1, OtherEnd

(* pop_top takes the first item away.                                      *)
THEOREM PopTopKeepsLine ==
  ASSUME NEW T, None \notin T, NEW s, NEW q, Line(s, q, T), q # <<>>
  PROVE  /\ Line(PopTop(s), RemovedAt(q, 1), T)
         /\ Items(PopTop(s)) = Items(s) \ {q[1]}
<1> DEFINE m == Mirrored(s)
           p == Reverse(q)
<1>1. /\ Whole(m) /\ Mirrored(m) = s /\ Line(m, p, T) /\ IsReverse(p, q)
      /\ Items(m) = Items(s) /\ Len(p) = Len(q) /\ Len(q) \in Nat
  BY OtherEnd
<1>2. Len(q) # 0 /\ Len(q) \in 1 .. Len(q) /\ Len(q) + 1 - Len(q) = 1
  <2>1. Len(q) # 0
    BY DEF Line
  <2> QED BY <1>1, <2>1
<1> HIDE DEF m, p
<1>3. p # <<>>
  BY <1>1, <1>2
<1>4. /\ Line(PopBottom(m), RemovedAt(p, Len(q)), T)
      /\ Items(PopBottom(m)) = Items(s) \ {p[Len(q)]}
  BY <1>1, <1>3, PopBottomKeepsLine
<1>5. IsReverse(RemovedAt(p, Len(q)), RemovedAt(q, 1)) /\ p[Len(q)] = q[1]
  BY <1>1, <1>2, RemovedReverse
<1>6. Mirrored(PopBottom(m)) = PopTop(s)
  BY <1>1, MirroredOperations
<1> QED BY <1>4, <1>5, <1>6, BackAgain

(* append_bottom puts the new item after all others.                       *)
THEOREM AppendBottomKeepsLine ==
  ASSUME NEW T, None \notin T, NEW s, NEW q, Line(s, q, T), NEW k \in T \ Items(s)
  PROVE  /\ Line(AppendBottom(s, k), InsertedAt(q, Len(q) + 1, k), T)
         /\ Items(AppendBottom(s, k)) = Items(s) \cup {k}
<1> DEFINE m == Mirrored(s)
           p == Reverse(q)
<1>1. /\ Whole(m) /\ Mirrored(m) = s /\ Line(m, p, T) /\ IsReverse(p, q)
      /\ Items(m) = Items(s) /\ Len(p) = Len(q) /\ Len(q) \in Nat
  BY OtherEnd
<1> HIDE DEF m, p
<1>2. /\ Line(AppendTop(m, k), InsertedAt(p, 1, k), T)
      /\ Items(AppendTop(m, k)) = Items(s) \cup {k}
  BY <1>1, AppendTopKeepsLine
<1>3. IsReverse(InsertedAt(p, 1, k), InsertedAt(q, Len(q) + 1, k))
  <2>1. 1 \in 1 .. Len(q) + 1 /\ Len(q) + 2 - 1 = Len(q) + 1
    BY <1>1
  <2>2. IsReverse(InsertedAt(p, 1, k), InsertedAt(q, Len(q) + 2 - 1, k))
    BY <1>1, <2>1, InsertedReverse
  <2> QED BY <2>1, <2>2
<1>4. Mirrored(AppendTop(m, k)) = AppendBottom(s, k)
  BY <1>1, MirroredOperations
<1> QED BY <1>2, <1>3, <1>4, BackAgain

(* insert_below puts it right below the i-th item.                         *)
THEOREM InsertBelowKeepsLine ==
  ASSUME NEW T, None \notin T, NEW s, NEW q, Line(s, q, T),
         NEW i \in 1 .. Len(q), NEW k \in T \ Items(s)
  PROVE  /\ Line(InsertBelow(s, q[i], k), InsertedAt(q, i + 1, k), T)
         /\ Items(InsertBelow(s, q[i], k)) = Items(s) \cup {k}
<1> DEFINE m == Mirrored(s)
           p == Reverse(q)
           h == Len(q) + 1 - i
<1>1. /\ Whole(m) /\ Mirrored(m) = s /\ Line(m, p, T) /\ IsReverse(p, q)
      /\ Items(m) = Items(s) /\ Len(p) = Len(q) /\ Len(q) \in Nat
  BY OtherEnd
<1>2. /\ h \in 1 .. Len(q) /\ h \in 1 .. Len(q) + 1
      /\ Len(q) + 2 - h = i + 1 /\ Len(q) + 1 - h = i
  BY <1>1
<1>3. p[h] = q[i]
  BY <1>1, <1>2 DEF IsReverse
<1> HIDE DEF m, p, h
<1>4. /\ Line(InsertAbove(m, q[i], k), InsertedAt(p, h, k), T)
      /\ Items(InsertAbove(m, q[i], k)) = Items(s) \cup {k}
  <2>1. /\ Line(InsertAbove(m, p[h], k), InsertedAt(p, h, k), T)
        /\ Items(InsertAbove(m, p[h], k)) = Items(m) \cup {k}
    BY <1>1, <1>2, InsertAboveKeepsLine
  <2> QED BY <1>1, <1>3, <2>1
<1>5. IsReverse(InsertedAt(p, h, k), InsertedAt(q, i + 1, k))
  <2>1. IsReverse(InsertedAt(p, h, k), InsertedAt(q, Len(q) + 2 - h, k))
    BY <1>1, <1>2, InsertedReverse
  <2> QED BY <1>2, <2>1
<1>6. Mirrored(InsertAbove(m, q[i], k)) = InsertBelow(s, q[i], k)
  BY <1>1, MirroredOperations
<1> QED BY <1>4, <1>5, <1>6, BackAgain

(* move_to_bottom brings the i-th item to the bottom and moves no other.   *)
THEOREM MoveToBottomKeepsLine ==
  ASSUME NEW T, None \notin T, NEW s, NEW q, Line(s, q, T), NEW i \in 1 .. Len(q)
  PROVE  /\ Line(MoveToBottom(s, q[i]), MovedTo(q, i, Len(q)), T)
         /\ Items(MoveToBottom(s, q[i])) = Items(s)
<1> DEFINE m == Mirrored(s)
           p == Reverse(q)
           h == Len(q) + 1 - i
<1>1. /\ Whole(m) /\ Mirrored(m) = s /\ Line(m, p, T) /\ IsReverse(p, q)
      /\ Items(m) = Items(s) /\ Len(p) = Len(q) /\ Len(q) \in Nat
  BY OtherEnd
<1>2. h \in 1 .. Len(q) /\ Len(q) + 1 - h = i /\ 1 \in 1 .. Len(q) /\ Len(q) + 1 - 1 = Len(q)
  BY <1>1
<1>3. p[h] = q[i]
  BY <1>1, <1>2 DEF IsReverse
<1> HIDE DEF m, p, h
<1>4. Line(MoveToTop(m, q[i]), MovedTo(p, h, 1), T) /\ Items(MoveToTop(m, q[i])) = Items(s)
  <2>1. Line(MoveToTop(m, p[h]), MovedTo(p, h, 1), T) /\ Items(MoveToTop(m, p[h])) = Items(m)
    BY <1>1, <1>2, MoveToTopKeepsLine
  <2> QED BY <1>1, <1>3, <2>1
<1>5. IsReverse(MovedTo(p, h, 1), MovedTo(q, i, Len(q)))
  <2>1. IsReverse(MovedTo(p, h, 1), MovedTo(q, Len(q) + 1 - h, Len(q) + 1 - 1))
    BY <1>1, <1>2, MovedReverse
  <2> QED BY <1>2, <2>1
<1>6. Mirrored(MoveToTop(m, q[i])) = MoveToBottom(s, q[i])
  BY <1>1, MirroredOperations
<1> QED BY <1>4, <1>5, <1>6, BackAgain

(* move_down exchanges the i-th item with the one below it.                *)
THEOREM MoveDownKeepsLine ==
  ASSUME NEW T, None \notin T, NEW s, NEW q, Line(s, q, T), NEW i \in 1 .. Len(q)
  PROVE  /\ Line(MoveDown(s, q[i]), MovedTo(q, i, IF i = Len(q) THEN Len(q) ELSE i + 1), T)
         /\ Items(MoveDown(s, q[i])) = Items(s)
<1> DEFINE m == Mirrored(s)
           p == Reverse(q)
           h == Len(q) + 1 - i
           g == IF h = 1 THEN 1 ELSE h - 1
           j == IF i = Len(q) THEN Len(q) ELSE i + 1
<1>1. /\ Whole(m) /\ Mirrored(m) = s /\ Line(m, p, T) /\ IsReverse(p, q)
      /\ Items(m) = Items(s) /\ Len(p) = Len(q) /\ Len(q) \in Nat
  BY OtherEnd
<1>2. h \in 1 .. Len(q) /\ Len(q) + 1 - h = i /\ g \in 1 .. Len(q) /\ Len(q) + 1 - g = j
  <2>1. h \in 1 .. Len(q) /\ Len(q) + 1 - h = i /\ (h = 1 <=> i = Len(q))
    BY <1>1
  <2>2. CASE i = Len(q)
    BY <1>1, <2>1, <2>2
  <2>3. CASE i # Len(q)
    <3>1. j = i + 1 /\ g = Len(q) + 1 - i - 1 /\ i \in 1 .. Len(q) - 1
      BY <1>1, <2>1, <2>3
    <3> HIDE DEF g, j
    <3> QED BY <1>1, <2>1, <3>1
  <2> QED BY <2>2, <2>3
<1>3. p[h] = q[i]
  BY <1>1, <1>2 DEF IsReverse
<1> HIDE DEF m, p, h
<1>4. Line(MoveUp(m, q[i]), MovedTo(p, h, g), T) /\ Items(MoveUp(m, q[i])) = Items(s)
  <2>1. Line(MoveUp(m, p[h]), MovedTo(p, h, g), T) /\ Items(MoveUp(m, p[h])) = Items(m)
    BY <1>1, <1>2, MoveUpKeepsLine
  <2> QED BY <1>1, <1>3, <2>1
<1> HIDE DEF g, j
<1>5. IsReverse(MovedTo(p, h, g), MovedTo(q, i, j))
  <2>1. IsReverse(MovedTo(p, h, g), MovedTo(q, Len(q) + 1 - h, Len(q) + 1 - g))
    BY <1>1, <1>2, MovedReverse
  <2> QED BY <1>2, <2>1
<1>6. Mirrored(MoveUp(m, q[i])) = MoveDown(s, q[i])
  BY <1>1, MirroredOperations
<1>7. Line(MoveDown(s, q[i]), MovedTo(q, i, j), T) /\ Items(MoveDown(s, q[i])) = Items(s)
  BY <1>4, <1>5, <1>6, BackAgain
<1> QED BY <1>7 DEF j

---------------------------------------------------------------------------
(* A cache object of LruCache.                                             *)
IsLru(b) == b = [policy |-> "LRU", list |-> b.list]

(* The list is a line of at most MaxLen items.                             *)
FitsInLine(list) == \E q : Line(list, q, Item) /\ Len(q) =< MaxLen

(* The operators on cache objects, for an object of LruCache.              *)
LEMMA LruCases ==
  ASSUME NEW b, IsLru(b), NEW k, NEW has
  PROVE  /\ b.policy = "LRU" /\ Held(b) = Items(b.list)
         /\ PutOutcomes(b, k, has) = {LruPut(b, k)}
         /\ GetHits(b, k, has) = (k \in Items(b.list))
         /\ Got(b, k, has) = IF k \in Items(b.list)
                             THEN [policy |-> "LRU", list |-> MoveToTop(b.list, k)] ELSE b
         /\ Removed(b, k) = IF k \in Items(b.list)
                            THEN [policy |-> "LRU", list |-> Remove(b.list, k)] ELSE b
         /\ Cleared(b) = [policy |-> "LRU", list |-> EmptySet]
<1>1. b.policy = "LRU"
  BY DEF IsLru
<1>2. \A l : [b EXCEPT !.list = l] = [policy |-> "LRU", list |-> l]
  BY DEF IsLru
<1>3. Held(b) = Items(b.list)
  BY <1>1 DEF Held
<1>4. PutOutcomes(b, k, has) = {LruPut(b, k)}
  BY <1>1 DEF PutOutcomes
<1>5. GetHits(b, k, has) = (k \in Items(b.list))
  BY <1>1, <1>3 DEF GetHits
<1>6. Got(b, k, has) = IF k \in Items(b.list)
                       THEN [b EXCEPT !.list = MoveToTop(b.list, k)] ELSE b
  BY <1>1, <1>5 DEF Got
<1>7. Removed(b, k) = IF k \in Items(b.list) THEN [b EXCEPT !.list = Remove(b.list, k)] ELSE b
  BY <1>1, <1>3 DEF Removed
<1>8. Cleared(b) = [policy |-> "LRU", list |-> EmptySet]
  BY <1>1 DEF Cleared, New
<1> QED BY <1>1, <1>2, <1>3, <1>4, <1>5, <1>6, <1>7, <1>8

(* The place of an item, and how many there are.                           *)
LEMMA LineItems ==
  ASSUME NEW s, NEW q, Line(s, q, Item)
  PROVE  /\ None \notin Items(s) /\ Items(s) \subseteq Item
         /\ \A k \in Items(s) : \E i \in 1 .. Len(q) : q[i] = k
         /\ IsFiniteSet(Items(s)) /\ Cardinality(Items(s)) = Len(q)
<1>1. /\ Len(q) \in Nat /\ DOMAIN q = 1 .. Len(q)
      /\ Items(s) = {q[i] : i \in 1 .. Len(q)} /\ Items(s) \subseteq Item
  BY LineFacts, PolicyAssumption
<1>2. q \in Seq(Item) /\ Distinct(q) /\ Elements(q) = Items(s)
  BY <1>1 DEF Line, Elements
<1>3. IsFiniteSet(Items(s)) /\ Cardinality(Items(s)) = Len(q)
  BY <1>2, DistinctCardinality
<1> QED BY <1>1, <1>3, PolicyAssumption

(* An empty set is a line.                                                 *)
LEMMA EmptyFits == FitsInLine(EmptySet) /\ Items(EmptySet) = {}
<1>1. Line(EmptySet, <<>>, Item)
  <2>1. EmptySet.top = None /\ EmptySet.bottom = None /\ EmptySet.up = <<>> /\ EmptySet.down = <<>>
    BY DEF EmptySet
  <2>2. DOMAIN <<>> = {}
    OBVIOUS
  <2>3. IsObject(EmptySet)
    BY <2>1, <2>2 DEF IsObject, EmptySet
  <2> QED BY <2>1, <2>2, <2>3 DEF Line, Distinct, Represents, Items
<1>2. Len(<<>>) =< MaxLen
  BY PolicyAssumption
<1>3. Items(EmptySet) = {}
  BY DEF Items, EmptySet
<1> QED BY <1>1, <1>2, <1>3 DEF FitsInLine

(* What a put of LruCache leaves and returns: a line that is no longer     *)
(* than allowed, and the item that left, which is not the new one.         *)
LEMMA LruPutOutcome ==
  ASSUME NEW b, IsLru(b), FitsInLine(b.list), NEW k \in Item
  PROVE  LET o == LruPut(b, k) IN
         /\ IsLru(o[1]) /\ FitsInLine(o[1].list)
         /\ \/ /\ o[2] = None
               /\ Items(o[1].list) = Items(b.list) \cup {k}
            \/ /\ k \notin Items(b.list) /\ o[2] \in Items(b.list)
               /\ Items(o[1].list) = (Items(b.list) \cup {k}) \ {o[2]}
<1> DEFINE s == b.list
           o == LruPut(b, k)
           top == AppendTop(s, k)
<1>1. PICK q : Line(s, q, Item) /\ Len(q) =< MaxLen
  BY DEF FitsInLine
<1>2. /\ None \notin Items(s) /\ Cardinality(Items(s)) = Len(q)
      /\ \A j \in Items(s) : \E i \in 1 .. Len(q) : q[i] = j
  BY <1>1, LineItems
<1>3. \A l : [b EXCEPT !.list = l] = [policy |-> "LRU", list |-> l]
  BY DEF IsLru
<1>4. None \notin Item /\ MaxLen \in Nat \ {0} /\ Len(q) \in Nat
  BY <1>1, PolicyAssumption, LineFacts
<1>5. CASE k \in Items(s)
  <2>1. PICK i \in 1 .. Len(q) : q[i] = k
    BY <1>2, <1>5
  <2>2. /\ Line(MoveToTop(s, k), MovedTo(q, i, 1), Item) /\ Items(MoveToTop(s, k)) = Items(s)
        /\ Len(MovedTo(q, i, 1)) = Len(q)
    BY <1>1, <1>4, <2>1, MoveToTopKeepsLine
  <2>3. o = << [policy |-> "LRU", list |-> MoveToTop(s, k)], None >>
    BY <1>3, <1>5 DEF LruPut
  <2> HIDE DEF o, s
  <2>4. /\ o[1] = [policy |-> "LRU", list |-> MoveToTop(s, k)] /\ o[2] = None
        /\ o[1].list = MoveToTop(s, k)
    BY <2>3
  <2>5. IsLru(o[1]) /\ FitsInLine(o[1].list)
    BY <1>1, <2>2, <2>4 DEF IsLru, FitsInLine
  <2>6. Items(o[1].list) = Items(s) \cup {k}
    BY <1>5, <2>2, <2>4
  <2> QED BY <2>4, <2>5, <2>6 DEF o, s
<1>6. CASE k \notin Items(s)
  <2>1. /\ Line(top, InsertedAt(q, 1, k), Item) /\ Items(top) = Items(s) \cup {k}
        /\ Len(InsertedAt(q, 1, k)) = Len(q) + 1
    BY <1>1, <1>4, <1>6, AppendTopKeepsLine
  <2>2. Cardinality(Items(top)) = Len(q) + 1
    BY <2>1, LineItems
  <2>3. CASE Len(q) < MaxLen
    <3>1. ~(Cardinality(Items(top)) > MaxLen) /\ Len(InsertedAt(q, 1, k)) =< MaxLen
      BY <1>4, <2>1, <2>2, <2>3
    <3>2. o = << [policy |-> "LRU", list |-> top], None >>
      BY <1>3, <1>6, <3>1 DEF LruPut
    <3> HIDE DEF o, s, top
    <3>3. o[1] = [policy |-> "LRU", list |-> top] /\ o[2] = None /\ o[1].list = top
      BY <3>2
    <3>4. IsLru(o[1]) /\ FitsInLine(o[1].list)
      BY <2>1, <3>1, <3>3 DEF IsLru, FitsInLine
    <3> QED BY <2>1, <3>3, <3>4 DEF o, s
  <2>4. CASE Len(q) = MaxLen
    <3> DEFINE line == InsertedAt(q, 1, k)
    <3>1. Cardinality(Items(top)) > MaxLen
      BY <1>4, <2>2, <2>4
    <3>2. /\ Line(PopBottom(top), RemovedAt(line, Len(line)), Item)
          /\ Items(PopBottom(top)) = (Items(s) \cup {k}) \ {top.bottom}
          /\ Len(RemovedAt(line, Len(line))) = Len(q)
          /\ Len(q) > 0 => top.bottom = q[Len(q)]
      BY <1>1, <1>4, <1>6, PushAndPop
    <3>3. top.bottom \in Items(s)
      <4>1. Len(q) > 0 /\ Len(q) \in 1 .. Len(q)
        BY <1>4, <2>4
      <4>2. q[Len(q)] \in Items(s)
        BY <1>1, <1>4, <4>1, LineFacts
      <4> QED BY <3>2, <4>1, <4>2
    <3>4. o = << [policy |-> "LRU", list |-> PopBottom(top)], top.bottom >>
      BY <1>3, <1>6, <3>1 DEF LruPut
    <3> HIDE DEF o, s, top, line
    <3>5. /\ o[1] = [policy |-> "LRU", list |-> PopBottom(top)] /\ o[2] = top.bottom
          /\ o[1].list = PopBottom(top)
      BY <3>4
    <3>6. IsLru(o[1]) /\ FitsInLine(o[1].list)
      BY <1>1, <3>2, <3>5 DEF IsLru, FitsInLine
    <3> QED BY <1>6, <3>2, <3>3, <3>5, <3>6 DEF o, s
  <2> QED BY <1>1, <1>4, <2>3, <2>4
<1> QED BY <1>5, <1>6

(* get moves an item to the top.                                           *)
LEMMA LruGetOutcome ==
  ASSUME NEW s, FitsInLine(s), NEW k \in Items(s)
  PROVE  FitsInLine(MoveToTop(s, k)) /\ Items(MoveToTop(s, k)) = Items(s)
<1>1. PICK q : Line(s, q, Item) /\ Len(q) =< MaxLen
  BY DEF FitsInLine
<1>2. PICK i \in 1 .. Len(q) : q[i] = k
  BY <1>1, LineItems
<1>3. /\ Line(MoveToTop(s, q[i]), MovedTo(q, i, 1), Item)
      /\ Items(MoveToTop(s, q[i])) = Items(s) /\ Len(MovedTo(q, i, 1)) = Len(q)
  BY <1>1, PolicyAssumption, MoveToTopKeepsLine
<1> QED BY <1>1, <1>2, <1>3 DEF FitsInLine

(* remove takes an item out.                                               *)
LEMMA LruRemoveOutcome ==
  ASSUME NEW s, FitsInLine(s), NEW k \in Items(s)
  PROVE  FitsInLine(Remove(s, k)) /\ Items(Remove(s, k)) = Items(s) \ {k}
<1>1. PICK q : Line(s, q, Item) /\ Len(q) =< MaxLen
  BY DEF FitsInLine
<1>2. PICK i \in 1 .. Len(q) : q[i] = k
  BY <1>1, LineItems
<1>3. /\ Line(Remove(s, q[i]), RemovedAt(q, i), Item)
      /\ Items(Remove(s, q[i])) = Items(s) \ {q[i]} /\ Len(RemovedAt(q, i)) = Len(q) - 1
  BY <1>1, PolicyAssumption, RemoveKeepsLine
<1>4. Len(RemovedAt(q, i)) =< MaxLen
  <2>1. Len(q) \in Nat /\ MaxLen \in Nat
    BY <1>1, PolicyAssumption, LineFacts
  <2> QED BY <1>1, <1>3, <2>1
<1> QED BY <1>2, <1>3, <1>4 DEF FitsInLine

---------------------------------------------------------------------------
(* The other policies, each with its structures as an object of its own:   *)
(* what put, get, remove and clear make of them.                           *)

(* An object of SegmentedLruCache.                                         *)
SlruObject(m, g) == [policy |-> "SLRU", map |-> m, segment |-> g]

(* The attributes of a SegmentedLruCache object.                           *)
LEMMA SlruFields ==
  ASSUME NEW m, NEW g
  PROVE  SlruObject(m, g).map = m /\ SlruObject(m, g).segment = g /\ SlruObject(m, g).policy = "SLRU"
BY DEF SlruObject

(* Assignments to its attributes, one by one.                              *)
With(f, i, v) == [f EXCEPT ![i] = v]
WithSegment(b, s, x) == [b EXCEPT !.segment[s] = x]
WithEntry(b, k, u) == [b EXCEPT !.map[k] = u]
WithMap(b, u) == [b EXCEPT !.map = u]

(* An assignment changes one attribute and leaves the other as it was.     *)
LEMMA Assigned ==
  ASSUME NEW m, NEW g
  PROVE  /\ \A s, x : WithSegment(SlruObject(m, g), s, x) = SlruObject(m, With(g, s, x))
         /\ \A k, u : WithEntry(SlruObject(m, g), k, u) = SlruObject(With(m, k, u), g)
         /\ \A u : WithMap(SlruObject(m, g), u) = SlruObject(u, g)
<1> DEFINE b == SlruObject(m, g)
<1>1. b.map = m /\ b.segment = g
  BY SlruFields
<1>2. ASSUME NEW s, NEW x PROVE WithSegment(b, s, x) = SlruObject(m, With(g, s, x))
  <2> DEFINE h == [g EXCEPT ![s] = x]
  <2>1. [b EXCEPT !.segment[s] = x] = [b EXCEPT !.segment = h]
    BY <1>1
  <2> HIDE DEF h
  <2>2. [b EXCEPT !.segment = h] = SlruObject(m, h)
    BY DEF SlruObject
  <2> QED BY <2>1, <2>2 DEF h, WithSegment, With
<1>3. ASSUME NEW k, NEW u PROVE WithEntry(b, k, u) = SlruObject(With(m, k, u), g)
  <2> DEFINE h == [m EXCEPT ![k] = u]
  <2>1. [b EXCEPT !.map[k] = u] = [b EXCEPT !.map = h]
    BY <1>1
  <2> HIDE DEF h
  <2>2. [b EXCEPT !.map = h] = SlruObject(h, g)
    BY DEF SlruObject
  <2> QED BY <2>1, <2>2 DEF h, WithEntry, With
<1>4. ASSUME NEW u PROVE WithMap(b, u) = SlruObject(u, g)
  BY DEF SlruObject, WithMap
<1> QED BY <1>2, <1>3, <1>4

(* An object of SegmentedLruCache whose segments are the lines of Q.       *)
SlruLines(b, Q) ==
  /\ b = SlruObject(b.map, b.segment)
  /\ b.segment = [i \in 1 .. Segments |-> b.segment[i]]
  /\ Q \in [1 .. Segments -> Seq(Item)]
  /\ \A i \in 1 .. Segments :
       /\ Line(b.segment[i], Q[i], Item) /\ Len(Q[i]) =< SegmentMax(i)
       /\ Items(b.segment[i]) = {k \in DOMAIN b.map : b.map[k] = i}
  /\ \A k \in DOMAIN b.map : b.map[k] \in 1 .. Segments

(* Every segment has room for an item.                                     *)
LEMMA SegmentsHaveRoom ==
  /\ Segments \in Nat \ {0} /\ MaxLen \in Nat \ {0}
  /\ MaxLen = Segments * (MaxLen \div Segments) + (MaxLen % Segments)
  /\ MaxLen \div Segments \in Nat \ {0} /\ MaxLen % Segments \in 0 .. Segments - 1
  /\ \A i \in 1 .. Segments : SegmentMax(i) \in Nat \ {0}
<1> DEFINE d == MaxLen \div Segments
           r == MaxLen % Segments
<1>1. Segments \in Nat \ {0} /\ MaxLen \in Nat \ {0} /\ Segments =< MaxLen
  BY PolicyAssumption
<1>2. d \in Int /\ r \in 0 .. Segments - 1 /\ MaxLen = Segments * d + r
  BY <1>1
<1> HIDE DEF d, r
<1>3. d >= 1
  <2> SUFFICES ASSUME d =< 0 PROVE FALSE
    BY <1>2
  <2>1. Segments * d =< Segments * 0
    BY <1>1, <1>2
  <2> QED BY <1>1, <1>2, <2>1
<1>4. \A i \in 1 .. Segments : SegmentMax(i) \in Nat \ {0}
  BY <1>1, <1>2, <1>3 DEF SegmentMax, d, r
<1> QED BY <1>1, <1>2, <1>3, <1>4 DEF d, r

(* What a segment holds, and where.                                        *)
LEMMA SlruFacts ==
  ASSUME NEW b, NEW Q, SlruLines(b, Q)
  PROVE  /\ b.policy = "SLRU" /\ DOMAIN b.map \subseteq Item
         /\ \A i \in 1 .. Segments :
              /\ Q[i] \in Seq(Item) /\ Len(Q[i]) \in Nat
              /\ Cardinality(Items(b.segment[i])) = Len(Q[i])
              /\ IsFiniteSet(Items(b.segment[i]))
              /\ \A k \in Items(b.segment[i]) : \E j \in 1 .. Len(Q[i]) : Q[i][j] = k
<1>1. \A i \in 1 .. Segments : Line(b.segment[i], Q[i], Item)
  BY DEF SlruLines
<1>2. ASSUME NEW i \in 1 .. Segments
      PROVE  /\ Q[i] \in Seq(Item) /\ Len(Q[i]) \in Nat
             /\ Cardinality(Items(b.segment[i])) = Len(Q[i])
             /\ IsFiniteSet(Items(b.segment[i])) /\ Items(b.segment[i]) \subseteq Item
             /\ \A k \in Items(b.segment[i]) : \E j \in 1 .. Len(Q[i]) : Q[i][j] = k
  <2>1. Line(b.segment[i], Q[i], Item)
    BY <1>1
  <2> QED BY <2>1, LineItems, LenProperties DEF Line
<1>3. ASSUME NEW k \in DOMAIN b.map PROVE k \in Item
  <2>1. b.map[k] \in 1 .. Segments /\ k \in Items(b.segment[b.map[k]])
    BY DEF SlruLines
  <2> QED BY <1>2, <2>1
<1>4. b.policy = "SLRU"
  <2>1. b = SlruObject(b.map, b.segment)
    BY DEF SlruLines
  <2> QED BY <2>1, SlruFields
<1> QED BY <1>2, <1>3, <1>4

(* The three things a hit may do to the segments.                          *)
SlruTop(Q, i) == [Q EXCEPT ![1] = MovedTo(Q[1], i, 1)]

SlruPromoted(Q, s, i) ==
  [Q EXCEPT ![s - 1] = InsertedAt(Q[s - 1], 1, Q[s][i]), ![s] = RemovedAt(Q[s], i)]

SlruExchanged(Q, s, i) ==
  LET up == Q[s - 1] n == Len(up) IN
  [Q EXCEPT ![s - 1] = RemovedAt(InsertedAt(up, 1, Q[s][i]), n + 1),
            ![s] = InsertedAt(RemovedAt(Q[s], i), 1, up[n])]

SlruMoved(Q, s, i) ==
  IF s = 1 THEN SlruTop(Q, i)
  ELSE IF Len(Q[s - 1]) < SegmentMax(s - 1) THEN SlruPromoted(Q, s, i)
  ELSE SlruExchanged(Q, s, i)

(* A hit in the first segment moves the item to its top.                   *)
LEMMA SlruHitFirst ==
  ASSUME NEW b, NEW Q, SlruLines(b, Q), NEW k \in DOMAIN b.map, b.map[k] = 1,
         NEW i \in 1 .. Len(Q[1]), Q[1][i] = k
  PROVE  /\ SlruLines(SlruHit(b, k), SlruTop(Q, i))
         /\ DOMAIN SlruHit(b, k).map = DOMAIN b.map
<1> DEFINE list == MoveToTop(b.segment[1], k)
           o == SlruHit(b, k)
           P == SlruTop(Q, i)
<1>1. /\ b = SlruObject(b.map, b.segment)
      /\ b.segment = [j \in 1 .. Segments |-> b.segment[j]]
      /\ Q \in [1 .. Segments -> Seq(Item)]
  BY DEF SlruLines
<1>2. 1 \in 1 .. Segments /\ Line(b.segment[1], Q[1], Item)
  BY SegmentsHaveRoom DEF SlruLines
<1>3. /\ Line(list, MovedTo(Q[1], i, 1), Item) /\ Items(list) = Items(b.segment[1])
      /\ Len(MovedTo(Q[1], i, 1)) = Len(Q[1])
  BY <1>2, MoveToTopKeepsLine, PolicyAssumption
<1>4. o = SlruObject(b.map, [b.segment EXCEPT ![1] = list])
  <2>1. o = WithSegment(b, 1, list)
    BY DEF SlruHit, WithSegment
  <2> DEFINE m == b.map  g == b.segment
  <2>2. b = SlruObject(m, g)
    BY <1>1
  <2> HIDE DEF list, o, m, g
  <2>3. o = SlruObject(m, With(g, 1, list))
    BY <2>1, <2>2, Assigned
  <2> QED BY <2>3 DEF m, g, With
<1> HIDE DEF list, o
<1>5. /\ o.map = b.map /\ o.segment = [b.segment EXCEPT ![1] = list]
      /\ o = SlruObject(o.map, o.segment)
  BY <1>4, SlruFields
<1>6. \A j \in 1 .. Segments : o.segment[j] = IF j = 1 THEN list ELSE b.segment[j]
  BY <1>1, <1>5
<1>7. /\ P \in [1 .. Segments -> Seq(Item)]
      /\ \A j \in 1 .. Segments : P[j] = IF j = 1 THEN MovedTo(Q[1], i, 1) ELSE Q[j]
  <2>1. MovedTo(Q[1], i, 1) \in Seq(Item)
    BY <1>3 DEF Line
  <2> QED BY <1>1, <2>1 DEF SlruTop
<1> HIDE DEF P
<1>8. o.segment = [j \in 1 .. Segments |-> o.segment[j]]
  BY <1>1, <1>5
<1>9. ASSUME NEW j \in 1 .. Segments
      PROVE  /\ Line(o.segment[j], P[j], Item) /\ Len(P[j]) =< SegmentMax(j)
             /\ Items(o.segment[j]) = {x \in DOMAIN o.map : o.map[x] = j}
  BY <1>3, <1>5, <1>6, <1>7 DEF SlruLines
<1>10. \A x \in DOMAIN o.map : o.map[x] \in 1 .. Segments
  BY <1>5 DEF SlruLines
<1>11. SlruLines(o, P)
  BY <1>5, <1>7, <1>8, <1>9, <1>10 DEF SlruLines
<1> QED BY <1>5, <1>11 DEF o, P

(* A hit elsewhere moves it to the top of the segment above, and that      *)
(* segment's last item, if it was full, to the top of this one.            *)
LEMMA SlruHitBelow ==
  ASSUME NEW b, NEW Q, SlruLines(b, Q), NEW k \in DOMAIN b.map, NEW s, s = b.map[k], s # 1,
         NEW i \in 1 .. Len(Q[s]), Q[s][i] = k
  PROVE  /\ SlruLines(SlruHit(b, k), SlruMoved(Q, s, i))
         /\ DOMAIN SlruHit(b, k).map = DOMAIN b.map
<1> DEFINE up      == b.segment[s - 1]
           above   == AppendTop(up, k)
           below   == Remove(b.segment[s], k)
           demoted == above.bottom
           n       == Len(Q[s - 1])
           line    == InsertedAt(Q[s - 1], 1, k)
           rest    == RemovedAt(Q[s], i)
           o       == SlruHit(b, k)
           P       == SlruMoved(Q, s, i)
<1>1. /\ b = SlruObject(b.map, b.segment)
      /\ b.segment = [j \in 1 .. Segments |-> b.segment[j]]
      /\ Q \in [1 .. Segments -> Seq(Item)]
      /\ \A x \in DOMAIN b.map : b.map[x] \in 1 .. Segments
  BY DEF SlruLines
<1>2. /\ s \in 1 .. Segments /\ s - 1 \in 1 .. Segments /\ s - 1 # s
      /\ Line(b.segment[s], Q[s], Item) /\ Line(up, Q[s - 1], Item)
      /\ Len(Q[s]) =< SegmentMax(s) /\ n =< SegmentMax(s - 1)
      /\ Items(b.segment[s]) = {x \in DOMAIN b.map : b.map[x] = s}
      /\ Items(up) = {x \in DOMAIN b.map : b.map[x] = s - 1}
  <2>0. s \in 1 .. Segments
    BY <1>1
  <2>1. s \in 1 .. Segments /\ s - 1 \in 1 .. Segments /\ s - 1 # s
    BY <2>0, SegmentsHaveRoom
  <2> QED BY <2>1 DEF SlruLines
<1>3. k \in Item /\ k \notin Items(up) /\ k \in Items(b.segment[s]) /\ None \notin Item
  BY <1>2, SlruFacts, PolicyAssumption
<1>4. /\ n \in Nat /\ Len(Q[s]) \in Nat /\ SegmentMax(s) \in Nat \ {0}
      /\ SegmentMax(s - 1) \in Nat \ {0}
  BY <1>2, SlruFacts, SegmentsHaveRoom
<1>5. Line(above, line, Item) /\ Items(above) = Items(up) \cup {k} /\ Len(line) = n + 1
  BY <1>2, <1>3, AppendTopKeepsLine
<1>6. Line(below, rest, Item) /\ Items(below) = Items(b.segment[s]) \ {k} /\ Len(rest) = Len(Q[s]) - 1
  BY <1>2, <1>3, RemoveKeepsLine
<1>7. Cardinality(Items(above)) = n + 1
  BY <1>5, LineItems
<1>8. /\ rest \in Seq(Item) /\ line \in Seq(Item)
  BY <1>5, <1>6 DEF Line
<1>9. CASE n < SegmentMax(s - 1)
  <2>1. ~(Cardinality(Items(above)) > SegmentMax(s - 1))
    BY <1>4, <1>7, <1>9
  <2>2. o = [b EXCEPT !.segment[s - 1] = above, !.segment[s] = below, !.map[k] = s - 1]
    BY <2>1 DEF SlruHit
  <2>3. P = [Q EXCEPT ![s - 1] = line, ![s] = rest]
    BY <1>9 DEF SlruMoved, SlruPromoted
  <2> HIDE DEF o, P, above, below, line, rest
  <2>4. o = SlruObject([b.map EXCEPT ![k] = s - 1],
                       [[b.segment EXCEPT ![s - 1] = above] EXCEPT ![s] = below])
    <3>1. o = WithEntry(WithSegment(WithSegment(b, s - 1, above), s, below), k, s - 1)
      BY <2>2 DEF WithSegment, WithEntry
    <3> DEFINE m == b.map  g == b.segment  t == s - 1
    <3>2. b = SlruObject(m, g)
      BY <1>1
    <3> HIDE DEF m, g, t
    <3>3. o = SlruObject(With(m, k, t), With(With(g, t, above), s, below))
      BY <3>1, <3>2, Assigned DEF t
    <3> QED BY <3>3 DEF m, g, t, With
  <2>5. /\ o.map = [b.map EXCEPT ![k] = s - 1]
        /\ o.segment = [[b.segment EXCEPT ![s - 1] = above] EXCEPT ![s] = below]
        /\ o = SlruObject(o.map, o.segment)
    BY <2>4, SlruFields
  <2>6. /\ o.segment = [j \in 1 .. Segments |-> o.segment[j]]
        /\ \A j \in 1 .. Segments :
             o.segment[j] = IF j = s THEN below ELSE IF j = s - 1 THEN above ELSE b.segment[j]
    BY <1>1, <1>2, <2>5
  <2>7. /\ P \in [1 .. Segments -> Seq(Item)]
        /\ \A j \in 1 .. Segments : P[j] = IF j = s THEN rest ELSE IF j = s - 1 THEN line ELSE Q[j]
    BY <1>1, <1>2, <1>8, <2>3
  <2>8. /\ DOMAIN o.map = DOMAIN b.map
        /\ \A x \in DOMAIN b.map : o.map[x] = IF x = k THEN s - 1 ELSE b.map[x]
    BY <2>5
  <2>9. ASSUME NEW j \in 1 .. Segments
        PROVE  /\ Line(o.segment[j], P[j], Item) /\ Len(P[j]) =< SegmentMax(j)
               /\ Items(o.segment[j]) = {x \in DOMAIN o.map : o.map[x] = j}
    <3>1. CASE j = s
      BY <1>2, <1>4, <1>6, <2>6, <2>7, <2>8, <3>1
    <3>2. CASE j = s - 1
      BY <1>2, <1>4, <1>5, <1>9, <2>6, <2>7, <2>8, <3>2
    <3>3. CASE j # s /\ j # s - 1
      <4>1. /\ Line(b.segment[j], Q[j], Item) /\ Len(Q[j]) =< SegmentMax(j)
            /\ Items(b.segment[j]) = {x \in DOMAIN b.map : b.map[x] = j}
        BY DEF SlruLines
      <4> QED BY <2>6, <2>7, <2>8, <3>3, <4>1
    <3> QED BY <3>1, <3>2, <3>3
  <2>10. \A x \in DOMAIN o.map : o.map[x] \in 1 .. Segments
    BY <1>1, <1>2, <2>8
  <2> QED BY <2>5, <2>6, <2>7, <2>8, <2>9, <2>10 DEF SlruLines, o, P
<1>10. CASE n = SegmentMax(s - 1)
  <2> DEFINE last == Q[s - 1][n]
             cut  == PopBottom(above)
             less == RemovedAt(line, n + 1)
             more == AppendTop(below, last)
             full == InsertedAt(rest, 1, last)
  <2>1. Cardinality(Items(above)) > SegmentMax(s - 1) /\ n > 0 /\ n \in 1 .. n
    BY <1>4, <1>7, <1>10
  <2>2. demoted = last /\ last \in Items(up) /\ last \in Item
    <3>1. demoted = last
      BY <1>2, <1>3, <2>1, PushAndPop
    <3>2. last \in Items(up) /\ last \in Item
      <4> DEFINE u == Q[s - 1]
      <4>1. Line(up, u, Item) /\ n = Len(u) /\ n \in 1 .. Len(u) /\ last = u[n]
        BY <1>2, <2>1
      <4> HIDE DEF u, last, up
      <4>2. \A j \in 1 .. Len(u) : u[j] \in Items(up) /\ u[j] \in Item
        BY <1>3, <4>1, LineFacts
      <4> QED BY <4>1, <4>2
    <3> QED BY <3>1, <3>2
  <2>3. o = [b EXCEPT !.segment[s - 1] = cut, !.segment[s] = more, !.map[k] = s - 1, !.map[last] = s]
    BY <2>1, <2>2 DEF SlruHit
  <2>4. P = [Q EXCEPT ![s - 1] = less, ![s] = full]
    BY <1>4, <1>10 DEF SlruMoved, SlruExchanged
  <2>5. Line(cut, less, Item) /\ Items(cut) = (Items(up) \cup {k}) \ {last} /\ Len(less) = n
    <3>1. /\ Line(cut, RemovedAt(line, Len(line)), Item)
          /\ Items(cut) = (Items(up) \cup {k}) \ {demoted}
          /\ Len(RemovedAt(line, Len(line))) = n
      BY <1>2, <1>3, PushAndPop
    <3> QED BY <1>5, <2>2, <3>1
  <2>6. Line(more, full, Item) /\ Items(more) = Items(below) \cup {last} /\ Len(full) = Len(rest) + 1
    <3>1. last \notin Items(below)
      BY <1>2, <1>6, <2>2
    <3> QED BY <1>3, <1>6, <2>2, <3>1, AppendTopKeepsLine
  <2>7. less \in Seq(Item) /\ full \in Seq(Item)
    BY <2>5, <2>6 DEF Line
  <2> HIDE DEF o, P, above, below, line, rest, last, cut, less, more, full
  <2>8. o = SlruObject([[b.map EXCEPT ![k] = s - 1] EXCEPT ![last] = s],
                       [[b.segment EXCEPT ![s - 1] = cut] EXCEPT ![s] = more])
    <3>1. o = WithEntry(WithEntry(WithSegment(WithSegment(b, s - 1, cut), s, more), k, s - 1), last, s)
      BY <2>3 DEF WithSegment, WithEntry
    <3> DEFINE m == b.map  g == b.segment  t == s - 1
    <3>2. b = SlruObject(m, g)
      BY <1>1
    <3> HIDE DEF m, g, t
    <3>3. o = SlruObject(With(With(m, k, t), last, s), With(With(g, t, cut), s, more))
      BY <3>1, <3>2, Assigned DEF t
    <3> QED BY <3>3 DEF m, g, t, With
  <2>9. /\ o.map = [[b.map EXCEPT ![k] = s - 1] EXCEPT ![last] = s]
        /\ o.segment = [[b.segment EXCEPT ![s - 1] = cut] EXCEPT ![s] = more]
        /\ o = SlruObject(o.map, o.segment)
    BY <2>8, SlruFields
  <2>10. /\ o.segment = [j \in 1 .. Segments |-> o.segment[j]]
         /\ \A j \in 1 .. Segments :
              o.segment[j] = IF j = s THEN more ELSE IF j = s - 1 THEN cut ELSE b.segment[j]
    BY <1>1, <1>2, <2>9
  <2>11. /\ P \in [1 .. Segments -> Seq(Item)]
         /\ \A j \in 1 .. Segments : P[j] = IF j = s THEN full ELSE IF j = s - 1 THEN less ELSE Q[j]
    BY <1>1, <1>2, <2>4, <2>7
  <2>12. /\ DOMAIN o.map = DOMAIN b.map /\ last # k /\ last \in DOMAIN b.map /\ b.map[last] = s - 1
         /\ \A x \in DOMAIN b.map :
              o.map[x] = IF x = last THEN s ELSE IF x = k THEN s - 1 ELSE b.map[x]
    BY <1>2, <1>3, <2>2, <2>9
  <2>13. ASSUME NEW j \in 1 .. Segments
         PROVE  /\ Line(o.segment[j], P[j], Item) /\ Len(P[j]) =< SegmentMax(j)
                /\ Items(o.segment[j]) = {x \in DOMAIN o.map : o.map[x] = j}
    <3>1. CASE j = s
      <4>1. Len(full) = Len(Q[s])
        BY <1>4, <1>6, <2>6
      <4>2. Items(more) = {x \in DOMAIN o.map : o.map[x] = s}
        BY <1>2, <1>6, <2>6, <2>12
      <4> QED BY <1>2, <2>6, <2>10, <2>11, <3>1, <4>1, <4>2
    <3>2. CASE j = s - 1
      <4>1. Items(cut) = {x \in DOMAIN o.map : o.map[x] = s - 1}
        BY <1>2, <2>5, <2>12
      <4> QED BY <1>2, <2>5, <2>10, <2>11, <3>2, <4>1
    <3>3. CASE j # s /\ j # s - 1
      <4>1. /\ Line(b.segment[j], Q[j], Item) /\ Len(Q[j]) =< SegmentMax(j)
            /\ Items(b.segment[j]) = {x \in DOMAIN b.map : b.map[x] = j}
        BY DEF SlruLines
      <4> QED BY <2>10, <2>11, <2>12, <3>3, <4>1
    <3> QED BY <3>1, <3>2, <3>3
  <2>14. \A x \in DOMAIN o.map : o.map[x] \in 1 .. Segments
    BY <1>1, <1>2, <2>12
  <2> QED BY <2>9, <2>10, <2>11, <2>12, <2>13, <2>14 DEF SlruLines, o, P
<1> QED BY <1>2, <1>4, <1>9, <1>10

IsSlru(b) == \E Q : SlruLines(b, Q)

(* An item of the map is at one place of the segment the map names.        *)
LEMMA SlruPlace ==
  ASSUME NEW b, NEW Q, SlruLines(b, Q), NEW k \in DOMAIN b.map
  PROVE  LET s == b.map[k] IN
         /\ s \in 1 .. Segments /\ Len(Q[s]) \in Nat /\ Len(Q[s]) =< SegmentMax(s)
         /\ \E i \in 1 .. Len(Q[s]) : Q[s][i] = k
<1> DEFINE s == b.map[k]
<1> DEFINE line == Q[s]  list == b.segment[s]
<1>1. /\ s \in 1 .. Segments /\ k \in Items(list) /\ Len(line) =< SegmentMax(s)
      /\ Line(list, line, Item)
  BY DEF SlruLines
<1> HIDE DEF s, line, list
<1>2. Len(line) \in Nat /\ \E i \in 1 .. Len(line) : line[i] = k
  BY <1>1, LineItems, LineFacts, PolicyAssumption
<1> QED BY <1>1, <1>2 DEF s, line, list

(* A hit keeps the segments lines, and the items.                          *)
LEMMA SlruHitOutcome ==
  ASSUME NEW b, IsSlru(b), NEW k \in DOMAIN b.map
  PROVE  IsSlru(SlruHit(b, k)) /\ DOMAIN SlruHit(b, k).map = DOMAIN b.map
<1>1. PICK Q : SlruLines(b, Q)
  BY DEF IsSlru
<1> DEFINE s == b.map[k]
<1>3. PICK i \in 1 .. Len(Q[s]) : Q[s][i] = k
  BY <1>1, SlruPlace
<1>4. CASE s = 1
  BY <1>1, <1>3, <1>4, SlruHitFirst DEF IsSlru
<1>5. CASE s # 1
  BY <1>1, <1>3, <1>5, SlruHitBelow DEF IsSlru
<1> QED BY <1>4, <1>5

(* A segment replaced, and the map with it.                                *)
LEMMA SlruReplaced ==
  ASSUME NEW b, NEW Q, SlruLines(b, Q), NEW s \in 1 .. Segments, NEW x, NEW q, NEW m,
         Line(x, q, Item), Len(q) =< SegmentMax(s),
         Items(x) = {k \in DOMAIN m : m[k] = s},
         \A k \in DOMAIN m : m[k] \in 1 .. Segments,
         \A j \in (1 .. Segments) \ {s} :
           {k \in DOMAIN m : m[k] = j} = {k \in DOMAIN b.map : b.map[k] = j}
  PROVE  SlruLines(SlruObject(m, [b.segment EXCEPT ![s] = x]), [Q EXCEPT ![s] = q])
<1> DEFINE g == [b.segment EXCEPT ![s] = x]
           o == SlruObject(m, g)
           P == [Q EXCEPT ![s] = q]
<1>1. /\ b.segment = [j \in 1 .. Segments |-> b.segment[j]]
      /\ Q \in [1 .. Segments -> Seq(Item)]
  BY DEF SlruLines
<1>2. o.map = m /\ o.segment = g
  BY SlruFields
<1> HIDE DEF o
<1>3. /\ g = [j \in 1 .. Segments |-> g[j]]
      /\ \A j \in 1 .. Segments : g[j] = IF j = s THEN x ELSE b.segment[j]
  BY <1>1
<1>4. /\ P \in [1 .. Segments -> Seq(Item)]
      /\ \A j \in 1 .. Segments : P[j] = IF j = s THEN q ELSE Q[j]
  <2>1. q \in Seq(Item)
    BY DEF Line
  <2> QED BY <1>1, <2>1
<1> HIDE DEF g, P
<1>5. ASSUME NEW j \in 1 .. Segments
      PROVE  /\ Line(g[j], P[j], Item) /\ Len(P[j]) =< SegmentMax(j)
             /\ Items(g[j]) = {k \in DOMAIN m : m[k] = j}
  <2>1. CASE j = s
    BY <1>3, <1>4, <2>1
  <2>2. CASE j # s
    <3>1. /\ Line(b.segment[j], Q[j], Item) /\ Len(Q[j]) =< SegmentMax(j)
          /\ Items(b.segment[j]) = {k \in DOMAIN b.map : b.map[k] = j}
      BY DEF SlruLines
    <3> QED BY <1>3, <1>4, <2>2, <3>1
  <2> QED BY <2>1, <2>2
<1>6. o = SlruObject(o.map, o.segment)
  BY <1>2 DEF o
<1>7. SlruLines(o, P)
  BY <1>2, <1>3, <1>4, <1>5, <1>6 DEF SlruLines
<1> QED BY <1>7 DEF o, g, P

(* A new item goes to the top of the last segment, whose last item leaves  *)
(* the cache when it is full.                                              *)
LEMMA SlruInsertLines ==
  ASSUME NEW b, NEW Q, SlruLines(b, Q), NEW k \in Item \ DOMAIN b.map
  PROVE  LET o    == SlruInsert(b, k)
             line == Q[Segments]
             more == InsertedAt(line, 1, k)
         IN
         /\ DOMAIN o[1].map = (DOMAIN b.map \cup {k}) \ {o[2]}
         /\ \/ /\ o[2] = None
               /\ SlruLines(o[1], [Q EXCEPT ![Segments] = more])
            \/ /\ Len(line) > 0 /\ o[2] = line[Len(line)] /\ o[2] \in DOMAIN b.map
               /\ SlruLines(o[1], [Q EXCEPT ![Segments] = RemovedAt(more, Len(more))])
<1> DEFINE s    == Segments
           old  == b.segment[s]
           line == Q[s]
           n    == Len(line)
           last == AppendTop(old, k)
           map  == Put1(b.map, k, s)
           more == InsertedAt(line, 1, k)
           o    == SlruInsert(b, k)
<1>2. s \in 1 .. Segments /\ SegmentMax(s) \in Nat \ {0} /\ None \notin Item
  BY SegmentsHaveRoom, PolicyAssumption
<1>3. /\ b = SlruObject(b.map, b.segment)
      /\ Line(old, line, Item) /\ n =< SegmentMax(s)
      /\ Items(old) = {x \in DOMAIN b.map : b.map[x] = s}
      /\ \A x \in DOMAIN b.map : b.map[x] \in 1 .. Segments
  BY <1>2 DEF SlruLines
<1>4. DOMAIN b.map \subseteq Item /\ n \in Nat /\ k \notin Items(old)
  BY <1>2, <1>3, SlruFacts
<1>5. Line(last, more, Item) /\ Items(last) = Items(old) \cup {k} /\ Len(more) = n + 1
  BY <1>2, <1>3, <1>4, AppendTopKeepsLine
<1>6. Cardinality(Items(last)) = n + 1
  BY <1>5, LineItems
<1>7. /\ DOMAIN map = DOMAIN b.map \cup {k}
      /\ \A x \in DOMAIN map : map[x] = IF x = k THEN s ELSE b.map[x]
  BY DEF Put1
<1>8. CASE n < SegmentMax(s)
  <2>1. o = << WithMap(WithSegment(b, s, last), map), None >>
    BY <1>2, <1>4, <1>6, <1>8 DEF SlruInsert, WithMap, WithSegment
  <2> HIDE DEF o, last, map, more, s, old, line, n
  <2>2. o[1] = SlruObject(map, [b.segment EXCEPT ![s] = last])
    <3> DEFINE m == b.map  g == b.segment
    <3>1. b = SlruObject(m, g)
      BY <1>3
    <3> HIDE DEF m, g
    <3>2. WithMap(WithSegment(b, s, last), map) = SlruObject(map, With(g, s, last))
      BY <3>1, Assigned
    <3> QED BY <2>1, <3>2 DEF g, With
  <2>3. /\ Items(last) = {x \in DOMAIN map : map[x] = s}
        /\ \A x \in DOMAIN map : map[x] \in 1 .. Segments
        /\ \A j \in (1 .. Segments) \ {s} :
             {x \in DOMAIN map : map[x] = j} = {x \in DOMAIN b.map : b.map[x] = j}
    BY <1>2, <1>3, <1>5, <1>7
  <2>4. Len(more) =< SegmentMax(s)
    BY <1>2, <1>4, <1>5, <1>8
  <2>5. SlruLines(o[1], [Q EXCEPT ![s] = more])
    <3>1. SlruLines(SlruObject(map, [b.segment EXCEPT ![s] = last]), [Q EXCEPT ![s] = more])
      BY <1>2, <1>5, <2>3, <2>4, SlruReplaced
    <3> QED BY <2>2, <3>1
  <2>6. o[1].map = map /\ o[2] = None
    BY <2>1, <2>2, SlruFields
  <2> QED BY <1>2, <1>4, <1>7, <2>5, <2>6 DEF o, s, more, line
<1>9. CASE n = SegmentMax(s)
  <2> DEFINE gone == line[n]
             cut  == PopBottom(last)
             less == RemovedAt(more, Len(more))
             kept == Drop(map, gone)
  <2>1. n > 0 /\ n \in 1 .. n /\ n \in DOMAIN line
    BY <1>2, <1>3, <1>4, <1>9, LineFacts
  <2>2. /\ last.bottom = gone /\ Line(cut, less, Item)
        /\ Items(cut) = (Items(old) \cup {k}) \ {gone} /\ Len(less) = n
    BY <1>2, <1>3, <1>4, <2>1, PushAndPop
  <2>3. gone \in Items(old)
    BY <1>2, <1>3, <2>1, LineFacts
  <2>4. o = << WithMap(WithSegment(b, s, cut), kept), gone >>
    BY <1>2, <1>4, <1>6, <1>9, <2>2 DEF SlruInsert, WithMap, WithSegment
  <2>5. /\ DOMAIN kept = (DOMAIN b.map \cup {k}) \ {gone}
        /\ \A x \in DOMAIN kept : kept[x] = IF x = k THEN s ELSE b.map[x]
    BY <1>7 DEF Drop
  <2> HIDE DEF o, last, map, more, s, old, line, n, gone, cut, less, kept
  <2>6. o[1] = SlruObject(kept, [b.segment EXCEPT ![s] = cut])
    <3> DEFINE m == b.map  g == b.segment
    <3>1. b = SlruObject(m, g)
      BY <1>3
    <3> HIDE DEF m, g
    <3>2. WithMap(WithSegment(b, s, cut), kept) = SlruObject(kept, With(g, s, cut))
      BY <3>1, Assigned
    <3> QED BY <2>4, <3>2 DEF g, With
  <2>7. gone \in DOMAIN b.map /\ b.map[gone] = s /\ gone # k
    BY <1>3, <1>4, <2>3
  <2>8. /\ Items(cut) = {x \in DOMAIN kept : kept[x] = s}
        /\ \A x \in DOMAIN kept : kept[x] \in 1 .. Segments
        /\ \A j \in (1 .. Segments) \ {s} :
             {x \in DOMAIN kept : kept[x] = j} = {x \in DOMAIN b.map : b.map[x] = j}
    BY <1>2, <1>3, <2>2, <2>5, <2>7
  <2>9. SlruLines(o[1], [Q EXCEPT ![s] = less])
    <3>1. Line(cut, less, Item) /\ Len(less) =< SegmentMax(s)
      BY <1>3, <2>2
    <3> QED BY <1>2, <2>6, <2>8, <3>1, SlruReplaced
  <2>10. o[1].map = kept /\ o[2] = gone
    BY <2>4, <2>6, SlruFields
  <2> QED BY <2>1, <2>5, <2>7, <2>9, <2>10 DEF o, s, more, line, less, gone, n
<1> QED BY <1>2, <1>3, <1>4, <1>8, <1>9

(* A new item in an SLRU object: one item fewer when it was full.          *)
LEMMA SlruInsertOutcome ==
  ASSUME NEW b, IsSlru(b), NEW k \in Item \ DOMAIN b.map
  PROVE  LET o == SlruInsert(b, k) IN
         /\ IsSlru(o[1]) /\ o[2] \in DOMAIN b.map \cup {None}
         /\ DOMAIN o[1].map = (DOMAIN b.map \cup {k}) \ {o[2]}
<1>1. PICK Q : SlruLines(b, Q)
  BY DEF IsSlru
<1> DEFINE o == SlruInsert(b, k)
<1>2. /\ DOMAIN o[1].map = (DOMAIN b.map \cup {k}) \ {o[2]}
      /\ o[2] = None \/ o[2] \in DOMAIN b.map
      /\ \E P : SlruLines(o[1], P)
  BY <1>1, SlruInsertLines
<1> QED BY <1>2 DEF IsSlru

(* remove takes an item from its segment, and from the map.                *)
SlruTaken(b, k) == [b EXCEPT !.map = Drop(@, k), !.segment[b.map[k]] = Remove(@, k)]

(* The segment the item was in loses it, the others stay as they are.      *)
LEMMA SlruRemoveLines ==
  ASSUME NEW b, NEW Q, SlruLines(b, Q), NEW k \in DOMAIN b.map,
         NEW i \in 1 .. Len(Q[b.map[k]]), Q[b.map[k]][i] = k
  PROVE  LET s == b.map[k]
             o == SlruTaken(b, k)
         IN  /\ SlruLines(o, [Q EXCEPT ![s] = RemovedAt(Q[s], i)])
             /\ DOMAIN o.map = DOMAIN b.map \ {k}
<1> DEFINE s    == b.map[k]
           old  == b.segment[s]
           new  == Remove(old, k)
           map  == Drop(b.map, k)
           o    == SlruTaken(b, k)
<1>2. s \in 1 .. Segments /\ None \notin Item
  BY PolicyAssumption DEF SlruLines
<1>3. /\ b = SlruObject(b.map, b.segment)
      /\ Line(old, Q[s], Item) /\ Len(Q[s]) =< SegmentMax(s)
      /\ Items(old) = {x \in DOMAIN b.map : b.map[x] = s}
      /\ \A x \in DOMAIN b.map : b.map[x] \in 1 .. Segments
  BY <1>2 DEF SlruLines
<1>4. i \in 1 .. Len(Q[s]) /\ Q[s][i] = k
  OBVIOUS
<1>5. /\ Line(new, RemovedAt(Q[s], i), Item) /\ Items(new) = Items(old) \ {k}
      /\ Len(RemovedAt(Q[s], i)) = Len(Q[s]) - 1
  BY <1>2, <1>3, <1>4, RemoveKeepsLine
<1>6. Len(RemovedAt(Q[s], i)) =< SegmentMax(s)
  <2>1. Len(Q[s]) \in Nat
    BY <1>2, SlruFacts
  <2>2. SegmentMax(s) \in Nat
    BY <1>2, SegmentsHaveRoom
  <2> HIDE DEF s
  <2> QED BY <1>3, <1>5, <2>1, <2>2
<1>7. /\ DOMAIN map = DOMAIN b.map \ {k}
      /\ \A x \in DOMAIN map : map[x] = b.map[x]
  BY DEF Drop
<1>8. o = WithSegment(WithMap(b, map), s, new)
  BY DEF WithSegment, WithMap, SlruTaken
<1> HIDE DEF map, new, o, s, old
<1>9. o = SlruObject(map, [b.segment EXCEPT ![s] = new])
  <2> DEFINE m == b.map  g == b.segment
  <2>1. b = SlruObject(m, g)
    BY <1>3
  <2> HIDE DEF m, g
  <2>2. WithSegment(WithMap(b, map), s, new) = SlruObject(map, With(g, s, new))
    BY <2>1, Assigned
  <2> QED BY <1>8, <2>2 DEF g, With
<1>10. /\ Items(new) = {x \in DOMAIN map : map[x] = s}
       /\ \A x \in DOMAIN map : map[x] \in 1 .. Segments
       /\ \A j \in (1 .. Segments) \ {s} :
            {x \in DOMAIN map : map[x] = j} = {x \in DOMAIN b.map : b.map[x] = j}
  BY <1>2, <1>3, <1>5, <1>7 DEF s
<1>11. SlruLines(o, [Q EXCEPT ![s] = RemovedAt(Q[s], i)])
  BY <1>2, <1>5, <1>6, <1>9, <1>10, SlruReplaced
<1>12. o.map = map
  BY <1>9, SlruFields
<1> QED BY <1>7, <1>11, <1>12 DEF o, s

(* An SLRU object after remove is one again, without the item.             *)
LEMMA SlruRemoveOutcome ==
  ASSUME NEW b, IsSlru(b), NEW k \in DOMAIN b.map
  PROVE  LET o == [b EXCEPT !.map = Drop(@, k), !.segment[b.map[k]] = Remove(@, k)] IN
         IsSlru(o) /\ DOMAIN o.map = DOMAIN b.map \ {k}
<1> DEFINE o == SlruTaken(b, k)
<1>1. PICK Q : SlruLines(b, Q)
  BY DEF IsSlru
<1>2. PICK i \in 1 .. Len(Q[b.map[k]]) : Q[b.map[k]][i] = k
  BY <1>1, SlruPlace
<1>3. (\E P : SlruLines(o, P)) /\ DOMAIN o.map = DOMAIN b.map \ {k}
  BY <1>1, <1>2, SlruRemoveLines
<1> QED BY <1>3 DEF IsSlru, SlruTaken

(* Its segments together have MaxLen places.                               *)
LEMMA SlruFits ==
  ASSUME NEW b, IsSlru(b)
  PROVE  IsFiniteSet(DOMAIN b.map) /\ Cardinality(DOMAIN b.map) =< MaxLen
<1>1. PICK Q : SlruLines(b, Q)
  BY DEF IsSlru
<1> DEFINE S == Segments
           d == MaxLen \div Segments
           r == MaxLen % Segments
           H == DOMAIN b.map
           place(k) == CHOOSE j \in 1 .. Len(Q[b.map[k]]) : Q[b.map[k]][j] = k
           f == [k \in H |-> (place(k) - 1) * S + b.map[k]]
<1>2. /\ S \in Nat \ {0} /\ MaxLen \in Nat \ {0} /\ MaxLen = S * d + r
      /\ d \in Nat \ {0} /\ r \in 0 .. S - 1
      /\ \A i \in 1 .. S : SegmentMax(i) = d + IF i =< r THEN 1 ELSE 0
  BY SegmentsHaveRoom DEF SegmentMax
<1>3. ASSUME NEW k \in H
      PROVE  /\ b.map[k] \in 1 .. S /\ place(k) \in Nat \ {0}
             /\ place(k) =< SegmentMax(b.map[k]) /\ Q[b.map[k]][place(k)] = k
  <2>1. b.map[k] \in 1 .. S /\ k \in Items(b.segment[b.map[k]])
    BY <1>1 DEF SlruLines
  <2>2. /\ Len(Q[b.map[k]]) \in Nat /\ Len(Q[b.map[k]]) =< SegmentMax(b.map[k])
        /\ \E j \in 1 .. Len(Q[b.map[k]]) : Q[b.map[k]][j] = k
    BY <1>1, SlruPlace
  <2>3. place(k) \in 1 .. Len(Q[b.map[k]]) /\ Q[b.map[k]][place(k)] = k
    BY <2>2
  <2>4. SegmentMax(b.map[k]) \in Nat
    BY <2>1, SegmentsHaveRoom
  <2> HIDE DEF place
  <2> QED BY <2>1, <2>2, <2>3, <2>4
<1> HIDE DEF S, d, r, place
<1>4. ASSUME NEW i \in 1 .. S, NEW j \in Nat \ {0}, j =< SegmentMax(i)
      PROVE  (j - 1) * S + i \in 1 .. MaxLen
  <2>1. CASE j =< d
    <3>1. j - 1 =< d - 1 /\ j - 1 >= 0
      BY <1>2, <2>1
    <3>2. (j - 1) * S =< (d - 1) * S /\ (j - 1) * S \in Nat /\ (d - 1) * S = S * d - S
      BY <1>2, <3>1
    <3>3. S * d \in Nat
      BY <1>2
    <3> QED BY <1>2, <3>2, <3>3
  <2>2. CASE j > d
    <3>1. i =< r /\ j = d + 1
      BY <1>2, <1>4, <2>2
    <3>2. (j - 1) * S = S * d /\ S * d \in Nat
      BY <1>2, <3>1
    <3> QED BY <1>2, <3>1, <3>2
  <2> QED BY <1>2, <2>1, <2>2
<1>5. ASSUME NEW i \in 1 .. S, NEW j \in Nat \ {0}, NEW u \in 1 .. S, NEW v \in Nat \ {0},
             (j - 1) * S + i = (v - 1) * S + u, j < v
      PROVE  FALSE
  <2>1. j =< v - 1
    BY <1>5
  <2>2. j * S =< (v - 1) * S /\ (j - 1) * S = j * S - S /\ j * S \in Nat /\ (v - 1) * S \in Nat
    BY <1>2, <2>1
  <2> QED BY <1>2, <1>5, <2>2
<1>6. f \in Injection(H, 1 .. MaxLen)
  <2>1. f \in [H -> 1 .. MaxLen]
    BY <1>3, <1>4
  <2>2. ASSUME NEW k \in H, NEW l \in H, f[k] = f[l] PROVE k = l
    <3>1. (place(k) - 1) * S + b.map[k] = (place(l) - 1) * S + b.map[l]
      BY <2>2
    <3>2. ~(place(k) < place(l)) /\ ~(place(l) < place(k))
      BY <1>3, <1>5, <3>1
    <3>3. place(k) = place(l)
      BY <1>3, <3>2
    <3>4. (place(k) - 1) * S \in Int
      BY <1>2, <1>3
    <3>5. b.map[k] = b.map[l]
      BY <1>2, <1>3, <3>1, <3>3, <3>4
    <3> QED BY <1>3, <3>3, <3>5
  <2> QED BY <2>1, <2>2, Fun_IsInj
<1>7. IsFiniteSet(1 .. MaxLen) /\ Cardinality(1 .. MaxLen) = MaxLen
  BY <1>2, FS_Interval
<1> QED BY <1>6, <1>7, FS_Injection

(* A new SLRU object holds nothing.                                        *)
LEMMA SlruEmpty ==
  /\ IsSlru(New("SLRU")) /\ DOMAIN New("SLRU").map = {}
<1> DEFINE g == [i \in 1 .. Segments |-> EmptySet]
           b == New("SLRU")
           Q == [i \in 1 .. Segments |-> <<>>]
<1>1. b = SlruObject(<<>>, g)
  BY DEF New, SlruObject
<1>2. b.map = <<>> /\ b.segment = g
  BY <1>1, SlruFields
<1> HIDE DEF b
<1>3. DOMAIN <<>> = {} /\ Len(<<>>) = 0 /\ <<>> \in Seq(Item)
  OBVIOUS
<1>4. Line(EmptySet, <<>>, Item) /\ Items(EmptySet) = {}
  <2>1. PICK q : Line(EmptySet, q, Item) /\ Items(EmptySet) = {}
    BY EmptyFits DEF FitsInLine
  <2>2. Len(q) = 0 /\ q \in Seq(Item)
    BY <2>1, LineItems, FS_EmptySet DEF Line
  <2> QED BY <2>1, <2>2
<1>5. \A i \in 1 .. Segments : 0 =< SegmentMax(i)
  BY SegmentsHaveRoom
<1>6. SlruLines(b, Q)
  BY <1>1, <1>2, <1>3, <1>4, <1>5 DEF SlruLines
<1> QED BY <1>2, <1>3, <1>6 DEF IsSlru, b

(* An object of LfuCache: every item has a frequency and a time of         *)
(* insertion, and no two the same time.                                    *)
LfuObject(c, t) == [policy |-> "LFU", count |-> c, t |-> t]

IsLfu(b) ==
  /\ b = LfuObject(b.count, b.t) /\ b.t \in Nat
  /\ DOMAIN b.count \subseteq Item
  /\ IsFiniteSet(DOMAIN b.count) /\ Cardinality(DOMAIN b.count) =< MaxLen
  /\ \A k \in DOMAIN b.count : b.count[k] \in (Nat \ {0}) \X (1 .. b.t)
  /\ \A k, l \in DOMAIN b.count : b.count[k][2] = b.count[l][2] => k = l

WithCount(b, c) == [b EXCEPT !.count = c]
Counted(b, c) == [b EXCEPT !.count = c, !.t = @ + 1]

(* The attributes of an LFU object, and assignments to them.               *)
LEMMA LfuAssigned ==
  ASSUME NEW c, NEW t
  PROVE  LET b == LfuObject(c, t) IN
         /\ b.count = c /\ b.t = t /\ b.policy = "LFU"
         /\ \A x : WithCount(b, x) = LfuObject(x, t) /\ Counted(b, x) = LfuObject(x, t + 1)
<1> DEFINE b == LfuObject(c, t)
<1>1. b.count = c /\ b.t = t /\ b.policy = "LFU"
  BY DEF LfuObject
<1>2. ASSUME NEW x PROVE WithCount(b, x) = LfuObject(x, t) /\ Counted(b, x) = LfuObject(x, t + 1)
  <2>1. [b EXCEPT !.count = x] = LfuObject(x, t)
    BY DEF LfuObject
  <2> DEFINE u == t + 1
  <2>2. [b EXCEPT !.count = x, !.t = @ + 1] = [[b EXCEPT !.count = x] EXCEPT !.t = u]
    BY <1>1
  <2> HIDE DEF u
  <2>3. [LfuObject(x, t) EXCEPT !.t = u] = LfuObject(x, u)
    BY DEF LfuObject
  <2> HIDE DEF b
  <2> QED BY <2>1, <2>2, <2>3 DEF WithCount, Counted, u
<1> QED BY <1>1, <1>2

(* One pair of a frequency and a time is less than the others.             *)
LEMMA LeastPair ==
  ASSUME NEW c, DOMAIN c # {}, \A k \in DOMAIN c : c[k] \in Nat \X Nat,
         \A k, l \in DOMAIN c : c[k][2] = c[l][2] => k = l
  PROVE  \E x \in DOMAIN c : \A y \in DOMAIN c \ {x} : Less(c[x], c[y])
<1> DEFINE F == {c[k][1] : k \in DOMAIN c}
<1>1. F \in SUBSET Nat /\ F # {}
  OBVIOUS
<1>2. PICK f \in F : \A g \in F : f =< g
  BY <1>1, LeastNumber
<1> DEFINE D == {k \in DOMAIN c : c[k][1] = f}
           T == {c[k][2] : k \in D}
<1>3. T \in SUBSET Nat /\ T # {}
  BY <1>2
<1>4. PICK t \in T : \A u \in T : t =< u
  BY <1>3, LeastNumber
<1>5. PICK x \in D : c[x][2] = t
  BY <1>4
<1>6. ASSUME NEW y \in DOMAIN c \ {x} PROVE Less(c[x], c[y])
  <2>1. /\ c[x][1] = f /\ f =< c[y][1] /\ c[x][2] # c[y][2]
        /\ c[x][1] \in Nat /\ c[x][2] \in Nat /\ c[y][1] \in Nat /\ c[y][2] \in Nat
    BY <1>2, <1>5
  <2>2. c[y][1] = f => c[x][2] =< c[y][2]
    BY <1>4, <1>5
  <2> QED BY <2>1, <2>2 DEF Less
<1> QED BY <1>5, <1>6

(* LFU inserts an item and drops the least of the counts, its own too.     *)
LEMMA LfuPutOutcome ==
  ASSUME NEW b, IsLfu(b), NEW k \in Item
  PROVE  LET o == LfuPut(b, k) IN
         /\ IsLfu(o[1]) /\ o[2] \in DOMAIN b.count \cup {k, None}
         /\ DOMAIN o[1].count = (DOMAIN b.count \cup {k}) \ {o[2]}
         /\ k \in DOMAIN b.count => o[2] = None
<1> DEFINE H == DOMAIN b.count
           c == Put1(b.count, k, <<1, b.t + 1>>)
           x == CHOOSE x \in DOMAIN c : \A y \in DOMAIN c \ {x} : Less(c[x], c[y])
           o == LfuPut(b, k)
<1>1. /\ b = LfuObject(b.count, b.t) /\ b.t \in Nat /\ H \subseteq Item /\ IsFiniteSet(H)
      /\ Cardinality(H) =< MaxLen /\ Cardinality(H) \in Nat /\ MaxLen \in Nat /\ None \notin Item
      /\ \A l \in H : b.count[l] \in (Nat \ {0}) \X (1 .. b.t)
      /\ \A l, m \in H : b.count[l][2] = b.count[m][2] => l = m
  BY FS_CardinalityType, PolicyAssumption DEF IsLfu
<1>2. DOMAIN c = H \cup {k} /\ \A l \in H \cup {k} : c[l] = IF l = k THEN <<1, b.t + 1>> ELSE b.count[l]
  BY DEF Put1
<1> HIDE DEF c
<1>3. /\ \A l \in DOMAIN c : c[l] \in (Nat \ {0}) \X (1 .. b.t + 1)
      /\ \A l, m \in DOMAIN c : c[l][2] = c[m][2] => l = m
  BY <1>1, <1>2
<1>4. IsFiniteSet(DOMAIN c) /\ Cardinality(DOMAIN c) = IF k \in H THEN Cardinality(H) ELSE Cardinality(H) + 1
  <2> DEFINE G == H \cup {k}
  <2>1. IsFiniteSet(H)
    BY <1>1
  <2> HIDE DEF H
  <2>2. IsFiniteSet(G) /\ Cardinality(G) = IF k \in H THEN Cardinality(H) ELSE Cardinality(H) + 1
    BY <2>1, FS_AddElement
  <2>3. DOMAIN c = G
    BY <1>2 DEF G
  <2> QED BY <2>2, <2>3
<1>5. CASE Cardinality(DOMAIN c) > MaxLen
  <2>1. DOMAIN c # {} /\ k \notin H
    BY <1>1, <1>2, <1>4, <1>5
  <2>2. x \in DOMAIN c
    <3>1. \A l \in DOMAIN c : c[l] \in Nat \X Nat
      BY <1>1, <1>3
    <3>2. \E z \in DOMAIN c : \A y \in DOMAIN c \ {z} : Less(c[z], c[y])
      BY <1>3, <2>1, <3>1, LeastPair
    <3> QED BY <3>2
  <2>3. o = << Counted(b, Drop(c, x)), x >>
    BY <1>5 DEF LfuPut, Counted, c
  <2> DEFINE e == Drop(c, x)
  <2>4. DOMAIN e = DOMAIN c \ {x} /\ \A l \in DOMAIN c \ {x} : e[l] = c[l]
    BY DEF Drop
  <2> HIDE DEF e, x, o
  <2>5. IsFiniteSet(DOMAIN e) /\ Cardinality(DOMAIN e) =< MaxLen
    <3> DEFINE D == DOMAIN c
    <3>1. IsFiniteSet(D) /\ x \in D /\ Cardinality(D) = Cardinality(H) + 1 /\ DOMAIN e = D \ {x}
      BY <1>4, <2>1, <2>2, <2>4
    <3> HIDE DEF D
    <3>2. IsFiniteSet(D \ {x}) /\ Cardinality(D \ {x}) = Cardinality(D) - 1
      BY <3>1, FS_RemoveElement
    <3> QED BY <1>1, <3>1, <3>2
  <2>6. o[1] = LfuObject(e, b.t + 1) /\ o[2] = x
    <3> DEFINE n == b.count  t == b.t
    <3>1. b = LfuObject(n, t)
      BY <1>1
    <3> HIDE DEF n, t
    <3>2. Counted(b, e) = LfuObject(e, t + 1)
      BY <3>1, LfuAssigned
    <3> QED BY <2>3, <3>2 DEF e, t
  <2>7. o[1].count = e /\ o[1].t = b.t + 1
    BY <2>6, LfuAssigned
  <2>8. o[1] = LfuObject(o[1].count, o[1].t) /\ o[1].t \in Nat
    BY <1>1, <2>6, <2>7
  <2>9. /\ DOMAIN e \subseteq Item
        /\ \A l \in DOMAIN e : e[l] \in (Nat \ {0}) \X (1 .. b.t + 1)
        /\ \A l, m \in DOMAIN e : e[l][2] = e[m][2] => l = m
    BY <1>1, <1>2, <1>3, <2>4
  <2>10. IsLfu(o[1])
    BY <2>5, <2>7, <2>8, <2>9 DEF IsLfu
  <2> QED BY <1>1, <1>2, <2>1, <2>2, <2>4, <2>6, <2>7, <2>10 DEF o
<1>6. CASE ~(Cardinality(DOMAIN c) > MaxLen)
  <2>1. o = << Counted(b, c), None >>
    BY <1>6 DEF LfuPut, Counted, c
  <2> HIDE DEF o
  <2>2. o[1] = LfuObject(c, b.t + 1) /\ o[2] = None
    <3> DEFINE n == b.count  t == b.t
    <3>1. b = LfuObject(n, t)
      BY <1>1
    <3> HIDE DEF n, t
    <3>2. Counted(b, c) = LfuObject(c, t + 1)
      BY <3>1, LfuAssigned
    <3> QED BY <2>1, <3>2 DEF t
  <2>3. o[1].count = c /\ o[1].t = b.t + 1
    BY <2>2, LfuAssigned
  <2>4. o[1] = LfuObject(o[1].count, o[1].t) /\ o[1].t \in Nat
    BY <1>1, <2>2, <2>3
  <2>5. Cardinality(DOMAIN c) =< MaxLen
    BY <1>1, <1>4, <1>6
  <2>6. IsLfu(o[1])
    BY <1>1, <1>2, <1>3, <1>4, <2>3, <2>4, <2>5 DEF IsLfu
  <2> QED BY <1>1, <1>2, <2>2, <2>3, <2>6 DEF o
<1> QED BY <1>5, <1>6

(* A hit of LFU counts one more use, and remove drops the count.           *)
LEMMA LfuOthers ==
  ASSUME NEW b, IsLfu(b), NEW k \in DOMAIN b.count
  PROVE  /\ LET g == [b EXCEPT !.count[k][1] = @ + 1] IN
            IsLfu(g) /\ DOMAIN g.count = DOMAIN b.count
         /\ LET r == [b EXCEPT !.count = Drop(@, k)] IN
            IsLfu(r) /\ DOMAIN r.count = DOMAIN b.count \ {k}
<1> DEFINE H == DOMAIN b.count
           c == [b.count EXCEPT ![k][1] = @ + 1]
           d == Drop(b.count, k)
           g == [b EXCEPT !.count[k][1] = @ + 1]
           r == [b EXCEPT !.count = Drop(@, k)]
           n == b.count
           t == b.t
<1>1. /\ b = LfuObject(b.count, b.t) /\ b.t \in Nat /\ H \subseteq Item /\ IsFiniteSet(H)
      /\ Cardinality(H) =< MaxLen /\ Cardinality(H) \in Nat /\ MaxLen \in Nat /\ None \notin Item
      /\ \A l \in H : b.count[l] \in (Nat \ {0}) \X (1 .. b.t)
      /\ \A l, m \in H : b.count[l][2] = b.count[m][2] => l = m
  BY FS_CardinalityType, PolicyAssumption DEF IsLfu
<1>2. DOMAIN c = H /\ \A l \in H : c[l] = IF l = k THEN << b.count[k][1] + 1, b.count[k][2] >> ELSE b.count[l]
  <2>1. [b.count[k] EXCEPT ![1] = @ + 1] = << b.count[k][1] + 1, b.count[k][2] >>
    BY <1>1
  <2> QED BY <2>1
<1>3. DOMAIN d = H \ {k} /\ \A l \in H \ {k} : d[l] = b.count[l]
  BY DEF Drop
<1>4. g = WithCount(b, c) /\ r = WithCount(b, d)
  BY DEF WithCount
<1>5. b = LfuObject(n, t)
  BY <1>1
<1> HIDE DEF c, d, g, r, n, t
<1>6. g = LfuObject(c, t) /\ r = LfuObject(d, t)
  BY <1>4, <1>5, LfuAssigned
<1>7. g.count = c /\ g.t = t /\ r.count = d /\ r.t = t
  BY <1>6, LfuAssigned
<1>8. g = LfuObject(g.count, g.t) /\ r = LfuObject(r.count, r.t) /\ t = b.t
  BY <1>6, <1>7 DEF t
<1>9. IsLfu(g)
  BY <1>1, <1>2, <1>7, <1>8 DEF IsLfu
<1>10. IsFiniteSet(H \ {k}) /\ Cardinality(H \ {k}) =< MaxLen
  <2>1. IsFiniteSet(H) /\ k \in H
    BY <1>1
  <2> HIDE DEF H
  <2>2. IsFiniteSet(H \ {k}) /\ Cardinality(H \ {k}) = Cardinality(H) - 1
    BY <2>1, FS_RemoveElement
  <2> QED BY <1>1, <2>2
<1>11. IsLfu(r)
  BY <1>1, <1>3, <1>7, <1>8, <1>10 DEF IsLfu
<1> QED BY <1>2, <1>3, <1>7, <1>9, <1>11 DEF g, r

(* An LFU object without counts holds nothing, at any time.                *)
LEMMA LfuEmpty ==
  ASSUME NEW t \in Nat
  PROVE  IsLfu(LfuObject(<<>>, t)) /\ DOMAIN LfuObject(<<>>, t).count = {}
<1> DEFINE b == LfuObject(<<>>, t)
<1>1. b.count = <<>> /\ b.t = t
  BY LfuAssigned
<1>2. DOMAIN <<>> = {}
  OBVIOUS
<1>3. MaxLen \in Nat
  BY PolicyAssumption
<1> HIDE DEF b
<1>4. b = LfuObject(b.count, b.t)
  BY <1>1 DEF b
<1> QED BY <1>1, <1>2, <1>3, <1>4, FS_EmptySet DEF IsLfu, b

(* An object of FifoCache: the deque has every item of the set once.       *)
FifoObject(s, d) == [policy |-> "FIFO", set |-> s, d |-> d]

IsFifo(b) ==
  /\ b = FifoObject(b.set, b.d)
  /\ b.d \in Seq(Item) /\ Distinct(b.d) /\ Elements(b.d) = b.set /\ Len(b.d) =< MaxLen

WithQueue(b, s, d) == [b EXCEPT !.set = s, !.d = d]

(* The attributes of a FIFO object, and assignments to them.               *)
LEMMA FifoAssigned ==
  ASSUME NEW s, NEW d
  PROVE  LET b == FifoObject(s, d) IN
         /\ b.set = s /\ b.d = d /\ b.policy = "FIFO"
         /\ \A x, y : WithQueue(b, x, y) = FifoObject(x, y)
<1> DEFINE b == FifoObject(s, d)
<1>1. b.set = s /\ b.d = d /\ b.policy = "FIFO"
  BY DEF FifoObject
<1>2. ASSUME NEW x, NEW y PROVE WithQueue(b, x, y) = FifoObject(x, y)
  <2>1. [b EXCEPT !.set = x] = FifoObject(x, d)
    BY DEF FifoObject
  <2>2. [b EXCEPT !.set = x, !.d = y] = [[b EXCEPT !.set = x] EXCEPT !.d = y]
    OBVIOUS
  <2>3. [FifoObject(x, d) EXCEPT !.d = y] = FifoObject(x, y)
    BY DEF FifoObject
  <2> HIDE DEF b
  <2> QED BY <2>1, <2>2, <2>3 DEF WithQueue
<1> QED BY <1>1, <1>2

(* The deque after appendleft, after pop, and after remove.                *)
LEMMA Appended ==
  ASSUME NEW q \in Seq(Item), Distinct(q), NEW k \in Item \ Elements(q)
  PROVE  LET d == <<k>> \o q IN
         /\ d \in Seq(Item) /\ Distinct(d) /\ Elements(d) = Elements(q) \cup {k}
         /\ Len(d) = Len(q) + 1 /\ Len(q) \in Nat
<1> DEFINE d == <<k>> \o q
<1>1. Len(q) \in Nat /\ DOMAIN q = 1 .. Len(q) /\ <<k>> \in Seq(Item) /\ Len(<<k>>) = 1
  BY LenProperties
<1>2. d \in Seq(Item) /\ Len(d) = Len(q) + 1 /\ DOMAIN d = 1 .. Len(q) + 1
  BY <1>1, ConcatProperties, LenProperties
<1>3. d[1] = k /\ \A i \in 1 .. Len(q) : d[i + 1] = q[i]
  BY <1>1, ConcatProperties
<1> HIDE DEF d
<1>4. \A j \in 1 .. Len(q) + 1 : j = 1 \/ (j - 1 \in 1 .. Len(q) /\ d[j] = q[j - 1])
  <2> SUFFICES ASSUME NEW j \in 1 .. Len(q) + 1, j # 1
               PROVE  j - 1 \in 1 .. Len(q) /\ d[j] = q[j - 1]
    OBVIOUS
  <2>1. j - 1 \in 1 .. Len(q) /\ (j - 1) + 1 = j
    BY <1>1
  <2> QED BY <1>3, <2>1
<1>5. Distinct(d)
  <2> SUFFICES ASSUME NEW i \in 1 .. Len(q) + 1, NEW j \in 1 .. Len(q) + 1, d[i] = d[j]
               PROVE  i = j
    BY <1>2 DEF Distinct
  <2>1. \A m \in 1 .. Len(q) : q[m] # k
    BY <1>1 DEF Elements
  <2>2. CASE i = 1
    BY <1>3, <1>4, <2>1, <2>2
  <2>3. CASE j = 1
    BY <1>3, <1>4, <2>1, <2>3
  <2>4. CASE i # 1 /\ j # 1
    <3>1. /\ i - 1 \in 1 .. Len(q) /\ d[i] = q[i - 1]
          /\ j - 1 \in 1 .. Len(q) /\ d[j] = q[j - 1]
      BY <1>4, <2>4
    <3>2. i - 1 = j - 1
      BY <1>1, <3>1 DEF Distinct
    <3> QED BY <1>1, <3>2
  <2> QED BY <2>2, <2>3, <2>4
<1>6. Elements(d) = Elements(q) \cup {k}
  <2>1. ASSUME NEW x \in Elements(d) PROVE x \in Elements(q) \cup {k}
    <3>1. PICK j \in 1 .. Len(q) + 1 : x = d[j]
      BY <1>2 DEF Elements
    <3>2. x = k \/ (j - 1 \in DOMAIN q /\ x = q[j - 1])
      BY <1>1, <1>3, <1>4, <3>1
    <3> QED BY <3>2 DEF Elements
  <2>2. k \in Elements(d)
    BY <1>1, <1>2, <1>3 DEF Elements
  <2>3. ASSUME NEW i \in 1 .. Len(q) PROVE q[i] \in Elements(d)
    <3>1. i + 1 \in DOMAIN d /\ d[i + 1] = q[i]
      BY <1>1, <1>2, <1>3
    <3> QED BY <3>1 DEF Elements
  <2> QED BY <1>1, <2>1, <2>2, <2>3 DEF Elements
<1> QED BY <1>1, <1>2, <1>5, <1>6 DEF d

(* A sequence without repetition, one place taken out of it.               *)
LEMMA WithoutPlace ==
  ASSUME NEW q \in Seq(Item), Distinct(q), NEW i \in 1 .. Len(q)
  PROVE  LET d == RemovedAt(q, i) IN
         /\ d \in Seq(Item) /\ Distinct(d) /\ Elements(d) = Elements(q) \ {q[i]}
         /\ Len(d) = Len(q) - 1 /\ Len(q) \in Nat
<1> DEFINE d == RemovedAt(q, i)
           n == Len(q)
<1>1. n \in Nat /\ DOMAIN q = 1 .. n /\ \A j \in 1 .. n : q[j] \in Item
  BY LenProperties, ElementOfSeq
<1>2. /\ DOMAIN d = 1 .. n - 1
      /\ \A j \in 1 .. n - 1 : d[j] = IF j < i THEN q[j] ELSE q[j + 1]
  BY DEF RemovedAt
<1>3. d = [j \in 1 .. n - 1 |-> d[j]]
  BY DEF RemovedAt
<1> HIDE DEF d, n
<1>4. \A j \in 1 .. n - 1 : d[j] \in Item
  BY <1>1, <1>2
<1>5. d \in Seq(Item) /\ Len(d) = n - 1
  <2>1. n - 1 \in Nat /\ d \in [1 .. n - 1 -> Item]
    BY <1>1, <1>3, <1>4 DEF n
  <2> QED BY <2>1, SeqDef, LenProperties
<1>6. Distinct(d)
  <2> DEFINE from == [j \in 1 .. n - 1 |-> IF j < i THEN j ELSE j + 1]
  <2>1. \A j \in 1 .. n - 1 : from[j] \in 1 .. n /\ d[j] = q[from[j]]
    BY <1>1, <1>2
  <2>2. i \in Nat /\ \A j, l \in 1 .. n - 1 : from[j] = from[l] => j = l
    BY <1>1 DEF n
  <2>3. \A j, l \in 1 .. n : q[j] = q[l] => j = l
    BY <1>1 DEF Distinct
  <2> HIDE DEF from
  <2>4. ASSUME NEW j \in 1 .. n - 1, NEW l \in 1 .. n - 1, d[j] = d[l] PROVE j = l
    BY <2>1, <2>2, <2>3, <2>4
  <2> QED BY <1>2, <2>4 DEF Distinct
<1>7. Elements(d) = Elements(q) \ {q[i]}
  <2>1. ASSUME NEW x \in Elements(d) PROVE x \in Elements(q) \ {q[i]}
    BY <1>1, <1>2 DEF Elements, Distinct, n
  <2>2. ASSUME NEW j \in 1 .. n, q[j] # q[i] PROVE q[j] \in Elements(d)
    <3>1. CASE j < i
      <4>1. j \in 1 .. n - 1 /\ d[j] = q[j]
        BY <1>1, <1>2, <3>1 DEF n
      <4> QED BY <1>2, <4>1 DEF Elements
    <3>2. CASE j > i
      <4>1. j - 1 \in 1 .. n - 1 /\ d[j - 1] = q[j]
        BY <1>1, <1>2, <3>2 DEF n
      <4> QED BY <1>2, <4>1 DEF Elements
    <3> QED BY <1>1, <2>2, <3>1, <3>2 DEF n
  <2> QED BY <1>1, <2>1, <2>2 DEF Elements
<1> QED BY <1>1, <1>5, <1>6, <1>7 DEF d, n

(* pop takes the last place out.                                           *)
LEMMA PoppedIs ==
  ASSUME NEW q \in Seq(Item), Len(q) > 0
  PROVE  SubSeq(q, 1, Len(q) - 1) = RemovedAt(q, Len(q))
<1>1. Len(q) \in Nat /\ DOMAIN q = 1 .. Len(q)
  BY LenProperties
<1>2. SubSeq(q, 1, Len(q) - 1) = [j \in 1 .. Len(q) - 1 |-> q[j]]
  <2>1. SubSeq(q, 1, Len(q) - 1) = [j \in 1 .. (1 + (Len(q) - 1) - 1) |-> q[j + 1 - 1]]
    BY SMT, <1>1
  <2> QED BY <1>1, <2>1
<1>3. \A j \in 1 .. Len(q) - 1 : j < Len(q)
  BY <1>1
<1> QED BY <1>1, <1>2, <1>3 DEF RemovedAt

(* FIFO pushes a new item, and pops the oldest one when it was full.       *)
LEMMA FifoPutOutcome ==
  ASSUME NEW b, IsFifo(b), NEW k \in Item, NEW has \in BOOLEAN, has <=> k \in b.set
  PROVE  LET o == FifoPut(b, k, has) IN
         /\ IsFifo(o[1]) /\ o[2] \in b.set \cup {None}
         /\ o[1].set = (b.set \cup {k}) \ {o[2]}
         /\ k \in b.set => o[2] = None
<1> DEFINE o == FifoPut(b, k, has)
           n == Len(b.d)
<1>1. /\ b = FifoObject(b.set, b.d) /\ b.d \in Seq(Item) /\ Distinct(b.d) /\ Elements(b.d) = b.set
      /\ n =< MaxLen /\ MaxLen \in Nat \ {0} /\ None \notin Item
  BY PolicyAssumption DEF IsFifo
<1>2. /\ IsFiniteSet(b.set) /\ Cardinality(b.set) = n /\ n \in Nat /\ b.set \subseteq Item
      /\ DOMAIN b.d = 1 .. n
  <2> DEFINE q == b.d
  <2>1. q \in Seq(Item) /\ Distinct(q) /\ Elements(q) = b.set
    BY <1>1
  <2> HIDE DEF q
  <2>2. IsFiniteSet(b.set) /\ Cardinality(b.set) = Len(q)
    BY <2>1, DistinctCardinality
  <2>3. Len(q) \in Nat /\ DOMAIN q = 1 .. Len(q) /\ \A i \in 1 .. Len(q) : q[i] \in Item
    BY <2>1, LenProperties, ElementOfSeq
  <2>4. b.set \subseteq Item
    BY <2>1, <2>3 DEF Elements
  <2> QED BY <2>2, <2>3, <2>4 DEF q
<1>3. \A x, y : /\ WithQueue(b, x, y) = FifoObject(x, y)
                /\ FifoObject(x, y).set = x /\ FifoObject(x, y).d = y
  <2> DEFINE s == b.set  d == b.d
  <2>1. b = FifoObject(s, d)
    BY <1>1
  <2> HIDE DEF s, d
  <2> QED BY <2>1, FifoAssigned
<1>4. CASE k \in b.set
  <2>1. b.set \cup {k} = b.set
    BY <1>4
  <2>2. o = << WithQueue(b, b.set, b.d), None >>
    BY <1>1, <1>2, <1>4, <2>1 DEF FifoPut, WithQueue
  <2>3. o[1] = b /\ o[2] = None
    BY <1>1, <1>3, <2>2
  <2> QED BY <1>1, <1>2, <2>1, <2>3
<1>5. CASE k \notin b.set
  <2> DEFINE d == <<k>> \o b.d
             s == b.set \cup {k}
             p == SubSeq(d, 1, Len(d) - 1)
             gone == d[Len(d)]
  <2>1. /\ d \in Seq(Item) /\ Distinct(d) /\ Elements(d) = s /\ Len(d) = n + 1
    BY <1>1, <1>5, Appended
  <2>2. IsFiniteSet(s) /\ Cardinality(s) = n + 1
    BY <2>1, DistinctCardinality
  <2>3. CASE n < MaxLen
    <3>1. o = << WithQueue(b, s, d), None >>
      <4>1. ~has /\ Cardinality(s) =< MaxLen
        BY <1>1, <1>2, <1>5, <2>2, <2>3
      <4> QED BY <4>1 DEF FifoPut, WithQueue
    <3> HIDE DEF o, d, s
    <3>2. o[1] = FifoObject(s, d) /\ o[2] = None
      BY <1>3, <3>1
    <3>3. o[1].set = s /\ o[1].d = d
      BY <1>3, <3>2
    <3>4. IsFifo(o[1])
      BY <1>1, <1>2, <2>1, <2>3, <3>2, <3>3 DEF IsFifo
    <3> QED BY <1>1, <1>2, <1>5, <3>2, <3>3, <3>4 DEF o, s
  <2>4. CASE n = MaxLen
    <3>1. gone = b.d[n] /\ gone \in b.set
      <4>1. n \in 1 .. n /\ Len(<<k>>) = 1
        BY <1>1, <1>2, <2>4
      <4>2. d[n + 1] = b.d[n]
        BY <1>1, <1>2, <4>1, ConcatProperties
      <4> QED BY <1>1, <1>2, <2>1, <4>1, <4>2 DEF Elements
    <3>2. p = RemovedAt(d, Len(d)) /\ n + 1 \in 1 .. Len(d)
      <4> HIDE DEF d, n
      <4>1. d \in Seq(Item) /\ Len(d) > 0 /\ n + 1 \in 1 .. Len(d)
        BY <1>2, <2>1
      <4> QED BY <4>1, PoppedIs
    <3>3. o = << WithQueue(b, s \ {gone}, p), gone >>
      <4>1. ~(Cardinality(s) =< MaxLen) /\ gone \in s
        BY <1>1, <1>2, <2>2, <2>4, <3>1
      <4>2. ~has
        BY <1>5
      <4> QED BY <4>1, <4>2 DEF FifoPut, WithQueue
    <3> HIDE DEF o, d, s, p, gone
    <3>4. p \in Seq(Item) /\ Distinct(p) /\ Elements(p) = s \ {gone} /\ Len(p) = n
      <4> HIDE DEF n
      <4>1. d \in Seq(Item) /\ Distinct(d) /\ Len(d) = n + 1 /\ Len(d) \in 1 .. Len(d) /\ n \in Nat
        BY <1>2, <2>1, <3>2
      <4>2. LET e == RemovedAt(d, Len(d)) IN
            e \in Seq(Item) /\ Distinct(e) /\ Elements(e) = Elements(d) \ {d[Len(d)]} /\ Len(e) = Len(d) - 1
        BY <4>1, WithoutPlace
      <4> QED BY <2>1, <3>2, <4>1, <4>2 DEF gone
    <3>5. o[1] = FifoObject(s \ {gone}, p) /\ o[2] = gone
      BY <1>3, <3>3
    <3>6. o[1].set = s \ {gone} /\ o[1].d = p
      BY <1>3, <3>5
    <3>7. IsFifo(o[1])
      BY <1>1, <3>4, <3>5, <3>6 DEF IsFifo
    <3> QED BY <1>5, <3>1, <3>5, <3>6, <3>7 DEF o, s
  <2> QED BY <1>1, <1>2, <2>3, <2>4
<1> QED BY <1>4, <1>5

(* A FIFO object after remove is one again, without the item.              *)
LEMMA FifoRemoveOutcome ==
  ASSUME NEW b, IsFifo(b), NEW k \in b.set
  PROVE  LET r == [b EXCEPT !.set = @ \ {k}, !.d = RemovedAt(@, FirstPlace(@, k))] IN
         IsFifo(r) /\ r.set = b.set \ {k}
<1> DEFINE r == [b EXCEPT !.set = @ \ {k}, !.d = RemovedAt(@, FirstPlace(@, k))]
           q == b.d
           i == FirstPlace(q, k)
           d == RemovedAt(q, i)
           s == b.set
<1>1. /\ b = FifoObject(s, q) /\ q \in Seq(Item) /\ Distinct(q) /\ Elements(q) = s
      /\ Len(q) =< MaxLen /\ MaxLen \in Nat
  BY PolicyAssumption DEF IsFifo
<1>2. DOMAIN q = 1 .. Len(q) /\ Len(q) \in Nat
  BY <1>1, LenProperties
<1>3. i \in 1 .. Len(q) /\ q[i] = k
  <2>1. PICK j \in 1 .. Len(q) : q[j] = k
    BY <1>1, <1>2 DEF Elements
  <2>2. \A m \in 1 .. j - 1 : q[m] # k
    BY <1>1, <1>2, <2>1 DEF Distinct
  <2>3. \E m \in DOMAIN q : q[m] = k /\ \A l \in 1 .. m - 1 : q[l] # k
    BY <1>2, <2>1, <2>2
  <2>4. i \in DOMAIN q /\ q[i] = k
    BY <2>3 DEF FirstPlace
  <2> QED BY <1>2, <2>4
<1>4. r = WithQueue(b, s \ {k}, d)
  BY DEF WithQueue
<1> HIDE DEF r, q, i, d, s
<1>5. r = FifoObject(s \ {k}, d) /\ r.set = s \ {k} /\ r.d = d
  BY <1>1, <1>4, FifoAssigned
<1>6. d \in Seq(Item) /\ Distinct(d) /\ Elements(d) = s \ {k} /\ Len(d) = Len(q) - 1
  BY <1>1, <1>3, WithoutPlace DEF d
<1>7. IsFifo(r)
  <2> DEFINE t == s \ {k}
  <2>1. r = FifoObject(t, d) /\ r.set = t /\ r.d = d
    BY <1>5
  <2>2. Len(d) =< MaxLen
    BY <1>1, <1>2, <1>6
  <2>3. Elements(d) = t
    BY <1>6
  <2> HIDE DEF t
  <2>4. r = FifoObject(r.set, r.d)
    BY <2>1
  <2> QED BY <1>6, <2>1, <2>2, <2>3, <2>4 DEF IsFifo
<1> QED BY <1>5, <1>7 DEF r, s

(* A FIFO object without items.                                            *)
LEMMA FifoEmpty == IsFifo(FifoObject({}, <<>>)) /\ FifoObject({}, <<>>).set = {}
<1> DEFINE b == FifoObject({}, <<>>)
<1>1. b.set = {} /\ b.d = <<>>
  BY FifoAssigned
<1> HIDE DEF b
<1>2. b = FifoObject(b.set, b.d)
  BY <1>1 DEF b
<1>3. <<>> \in Seq(Item) /\ Len(<<>>) = 0 /\ DOMAIN <<>> = {} /\ MaxLen \in Nat
  BY PolicyAssumption
<1>4. IsFifo(b)
  BY <1>1, <1>2, <1>3 DEF IsFifo, Distinct, Elements
<1> QED BY <1>1, <1>4 DEF b

(* An object of RandEvictionCache: the first places of the array have      *)
(* every item of the set once; what the others have does not matter.       *)
RandObject(s, a) == [policy |-> "RAND", set |-> s, a |-> a]

IsRand(b) ==
  /\ b = RandObject(b.set, b.a)
  /\ b.set \subseteq Item /\ IsFiniteSet(b.set) /\ Cardinality(b.set) =< MaxLen
  /\ b.a \in [1 .. MaxLen -> Item \cup {None}]
  /\ b.set = {b.a[i] : i \in 1 .. Cardinality(b.set)}
  /\ \A i, j \in 1 .. Cardinality(b.set) : b.a[i] = b.a[j] => i = j

WithArray(b, s, a) == [b EXCEPT !.set = s, !.a = a]

(* The attributes of a RAND object, and assignments to them.               *)
LEMMA RandAssigned ==
  ASSUME NEW s, NEW a
  PROVE  LET b == RandObject(s, a) IN
         /\ b.set = s /\ b.a = a /\ b.policy = "RAND"
         /\ \A x, y : WithArray(b, x, y) = RandObject(x, y)
<1> DEFINE b == RandObject(s, a)
<1>1. b.set = s /\ b.a = a /\ b.policy = "RAND"
  BY DEF RandObject
<1>2. ASSUME NEW x, NEW y PROVE WithArray(b, x, y) = RandObject(x, y)
  <2>1. [b EXCEPT !.set = x] = RandObject(x, a)
    BY DEF RandObject
  <2>2. [b EXCEPT !.set = x, !.a = y] = [[b EXCEPT !.set = x] EXCEPT !.a = y]
    OBVIOUS
  <2>3. [RandObject(x, a) EXCEPT !.a = y] = RandObject(x, y)
    BY DEF RandObject
  <2> HIDE DEF b
  <2> QED BY <2>1, <2>2, <2>3 DEF WithArray
<1> QED BY <1>1, <1>2

(* An object with these attributes is sound.                               *)
LEMMA RandIs ==
  ASSUME NEW s, NEW a, NEW n \in Nat, s \subseteq Item, IsFiniteSet(s), Cardinality(s) = n, n =< MaxLen,
         a \in [1 .. MaxLen -> Item \cup {None}], s = {a[i] : i \in 1 .. n},
         \A i, j \in 1 .. n : a[i] = a[j] => i = j
  PROVE  IsRand(RandObject(s, a)) /\ RandObject(s, a).set = s
<1> DEFINE b == RandObject(s, a)
<1>1. b.set = s /\ b.a = a
  BY RandAssigned
<1> HIDE DEF b
<1>2. b = RandObject(b.set, b.a)
  BY <1>1 DEF b
<1>3. IsRand(b)
  BY <1>1, <1>2 DEF IsRand
<1> QED BY <1>1, <1>3 DEF b

(* RAND puts a new item at the end, or in any place when it is full.       *)
LEMMA RandPutOutcome ==
  ASSUME NEW b, IsRand(b), NEW k \in Item, k \in b.set => Cardinality(b.set) < MaxLen,
         NEW o \in RandPut(b, k)
  PROVE  /\ IsRand(o[1]) /\ o[2] \in b.set \cup {None}
         /\ o[1].set = (b.set \cup {k}) \ {o[2]}
         /\ k \in b.set => o[2] = None
<1> DEFINE s == b.set
           a == b.a
           n == Cardinality(s)
<1>1. /\ b = RandObject(s, a) /\ s \subseteq Item /\ IsFiniteSet(s) /\ n =< MaxLen
      /\ a \in [1 .. MaxLen -> Item \cup {None}] /\ s = {a[i] : i \in 1 .. n}
      /\ \A i, j \in 1 .. n : a[i] = a[j] => i = j
      /\ n \in Nat /\ MaxLen \in Nat \ {0} /\ None \notin Item
  BY FS_CardinalityType, PolicyAssumption DEF IsRand
<1>2. CASE n = MaxLen
  <2>1. PICK i \in 1 .. MaxLen :
          o = << [b EXCEPT !.a[i] = k, !.set = (@ \ {b.a[i]}) \cup {k}], b.a[i] >>
    BY <1>2 DEF RandPut
  <2> DEFINE c == [a EXCEPT ![i] = k]
             t == (s \ {a[i]}) \cup {k}
  <2>2. k \notin s /\ a[i] \in s /\ a[i] # k
    BY <1>1, <1>2
  <2>3. o[1] = WithArray(b, t, c) /\ o[2] = a[i]
    <3>1. [b EXCEPT !.a[i] = k, !.set = (@ \ {b.a[i]}) \cup {k}] = [b EXCEPT !.set = t, !.a = c]
      BY <1>1 DEF RandObject
    <3> QED BY <2>1, <3>1 DEF WithArray
  <2>4. c \in [1 .. MaxLen -> Item \cup {None}] /\ \A j \in 1 .. MaxLen : c[j] = IF j = i THEN k ELSE a[j]
    BY <1>1
  <2>5. IsFiniteSet(t) /\ Cardinality(t) = n
    <3> DEFINE x == a[i]
    <3>0. x \in s
      BY <2>2
    <3> HIDE DEF x, s, a
    <3>1. IsFiniteSet(s \ {x}) /\ Cardinality(s \ {x}) = n - 1
      BY <1>1, <3>0, FS_RemoveElement
    <3>2. k \notin s \ {x}
      BY <2>2
    <3>3. IsFiniteSet((s \ {x}) \cup {k}) /\ Cardinality((s \ {x}) \cup {k}) = (n - 1) + 1
      BY <3>1, <3>2, FS_AddElement
    <3> QED BY <1>1, <3>3 DEF x
  <2> HIDE DEF s, a, n, c
  <2>6. t = {c[j] : j \in 1 .. n}
    <3>1. \A x \in t : x \in {c[j] : j \in 1 .. n}
      BY <1>1, <1>2, <2>4
    <3>2. \A j \in 1 .. n : c[j] \in t
      BY <1>1, <1>2, <2>4
    <3> QED BY <3>1, <3>2
  <2>7. \A j, l \in 1 .. n : c[j] = c[l] => j = l
    BY <1>1, <1>2, <2>2, <2>4
  <2>8. t \subseteq Item
    BY <1>1
  <2> HIDE DEF t
  <2>9. o[1] = RandObject(t, c)
    BY <1>1, <2>3, RandAssigned
  <2>10. IsRand(RandObject(t, c)) /\ RandObject(t, c).set = t
    BY <1>1, <2>4, <2>5, <2>6, <2>7, <2>8, RandIs
  <2>11. t = (s \cup {k}) \ {a[i]}
    BY <2>2 DEF t
  <2> QED BY <2>2, <2>3, <2>9, <2>10, <2>11 DEF s, a
<1>3. CASE n # MaxLen
  <2> DEFINE c == [a EXCEPT ![n + 1] = k]
             t == s \cup {k}
             m == Cardinality(t)
  <2>1. o = << [b EXCEPT !.a[n + 1] = k, !.set = @ \cup {k}], None >>
    BY <1>3 DEF RandPut
  <2>2. o[1] = WithArray(b, t, c) /\ o[2] = None
    <3> DEFINE p == n + 1
    <3> HIDE DEF p
    <3>1. [b EXCEPT !.a[p] = k, !.set = @ \cup {k}] = [b EXCEPT !.set = t, !.a = [a EXCEPT ![p] = k]]
      BY <1>1 DEF RandObject
    <3> QED BY <2>1, <3>1 DEF WithArray, p
  <2>3. /\ c \in [1 .. MaxLen -> Item \cup {None}] /\ n + 1 \in 1 .. MaxLen
        /\ \A j \in 1 .. MaxLen : c[j] = IF j = n + 1 THEN k ELSE a[j]
    BY <1>1, <1>3
  <2>4. IsFiniteSet(t) /\ m = IF k \in s THEN n ELSE n + 1
    BY <1>1, FS_AddElement
  <2> HIDE DEF s, a, n, c, m
  <2>5. t = {c[j] : j \in 1 .. m}
    <3>1. \A x \in t : x \in {c[j] : j \in 1 .. m}
      <4>1. ASSUME NEW x \in s PROVE x \in {c[j] : j \in 1 .. m}
        <5>1. PICK j \in 1 .. n : x = a[j]
          BY <1>1
        <5>2. j \in 1 .. m /\ c[j] = x
          BY <1>1, <2>3, <2>4, <5>1
        <5> QED BY <5>2
      <4>2. k \notin s => n + 1 \in 1 .. m /\ c[n + 1] = k
        BY <1>1, <2>3, <2>4
      <4> QED BY <4>1, <4>2
    <3>2. \A j \in 1 .. m : c[j] \in t
      BY <1>1, <2>3, <2>4
    <3> QED BY <3>1, <3>2
  <2>6. \A j, l \in 1 .. m : c[j] = c[l] => j = l
    <3>1. \A j \in 1 .. n : j \in 1 .. MaxLen /\ c[j] = a[j] /\ a[j] \in s
      BY <1>1, <2>3
    <3>2. CASE k \in s
      BY <1>1, <2>4, <3>1, <3>2
    <3>3. CASE k \notin s
      <4>1. m = n + 1 /\ c[n + 1] = k
        BY <2>3, <2>4, <3>3
      <4> QED BY <1>1, <3>1, <3>3, <4>1
    <3> QED BY <3>2, <3>3
  <2>7. t \subseteq Item /\ m \in Nat /\ m =< MaxLen
    BY <1>1, <2>3, <2>4
  <2> HIDE DEF t
  <2>8. o[1] = RandObject(t, c)
    BY <1>1, <2>2, RandAssigned
  <2>9. IsRand(RandObject(t, c)) /\ RandObject(t, c).set = t
    BY <2>3, <2>4, <2>5, <2>6, <2>7, RandIs DEF m
  <2>10. t = (s \cup {k}) \ {None}
    BY <1>1 DEF t
  <2> QED BY <2>2, <2>8, <2>9, <2>10 DEF s
<1> QED BY <1>2, <1>3

(* RAND fills the place of the item it removes with the last one.          *)
LEMMA RandRemoveOutcome ==
  ASSUME NEW b, IsRand(b), NEW k \in b.set
  PROVE  IsRand(RandRemove(b, k)) /\ RandRemove(b, k).set = b.set \ {k}
<1> DEFINE s == b.set
           a == b.a
           n == Cardinality(s)
           i == FirstPlace(a, k)
           c == [[a EXCEPT ![i] = a[n]] EXCEPT ![n] = None]
           t == s \ {k}
           r == RandRemove(b, k)
<1>1. /\ b = RandObject(s, a) /\ s \subseteq Item /\ IsFiniteSet(s) /\ n =< MaxLen
      /\ a \in [1 .. MaxLen -> Item \cup {None}] /\ s = {a[j] : j \in 1 .. n}
      /\ \A j, l \in 1 .. n : a[j] = a[l] => j = l
      /\ n \in Nat /\ MaxLen \in Nat \ {0} /\ None \notin Item /\ k \in s
  BY FS_CardinalityType, PolicyAssumption DEF IsRand
<1>2. i \in 1 .. n /\ a[i] = k
  <2> HIDE DEF a, s, n
  <2>1. PICK j \in 1 .. n : a[j] = k
    BY <1>1
  <2>2. \A m \in 1 .. j - 1 : a[m] # k
    BY <1>1, <2>1
  <2>3. DOMAIN a = 1 .. MaxLen
    BY <1>1
  <2>4. \E m \in DOMAIN a : a[m] = k /\ \A l \in 1 .. m - 1 : a[l] # k
    BY <1>1, <2>1, <2>2, <2>3
  <2>5. i \in DOMAIN a /\ a[i] = k /\ \A l \in 1 .. i - 1 : a[l] # k
    BY <2>4 DEF FirstPlace
  <2>6. i \in 1 .. MaxLen /\ ~(j < i)
    BY <1>1, <2>1, <2>3, <2>5
  <2> HIDE DEF i
  <2> QED BY <1>1, <2>1, <2>5, <2>6
<1>3. r = WithArray(b, t, c)
  <2>1. r = [b EXCEPT !.a = c, !.set = @ \ {k}]
    BY DEF RandRemove
  <2> HIDE DEF c, r
  <2>2. [b EXCEPT !.a = c, !.set = @ \ {k}] = [b EXCEPT !.set = t, !.a = c]
    BY <1>1 DEF RandObject
  <2> QED BY <2>1, <2>2 DEF WithArray
<1>4. /\ c \in [1 .. MaxLen -> Item \cup {None}]
      /\ \A j \in 1 .. MaxLen : c[j] = IF j = n THEN None ELSE IF j = i THEN a[n] ELSE a[j]
  <2> HIDE DEF i, a, n
  <2>1. n \in 1 .. MaxLen
    BY <1>1, <1>2
  <2> QED BY <1>1, <1>2, <2>1
<1> HIDE DEF s, a, n, i, c, r
<1>5. IsFiniteSet(t) /\ Cardinality(t) = n - 1 /\ n - 1 \in Nat
  BY <1>1, <1>2, FS_RemoveElement DEF n
<1>6. t = {c[j] : j \in 1 .. n - 1}
  <2>1. ASSUME NEW x \in t PROVE x \in {c[j] : j \in 1 .. n - 1}
    <3>1. PICK j \in 1 .. n : x = a[j]
      BY <1>1
    <3>2. j # i
      BY <1>2, <3>1
    <3>3. CASE j = n
      <4>1. i \in 1 .. n - 1 /\ c[i] = x
        BY <1>1, <1>2, <1>4, <3>1, <3>2, <3>3
      <4> QED BY <4>1
    <3>4. CASE j # n
      <4>1. j \in 1 .. n - 1 /\ c[j] = x
        BY <1>1, <1>4, <3>1, <3>2, <3>4
      <4> QED BY <4>1
    <3> QED BY <3>3, <3>4
  <2>2. ASSUME NEW j \in 1 .. n - 1 PROVE c[j] \in t
    <3>1. c[j] = IF j = i THEN a[n] ELSE a[j]
      BY <1>1, <1>4
    <3>2. a[n] \in s /\ a[j] \in s /\ (j = i => a[n] # k) /\ (j # i => a[j] # k)
      BY <1>1, <1>2
    <3> QED BY <3>1, <3>2
  <2> HIDE DEF t
  <2> QED BY <2>1, <2>2
<1>7. \A j, l \in 1 .. n - 1 : c[j] = c[l] => j = l
  BY <1>1, <1>2, <1>4
<1> HIDE DEF t
<1>8. r = RandObject(t, c)
  BY <1>1, <1>3, RandAssigned
<1>9. t \subseteq Item /\ n - 1 =< MaxLen
  BY <1>1 DEF t
<1>10. IsRand(RandObject(t, c)) /\ RandObject(t, c).set = t
  BY <1>4, <1>5, <1>6, <1>7, <1>9, RandIs
<1> QED BY <1>8, <1>10 DEF r, t, s

(* A RAND object that counts no item, whatever its array still has.        *)
LEMMA RandEmpty ==
  ASSUME NEW a \in [1 .. MaxLen -> Item \cup {None}]
  PROVE  IsRand(RandObject({}, a)) /\ RandObject({}, a).set = {}
<1>1. IsFiniteSet({}) /\ Cardinality({}) = 0 /\ MaxLen \in Nat
  BY FS_EmptySet, PolicyAssumption
<1>2. {} = {a[i] : i \in 1 .. 0} /\ 0 \in Nat /\ 0 =< MaxLen
  BY <1>1
<1> QED BY <1>1, <1>2, RandIs

IsNull(b) == b = [policy |-> "NULL"]

Policies == {"NULL", "LRU", "SLRU", "LFU", "FIFO", "RAND"}

(* The inductive invariant of a cache object, by its class: its structures *)
(* agree, and they fit.                                                    *)
Sound(b) ==
  \/ IsNull(b)
  \/ IsLru(b) /\ FitsInLine(b.list)
  \/ IsSlru(b)
  \/ IsLfu(b)
  \/ IsFifo(b)
  \/ IsRand(b)

(* A sound object is one of its policy, and holds the items of it.         *)
LEMMA SoundCases ==
  ASSUME NEW b, Sound(b)
  PROVE  \/ b.policy = "NULL" /\ IsNull(b) /\ Held(b) = {}
         \/ b.policy = "LRU"  /\ IsLru(b) /\ FitsInLine(b.list) /\ Held(b) = Items(b.list)
         \/ b.policy = "SLRU" /\ IsSlru(b) /\ Held(b) = DOMAIN b.map
         \/ b.policy = "LFU"  /\ IsLfu(b) /\ Held(b) = DOMAIN b.count
         \/ b.policy = "FIFO" /\ IsFifo(b) /\ Held(b) = b.set
         \/ b.policy = "RAND" /\ IsRand(b) /\ Held(b) = b.set
<1>1. CASE IsNull(b)
  BY <1>1 DEF IsNull, Held
<1>2. CASE IsLru(b) /\ FitsInLine(b.list)
  BY <1>2, LruCases
<1>3. CASE IsSlru(b)
  <2>1. b.policy = "SLRU"
    BY <1>3, SlruFacts DEF IsSlru
  <2> QED BY <1>3, <2>1 DEF Held
<1>4. CASE IsLfu(b)
  <2>1. b = LfuObject(b.count, b.t)
    BY <1>4 DEF IsLfu
  <2>2. b.policy = "LFU"
    BY <2>1, LfuAssigned
  <2> QED BY <1>4, <2>2 DEF Held
<1>5. CASE IsFifo(b)
  <2>1. b = FifoObject(b.set, b.d)
    BY <1>5 DEF IsFifo
  <2>2. b.policy = "FIFO"
    BY <2>1, FifoAssigned
  <2> QED BY <1>5, <2>2 DEF Held
<1>6. CASE IsRand(b)
  <2>1. b = RandObject(b.set, b.a)
    BY <1>6 DEF IsRand
  <2>2. b.policy = "RAND"
    BY <2>1, RandAssigned
  <2> QED BY <1>6, <2>2 DEF Held
<1> QED BY <1>1, <1>2, <1>3, <1>4, <1>5, <1>6 DEF Sound

(* A policy holds items, and no more than its length.                      *)
THEOREM SoundFits ==
  ASSUME NEW b, Sound(b)
  PROVE  /\ b.policy \in Policies
         /\ Held(b) \subseteq Item /\ None \notin Held(b) /\ KeyError \notin Held(b)
         /\ IsFiniteSet(Held(b)) /\ Cardinality(Held(b)) \in Nat
         /\ Cardinality(Held(b)) =< MaxLength(b)
<1>1. /\ MaxLen \in Nat \ {0} /\ None \notin Item /\ KeyError \notin Item
      /\ MaxLength(b) = IF b.policy = "NULL" THEN 0 ELSE MaxLen
  BY PolicyAssumption DEF MaxLength
<1>2. b.policy \in Policies /\ Held(b) \subseteq Item /\ IsFiniteSet(Held(b))
      /\ Cardinality(Held(b)) =< MaxLength(b)
  <2>1. CASE b.policy = "NULL"
    BY <1>1, <2>1, SoundCases, FS_EmptySet DEF Policies
  <2>2. CASE b.policy = "LRU"
    <3>1. FitsInLine(b.list) /\ Held(b) = Items(b.list)
      BY <2>2, SoundCases
    <3>2. PICK q : Line(b.list, q, Item) /\ Len(q) =< MaxLen
      BY <3>1 DEF FitsInLine
    <3> QED BY <1>1, <2>2, <3>1, <3>2, LineItems DEF Policies
  <2>3. CASE b.policy = "SLRU"
    <3>1. IsSlru(b) /\ Held(b) = DOMAIN b.map
      BY <2>3, SoundCases
    <3> QED BY <1>1, <2>3, <3>1, SlruFits, SlruFacts DEF Policies, IsSlru
  <2>4. CASE b.policy = "LFU"
    <3>1. IsLfu(b) /\ Held(b) = DOMAIN b.count
      BY <2>4, SoundCases
    <3> QED BY <1>1, <2>4, <3>1 DEF Policies, IsLfu
  <2>5. CASE b.policy = "FIFO"
    <3>1. IsFifo(b) /\ Held(b) = b.set
      BY <2>5, SoundCases
    <3> DEFINE q == b.d
    <3>2. q \in Seq(Item) /\ Distinct(q) /\ Elements(q) = b.set /\ Len(q) =< MaxLen
      BY <3>1 DEF IsFifo
    <3> HIDE DEF q
    <3>3. IsFiniteSet(b.set) /\ Cardinality(b.set) = Len(q)
      BY <3>2, DistinctCardinality
    <3>4. b.set \subseteq Item
      BY <3>2, LenProperties, ElementOfSeq DEF Elements
    <3> QED BY <1>1, <2>5, <3>1, <3>2, <3>3, <3>4 DEF Policies
  <2>6. CASE b.policy = "RAND"
    <3>1. IsRand(b) /\ Held(b) = b.set
      BY <2>6, SoundCases
    <3> QED BY <1>1, <2>6, <3>1 DEF Policies, IsRand
  <2> QED BY <2>1, <2>2, <2>3, <2>4, <2>5, <2>6, SoundCases
<1> QED BY <1>1, <1>2, FS_CardinalityType

(* What self.has may answer inside put: it is right about an item that is  *)
(* not there, and wrong about one that is only where the policy can stand  *)
(* it.                                                                     *)
Answers(b, k, has) ==
  /\ has \in BOOLEAN /\ (has => k \in Held(b))
  /\ k \in Held(b) /\ ~has => /\ b.policy # "FIFO"
                              /\ b.policy = "RAND" => Cardinality(Held(b)) < MaxLen

(* put returns the item that left the cache, and nothing else leaves.      *)
THEOREM PutContract ==
  ASSUME NEW b, Sound(b), NEW k \in Item, NEW has, Answers(b, k, has),
         NEW o \in PutOutcomes(b, k, has)
  PROVE  /\ Sound(o[1]) /\ o[1].policy = b.policy
         /\ o[2] \in Held(b) \cup {k, None}
         /\ b.policy = "NULL" => o = <<b, None>>
         /\ b.policy # "NULL" => Held(o[1]) = (Held(b) \cup {k}) \ {o[2]}
         /\ k \in Held(b) => o[2] = None
<1>1. None \notin Item /\ None \notin Held(b)
  BY SoundFits, PolicyAssumption
<1>2. CASE b.policy = "NULL"
  <2>1. o = <<b, None>>
    BY <1>2 DEF PutOutcomes
  <2> QED BY <1>2, <2>1
<1>3. CASE b.policy = "LRU"
  <2>1. IsLru(b) /\ FitsInLine(b.list) /\ Held(b) = Items(b.list)
    BY <1>3, SoundCases
  <2>2. o = LruPut(b, k)
    BY <1>3 DEF PutOutcomes
  <2>3. /\ IsLru(o[1]) /\ FitsInLine(o[1].list)
        /\ \/ /\ o[2] = None
              /\ Items(o[1].list) = Items(b.list) \cup {k}
           \/ /\ k \notin Items(b.list) /\ o[2] \in Items(b.list)
              /\ Items(o[1].list) = (Items(b.list) \cup {k}) \ {o[2]}
    BY <2>1, <2>2, LruPutOutcome
  <2>4. o[1].policy = "LRU" /\ Held(o[1]) = Items(o[1].list)
    BY <2>3, LruCases
  <2> QED BY <1>1, <1>3, <2>1, <2>3, <2>4 DEF Sound
<1>4. CASE b.policy = "SLRU"
  <2>1. IsSlru(b) /\ Held(b) = DOMAIN b.map
    BY <1>4, SoundCases
  <2>2. o = SlruPut(b, k)
    BY <1>4 DEF PutOutcomes
  <2>3. CASE k \in DOMAIN b.map
    <3>1. o = << SlruHit(b, k), None >>
      BY <2>2, <2>3 DEF SlruPut
    <3>2. IsSlru(o[1]) /\ DOMAIN o[1].map = DOMAIN b.map /\ o[2] = None
      BY <2>1, <2>3, <3>1, SlruHitOutcome
    <3>3. o[1].policy = "SLRU" /\ Held(o[1]) = DOMAIN o[1].map
      BY <3>2, SlruFacts DEF IsSlru, Held
    <3> QED BY <1>1, <1>4, <2>1, <2>3, <3>2, <3>3 DEF Sound
  <2>4. CASE k \notin DOMAIN b.map
    <3>1. o = SlruInsert(b, k)
      BY <2>2, <2>4 DEF SlruPut
    <3>2. /\ IsSlru(o[1]) /\ o[2] \in DOMAIN b.map \cup {None}
          /\ DOMAIN o[1].map = (DOMAIN b.map \cup {k}) \ {o[2]}
      BY <2>1, <2>4, <3>1, SlruInsertOutcome
    <3>3. o[1].policy = "SLRU" /\ Held(o[1]) = DOMAIN o[1].map
      BY <3>2, SlruFacts DEF IsSlru, Held
    <3> QED BY <1>1, <1>4, <2>1, <2>4, <3>2, <3>3 DEF Sound
  <2> QED BY <2>3, <2>4
<1>5. CASE b.policy = "LFU"
  <2>1. IsLfu(b) /\ Held(b) = DOMAIN b.count
    BY <1>5, SoundCases
  <2>2. o = IF has THEN <<b, None>> ELSE LfuPut(b, k)
    BY <1>5 DEF PutOutcomes
  <2>3. CASE has
    <3>1. o = <<b, None>> /\ k \in Held(b)
      BY <2>2, <2>3 DEF Answers
    <3> QED BY <1>1, <1>5, <3>1
  <2>4. CASE ~has
    <3>1. o = LfuPut(b, k)
      BY <2>2, <2>4
    <3>2. /\ IsLfu(o[1]) /\ o[2] \in DOMAIN b.count \cup {k, None}
          /\ DOMAIN o[1].count = (DOMAIN b.count \cup {k}) \ {o[2]}
          /\ k \in DOMAIN b.count => o[2] = None
      BY <2>1, <3>1, LfuPutOutcome
    <3>3. o[1].policy = "LFU" /\ Held(o[1]) = DOMAIN o[1].count
      <4>1. o[1] = LfuObject(o[1].count, o[1].t)
        BY <3>2 DEF IsLfu
      <4>2. o[1].policy = "LFU"
        BY <4>1, LfuAssigned
      <4> QED BY <4>2 DEF Held
    <3> QED BY <1>1, <1>5, <2>1, <3>2, <3>3 DEF Sound
  <2> QED BY <2>3, <2>4
<1>6. CASE b.policy = "FIFO"
  <2>1. IsFifo(b) /\ Held(b) = b.set
    BY <1>6, SoundCases
  <2>2. has \in BOOLEAN /\ (has <=> k \in b.set)
    BY <1>6, <2>1 DEF Answers
  <2>3. o = FifoPut(b, k, has)
    BY <1>6 DEF PutOutcomes
  <2>4. /\ IsFifo(o[1]) /\ o[2] \in b.set \cup {None}
        /\ o[1].set = (b.set \cup {k}) \ {o[2]}
        /\ k \in b.set => o[2] = None
    BY <2>1, <2>2, <2>3, FifoPutOutcome
  <2>5. o[1].policy = "FIFO" /\ Held(o[1]) = o[1].set
    <3>1. o[1] = FifoObject(o[1].set, o[1].d)
      BY <2>4 DEF IsFifo
    <3>2. o[1].policy = "FIFO"
      BY <3>1, FifoAssigned
    <3> QED BY <3>2 DEF Held
  <2> QED BY <1>1, <1>6, <2>1, <2>4, <2>5 DEF Sound
<1>7. CASE b.policy = "RAND"
  <2>1. IsRand(b) /\ Held(b) = b.set
    BY <1>7, SoundCases
  <2>2. o \in IF has THEN {<<b, None>>} ELSE RandPut(b, k)
    BY <1>7 DEF PutOutcomes
  <2>3. CASE has
    <3>1. o = <<b, None>> /\ k \in Held(b)
      BY <2>2, <2>3 DEF Answers
    <3> QED BY <1>1, <1>7, <3>1
  <2>4. CASE ~has
    <3>1. o \in RandPut(b, k) /\ (k \in b.set => Cardinality(b.set) < MaxLen)
      BY <1>7, <2>1, <2>2, <2>4 DEF Answers
    <3>2. /\ IsRand(o[1]) /\ o[2] \in b.set \cup {None}
          /\ o[1].set = (b.set \cup {k}) \ {o[2]}
          /\ k \in b.set => o[2] = None
      BY <2>1, <3>1, RandPutOutcome
    <3>3. o[1].policy = "RAND" /\ Held(o[1]) = o[1].set
      <4>1. o[1] = RandObject(o[1].set, o[1].a)
        BY <3>2 DEF IsRand
      <4>2. o[1].policy = "RAND"
        BY <4>1, RandAssigned
      <4> QED BY <4>2 DEF Held
    <3> QED BY <1>1, <1>7, <2>1, <3>2, <3>3 DEF Sound
  <2> QED BY <2>3, <2>4
<1> QED BY <1>2, <1>3, <1>4, <1>5, <1>6, <1>7, SoundFits DEF Policies

(* get adds and takes nothing.                                             *)
THEOREM GetContract ==
  ASSUME NEW b, Sound(b), NEW k, NEW has \in BOOLEAN, has => k \in Held(b)
  PROVE  /\ Sound(Got(b, k, has)) /\ Got(b, k, has).policy = b.policy
         /\ Held(Got(b, k, has)) = Held(b)
         /\ GetHits(b, k, has) => k \in Held(b)
<1> DEFINE o == Got(b, k, has)
<1>1. GetHits(b, k, has) => k \in Held(b)
  BY DEF GetHits
<1>2. CASE ~GetHits(b, k, has)
  BY <1>1, <1>2 DEF Got
<1>3. CASE GetHits(b, k, has)
  <2>1. CASE b.policy = "LRU"
    <3>1. IsLru(b) /\ FitsInLine(b.list) /\ Held(b) = Items(b.list)
      BY <2>1, SoundCases
    <3>2. o = [policy |-> "LRU", list |-> MoveToTop(b.list, k)] /\ k \in Items(b.list)
      BY <1>1, <1>3, <3>1, LruCases
    <3>3. FitsInLine(MoveToTop(b.list, k)) /\ Items(MoveToTop(b.list, k)) = Items(b.list)
      BY <3>1, <3>2, LruGetOutcome
    <3> DEFINE l == MoveToTop(b.list, k)
    <3> HIDE DEF o, l
    <3>4. IsLru(o) /\ o.list = l
      BY <3>2 DEF IsLru, l
    <3>5. o.policy = "LRU" /\ Held(o) = Items(o.list)
      BY <3>4, LruCases
    <3> QED BY <1>1, <2>1, <3>1, <3>3, <3>4, <3>5 DEF Sound, o, l
  <2>2. CASE b.policy = "SLRU"
    <3>1. IsSlru(b) /\ Held(b) = DOMAIN b.map
      BY <2>2, SoundCases
    <3>2. o = SlruHit(b, k) /\ k \in DOMAIN b.map
      BY <1>1, <1>3, <2>2, <3>1 DEF Got
    <3> HIDE DEF o
    <3>3. IsSlru(o) /\ DOMAIN o.map = DOMAIN b.map
      BY <3>1, <3>2, SlruHitOutcome
    <3>4. o.policy = "SLRU" /\ Held(o) = DOMAIN o.map
      BY <3>3, SlruFacts DEF IsSlru, Held
    <3> QED BY <1>1, <2>2, <3>1, <3>3, <3>4 DEF Sound, o
  <2>3. CASE b.policy = "LFU"
    <3>1. IsLfu(b) /\ Held(b) = DOMAIN b.count
      BY <2>3, SoundCases
    <3>2. o = [b EXCEPT !.count[k][1] = @ + 1] /\ k \in DOMAIN b.count
      BY <1>1, <1>3, <2>3, <3>1 DEF Got
    <3> HIDE DEF o
    <3>3. IsLfu(o) /\ DOMAIN o.count = DOMAIN b.count
      BY <3>1, <3>2, LfuOthers
    <3>4. o.policy = "LFU" /\ Held(o) = DOMAIN o.count
      <4>1. o = LfuObject(o.count, o.t)
        BY <3>3 DEF IsLfu
      <4>2. o.policy = "LFU"
        BY <4>1, LfuAssigned
      <4> QED BY <4>2 DEF Held
    <3> QED BY <1>1, <2>3, <3>1, <3>3, <3>4 DEF Sound, o
  <2>4. CASE b.policy \notin {"LRU", "SLRU", "LFU"}
    <3>1. o = b
      BY <1>3, <2>4 DEF Got
    <3> QED BY <1>1, <3>1
  <2> QED BY <2>1, <2>2, <2>3, <2>4
<1> QED BY <1>2, <1>3

(* remove takes the item, whether it was there or not.                     *)
THEOREM RemoveContract ==
  ASSUME NEW b, Sound(b), NEW k
  PROVE  /\ Sound(Removed(b, k)) /\ Removed(b, k).policy = b.policy
         /\ Held(Removed(b, k)) = Held(b) \ {k}
<1> DEFINE o == Removed(b, k)
<1>1. CASE k \notin Held(b)
  BY <1>1 DEF Removed
<1>2. CASE k \in Held(b)
  <2>1. CASE b.policy = "LRU"
    <3>1. IsLru(b) /\ FitsInLine(b.list) /\ Held(b) = Items(b.list)
      BY <2>1, SoundCases
    <3>2. o = [policy |-> "LRU", list |-> Remove(b.list, k)] /\ k \in Items(b.list)
      BY <1>2, <3>1, LruCases
    <3>3. FitsInLine(Remove(b.list, k)) /\ Items(Remove(b.list, k)) = Items(b.list) \ {k}
      BY <3>1, <3>2, LruRemoveOutcome
    <3> DEFINE l == Remove(b.list, k)
    <3> HIDE DEF o, l
    <3>4. IsLru(o) /\ o.list = l
      BY <3>2 DEF IsLru, l
    <3>5. o.policy = "LRU" /\ Held(o) = Items(o.list)
      BY <3>4, LruCases
    <3> QED BY <2>1, <3>1, <3>3, <3>4, <3>5 DEF Sound, o, l
  <2>2. CASE b.policy = "SLRU"
    <3>1. IsSlru(b) /\ Held(b) = DOMAIN b.map
      BY <2>2, SoundCases
    <3>2. o = [b EXCEPT !.map = Drop(@, k), !.segment[b.map[k]] = Remove(@, k)] /\ k \in DOMAIN b.map
      BY <1>2, <2>2, <3>1 DEF Removed
    <3> HIDE DEF o
    <3>3. IsSlru(o) /\ DOMAIN o.map = DOMAIN b.map \ {k}
      BY <3>1, <3>2, SlruRemoveOutcome
    <3>4. o.policy = "SLRU" /\ Held(o) = DOMAIN o.map
      BY <3>3, SlruFacts DEF IsSlru, Held
    <3> QED BY <2>2, <3>1, <3>3, <3>4 DEF Sound, o
  <2>3. CASE b.policy = "LFU"
    <3>1. IsLfu(b) /\ Held(b) = DOMAIN b.count
      BY <2>3, SoundCases
    <3>2. o = [b EXCEPT !.count = Drop(@, k)] /\ k \in DOMAIN b.count
      BY <1>2, <2>3, <3>1 DEF Removed
    <3> HIDE DEF o
    <3>3. IsLfu(o) /\ DOMAIN o.count = DOMAIN b.count \ {k}
      BY <3>1, <3>2, LfuOthers
    <3>4. o.policy = "LFU" /\ Held(o) = DOMAIN o.count
      <4>1. o = LfuObject(o.count, o.t)
        BY <3>3 DEF IsLfu
      <4>2. o.policy = "LFU"
        BY <4>1, LfuAssigned
      <4> QED BY <4>2 DEF Held
    <3> QED BY <2>3, <3>1, <3>3, <3>4 DEF Sound, o
  <2>4. CASE b.policy = "FIFO"
    <3>1. IsFifo(b) /\ Held(b) = b.set
      BY <2>4, SoundCases
    <3>2. o = [b EXCEPT !.set = @ \ {k}, !.d = RemovedAt(@, FirstPlace(@, k))] /\ k \in b.set
      BY <1>2, <2>4, <3>1 DEF Removed
    <3> HIDE DEF o
    <3>3. IsFifo(o) /\ o.set = b.set \ {k}
      BY <3>1, <3>2, FifoRemoveOutcome
    <3>4. o.policy = "FIFO" /\ Held(o) = o.set
      <4>1. o = FifoObject(o.set, o.d)
        BY <3>3 DEF IsFifo
      <4>2. o.policy = "FIFO"
        BY <4>1, FifoAssigned
      <4> QED BY <4>2 DEF Held
    <3> QED BY <2>4, <3>1, <3>3, <3>4 DEF Sound, o
  <2>5. CASE b.policy = "RAND"
    <3>1. IsRand(b) /\ Held(b) = b.set
      BY <2>5, SoundCases
    <3>2. o = RandRemove(b, k) /\ k \in b.set
      BY <1>2, <2>5, <3>1 DEF Removed
    <3> HIDE DEF o
    <3>3. IsRand(o) /\ o.set = b.set \ {k}
      BY <3>1, <3>2, RandRemoveOutcome
    <3>4. o.policy = "RAND" /\ Held(o) = o.set
      <4>1. o = RandObject(o.set, o.a)
        BY <3>3 DEF IsRand
      <4>2. o.policy = "RAND"
        BY <4>1, RandAssigned
      <4> QED BY <4>2 DEF Held
    <3> QED BY <2>5, <3>1, <3>3, <3>4 DEF Sound, o
  <2>6. b.policy # "NULL"
    BY <1>2, SoundCases
  <2> QED BY <2>1, <2>2, <2>3, <2>4, <2>5, <2>6, SoundFits DEF Policies
<1> QED BY <1>1, <1>2

(* A new cache is empty.                                                   *)
THEOREM NewContract ==
  ASSUME NEW p \in Policies
  PROVE  Sound(New(p)) /\ New(p).policy = p /\ Held(New(p)) = {}
<1> DEFINE b == New(p)
<1>1. CASE p = "NULL"
  BY <1>1 DEF New, Sound, IsNull, Held
<1>2. CASE p = "LRU"
  <2>1. b = [policy |-> "LRU", list |-> EmptySet]
    BY <1>2 DEF New
  <2> HIDE DEF b
  <2>2. IsLru(b) /\ b.list = EmptySet
    BY <2>1 DEF IsLru
  <2>3. FitsInLine(b.list) /\ Items(b.list) = {}
    BY <2>2, EmptyFits
  <2> QED BY <1>2, <2>2, <2>3, LruCases DEF Sound, b
<1>3. CASE p = "SLRU"
  <2>1. IsSlru(b) /\ DOMAIN b.map = {}
    BY <1>3, SlruEmpty
  <2>2. b.policy = "SLRU" /\ Held(b) = DOMAIN b.map
    <3> HIDE DEF b
    <3> QED BY <2>1, SlruFacts DEF IsSlru, Held
  <2> QED BY <1>3, <2>1, <2>2 DEF Sound
<1>4. CASE p = "LFU"
  <2>1. b = LfuObject(<<>>, 0)
    BY <1>4 DEF New, LfuObject
  <2> HIDE DEF b
  <2>2. IsLfu(b) /\ DOMAIN b.count = {} /\ b.policy = "LFU"
    BY <2>1, LfuEmpty, LfuAssigned
  <2> QED BY <1>4, <2>2 DEF Sound, Held, b
<1>5. CASE p = "FIFO"
  <2>1. b = FifoObject({}, <<>>)
    BY <1>5 DEF New, FifoObject
  <2> HIDE DEF b
  <2>2. IsFifo(b) /\ b.set = {} /\ b.policy = "FIFO"
    BY <2>1, FifoEmpty, FifoAssigned
  <2> QED BY <1>5, <2>2 DEF Sound, Held, b
<1>6. CASE p = "RAND"
  <2> DEFINE a == [i \in 1 .. MaxLen |-> None]
  <2>1. b = RandObject({}, a)
    BY <1>6 DEF New, RandObject
  <2>2. a \in [1 .. MaxLen -> Item \cup {None}]
    OBVIOUS
  <2> HIDE DEF b, a
  <2>3. IsRand(b) /\ b.set = {} /\ b.policy = "RAND"
    BY <2>1, <2>2, RandEmpty, RandAssigned
  <2> QED BY <1>6, <2>3 DEF Sound, Held, b
<1> QED BY <1>1, <1>2, <1>3, <1>4, <1>5, <1>6 DEF Policies

(* And so is a cleared one.                                                *)
THEOREM ClearContract ==
  ASSUME NEW b, Sound(b)
  PROVE  Sound(Cleared(b)) /\ Cleared(b).policy = b.policy /\ Held(Cleared(b)) = {}
<1> DEFINE o == Cleared(b)
<1>1. CASE b.policy = "LFU"
  <2>1. IsLfu(b)
    BY <1>1, SoundCases
  <2> DEFINE c == b.count  t == b.t
  <2>2. b = LfuObject(c, t) /\ t \in Nat
    BY <2>1 DEF IsLfu
  <2>3. o = WithCount(b, <<>>)
    BY <1>1 DEF Cleared, WithCount
  <2> HIDE DEF o, c, t
  <2>4. o = LfuObject(<<>>, t)
    BY <2>2, <2>3, LfuAssigned
  <2>5. IsLfu(o) /\ DOMAIN o.count = {} /\ o.policy = "LFU"
    BY <2>2, <2>4, LfuEmpty, LfuAssigned
  <2> QED BY <1>1, <2>5 DEF Sound, Held, o
<1>2. CASE b.policy = "RAND"
  <2>1. IsRand(b)
    BY <1>2, SoundCases
  <2> DEFINE s == b.set  a == b.a
  <2>2. b = RandObject(s, a) /\ a \in [1 .. MaxLen -> Item \cup {None}]
    BY <2>1 DEF IsRand
  <2>3. o = [b EXCEPT !.set = {}]
    BY <1>2 DEF Cleared
  <2> HIDE DEF o, s, a
  <2>4. o = RandObject({}, a)
    BY <2>2, <2>3 DEF RandObject
  <2>5. IsRand(o) /\ o.set = {} /\ o.policy = "RAND"
    BY <2>2, <2>4, RandEmpty, RandAssigned
  <2> QED BY <1>2, <2>5 DEF Sound, Held, o
<1>3. CASE b.policy \notin {"LFU", "RAND"}
  <2>1. o = New(b.policy)
    BY <1>3 DEF Cleared
  <2> QED BY <2>1, SoundFits, NewContract
<1> QED BY <1>1, <1>2, <1>3
=============================================================================
