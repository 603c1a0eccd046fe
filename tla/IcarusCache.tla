---------------------------- MODULE IcarusCache ----------------------------
(***************************************************************************)
(* A cache object of Icarus under every sequence of calls: one of the      *)
(* policies, as it is or changed by one of the functions of                *)
(* models/cache.py that replace the methods of an instance:                *)
(*   rand_insert  a put is carried out or not,                             *)
(*   keyval       every key has a value,                                   *)
(*   ttl          every item has an expiry time.                           *)
(*                                                                         *)
(* Bounds: MaxFreq bounds the frequency of an item in LfuCache and MaxPuts *)
(* its clock, Horizon the time of f_time.  They are conditions of the      *)
(* calls, not of the code.                                                 *)
(***************************************************************************)
EXTENDS IcarusPolicies

CONSTANTS
  Kind,     \* the pairs of a policy and a wrapper to look at
  Value,    \* the values of keyval_cache
  MaxTtl,   \* the longest finite time to live
  Horizon, MaxFreq, MaxPuts

ASSUME CacheAssumption == MaxTtl \in Nat /\ Horizon \in Nat /\ None \notin Value

VARIABLES
  wrapper,  \* the function that made the object
  base,     \* the attributes of its class
  val,      \* _val of keyval_cache
  expiry,   \* expiry of ttl_cache
  expList,  \* _exp_list of ttl_cache
  now,      \* f_time()
  latest    \* history: the value last put for every key

vars == <<wrapper, base, val, expiry, expList, now, latest>>

(* np.infty: later than every expiry time of the instance.                 *)
Infinity == Horizon + MaxTtl + 1

Init == /\ \E kind \in Kind : base = New(kind[1]) /\ wrapper = kind[2]
        /\ val = <<>>
        /\ expiry = <<>>
        /\ expList = EmptySet
        /\ now = 0
        /\ latest = [k \in Item |-> None]

(* has of ttl_cache, and has of the other objects.                         *)
Has(k) == IF wrapper = "ttl" THEN k \in Held(base) /\ now =< expiry[k]
          ELSE k \in Held(base)

Bounded == base.policy = "LFU" => base.t < MaxPuts

---------------------------------------------------------------------------
(* The object as it is, or with rand_insert_cache around its put.          *)
PlainPut(k) ==
  /\ wrapper \in {"plain", "rand_insert"} /\ Bounded
  /\ \/ \E o \in PutOutcomes(base, k, Has(k)) : base' = o[1]
     \/ wrapper = "rand_insert" /\ UNCHANGED base
  /\ UNCHANGED <<wrapper, val, expiry, expList, now, latest>>

(* Mutation: the key is entered as the value.                              *)
ValuesAfterPutSwapped(k, v, evicted) ==
  LET with == Put1(val, v, k) IN IF evicted # None THEN Drop(with, evicted) ELSE with

(* Mutation: the value of the evicted key stays.                           *)
ValuesAfterPutKept(k, v, evicted) == Put1(val, k, v)

(* keyval_cache: put(k, v).  The value is entered after the key, and the   *)
(* value of the evicted key is popped.                                     *)
ValuesAfterPut(k, v, evicted) ==
  LET with == Put1(val, k, v) IN IF evicted # None THEN Drop(with, evicted) ELSE with

KeyvalPut(k, v) ==
  /\ wrapper = "keyval" /\ Bounded
  /\ \E o \in PutOutcomes(base, k, Has(k)) :
       /\ base' = o[1]
       /\ val' = ValuesAfterPut(k, v, o[2])
  /\ latest' = [latest EXCEPT ![k] = v]
  /\ UNCHANGED <<wrapper, expiry, expList, now>>

(* What keyval_cache answers to get(k): the value of a key that is hit.    *)
ValueOf(k) == IF GetHits(base, k, Has(k)) THEN val[k] ELSE None

(* ttl_cache: _purge_till(till) pops the bottom of _exp_list as long as it *)
(* expired before till; c_remove takes it from the policy.                 *)
PurgeLast(p) ==
  LET x == p.expList.bottom IN
    [base |-> Removed(p.base, x), expiry |-> Drop(p.expiry, x), expList |-> PopBottom(p.expList)]

Turns(m) ==
  LET after[n \in 0 .. m] ==
        IF n = 0 THEN [base |-> base, expiry |-> expiry, expList |-> expList]
        ELSE PurgeLast(after[n - 1])
  IN  after

Purged(till) ==
  LET q     == Listing(expList)
      stop  == {i \in DOMAIN q : expiry[q[i]] >= till}
      keep  == IF stop = {} THEN 0 ELSE CHOOSE i \in stop : \A j \in stop : j =< i
  IN  Turns(Len(q) - keep)[Len(q) - keep]

(* Mutation: the new item goes on top, whenever it expires.                *)
EnlistOnTop(list, exp, k, expires) ==
  AppendTop(IF k \in Items(list) THEN Remove(list, k) ELSE list, k)

(* Where a new expiry time belongs: above the first item from the top that *)
(* does not expire later.                                                  *)
Enlist(list, exp, k, expires) ==
  LET others  == IF k \in Items(list) THEN Remove(list, k) ELSE list
      q       == Listing(others)
      earlier == {i \in DOMAIN q : expires >= exp[q[i]]}
  IN  IF q = <<>> THEN AppendTop(others, k)
      ELSE IF earlier = {} THEN AppendBottom(others, k)
      ELSE InsertAbove(others, q[CHOOSE i \in earlier : \A j \in earlier : i =< j], k)

(* What self.has answers inside the policy's put, the purge done.          *)
StillHas(p, k) == k \in Held(p.base) /\ now =< p.expiry[k]

(* put of ttl_cache, of an item whose expiry time is later than now: it    *)
(* purges only a full cache.  expiry.pop raises where the policy evicted   *)
(* the new item itself: nothing after it is done.                          *)
TtlPutOutcomes(k, expires) ==
  LET purge == Cardinality(Held(base)) = MaxLength(base)
      p     == IF purge THEN Purged(now)
               ELSE [base |-> base, expiry |-> expiry, expList |-> expList]
      After(o) ==
        LET gone == o[2] # None
            exp  == IF gone THEN Drop(p.expiry, o[2]) ELSE p.expiry
            list == IF gone THEN Remove(p.expList, o[2]) ELSE p.expList
            renewed == IF k \in DOMAIN exp THEN exp[k] < expires ELSE TRUE
        IN  IF o[2] = KeyError \/ (gone /\ o[2] \notin DOMAIN p.expiry)
            THEN [p EXCEPT !.base = o[1]]
            ELSE [base |-> o[1],
                  expiry |-> IF renewed THEN Put1(exp, k, expires) ELSE exp,
                  expList |-> IF renewed THEN Enlist(list, Put1(exp, k, expires), k, expires)
                              ELSE list]
  IN  {After(o) : o \in PutOutcomes(p.base, k, StillHas(p, k))}

TtlPut(k, expires) ==
  /\ wrapper = "ttl" /\ Bounded
  /\ expires > now
  /\ \E p \in TtlPutOutcomes(k, expires) :
       base' = p.base /\ expiry' = p.expiry /\ expList' = p.expList
  /\ UNCHANGED <<wrapper, val, now, latest>>

Purge ==
  /\ wrapper = "ttl"
  /\ LET p == Purged(now) IN base' = p.base /\ expiry' = p.expiry /\ expList' = p.expList
  /\ UNCHANGED <<wrapper, val, now, latest>>

(* get: ttl_cache removes the item it finds expired.                       *)
Get(k) ==
  LET got     == Got(base, k, Has(k))
      expired == /\ wrapper = "ttl"
                 /\ GetHits(base, k, Has(k))
                 /\ now >= expiry[k]
  IN
  /\ base.policy = "LFU" /\ k \in Held(base) => base.count[k][1] < MaxFreq
  /\ IF expired
     THEN /\ base' = Removed(got, k)
          /\ expiry' = Drop(expiry, k)
          /\ expList' = Remove(expList, k)
     ELSE base' = got /\ UNCHANGED <<expiry, expList>>
  /\ UNCHANGED <<wrapper, val, now, latest>>

(* remove: that of ttl_cache raises KeyError for an item it does not hold, *)
(* and changes nothing.                                                    *)
RemoveItem(k) ==
  /\ base' = Removed(base, k)
  /\ val' = IF k \in Held(base) /\ wrapper = "keyval" THEN Drop(val, k) ELSE val
  /\ IF wrapper = "ttl" /\ k \in DOMAIN expiry
     THEN expiry' = Drop(expiry, k) /\ expList' = Remove(expList, k)
     ELSE UNCHANGED <<expiry, expList>>
  /\ UNCHANGED <<wrapper, now, latest>>

Clear ==
  /\ base' = Cleared(base)
  /\ val' = <<>>
  /\ expiry' = <<>>
  /\ expList' = EmptySet
  /\ UNCHANGED <<wrapper, now, latest>>

(* f_time is read, never written: time passes between the calls.           *)
Tick ==
  /\ wrapper = "ttl" /\ now < Horizon
  /\ now' = now + 1
  /\ UNCHANGED <<wrapper, base, val, expiry, expList, latest>>

Next ==
  \/ Tick \/ Purge \/ Clear
  \/ \E k \in Item :
       \/ PlainPut(k) \/ Get(k) \/ RemoveItem(k)
       \/ \E v \in Value : KeyvalPut(k, v)
       \/ \E ttl \in 1 .. MaxTtl : TtlPut(k, now + ttl)
       \/ TtlPut(k, Infinity)

Spec == Init /\ [][Next]_vars
---------------------------------------------------------------------------
IsLinkedSet(s) == LET q == Listing(s) IN
  /\ \A i, j \in DOMAIN q : q[i] = q[j] => i = j
  /\ Represents(s, q)

ItemsOf(q) == {q[i] : i \in DOMAIN q}

WithoutRepetition(q) == \A i, j \in DOMAIN q : q[i] = q[j] => i = j

(* The attributes are of their types.                                      *)
TypeOK ==
  /\ wrapper \in {"plain", "rand_insert", "keyval", "ttl"}
  /\ Held(base) \subseteq Item
  /\ DOMAIN val \subseteq Item /\ \A k \in DOMAIN val : val[k] \in Value
  /\ DOMAIN expiry \subseteq Item /\ \A k \in DOMAIN expiry : expiry[k] \in 1 .. Infinity
  /\ Items(expList) \subseteq Item
  /\ now \in 0 .. Horizon
  /\ latest \in [Item -> Value \cup {None}]

(* The deque of FifoCache has an item once: put says of a present element  *)
(* that it will not be inserted again.                                     *)
InsertedOnce == base.policy = "FIFO" => WithoutRepetition(base.d)

(* The two or three structures a policy keeps of its items agree, and they *)
(* fit: the pointers of a linked set are those of one line of its items,   *)
(* an item is in the segment its map names and no segment is too long, the *)
(* deque holds the set once, and so do the first places of the array,      *)
(* whatever clear and remove left in the others.                           *)
PolicyStructuresAgree ==
  /\ Cardinality(Held(base)) =< MaxLength(base)
  /\ base.policy = "LRU" => IsLinkedSet(base.list)
  /\ base.policy = "SLRU" =>
       \A i \in 1 .. Segments :
         /\ IsLinkedSet(base.segment[i])
         /\ Items(base.segment[i]) = {k \in DOMAIN base.map : base.map[k] = i}
         /\ Cardinality(Items(base.segment[i])) =< SegmentMax(i)
  /\ base.policy = "FIFO" => InsertedOnce /\ ItemsOf(base.d) = base.set
  /\ base.policy = "RAND" =>
       LET used == SubSeq(base.a, 1, Cardinality(base.set))
       IN  WithoutRepetition(used) /\ ItemsOf(used) = base.set

(* What a wrapper keeps beside the policy is kept for the items the policy *)
(* holds, no more and no less, through every eviction, purge and removal:  *)
(* a value for each of them that is the one last put, or an expiry time    *)
(* and a place in the list of expiry times, the latest on top.             *)
WrapperFollowsPolicy ==
  /\ wrapper = "keyval" =>
       /\ DOMAIN val = Held(base)
       /\ \A k \in Item : ValueOf(k) = IF k \in Held(base) THEN latest[k] ELSE None
  /\ wrapper = "ttl" =>
       LET q == Listing(expList) IN
         /\ DOMAIN expiry = Held(base)
         /\ Items(expList) = Held(base)
         /\ IsLinkedSet(expList)
         /\ \A i, j \in DOMAIN q : i < j => expiry[q[i]] >= expiry[q[j]]

(* A purge looks at the bottom of its list only.  It leaves no item that   *)
(* has expired, and takes none that has not.                               *)
PurgeIsExact ==
  wrapper = "ttl" =>
    LET p == Purged(now) IN
      /\ Held(p.base) = {k \in Held(base) : expiry[k] >= now}
      /\ DOMAIN p.expiry = Held(p.base)
      /\ Items(p.expList) = Held(p.base)

(* The item put returns is the one that left: the callers that keep        *)
(* something for every cached item rely on it.  Nothing else leaves, and   *)
(* the new item is there unless it is what is returned.                    *)
PutTellsWhatLeft ==
  wrapper # "ttl" =>
    \A k \in Item : \A o \in PutOutcomes(base, k, Has(k)) :
      LET gone == IF o[2] = None THEN {} ELSE {o[2]} IN
        \/ base.policy = "NULL" /\ o = <<base, None>>
        \/ /\ gone \subseteq Held(base) \cup {k}
           /\ Held(o[1]) = (Held(base) \cup {k}) \ gone
           /\ k \in Held(base) => gone = {}

(* Every operation of a linked set, those no policy uses included, gives   *)
(* the line of items it stands for.                                        *)
ListOperations(s) ==
  LET q == Listing(s) n == Len(q) IN
    /\ n > 0 => Represents(PopTop(s), RemovedAt(q, 1))
    /\ n > 0 => Represents(PopBottom(s), RemovedAt(q, n))
    /\ \A i \in 1 .. n :
         /\ Represents(Remove(s, q[i]), RemovedAt(q, i))
         /\ Represents(MoveToTop(s, q[i]), MovedTo(q, i, 1))
         /\ Represents(MoveToBottom(s, q[i]), MovedTo(q, i, n))
         /\ Represents(MoveUp(s, q[i]), MovedTo(q, i, IF i = 1 THEN 1 ELSE i - 1))
         /\ Represents(MoveDown(s, q[i]), MovedTo(q, i, IF i = n THEN n ELSE i + 1))
    /\ \A k \in Item \ Items(s) :
         /\ Represents(AppendTop(s, k), InsertedAt(q, 1, k))
         /\ Represents(AppendBottom(s, k), InsertedAt(q, n + 1, k))
         /\ \A i \in 1 .. n :
              /\ Represents(InsertAbove(s, q[i], k), InsertedAt(q, i, k))
              /\ Represents(InsertBelow(s, q[i], k), InsertedAt(q, i + 1, k))

LinkedSetIsALine == base.policy = "LRU" => ListOperations(base.list)

(* The policies with an order evict the last item of their dump and let no *)
(* call move an item past a third one, though a segment of                 *)
(* SegmentedLruCache demotes items and LfuCache has no line at all.        *)
Ordered == base.policy \in {"LRU", "SLRU", "LFU", "FIFO"} /\ wrapper # "ttl"

Order == INSTANCE EvictionOrder WITH order <- IF Ordered THEN Dump(base) ELSE <<>>

ImplementsEvictionOrder == Order!Spec
=============================================================================
