----------------------------- MODULE QueueCache -----------------------------
(***************************************************************************)
(* The content stores of ccnSim that keep a deque and a map: fifo_cache,   *)
(* random_cache and two_cache.                                             *)
(*                                                                         *)
(* Their data_store does not look whether the chunk is there already.  It  *)
(* never is: a node stores only what it waits for, and it does not wait    *)
(* for what it holds (PitCsDisjoint of CcnSim).                            *)
(***************************************************************************)
EXTENDS Integers, FiniteSets, Sequences

CONSTANTS
  Chunk,   \* the chunks of the catalogue
  Rank,    \* Rank[ch]: the popularity rank of its file, 1 being the first
  C        \* capacity of the cache, in chunks

ASSUME CapacityAssumption == C \in Nat \ {0}
ASSUME RankAssumption == Rank \in [Chunk -> Nat]

VARIABLES
  policy,   \* the class of the content store, a parameter of the run
  deq,      \* the chunks in their places
  cache     \* the chunks the map says are there

vars == <<policy, deq, cache>>

Held == {deq[i] : i \in DOMAIN deq}

(* fifo_cache::data_store: the chunk is entered first, then the front      *)
(* leaves a deque that has become too long.                                *)
StoreFifo(ch) ==
  LET d == Append(deq, ch) IN
    IF Len(d) > C
    THEN deq' = Tail(d) /\ cache' = (cache \cup {ch}) \ {Head(d)}
    ELSE deq' = d /\ cache' = cache \cup {ch}

(* A chunk takes place pos of the deque, or a new place when there is one. *)
Replace(ch, pos) ==
  /\ deq' = [deq EXCEPT ![pos] = ch]
  /\ cache' = (cache \cup {ch}) \ {deq[pos]}

Place(ch) == deq' = Append(deq, ch) /\ cache' = cache \cup {ch}

(* random_cache::data_store: any element is replaced.                      *)
StoreRandom(ch) ==
  IF Len(deq) = C THEN \E pos \in DOMAIN deq : Replace(ch, pos) ELSE Place(ch)

(* two_cache::data_store: of two elements drawn, the same one perhaps, the *)
(* one of the more popular file is replaced, either one when they are of   *)
(* the same file.                                                          *)
MorePopular(pos1, pos2) ==
  IF Rank[deq[pos1]] > Rank[deq[pos2]] THEN {pos2}
  ELSE IF Rank[deq[pos1]] = Rank[deq[pos2]] THEN {pos1, pos2}
  ELSE {pos1}

StoreTwo(ch) ==
  IF Len(deq) = C
  THEN \E pos1, pos2 \in DOMAIN deq :
         \E pos \in MorePopular(pos1, pos2) : Replace(ch, pos)
  ELSE Place(ch)

DataStore(ch) == \/ policy = "fifo"   /\ StoreFifo(ch)
                 \/ policy = "random" /\ StoreRandom(ch)
                 \/ policy = "two"    /\ StoreTwo(ch)

(* Mutation: the core layer stores whatever comes in.                      *)
OfferedAny(ch) == TRUE

(* The core layer offers a chunk after a lookup that failed.               *)
Offered(ch) == ch \notin cache

Init == policy \in {"fifo", "random", "two"} /\ deq = <<>> /\ cache = {}

Next == /\ \E ch \in Chunk : Offered(ch) /\ DataStore(ch)
        /\ UNCHANGED policy

Spec == Init /\ [][Next]_vars
-----------------------------------------------------------------------------
(* The deque and the map hold the same chunks, each once, and no more than *)
(* C of them: a lookup in the map finds what the deque will evict.         *)
MapMatchesDeque ==
  /\ deq \in Seq(Chunk) /\ Len(deq) =< C
  /\ cache = Held
  /\ \A i, j \in DOMAIN deq : deq[i] = deq[j] => i = j

Store == INSTANCE ContentStore WITH content <- cache

(* Every policy stores what it is given and evicts one chunk at most.      *)
ImplementsContentStore == Store!Spec
=============================================================================
