--------------------------- MODULE CcnAccounting ---------------------------
(***************************************************************************)
(* The statistics of a ccnSim run: the counters of every core layer and    *)
(* content store, the downloads of the clients, and the statistics module, *)
(* which clears them when the caches are full and when the hit rates are   *)
(* stable, and reports them at the end.                                    *)
(*                                                                         *)
(* Every event of CcnSim is taken with the counters it advances.  Those    *)
(* that only a SEVERE_DEBUG build keeps are included: its assertions are   *)
(* among the properties.                                                   *)
(***************************************************************************)
EXTENDS CcnSim, FiniteSetsExt

CONSTANTS
  PartialN,    \* partial_n: the nodes that must be full, and stable
  FirstNode,   \* the node whose core layer finishes first
  MaxCount     \* bound: the interests and data a node counts

ASSUME StatisticsAssumption ==
  /\ PartialN \in 0 .. Cardinality(Node)
  /\ FirstNode \in Node
  /\ MaxCount \in Nat

VARIABLES
  count,           \* count[n][x]: counter x of node n
  repo_interest,   \* the static member of core_layer that all nodes share
  received,        \* received[c][f]: chunks of f counted in tot_downloads
  phase,           \* what the statistics module waits for
  repo_int         \* repo_int[n]: the scalar recorded by n in finish

counters == <<count, repo_interest, received, phase, repo_int>>
accVars  == <<vars, counters>>

Counter == {"interests", "discarded_interests", "unsatisfied_interests",
            "interests_satisfied_by_cache", "repo_load", "data",
            "unsolicited_data", "decision_yes", "decision_no", "hit", "miss"}
-----------------------------------------------------------------------------
Counted(n, xs) ==
  /\ count[n]["interests"] + count[n]["data"] < MaxCount
  /\ count' = [count EXCEPT ![n] = [x \in Counter |->
                 IF x \in xs THEN count[n][x] + 1 ELSE count[n][x]]]
  /\ UNCHANGED <<received, phase, repo_int>>

(* base_cache::store counts what the decision policy decided about a chunk *)
(* that was not there: afterwards it is, or it is not.                     *)
Decided(n, ch) == IF ch \in cs'[n] THEN "decision_yes" ELSE "decision_no"

CountInterest(l) ==
  \/ /\ DiscardInterest(l)
     /\ Counted(l[2], {"interests", "discarded_interests"})
     /\ UNCHANGED repo_interest
  \/ /\ CacheHit(l)
     /\ Counted(l[2], {"interests", "hit", "interests_satisfied_by_cache"})
     /\ UNCHANGED repo_interest
  \/ /\ RepoHit(l)
     /\ Counted(l[2], {"interests", "miss", "repo_load",
                       Decided(l[2], Head(chan[l]).chunk)})
     /\ repo_interest' = repo_interest + 1
  \/ /\ ForwardInterest(l) \/ AggregateInterest(l)
     /\ Counted(l[2], {"interests", "miss", "unsatisfied_interests"})
     /\ UNCHANGED repo_interest

CountData(l) ==
  /\ \/ /\ PendingData(l)
        /\ Counted(l[2], {"data", Decided(l[2], Head(chan[l]).chunk)})
     \/ /\ UnsolicitedData(l)
        /\ Counted(l[2], {"data", "unsolicited_data"})
  /\ UNCHANGED repo_interest

(* handle_incoming_chunk adds 1/size to tot_downloads for every chunk that *)
(* arrives, also when two downloads wait for it, or none.                  *)
CountChunk(l) ==
  /\ ChunkArrives(l)
  /\ received' = [received EXCEPT ![l[2]][Head(chan[l]).chunk[1]] = @ + 1]
  /\ UNCHANGED <<count, repo_interest, phase, repo_int>>

CountNothing ==
  /\ \/ \E c \in Client : RequestFile(c) \/ TimerFires(c)
     \/ \E c \in Client, i \in Serial : BecomeLate(c, i)
     \/ \E n \in Node, ch \in Chunk : BecomeAged(n, ch)
  /\ UNCHANGED counters
-----------------------------------------------------------------------------
(* Mutation: clear_stat of the content stores leaves the decisions.        *)
ClearedCountsButDecisions ==
  [n \in Node |-> [x \in Counter |->
     IF x \in {"decision_yes", "decision_no"} THEN count[n][x] ELSE 0]]

(* statistics::clear_stat: the clients, the core layers, the caches.       *)
ClearedCounts == [n \in Node |-> [x \in Counter |-> 0]]

(* Mutation: the counter the core layers share is not cleared.             *)
ClearStatButShared ==
  /\ count' = ClearedCounts
  /\ received' = [c \in Client |-> [f \in Name |-> 0]]
  /\ UNCHANGED <<vars, repo_interest, repo_int>>

ClearStat ==
  /\ count' = ClearedCounts
  /\ repo_interest' = 0
  /\ received' = [c \in Client |-> [f \in Name |-> 0]]
  /\ UNCHANGED <<vars, repo_int>>

(* full_check: PartialN caches are full, or ten hours have passed.         *)
CachesFull ==
  /\ phase = "filling"
  /\ Cardinality({n \in Node : Cardinality(cs[n]) = C}) >= PartialN
  /\ ClearStat
  /\ phase' = "stabilising"

TenHoursPassed ==
  /\ phase = "filling"
  /\ ClearStat
  /\ phase' = "stabilising"

(* stable_check: the variance of the hit rates is low enough at PartialN   *)
(* nodes.  Samples are not modelled: the check may succeed at any time.    *)
HitRatesStable ==
  /\ phase = "stabilising"
  /\ ClearStat
  /\ phase' = "steady"

(* The end of the simulation: every core layer records repo_interest and   *)
(* resets it, so that only the first to finish records it.                 *)
End ==
  /\ phase = "steady"
  /\ phase' = "ended"
  /\ repo_int' = [repo_int EXCEPT ![FirstNode] = repo_interest]
  /\ repo_interest' = 0
  /\ UNCHANGED <<vars, count, received>>
-----------------------------------------------------------------------------
AccInit == /\ Init
           /\ count = [n \in Node |-> [x \in Counter |-> 0]]
           /\ repo_interest = 0
           /\ received = [c \in Client |-> [f \in Name |-> 0]]
           /\ phase = "filling"
           /\ repo_int = [n \in Node |-> 0]

AccNext == \/ /\ phase # "ended"
              /\ \/ \E l \in Link : CountInterest(l) \/ CountData(l) \/ CountChunk(l)
                 \/ CountNothing
           \/ CachesFull
           \/ TenHoursPassed
           \/ HitRatesStable
           \/ End

AccSpec == AccInit /\ [][AccNext]_accVars
-----------------------------------------------------------------------------
(* The assertions of core_layer::check_if_correct, which a debug build     *)
(* evaluates at every event: an interest is discarded, answered by the     *)
(* cache or the repository, or unsatisfied; only the owner of a repository *)
(* answers from it; and every chunk that a node takes in is decided upon.  *)
CountersAgree ==
  \A n \in Node :
    /\ count[n]["repo_load"] = count[n]["interests"]
                                 - count[n]["discarded_interests"]
                                 - count[n]["unsatisfied_interests"]
                                 - count[n]["interests_satisfied_by_cache"]
    /\ (\A f \in Name : n \notin Repos[f]) => count[n]["repo_load"] = 0
    /\ count[n]["decision_yes"] + count[n]["decision_no"]
         + count[n]["unsolicited_data"]
       = count[n]["data"] + count[n]["repo_load"]

RepoLoad == MapThenSumSet(LAMBDA n : count[n]["repo_load"], Node)

(* The counter all core layers share is the sum of what the repositories   *)
(* of all nodes answered since the last clearing, up to the end, and this  *)
(* sum is what the first node to finish records.                           *)
SharedCounterIsSum ==
  RepoLoad = IF phase = "ended" THEN repo_int[FirstNode] ELSE repo_interest
=============================================================================
