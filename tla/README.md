# TLA+ models of the simulators of Comparison_New_Simulators

The repository compares simulators of information-centric networks (ICN) by running
the same scenarios on each. It holds the source of four of them. This directory
holds TLA+ modules for two, with the configurations with which TLC checks them and with
TLAPS proofs:

* **ccnSim 0.3** (C++), which the repository's authors extended themselves: the simulated
  network with its packets, timers and caches (sections 3 to 5);
* **Icarus 0.5.0** (Python): the cache policies, the strategies on a network of
  caches, and the campaign that runs the experiments in a pool of processes (sections 6 to 8).

The others are in the inventory and in the plan.

Paths are relative to `src/ccnsim-0.3/` in what concerns ccnSim and to
`src/icarus-0.5.0/icarus/` in what concerns Icarus, unless they start with `src/`. A release
build of ccnSim is modelled (`SEVERE_DEBUG` is commented out in `include/ccnsim.h:15`); what the
assertions of a debug build claim is stated as properties, and the counters only a
debug build keeps are in `CcnAccounting`.

## 1. Inventory

### ccnSim (C++ on OMNeT++)

| part | state | operations | what makes it correct |
|---|---|---|---|
| core layer, `src/node/core_layer.cc` | `PIT` (chunk to set of faces and a time), counters | `handle_interest`, `handle_data`, `handle_decision`, `clear_stat`, `finish` | whoever waits gets an answer; a node does not wait for what it holds; no chunk is fetched twice; the counters agree |
| client, `src/clients/client.cc` | `current_downloads` (a multimap from files to chunk number and time) | `request_file` at random times, `handle_incoming_chunk`, retransmission by `TIMER` | every download ends; only expected data arrives |
| content store, `src/node/cache/` | `base_cache` and four replacement policies: a linked list with a map (`lru`), a deque with a map (`fifo`, `random`, `two`) | `store`, `lookup`, `fake_lookup` | capacity; list or deque and map agree; the promised victim is evicted |
| decision policies, `include/*_policy.h`, `include/prob_cache.h`, `include/betweenness_centrality.h` | none, or weights | `data_to_cache` | - |
| strategies, `src/node/strategy/` | routing tables, for `nrr` also pointers to the caches of other nodes | `get_decision` | an interest reaches a copy; it does not wander |
| statistics, `src/statistics/statistics.cc` | phase, hit-rate samples | `full_check`, `stable_check`, `end`, `clear_stat`, `finish` | counters are cleared together; the reported figures mean what they say |
| content distribution, `src/content/` | catalogue, repositories, places of clients | runs once before the simulation | valid repositories and clients, bit masks wide enough |
| error handling, `src/error_handling.cc` | none | prints, aborts | - |

The parts interact by messages over links with a delay (interests towards copies, data
along the PIT entries back), by direct calls inside a node (core layer to content
store and strategy), by direct calls across nodes (`nrr` looks into remote caches, the
statistics module clears and reads everybody), and by static members
(`core_layer::repo_interest`, the catalogue). The simulator is single-threaded; what
is concurrent is the simulated network, one event at a time. The hard behaviours are
therefore the orders of packets of different links, packets that overtake what they
refer to (a replica that is evicted before the interest arrives, data that arrives when
nobody waits), retransmission timers that race with answers on their way, expiry of PIT
entries, several downloads of one file by one client, and clearing of counters between
any two events.

### Icarus (Python)

| part | state | operations | what makes it correct |
|---|---|---|---|
| cache policies, `models/cache.py` | `LinkedSet` (nodes with `up`, `down`, and `_map`); per policy a list, segments with a map, counters, a set with a deque or an array | `get`, `put`, `remove`, `has`, `clear`, `dump` of NULL, LRU, SLRU, LFU, FIFO, RAND | the structures of one cache agree; it holds no more than `maxlen`; the evicted item is the promised one, and is returned |
| wrappers, `models/cache.py:1254-1580` | `_val`, `expiry`, `_exp_list`, closed over by functions that replace an object's methods | `rand_insert_cache`, `keyval_cache`, `ttl_cache` | they keep something for exactly the items the policy holds |
| network, `execution/network.py` | topology, shortest paths, caches | `NetworkController`: sessions, forwarding, `get_content`, `put_content` | content travels from where it is to who asked |
| strategies, `models/strategy.py` | none of their own | 15 `process_event` | one answer per request, one closed session, copies where the strategy says |
| collectors, `execution/collectors.py` | counters of the session and of the experiment | `start_session` ... `end_session`, `results` | hits and misses add up to the sessions |
| engine, `execution/engine.py` | - | one loop over the workload | - |
| orchestration, `orchestration.py`, `run.py`, `results/readwrite.py` | `results`, `n_success`, `n_fail`, `stop`; a pool of processes | `run`, `run_scenario`, `experiment_callback`, signal handler, writing of results | every experiment counted once; what a signal finds is saved; the campaign ends |
| scenarios, plots, tools | - | topologies, placements, workloads, figures, trace parsing | - |

An experiment is one thread: its hard behaviours are long sequences of calls on linked structures,
methods replaced at run time while other methods still call them, dictionaries edited
while they are read, and branches of a strategy that forget a call of the protocol with the controller.
The campaign is concurrent: main thread, pool of processes, the pool's thread of
results, and signals that interrupt the main thread anywhere, the handler of another signal and
the writing of the file too; a worker that replaces a dead one handles signals itself.

### The others

| part | where | status |
|---|---|---|
| ccn-lite: relay core, forwarder, scheduler, fragmentation, NFN, codecs | `src/ccn-lite/src/`, about 35,000 lines of C | planned (section 12) |
| ndnSIM 2.0 with NFD | `src/ndnSim_2.0/ns-3/src/ndnSIM/`, about 45,000 lines of C++ | planned last |
| ndn-cxx, ns-3 with its generated Python bindings, pybindgen, `patch/ctopology`, fnss archive | `src/ndnSim_2.0/`, `src/icarus-0.5.0/` | third-party code, not modelled |
| ccnpl-sim, `src/Results`, `src/Documentation` | scripts, data, PDF | no program to model |

The components with their status are listed in `PROJECT.json`, the hazards with their
lines and the properties that cover them likewise.

## 2. Modules

```
CcnSim                the network: nodes, clients, links         (section 3)
  MCCcnSim            topologies and catalogues for TLC
  CcnAccounting       the network with counters and statistics   (section 4)
    MCCcnAccounting
  CcnSimProofs        theorems about both
ContentStore          what a content store promises              (section 5)
  LruOrder            least-recently-used order, a ContentStore
    LruCache          lru_cache with its pointers, a LruOrder
      MCLruCache
      LruCacheProofs
    LruOrderProofs
  QueueCache          fifo, random, two, each a ContentStore
    MCQueueCache
    QueueCacheProofs

LinkedSet             the doubly-linked set of Icarus            (section 6)
  IcarusPolicies      the six cache policies
    IcarusPoliciesProofs  theorems about both
    IcarusCache       a cache object with its wrappers
      MCIcarusCache
      IcarusCacheProofs
    IcarusNetwork     strategies, controller, collectors         (section 7)
      MCIcarusNetwork
      IcarusNetworkProofs
EvictionOrder         what an ordered policy promises
IcarusOrchestrator    a campaign of experiments                  (section 8)
  MCIcarusOrchestrator
  IcarusOrchestratorProofs
```

`CcnSim` uses content stores as sets, with any element as the victim. This is the
abstraction `ContentStore` justifies: the replacement policies are shown to implement it
in their own modules, and the condition under which the deque-based ones do so, that
only missing chunks are offered, is `PitCsDisjoint` of `CcnSim`. The composition is by
assume and guarantee: `QueueCache!Offered` is what the core layer guarantees.

`IcarusNetwork` runs its strategies on the cache objects of `IcarusPolicies` themselves, not on sets:
the two are composed by EXTENDS. `IcarusCache` is the same objects under every sequence
of calls, not only the ones a strategy makes.

`PROJECT.json` maps every definition to the lines it models.

## 3. The network: CcnSim

| variable | code |
|---|---|
| `pit[n][ch]` | `PIT[chunk].interfaces` of node `n`, `{}` when there is no entry |
| `aged[n]` | the chunks with `simTime() - PIT[chunk].time > 2*RTT` |
| `cs[n]` | the chunks in the content store of `n` |
| `want[c][i]` | the chunk the `i`-th entry of `current_downloads` of `c` waits for |
| `late[c]` | the entries with `simTime() - last > RTT` |
| `requested[c]` | number of files requested so far (bounds the model only) |
| `chan[<<a, b>>]` | packets on the link from `a` to `b`, in order |

Actions, each a whole event:

| action | code |
|---|---|
| `DiscardInterest` | `core_layer::handleMessage`, hop count reaches the TTL |
| `CacheHit`, `RepoHit`, `ForwardInterest`, `AggregateInterest` | the branches of `handle_interest` with `get_decision`, `handle_decision`, `add_to_pit`, `store` |
| `PendingData`, `UnsolicitedData` | the branches of `handle_data` |
| `RequestFile` | `ARRIVAL`: `request_file` and `send_interest` |
| `ChunkArrives` | `handle_incoming_chunk` |
| `TimerFires` | `TIMER`: the loop of resends |
| `BecomeLate`, `BecomeAged` | the clock passes `RTT`, `2*RTT` |

The strategies are operators: `ShortestPath` (spr), `NearestReplica` (nrr), `Flooding`
(nrr1), and the last case of `GetDecision` (parallel_repository). A strategy yields the set of
its possible decisions, ties being broken by a random number in the code.

Abstractions:

* *Time.* A packet may stay on a link for any time, links keep their order (an OMNeT++
  channel with a fixed delay does). Any interleaving the delays could cause is
  therefore included. Time appears only in the two comparisons above. With `SlowLinks =
  FALSE` they never become true: this is the configuration the comment of
  `omnetpp.ini:36` asks for, `RTT` much larger than any round trip. With `SlowLinks =
  TRUE` they may become true at any moment.
* *Client faces.* `networks/base.ned` gives them a delay of zero. `ZeroDelaySpec` adds that
  nothing else happens while a packet is on one; `Spec` leaves them a delay like any
  other link and so has more behaviours.
* *Routing tables* are the constants `Fib` and `Dist`. Most proofs use only that a first hop is a
  neighbour; where the length of a walk matters they assume `RoutesShorten` and `Diameter(D)`, what
  `populate_routing_table` (`strategy_layer.cc:71-120`) computes: first hops of shortest paths, all links
  of weight one. Tables read by `populate_from_file` may be others. The instances satisfy both (`RoutesAreShortest` of `MCCcnSim`).
* *Finite networks.* Nodes and clients are finite sets (`FinitenessAssumption`), as vectors of OMNeT++ modules are; the
  proofs that count packets need it.
* *Policies with random numbers* (`fix`, and in effect prob_cache, betweenness and the
  cost-aware ones) are a free choice, `DS = "fix"`.
* *Left out*: fields of packets that no modelled decision reads (capacity, TSI, price,
  betweenness, serial numbers, delay), `transparent_to_hops`, averages and vectors
  of statistics.

Properties:

* `TypeOK`, with the capacity of the content stores.
* `PitCsDisjoint`: no node waits for a chunk it holds.
* `NobodyForgotten`: while no timer fires, a node with a PIT entry and a client with a
  download has an answer on its way: its own interest, a crumb at the next node,
  or data.
* `OneAnswerPerRequest`: with spr, no timer and files of one chunk, there is exactly one
  such thing per waiting node and none for others. So no chunk is fetched twice and no
  data is unsolicited.
* `NoneExpires`: no interest that arrives has used up its TTL, so `DiscardInterest` never happens.
* `RetargetedOnce`: under nrr an interest turned away by a cache heads for a repository.
* `EveryDownloadEnds`: liveness.
* `QuietMeansDone`: what a comment promises; see section 10. The `RTT` timers never fire
  where it is checked.

`FairSpec` assumes: weak fairness of every link (`send` schedules an event, the event queue
delivers it), weak fairness of `BecomeLate` (the clock advances because the timer reschedules
itself every `check_time`), strong fairness of `TimerFires` (the same rescheduling; strong because the
bound `MaxInFlight` switches the action off and on, which the code does not). No fairness is
assumed of `RequestFile`, `BecomeAged` or of any choice among decisions.

## 4. Counters and statistics: CcnAccounting

Every event of `CcnSim` is conjoined with the counters it advances (`Counted`), and the
statistics module is added: `CachesFull` or `TenHoursPassed`, `HitRatesStable`, `End`. Each of the
first three clears all counters with `ClearStat` while packets are in flight. `received`
counts chunks per file, from which `Downloads` computes `tot_downloads` as the code does
with fractions. `repo_interest` is one variable because it is a static member.

* `CountersAgree`: the three assertions of `check_if_correct`, after every event.
* `SharedCounterIsSum`: the static counter is the sum of what the repositories of all nodes answered
  since it was last cleared, and at the end this sum is what the first node to finish records.

Whether the hit rates are stable is a free choice: the samples are floating-point numbers.
`CachesFull` allows nothing that `TenHoursPassed` does not; it is kept because it states the
condition of the code.

## 5. Content stores

`ContentStore` promises: a store adds the given chunk and removes at most one, and only when
full. `LruOrder` adds the order. `LruCache` models `lru_cache` with its pointers: cells are
allocated and freed, `heap` is the memory, and following a pointer to a freed cell is an error
of TLC's evaluation as well as of `NoDanglingPointer`. `ImplementsLruOrder` maps the list, walked from `mru`
along `older`, to the order. `QueueCache` models the three deque-based caches; `StoreFifo`, `StoreRandom` and `StoreTwo`
keep the order of their statements (the chunk enters the map before the victim
leaves it), which is what breaks when a held chunk is stored.

`C = 0` never reaches a replacement policy (`base_cache.cc:198`), hence the assumption that
`C` is positive.

## 6. Icarus caches: LinkedSet, IcarusPolicies, IcarusCache

`LinkedSet` models the class pointer by pointer. A node is named by its value, since `_map` has
one node per value; `up` and `down` are functions with the domain of `_map`. Every method is an
operator on such records and keeps the order of its assignments where they can overwrite
each other. `Represents(s, q)` says that the pointers of `s` are those of the sequence `q`.

`IcarusPolicies` gives every policy's `get`, `put`, `remove`, `clear` and `dump` as operators on the
attributes of the object. `put` returns a set of outcomes, an object and what it returned, because
RAND draws a victim. `has` is a parameter where the code calls `self.has`: a wrapper replaces it.

| variable of `IcarusCache` | code |
|---|---|
| `wrapper` | which function made the object |
| `base` | the attributes of its class |
| `val` | `_val` of `keyval_cache` |
| `expiry`, `expList` | `cache.expiry`, `cache._exp_list` of `ttl_cache` |
| `now` | `f_time()` |
| `latest` | history: the value last put for every key |

Actions: `PlainPut` (with or without the coin of `rand_insert_cache`), `KeyvalPut`, `TtlPut`, `Get`,
`RemoveItem`, `Clear`, `Purge`, `Tick`.

Properties:

* `PolicyStructuresAgree`: list, segments and map, set and deque, set and array hold the same items once,
  and fit; also after evictions, removals and clears that leave stale items in an array.
* `LinkedSetIsALine`: every method of the linked set, those no policy calls included, does to the
  pointers what its sequence says, at the top, at the bottom and between.
* `WrapperFollowsPolicy`: `_val` and `expiry` have exactly the items of the policy, with the value last put;
  `_exp_list` is a line of them ordered by expiry time.
* `PurgeIsExact`: the purge looks at the bottom only, and yet leaves nothing expired and takes nothing else.
* `PutTellsWhatLeft`: what `put` returns is what left. The wrappers rely on it.
* `ImplementsEvictionOrder`: LRU, SLRU, LFU and FIFO refine `EvictionOrder`, whose state is a line of items
  (the refinement mapping is `dump`): a hit only moves its own item away from the end, an insertion evicts the last.
* `InsertedOnce`: section 10.

Left out: `position` and `index`, which only read; wrappers around wrappers; `ttl_keyval_cache`, which raises
`NotImplementedError`; the values `LruCache` and others accept and ignore as further arguments.

## 7. Icarus network: IcarusNetwork

An experiment is single-threaded, and the engine hands out the next event when the strategy has
returned: a request is one step. All look-ups of a strategy come before its first insertion, so a
strategy is an operator that yields *plans*: the nodes it asks for the content (its calls of `get_content`), the node it
takes the content from, the hops of the request and of the content, the nodes told to store it, and whether `end_session` is called.
Coins and random choices make several plans.

Whether a node that is asked answers is not the plan's business: `Provides` is `get_content`, a look-up in the node's cache or
a question about the source's contents, and `Answering` the calls that report a hit. The collectors count those (`StatsAfter`), and
the serving node of a session is what they reported (`serving_node`), not what the strategy thinks.

| variable | code |
|---|---|
| `strategy` | the strategy of the experiment |
| `cache[v]` | the cache object of node `v` |
| `log` | the warm-up is over |
| `last` | the session as `TestCollector` records it |
| `stats` | the counters of `CacheHitRatioCollector`, `LatencyCollector`, `LinkLoadCollector` |

`Path` is `symmetrify_paths` applied to the paths of networkx: the loop reads what it has written, so
`Symmetrified[i]` is the table after `i` pairs. A path is a sequence of nodes, and the places of a path that have a
cache (`Stops`) are kept apart from the nodes there (`WayBack`): LCD takes the first such place.

Assumptions, each of which TLC evaluates: `PathAssumption` (the nodes are listed once, networkx returns a path between
any two of them and `<<u>>` from `u` to itself; not that the paths are shortest), `PlacementAssumption` (every content has a
source, neither a receiver nor a node with a cache is one, and no receiver has a cache: a node of the topology has one application), `StrategyAssumption`,
`BoundAssumption`. `Betweenness` is an integer with the order of the code's fraction, all that `max` looks at. One theorem uses
`ReceiversAreLeaves`, no path goes on behind a receiver, which is a hypothesis and not an assumption: section 10.

Properties: `ServedOnce` (the hits reported are as many as the sessions: every strategy asks until one node has the content and
nobody who has it after that, on which the ratios of `CacheHitRatioCollector` rest), `ContentIsDelivered` (the
request is a walk from the receiver to the serving node; the content leaves from where it is at every
hop and reaches the receiver), `SymmetricReturn` (what `symmetrify_paths` is for), `CachedWhereHashed` (a content under
hash-routing is in one cache, the one the hash names), `CopiesAreDelivered` (a copy appears only where the session brought it,
and only one where the strategy promises one), `SessionsAreClosed` (section 10).

Left out: floating-point figures, `PathStretchCollector`, distributions, methods that change the
topology (they raise `NotImplementedError`). `authoritative_cache` divides as Python 3 does; the rounding of the coin
probabilities does not matter as every outcome is allowed. The policy of the caches is LRU in the run; the theorems are about
all six, and a put into a RAND cache has an outcome for every victim (`CacheAfter`).

## 8. Icarus campaigns: IcarusOrchestrator

| variable | code |
|---|---|
| `parallel` | `PARALLEL_EXECUTION` |
| `pc` | where the main thread is: scheduling, waiting for `job_queue`, saving, in the handler, stopping the pool, gone |
| `status[j]`, `outcome[j]` | where an experiment is, and what `run_scenario` did: a tuple, `None`, an exception |
| `callback` | the experiment whose `experiment_callback` has counted and not yet stored |
| `n_success`, `n_fail`, `results` | the attributes of `Orchestrator` |
| `proc[w]`, `at[w]` | the process in slot `w` of the pool: at work, in the handler, gone; the experiment it runs |
| `heirs`, `copy[w]` | the slots whose process replaced a dead one, and the results it was forked with |
| `file` | the results that can be read from the output, or `Unreadable`: no file yet, an empty one, no whole pickle |
| `writer`, `buffer` | how far the main thread is in `write_results_pickle`, and what it has dumped |
| `left` | what writers that were broken off have dumped and not flushed |
| `signals`, `known` | how many signals came, and the results there were at the first one |

Three kinds of actors interleave: the main thread (`Schedule`, `Close`, `Join`, `OpenFile`, `DumpResults`, `CloseFile`,
`Terminate`, `Stop`, without a pool `RunHere` and `Finish`), the workers (`Take`, `Return`, `Die`, `HeirSignalled`, `HeirWrites`) and
the pool's thread of results (`Deliver` and `Store`, the two steps of the callback). The pool is Python's and modelled from how it is
used: a job is ready after its callback, an exception makes it ready without one, and the job of a killed worker never becomes ready.

*Writing.* `write_results_pickle` (`results/readwrite.py:177-178`) is three steps: `open(path, 'wb')` empties the file, `pickle.dump` fills a
buffer with the results of that moment, closing the file makes them readable. `run.run` and `handler` use the same writer.

*Signals.* `Signal` interrupts the main thread anywhere: before, between and after these steps, in the handler of another signal, in
`orch.stop`. It starts `handler` anew, and the one it interrupted never goes on, since `handler` ends in `sys.exit`. What the interrupted writer had
dumped is flushed when the frames are unwound, over whatever the file holds by then (`Interrupted`, `Unwound`): it may replace the
file, spoil it, or leave it as it is, the latter surely only if the same results are written over themselves, which give the same bytes.

*Replaced workers.* `Orchestrator(settings)` forks the first workers (`run.py:108`) before the handlers are installed (109-110): SIGTERM kills them.
A worker the pool forks later in place of a dead one inherits `handler`, with `orch.results` as it was at the fork: it is an heir. A signal to the process group
(`HeirSignalled`) or the SIGTERM of `pool.terminate` (`orchestration.py:64`, `Terminate`) makes it empty the output and write its copy (`HeirWrites`);
then its `orch.stop` fails, as the pool is not its child. `Stop`, the end of the program, waits for that.

Simplifications: a nested handler lets the pool go on replacing workers until `orch.stop` is reached again; a second signal to an
heir already in its handler is left out; the order of the pool's two queues is left free.

Properties: `CountedOnce`, `CompleteWithoutSignal` (a file without a signal is the whole campaign), `SignalSaves` (if no worker
has been replaced, a readable file at the end has all the results there were at the first signal, however many signals broke off which writes;
after a single signal it is readable, also if it came in the middle of the final save), `CampaignEnds` (liveness: unless a worker dies).
The condition `heirs = {}` is needed: without it the property is false, section 10. So is the one on a single signal.

`FairSpec` assumes weak fairness of the main thread, of the workers together and of the thread of results; nothing is assumed of
`Signal`, `Die` and `HeirSignalled`. An experiment that never returns is excluded by the fairness of the workers: nothing in the code
bounds its time.

## 9. Runs

| run | instance | what it shows |
|---|---|---|
| `spr_fast` | line of 3 nodes, 2 clients, 2 files, C = 1, lce, TTL = 3 | type, apartness, nobody forgotten, one answer, no expiry, liveness; no timer |
| `nrr_fast` | same line, a file of 2 chunks, C = 1, radius 2, TTL = 5 | stale replicas: retargeted once, nobody forgotten, liveness |
| `nrr1_slow` | triangle, TTL = 2, flooding, timers | floods that die at the hop limit, before the radius; retransmission and expiry: apartness and liveness |
| `accounting` | star of 4 nodes, 2 repositories, parallel_repository, lcd, TTL = 2, timers, phases | counters agree with discards, retransmissions, unsolicited data and clearing |
| `lru` | 5 chunks, C = 3, 4 cells | pointers implement the order |
| `queue` | 6 chunks, C = 3, any of the three policies | deque and map agree; each policy is a content store |
| `icarus_cache` | 4 items, size 3, 2 segments, 16 pairs of policy and wrapper | structures agree, wrappers follow, order of eviction |
| `icarus_network` | square with 3 caches of size 2, 3 contents, 15 strategies | sessions, walks, copies |
| `icarus_orchestrator` | 2 experiments, 2 processes, up to 3 signals, with and without pool | counting, saving under signals, replaced workers, end of a campaign |
| `nrr_crossing`, `ttl_fifo`, `hybrid_sm` | | each violates one claim, section 10 |

Bounds of ccnSim. `MaxRequests` bounds the downloads of a client, `MaxInFlight` the packets in flight at which a timer
still resends, `MaxCount` the packets a node counts. A line of three nodes has an entry node, a middle
node that aggregates for two sides and a repository; two clients at different nodes are enough to
aggregate, to evict the other's chunk with `C = 1` and to cross. Its diameter is 2: a TTL of 3 is the smallest that no
walk of spr reaches, and 5 the smallest for the two journeys of nrr; they stand for the 10000 of
`packets/ccn_interest.msg:18`, and one hop more than the code allows would show. Two requests per client make a
second download meet the caches, PIT entries and late data of the first. For lists, three
places have a first, a middle and a last one; one more chunk than places is needed to evict, and two
more let an evicted chunk return. `C = 1`, where the new lru is the chunk just stored, is covered
by the proofs, for `LruOrder`, `LruCache` and `QueueCache`; a run with `C = 1` reaches too few states to be kept.

Bounds of Icarus. Three places and four items have again a first, middle and last node and an eviction; two
segments of sizes 2 and 1 promote and demote, and the shorter one is full with one item. `MaxFreq` = 2 lets a
frequency be equal, smaller and greater than another's; `MaxPuts` = 4 is one insertion
more than fits. With expiry times of 1, 2 or never and two ticks, items expire before, at and after each other
and are renewed with earlier and later times. The square has two shortest paths between opposite corners, which the
constant `RawPath` resolves differently in the two directions: this is what `symmetrify_paths` is about, and one
authoritative cache is on the way, one off it, one at the fork. `MaxSessions` = 2 bounds the *measured*
requests; the warm-up before is not bounded, so sessions start from every filling of the caches. Two experiments run at once in
two processes, or one waits while a process is replaced; their callbacks follow each other, and one may be half done when a signal comes.
`MaxSignals` = 3 lets a signal break off the writing of a handler that itself broke off the final save, and be broken off in turn; the
proofs are for any numbers.

Deadlock is not checked where the system may stop: the ccnSim network when all allowed requests are
answered, an Icarus experiment at the last session, a campaign at its end or with a lost job. It is
checked in the runs of caches, which always accept a call.

Every property of a passing run has a mutant in `PROJECT.json`, an operator that changes one definition as a
slip in the code would (a face that replaces the others, a PIT entry not erased, a
pointer not reset, a counter not cleared, a demoted item left in its segment's map, a job joined
before its callback). TLC finds the property violated with each.

## 10. Disagreements between code and comments

Shown by a run:

1. **Crossing interests of nrr wait for each other** (`nrr_crossing`). `packets/ccn_interest.msg:30-33` says that
   `aggregate` is set to false to avoid that interests in a loop disappear; it is set
   only at the target. Two interests under way to replicas behind each other's node are
   aggregated into each other's PIT entries. The retransmission by the client's timer repairs it
   (and nothing else does).
2. **A FIFO cache with expiry times takes an item twice** (`ttl_fifo`). `models/cache.py:570-571` promises that a present
   item is not inserted again. `FifoCache.put` asks `self.has`, which `ttl_cache` makes deny an expired item, and
   a cache that is not full is not purged. The deque has the item twice, and the second eviction of it raises
   `KeyError`. `models/tests/test_cache.py:677` builds this object.
3. **Hybrid symmetric-multicast hash-routing leaves sessions open** (`hybrid_sm`). The call of `end_session` at
   `models/strategy.py:401` is indented into one branch; latency and stretch of all other sessions are lost.

Read in the code while modelling it, without a run of their own:

* ccnSim. The debug build aborts in `client.cc:308` on data nobody waits for, which `core_layer.cc:722-727` calls not
  necessarily an error: overlapping downloads of one file by one client cause it. Under spr a pending chunk may be asked for
  again, against `modules/node/core_layer.ned:8-10`, because the client copies the target of the data into its next
  interest (`client.cc:367`). `statistics.cc:319` subtracts chunks from files, both unsigned. The scalar `repo_int[i]`
  is not about node `i`: the counter is static and the first node to finish reports the sum (`core_layer.cc:220-225`).
* Icarus caches. `ttl_cache` around `LfuCache` raises `KeyError` when the new item evicts itself; `has` and `get` of `ttl_cache`
  disagree at the very moment an item expires, and its `remove` raises for an absent key; an `LfuCache` full of items
  asked for twice never admits a new one. `keyval_cache` around NULL or around `rand_insert_cache` keeps values of
  items that were never stored. A wrapper around a wrapped object is bound to the methods it found.
* Icarus network. `models/strategy.py:711-712` speaks of the topologically closest copy, 731-732 minimise the *sum of
  the identifiers* of the nodes on the path: the model has the sum. `forward_request_path` and `forward_content_path` ignore
  their parameter `main_path` (`execution/network.py:402,419`), `get_content` reports to a collector that may be
  absent (500-503), `PathStretchCollector` divides a number of hops by a number of nodes, `LinkLoadCollector.results` divides
  by a duration that is zero for one session.
* Icarus network, found by a proof that failed. `HashroutingHybridAM` looks for the node where the path to the cache and the path to
  the receiver part (`models/strategy.py:323-328`). If the path to the receiver is the beginning of the path to the cache, the loop
  ends without a `break`, and its `else` makes the *cache* the fork: the distance is then 0, nothing is forwarded and the
  cache is given a content that never travelled to it, against the docstring (278: "then one copy is sent to the authoritative
  cache as well"). Receivers must be on the way to other nodes for this: `topology.py:365-404`, the topology of `config_Grid100.py:287`,
  puts them on the nodes of a grid. The same loop in `HR_MULTICAST` (260) and `HR_HYBRID_SM` (382) does no harm, as both forward from
  the source to the fork first. `CopiesFollowDelivery` has the exact hypothesis; the run's receivers are leaves.
* Icarus campaigns, the replaced worker. `run.py:28` says of `handler` that "its function is simply to write on a file the partial results". A
  worker forked after the handlers were installed inherits it with a copy of the results of that moment. Whenever it gets a signal, of the process group
  or of `pool.terminate` (`orchestration.py:64`), it writes this older copy over the output (`run.py:40`): results the main process has just saved are
  lost. The steps are in the model (`Ends`, `Terminate`, `HeirWrites`), and TLC finds the loss as soon as the condition `heirs = {}` is
  dropped from `SignalSaves`, which therefore has it. It takes one worker that dies and one signal.
* Icarus campaigns, broken-off writes. The writer truncates the file before it pickles (`results/readwrite.py:177-178`). A second signal in the
  handler's write leaves an empty file until the nested handler has written, and the flush of the interrupted writer may spoil
  that again: after two signals the file may be unreadable. `SignalSaves` claims readability after one signal only.
* Icarus campaigns. A result that arrives between the handler's dump and its stop is not saved; an exception that leaves
  the handler of `run_scenario` is counted neither as a success nor as a failure; a job whose worker was killed keeps the main thread
  polling for ever (hence the exception in `CampaignEnds`).

## 11. Proofs

The theorems hold for every value of the constants that the named assumptions of the
modules admit. TLC evaluates the assumptions in every run. For ccnSim this is any topology with symmetric neighbours, any
routing tables whose first hops are
neighbours, any catalogue in which every file has a chunk and a repository, any capacity, policy,
strategy and TTL.

* `TypeCorrect`: `Spec => []TypeOK`. `TypeOK` is inductive. The work is in `StoreOutcome` (a full store stays
  within its capacity) and in the packets a client sends (`ChunkArrivesPackets`, `TimerFiresPackets`).
* `PitCsApart`: `Spec => []PitCsDisjoint`. Not inductive alone: `RepoHit` offers a chunk to the store without
  looking at the PIT, which is harmless only because an owner never has a PIT entry for its
  files. `OwnersNeverWait` states this; the invariant is `TypeOK /\ OwnersNeverWait /\ PitCsDisjoint`.
* `NrrRetargetsOnce`: `FS = "nrr"` and `Spec` imply `[]RetargetedOnce`. The property is a type of packets,
  `Settled`; the lemmas that show that the client, the strategy and the transfer send typed packets
  are stated for any set of packets and serve both `TypeCorrect` and this theorem.
* `SprNeverExpires`, `NrrNeverExpires`: `RoutesShorten`, `Diameter(D)` and a TTL above `D` (spr) or `2 * D` (nrr)
  imply `Spec => []NoneExpires`. The invariant is a budget for every interest on every link: the hops made and the
  distance still to go to a repository of its file do not exceed `D` (`SprBudget`); under nrr an interest that still looks for a
  replica has used up the first journey at most, one that has been turned away the first and its share of the second (`NrrBudget`).
* `NobodyForgottenWhileNoneExpires`, `NobodyIsForgotten`: whoever waits is owed an answer. The first is for every strategy but
  `nrr1`, which floods up to a radius and forgets by design, on any routing tables, as long as no interest has expired; the
  second adds the two theorems above. The inductive invariant is `Calm` (nothing is late or aged, which `SlowLinks = FALSE` keeps), `FacesLinked` (a
  PIT entry names neighbours only) and `AllOwed`, which says of every node *and* every client what the property says: an
  own interest on a link, a crumb at a neighbour, or data. The cases are the packets an event takes and adds; the crumb that replaces
  an interest and the data that replaces a crumb are found in the same step.
* `OneAnswer`: under spr with aggregation, on fast links and shortest routes with files of one chunk, `Spec => []OneAnswerPerRequest`. It counts: the
  interests of `x` for a chunk, the crumbs for `x` and the data on the way to `x` are cardinalities of sets of places on links
  and of nodes, and the lemmas (`TakenPlaces`, `JoinedPlaces`, `SentPlaces`, `CrumbAdded`, `CrumbsErased`) say
  what a packet taken, a message sent and a PIT write add and remove. The invariant `OneEach` says of their sum (`Weight`) that it is one for every
  node and chunk with a PIT entry and zero without: the zero is what an entry made anew or erased needs. It leans on `Plain`, the
  packets spr sends, and on `Calm`, which also says that no interest is a retransmission.
* `AccountingImplementsCcnSim`: `AccSpec => Spec`; every theorem about `CcnSim` holds of the counted network.
* `CountersAlwaysAgree`: `AccSpec => []CountersAgree`, with the counters' type as strengthening (`CountersOK`). One
  event adds one of six sets of counters, and each set keeps the equations.
* `SharedCounterIsAlwaysSum`: `AccSpec => []SharedCounterIsSum`, for any finite number of nodes. The property's sum is a fold; that *some* function
  adds up the nodes one by one is an induction over sets, done as a least counterexample in the number of nodes (`SumExists`), any two
  such functions agree (`SumIsUnique`), and a count that grows at one node grows the sum (`SumGrows`).
* `MapAlwaysMatchesDeque`, `QueueCacheImplementsContentStore`: for the three deque-based caches.
  Lemmas on appending to, shortening and overwriting sequences without repetition, and on the cardinality of
  their range, come first.
* `OrderAlwaysOK`, `LruOrderImplementsContentStore`: the same for the least-recently-used order.
  `LruOrder` has no run of its own: the run `lru` checks that `LruCache` implements it, and these two theorems
  carry the result on to `ContentStore`, for a capacity `HasRoom` says is positive.
* `LruCacheProofs`: `TypeCorrect`, `NothingDangles`, `MapAndListAlwaysAgree` and `LruCacheImplementsLruOrder`, for every capacity,
  catalogue and memory. The inductive invariant `IsLine` says that *some* list of distinct positions has the pointers `older` and `newer` both
  ways, the ends and the map of the state. A hit reorders the list (`Fronted`), a store puts a position before it (`Before`) and
  a full cache cuts its last place (`Cut`); each is proved from the assignments of the code in their order. `Walk` is a recursive function: that it finds the
  places of the list one by one (`WalkIsLine`) is proved by the least place where it would not, which exists by
  `LeastNumber`. `LruCacheImplementsContentStore` composes this refinement with the one of `LruOrderProofs`, by INSTANCE.

Icarus:

* `IcarusPoliciesProofs`, for a linked set of any length. `Line(s, q, T)` says that `s` represents a sequence `q` of items of `T` without
  repetition; a theorem for each method names the sequence after the call: `AppendTopKeepsLine`, `AppendBottomKeepsLine`,
  `InsertAboveKeepsLine`, `InsertBelowKeepsLine`, `RemoveKeepsLine`, `PopTopKeepsLine`, `PopBottomKeepsLine`, `MoveToTopKeepsLine`,
  `MoveToBottomKeepsLine`, `MoveUpKeepsLine`, `MoveDownKeepsLine`. Two shapes carry them: `SpliceLine` puts a node
  between two neighbours, `RemoveShape` takes one out. `MoveToTop` is a removal and an append; `MoveUp`, four nodes relinked at once, is shown to
  write the pointers of a removal and an insertion one place higher (`UnlinkedShape`, `Relinked`), the ends of the list being cases of their own
  as in the code. The bottom and downward methods are the top and upward ones on the mirrored set, `up` and `down` exchanged: `MirroredOperations`
  compares them assignment by assignment, and reversing the sequence brings the result back.
  `ListingIs` says that the iterator, a recursion along `down`, yields exactly `q`: at the least place where it would not, it would.
  Beside the linked set, `Sound` says for each of the six policies what a good object is: LRU a line that fits; SLRU a line per
  segment and a map that names the segment of each item; LFU positive counts with times no later than its own; FIFO a deque without
  repetition over exactly the set; RAND an array whose first places are the set, whatever is left behind them. `PutContract`, `GetContract`,
  `RemoveContract`, `ClearContract` and `NewContract` say for all of them what a call makes of a sound object, what it returns, and which
  items it leaves; `SoundFits` that a sound object never exceeds its size. `put` asks `self.has`, which `ttl_cache`
  replaces by one that says no to an expired item: `Answers` is what the answer must then satisfy, and FIFO's `put` does not bear it.
* `IcarusCacheProofs`, for any set of items, any size and number of segments, and every pair of policy and wrapper of `SoundPairs`. The
  hypothesis `SoundKinds`, `Kind \subseteq SoundPairs`, leaves out `ttl_cache` around FIFO, for which the claims are false (run `ttl_fifo`, section 10), and
  `keyval_cache` and `ttl_cache` around NULL, which keep a value or a time for an item the policy never holds.
  * `CacheTypes`, `StructuresAlwaysAgree`, `WrappersFollow`, `PurgesAreExact`, `PutsTell`, `LinkedSetsAreLines`: every invariant
    of the run `icarus_cache`, in the order `TypeOK`, `PolicyStructuresAgree`, `WrapperFollowsPolicy`, `PurgeIsExact`, `PutTellsWhatLeft`, `LinkedSetIsALine`. The inductive
    invariant `SoundInv` says that the object is `Sound`, that `_val` has the history's value for each item held, and `Timed`: that *some* line of exactly the items held
    represents `_exp_list`, in descending order of `expiry`. The order is what the loop of `put` over `_exp_list` establishes for the new item, and what lets
    the purge stop at the first item that has not expired. The purge is followed turn by turn (`Turns`): after `i` turns the last `i` items of the line are gone
    from all three structures, and the number of turns is the number of expired items.
  * `PoliciesImplementEvictionOrder` (`ImplementsEvictionOrder`): LRU, SLRU, LFU and FIFO, plain, under `rand_insert_cache` and under `keyval_cache`, implement the order of
    eviction, step by step under the mapping `dump`; the other kinds map to a constant. Soundness does not say in which order a policy evicts. `Arranged` does: the items stand in one line, which is
    the list, the segments one after the other, the items by descending count and time, or the deque. `Turn` is what a call may do to that line, and
    `CallsTurn` finds it in the `get`, `put`, `remove` and `clear` of each policy. An SLRU hit that promotes an item demotes another across the border of two segments, which moves only the one item of the joined line;
    an LFU hit moves an item as far as its new count takes it, and its new item enters at the place its count gives it. `DumpIs` shows that `dump` yields the line.
* `IcarusNetworkProofs`, for any network, placement and number of sessions. `PathsAreSymmetric`: after the double loop, which overwrites what it later reads,
  `Path[v][u]` is `Path[u][v]` reversed, and still a path of the network. The invariant of the loop (`LoopIsPairs`) says which of the two directions every pair
  has after `i` turns. `SessionsAreServedOnce`, `SessionsDeliver`, `SessionsReturn` (`ServedOnce`, `ContentIsDelivered`, `SymmetricReturn`) hold for every
  cache policy: `GoodPlan` says what every plan of every one of the 15 strategies is like, one lemma for each, and `SessionInv` follows.
  The part of `GoodPlan` behind the first of them is `Answered`: of the nodes asked exactly one has the content, the one the strategy takes it from. On a path this is
  the break at the first hit, with the source, which has no cache, behind all misses; the others look before they ask or ask the source after a miss.
  So do `HashingDecidesWhere` (`CachedWhereHashed`), `NetworkTypes` (`TypeOK`) and `CopiesFollowDelivery` (`CopiesAreDelivered`, an action property), from
  `CacheInv`, every cache `Sound` and of the one policy, and the contracts of the previous modules: the strategy need not know which policy it fills. The last theorem is about any strategies where receivers are leaves, and
  about all but `HR_HYBRID_AM` elsewhere; section 10 says why it cannot say more.
* `IcarusOrchestratorProofs`, for any number of experiments, processes and signals: `TypeCorrect`, `CountingIsCorrect`, `SavingIsComplete`,
  `SignalsSave`. The inductive invariant is `TypeOK /\ Places /\ Slots /\ SavedLate /\ Kept /\ Counts`. `Places` says
  where an experiment is: in the callback or in the results only if it succeeded, in the results exactly if it is ready. `Slots` says that a worker
  runs experiments that are running, no two the same, and that only heirs write, after a signal.
  `SavedLate` says that without a signal nothing is written before all experiments are ready and all workers gone, and then what is written is all.
  `Kept` says of a campaign without heirs what the first signal found and no later step takes away: it is in what a writer has
  dumped, in what every interrupted one left behind and in the file; after a single signal (`KeptByOne`) a writer can only have been interrupted in the final save, so that
  what it left is the same as what the handler writes. `Counts` is the counting itself, not inductive alone: a second
  delivery of one experiment is excluded by `Places`.

Only model-checked: liveness (`CampaignEnds` and that of the runs of ccnSim), since TLAPS has no support for fairness and ENABLED
here. Every safety invariant, action property and refinement of the passing runs is stated by a theorem.

Induction by the library's theorems, which take an operator as parameter, is out of the provers' reach; where a recursive function is walked
along a list, a set or the turns of a loop the least counterexample replaces it (`LeastNumber`).

## 12. Plan

In order of importance:

1. ccn-lite relay core (`ccnl-core.c`, `ccnl-core-fwd.c`): PIT with several faces per interest, content store
   and its eviction (`ccnl_content_add2cache`), `ccnl_content_serve_pending`, ageing with
   retransmission; an abstract specification of a relay, runs with two faces and a small cache.
2. ccnSim content distribution: `init_repos`, `init_clients`, the bit fields of the catalogue with their
   widths; `ProbabilisticSplitStrategy`; the stateful decision policies.
3. ccn-lite scheduler and fragmentation: sequence numbers, lost and reordered fragments.
4. NFD pipelines (`forwarder.cpp`, `pit.cpp`, `cs`), abstractly: PIT timers against late data.

## 13. Not modelled

Packet codecs and the lambda calculus of NFN (data rather than control); floating-point statistics, numerical estimates of hit
ratios, plotting and result formats; topology, placement and workload generators, which run before an experiment
and whose results are constants and choices of the models; ndn-cxx, ns-3 with its generated bindings, pybindgen and other
third-party libraries; ccnpl-sim, of which the repository has no program.
