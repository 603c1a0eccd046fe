------------------------- MODULE IcarusOrchestrator -------------------------
(***************************************************************************)
(* A campaign of Icarus: run.py starts an Orchestrator (orchestration.py)  *)
(* that runs every experiment, in a pool of processes or one after the     *)
(* other, counts it, stores its results and saves them at the end; a       *)
(* signal makes the main process save what there is and stop.              *)
(*                                                                         *)
(* Three kinds of actors run concurrently: the main thread, the workers of *)
(* the pool, and the pool's thread of results, which calls                 *)
(* experiment_callback in the main process and then makes the job ready.   *)
(* The pool is Python's: it is modelled from how it is used here.  The     *)
(* order of its two queues is left out, so an experiment may overtake      *)
(* another one wherever it could wait in a queue with it.                  *)
(*                                                                         *)
(* The first workers are forked before run.run installs handler, those     *)
(* that replace a dead one after it: an heir has the handler and a copy of *)
(* the results of that moment, and on a signal it writes the copy.         *)
(***************************************************************************)
EXTENDS Integers, FiniteSets

CONSTANTS
  Job,          \* the experiments, with their replications
  N_PROCESSES,
  MaxSignals,   \* bound: the signals a campaign gets
  Unreadable    \* a file that is not there, empty, or no whole pickle

ASSUME OrchestratorAssumption ==
  /\ IsFiniteSet(Job)
  /\ N_PROCESSES \in Nat \ {0}
  /\ MaxSignals \in Nat
  /\ \A S \in SUBSET Job : Unreadable # S

VARIABLES
  parallel,   \* PARALLEL_EXECUTION
  pc,         \* where the main thread is
  status,     \* how far every experiment has come
  outcome,    \* what run_scenario did: a tuple, None, or an exception
  callback,   \* the experiments whose callback is between its two steps
  n_success, n_fail,
  results,    \* the experiments whose results are in the ResultSet
  proc,       \* the process in every slot of the pool
  at,         \* the experiment it runs
  heirs,      \* the slots whose process has been replaced
  copy,       \* the results it was forked with
  file,       \* the experiments whose results can be read from the file
  writer,     \* the file object of the writer the main thread is in
  buffer,     \* what it has dumped
  left,       \* what the writers that were interrupted have dumped
  signals,    \* how many signals came
  known       \* the results when the first of them came

jobs == <<status, outcome, callback, n_success, n_fail, results>>

pool == <<proc, at, heirs, copy>>

output == <<file, writer, buffer, left, signals, known>>

vars == <<parallel, pc, jobs, pool, output>>

Worker == 1..N_PROCESSES

With(st) == {j \in Job : status[j] = st}

Init ==
  /\ parallel \in BOOLEAN
  /\ pc = "scheduling"
  /\ status = [j \in Job |-> "planned"]
  /\ outcome = [j \in Job |-> "unknown"]
  /\ callback = {}
  /\ n_success = 0 /\ n_fail = 0
  /\ results = {}
  /\ proc = [w \in Worker |-> IF parallel THEN "up" ELSE "gone"]
  /\ at = [w \in Worker |-> {}] /\ copy = [w \in Worker |-> {}] /\ heirs = {}
  /\ file = Unreadable /\ writer = "closed" /\ buffer = {} /\ left = {}
  /\ signals = 0 /\ known = {}

Set(j, st) == status' = [status EXCEPT ![j] = st]

---------------------------------------------------------------------------
(* Orchestrator.run: apply_async for every experiment, then pool.close.    *)
Schedule(j) ==
  /\ parallel /\ pc = "scheduling"
  /\ status[j] = "planned"
  /\ Set(j, "queued")
  /\ UNCHANGED <<parallel, pc, outcome, callback, n_success, n_fail, results, pool, output>>

Close ==
  /\ parallel /\ pc = "scheduling"
  /\ With("planned") = {}
  /\ pc' = "waiting"
  /\ UNCHANGED <<parallel, jobs, pool, output>>

(* A worker takes an experiment, and sends what run_scenario returned:     *)
(* None after an exception it caught or a name that is not registered.  An *)
(* exception of its own handler, or results that cannot be sent, are sent  *)
(* as an exception.                                                        *)
Take(w, j) ==
  /\ pc # "exit"
  /\ proc[w] = "up" /\ at[w] = {}
  /\ status[j] = "queued"
  /\ at' = [at EXCEPT ![w] = {j}]
  /\ Set(j, "running")
  /\ UNCHANGED <<parallel, pc, outcome, callback, n_success, n_fail, results, proc, heirs, copy, output>>

Return(w, j, o) ==
  /\ pc # "exit"
  /\ proc[w] = "up" /\ j \in at[w]
  /\ at' = [at EXCEPT ![w] = {}]
  /\ Set(j, "returned")
  /\ outcome' = [outcome EXCEPT ![j] = o]
  /\ UNCHANGED <<parallel, pc, callback, n_success, n_fail, results, proc, heirs, copy, output>>

(* The process of a slot ends: the pool forks another one from the main    *)
(* process, unless the main process is ending the pool.                    *)
Ends(w) ==
  /\ at' = [at EXCEPT ![w] = {}]
  /\ IF pc = "stopping"
     THEN /\ proc' = [proc EXCEPT ![w] = "gone"]
          /\ UNCHANGED <<heirs, copy>>
     ELSE /\ proc' = [proc EXCEPT ![w] = "up"]
          /\ heirs' = heirs \cup {w}
          /\ copy' = [copy EXCEPT ![w] = results]

(* A worker is killed, or leaves through sys.exit after a KeyboardInterrupt *)
(* of its own: its job is never ready.                                     *)
Die(w) ==
  /\ pc # "exit"
  /\ proc[w] \in {"up", "writing"}
  /\ Ends(w)
  /\ status' = [j \in Job |-> IF j \in at[w] THEN "lost" ELSE status[j]]
  /\ UNCHANGED <<parallel, pc, outcome, callback, n_success, n_fail, results, output>>

(* A signal to one of the processes of the campaign.                       *)
Signalled ==
  /\ signals < MaxSignals
  /\ signals' = signals + 1
  /\ known' = IF signals = 0 THEN results ELSE known

(* handler in an heir, after a signal that went to it as well: it empties  *)
(* the file and writes its copy.                                           *)
HeirSignalled(w) ==
  /\ pc # "exit"
  /\ w \in heirs /\ proc[w] = "up"
  /\ Signalled
  /\ proc' = [proc EXCEPT ![w] = "writing"]
  /\ file' = Unreadable
  /\ UNCHANGED <<parallel, pc, jobs, at, heirs, copy, writer, buffer, left>>

(* Then orch.stop raises an AssertionError, as it joins the pool of        *)
(* another process: run_scenario catches it and returns None, a worker     *)
(* that was waiting ends.  A file that two processes write at once may end *)
(* as no pickle.                                                           *)
HeirWrites(w) ==
  /\ pc # "exit"
  /\ proc[w] = "writing"
  /\ file' \in {copy[w], Unreadable}
  /\ status' = [j \in Job |-> IF j \in at[w] THEN "returned" ELSE status[j]]
  /\ outcome' = [j \in Job |-> IF j \in at[w] THEN "None" ELSE outcome[j]]
  /\ IF at[w] = {} \/ pc = "stopping"
     THEN Ends(w)
     ELSE /\ proc' = [proc EXCEPT ![w] = "up"]
          /\ at' = [at EXCEPT ![w] = {}]
          /\ UNCHANGED <<heirs, copy>>
  /\ UNCHANGED <<parallel, pc, callback, n_success, n_fail, results, writer, buffer, left, signals, known>>

(* experiment_callback, called by the thread of results, or by the main    *)
(* thread without a pool: it counts the experiment, then stores what it    *)
(* found.  A failed one returns early, and an exception is not reported to *)
(* the callback at all.                                                    *)
CallbackRuns == IF parallel THEN pc # "exit" ELSE pc = "scheduling"

(* Mutation: a callback may start while another one is half done.          *)
DeliverNested(j) ==
  /\ CallbackRuns
  /\ status[j] = "returned"
  /\ IF outcome[j] = "tuple"
     THEN /\ n_success' = n_success + 1
          /\ callback' = {j}
          /\ UNCHANGED <<status, n_fail>>
     ELSE /\ n_fail' = IF outcome[j] = "None" THEN n_fail + 1 ELSE n_fail
          /\ Set(j, "ready")
          /\ UNCHANGED <<n_success, callback>>
  /\ UNCHANGED <<parallel, pc, outcome, results, pool, output>>

(* Mutation: an exception does not make the job ready.                     *)
DeliverNoException(j) ==
  /\ CallbackRuns
  /\ callback = {}
  /\ status[j] = "returned" /\ outcome[j] # "exception"
  /\ IF outcome[j] = "tuple"
     THEN /\ n_success' = n_success + 1
          /\ callback' = {j}
          /\ UNCHANGED <<status, n_fail>>
     ELSE /\ n_fail' = n_fail + 1
          /\ Set(j, "ready")
          /\ UNCHANGED <<n_success, callback>>
  /\ UNCHANGED <<parallel, pc, outcome, results, pool, output>>

Deliver(j) ==
  /\ CallbackRuns
  /\ callback = {}
  /\ status[j] = "returned"
  /\ IF outcome[j] = "tuple"
     THEN /\ n_success' = n_success + 1
          /\ callback' = {j}
          /\ UNCHANGED <<status, n_fail>>
     ELSE /\ n_fail' = IF outcome[j] = "None" THEN n_fail + 1 ELSE n_fail
          /\ Set(j, "ready")
          /\ UNCHANGED <<n_success, callback>>
  /\ UNCHANGED <<parallel, pc, outcome, results, pool, output>>

(* Mutation: something else than the experiment's own results is stored.   *)
StoreOther(j) ==
  /\ CallbackRuns
  /\ j \in callback
  /\ results' = results \cup {outcome[j]}
  /\ callback' = {}
  /\ Set(j, "ready")
  /\ UNCHANGED <<parallel, pc, outcome, n_success, n_fail, pool, output>>

Store(j) ==
  /\ CallbackRuns
  /\ j \in callback
  /\ results' = results \cup {j}
  /\ callback' = {}
  /\ Set(j, "ready")
  /\ UNCHANGED <<parallel, pc, outcome, n_success, n_fail, pool, output>>

(* Mutation: the main thread waits for the workers, not for the callbacks. *)
JoinEarly ==
  /\ parallel /\ pc = "waiting"
  /\ \A j \in Job : status[j] \in {"returned", "ready"}
  /\ \A w \in Worker : proc[w] # "writing"
  /\ pc' = "saving"
  /\ proc' = [w \in Worker |-> "gone"]
  /\ UNCHANGED <<parallel, jobs, at, heirs, copy, output>>

(* The main thread polls the jobs until the last one is ready, and joins   *)
(* the pool, whose workers have nothing left to do.                        *)
Join ==
  /\ parallel /\ pc = "waiting"
  /\ \A j \in Job : status[j] = "ready"
  /\ \A w \in Worker : proc[w] # "writing"
  /\ pc' = "saving"
  /\ proc' = [w \in Worker |-> "gone"]
  /\ UNCHANGED <<parallel, jobs, at, heirs, copy, output>>

(* Without a pool the main thread runs the experiments one by one.  An     *)
(* exception of run_scenario's handler ends the program.                   *)
RunHere(j, o) ==
  /\ ~parallel /\ pc = "scheduling"
  /\ With("returned") = {}
  /\ status[j] = "planned"
  /\ Set(j, "returned")
  /\ outcome' = [outcome EXCEPT ![j] = o]
  /\ pc' = IF o = "exception" THEN "exit" ELSE pc
  /\ UNCHANGED <<parallel, callback, n_success, n_fail, results, pool, output>>

Finish ==
  /\ ~parallel /\ pc = "scheduling"
  /\ \A j \in Job : status[j] = "ready"
  /\ pc' = "saving"
  /\ UNCHANGED <<parallel, jobs, pool, output>>

---------------------------------------------------------------------------
(* write_results_pickle, called by run.run and by handler: open empties    *)
(* the file, dump takes the results there are, and what it writes can be   *)
(* read when the file is closed.  An heir that writes meanwhile may spoil  *)
(* it.                                                                     *)
OpenFile ==
  /\ pc \in {"saving", "handling"} /\ writer = "closed"
  /\ file' = Unreadable
  /\ writer' = "opened"
  /\ UNCHANGED <<parallel, pc, jobs, pool, buffer, left, signals, known>>

DumpResults ==
  /\ writer = "opened"
  /\ writer' = "dumped"
  /\ buffer' = results
  /\ UNCHANGED <<parallel, pc, jobs, pool, file, left, signals, known>>

(* Then run.run is at its end, and handler calls orch.stop.                *)
CloseFile ==
  /\ writer = "dumped"
  /\ writer' = "closed" /\ buffer' = {}
  /\ file' \in IF signals > 0 /\ heirs # {} THEN {buffer, Unreadable} ELSE {buffer}
  /\ pc' = "stopping"
  /\ UNCHANGED <<parallel, jobs, pool, left, signals, known>>

(* What an interrupted writer has dumped: it never goes on, but the pickle *)
(* it has begun, or the whole of it, is still in its buffer.               *)
Interrupted ==
  CASE writer = "closed" -> {{}}
    [] writer = "opened" -> {{[data |-> results, whole |-> FALSE]}}
    [] writer = "dumped" -> {{[data |-> buffer, whole |-> b]} : b \in BOOLEAN}

(* Mutation: the handler stops the orchestrator before it writes, and      *)
(* writes what it stopped with.                                            *)
SignalStopsFirst ==
  /\ pc # "exit"
  /\ Signalled
  /\ \E x \in Interrupted : left' = left \cup x
  /\ writer' = "closed" /\ buffer' = {}
  /\ pc' = "stopping"
  /\ UNCHANGED <<parallel, jobs, pool, file>>

(* A signal interrupts the main thread anywhere, in a handler too.  The    *)
(* workers and the thread of results go on until the handler stops them.   *)
Signal ==
  /\ pc # "exit"
  /\ Signalled
  /\ \E x \in Interrupted : left' = left \cup x
  /\ writer' = "closed" /\ buffer' = {}
  /\ pc' = "handling"
  /\ UNCHANGED <<parallel, jobs, pool, file>>

(* Orchestrator.stop ends the pool: pool.terminate sends every worker a    *)
(* SIGTERM, which an heir answers with the handler.  The experiment of a   *)
(* worker that is ended stays where it was.                                *)
Terminate(w) ==
  /\ pc = "stopping" /\ proc[w] = "up"
  /\ IF w \in heirs
     THEN /\ proc' = [proc EXCEPT ![w] = "writing"]
          /\ file' = Unreadable
          /\ UNCHANGED at
     ELSE /\ proc' = [proc EXCEPT ![w] = "gone"]
          /\ at' = [at EXCEPT ![w] = {}]
          /\ UNCHANGED file
  /\ UNCHANGED <<parallel, pc, jobs, heirs, copy, writer, buffer, left, signals, known>>

(* The program ends when the workers have.  On the way out the files of    *)
(* the interrupted writers are closed one after the other, and what is in  *)
(* their buffers goes over the file: it stays as it is where the same      *)
(* results, which give the same bytes, are written over it.                *)
Unwound ==
  {file} \cup {x.data : x \in {y \in left : y.whole}}
         \cup IF \E x \in left : x.data # file THEN {Unreadable} ELSE {}

Stop ==
  /\ pc = "stopping"
  /\ \A w \in Worker : proc[w] = "gone"
  /\ file' \in Unwound
  /\ left' = {}
  /\ pc' = "exit"
  /\ UNCHANGED <<parallel, jobs, pool, writer, buffer, signals, known>>

Outcome == {"tuple", "None", "exception"}

Main ==
  \/ Close \/ Join \/ Finish \/ OpenFile \/ DumpResults \/ CloseFile \/ Stop
  \/ \E j \in Job : Schedule(j) \/ \E o \in Outcome : RunHere(j, o)
  \/ \E w \in Worker : Terminate(w)

Work ==
  \E w \in Worker :
    \/ HeirWrites(w)
    \/ \E j \in Job : Take(w, j) \/ \E o \in Outcome : Return(w, j, o)

Deliveries == \E j \in Job : Deliver(j) \/ Store(j)

Troubles == Signal \/ \E w \in Worker : Die(w) \/ HeirSignalled(w)

Next == Main \/ Work \/ Deliveries \/ Troubles

Spec == Init /\ [][Next]_vars

(* The main thread runs, the workers run their experiments to an end, and  *)
(* the thread of results takes what they send.  No signal has to come and  *)
(* no worker has to die.                                                   *)
FairSpec == Spec /\ WF_vars(Main) /\ WF_vars(Work) /\ WF_vars(Deliveries)
---------------------------------------------------------------------------
Succeeded == {j \in Job : outcome[j] = "tuple"}

Failed == {j \in Job : outcome[j] = "None"}

(* The variables are of their types.                                       *)
TypeOK ==
  /\ parallel \in BOOLEAN
  /\ pc \in {"scheduling", "waiting", "saving", "handling", "stopping", "exit"}
  /\ status \in [Job -> {"planned", "queued", "running", "returned", "ready", "lost"}]
  /\ outcome \in [Job -> Outcome \cup {"unknown"}]
  /\ callback \in SUBSET Job
  /\ n_success \in Nat /\ n_fail \in Nat
  /\ results \in SUBSET Job
  /\ proc \in [Worker -> {"up", "writing", "gone"}]
  /\ at \in [Worker -> SUBSET Job] /\ copy \in [Worker -> SUBSET Job]
  /\ heirs \in SUBSET Worker
  /\ file = Unreadable \/ file \in SUBSET Job
  /\ writer \in {"closed", "opened", "dumped"}
  /\ buffer \in SUBSET Job
  /\ left \in SUBSET [data : SUBSET Job, whole : BOOLEAN]
  /\ signals \in 0..MaxSignals
  /\ known \in SUBSET Job

(* No experiment is counted or stored twice, whatever the order in which   *)
(* they come back, and the counters never run ahead of what happened: the  *)
(* successes are the stored ones and the one whose callback is half done.  *)
CountedOnce ==
  /\ n_success = Cardinality(results) + Cardinality(callback)
  /\ n_fail = Cardinality({j \in Failed : status[j] = "ready"})
  /\ results \cap callback = {}
  /\ results \cup callback \subseteq Succeeded

(* A file without a signal is the whole campaign: every experiment has     *)
(* come to an end, and all the results there are have been saved.  A       *)
(* campaign in a pool ends in no other way.                                *)
CompleteWithoutSignal ==
  signals = 0 /\ (file # Unreadable \/ (parallel /\ pc = "exit")) =>
    /\ \A j \in Job : status[j] = "ready"
    /\ file = Succeeded

(* handler writes the partial results: as long as the workers are the      *)
(* first ones, a file that can be read after the end has all the results   *)
(* there were when the first signal came, however many signals came after  *)
(* it and whichever write they broke off.  After a single signal it can be *)
(* read, also when the signal came while the campaign was being saved.     *)
SignalSaves ==
  pc = "exit" /\ signals > 0 /\ heirs = {} =>
    /\ file # Unreadable => known \subseteq file
    /\ signals = 1 => file # Unreadable

(* The campaign ends, unless a worker dies: then its job is never ready.   *)
CampaignEnds == <>(pc = "exit" \/ With("lost") # {})
=============================================================================
