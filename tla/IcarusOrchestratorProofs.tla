---------------------- MODULE IcarusOrchestratorProofs ----------------------
(***************************************************************************)
(* The safety of a campaign, for any number of experiments, processes and  *)
(* signals.                                                                *)
(*                                                                         *)
(* The counters are right because an experiment is in one place at a time: *)
(* Places says which, and that the results are those of the experiments    *)
(* that are ready.  The file is complete without a signal because the main *)
(* thread saves only when all of them are and no worker is left that could *)
(* write: that is SavedLate.  Kept says what the first signal found and no *)
(* later one takes away: it is in all a writer dumps, in all that an       *)
(* interrupted one left behind, and in the file.                           *)
(***************************************************************************)
EXTENDS IcarusOrchestrator, FiniteSetTheorems, TLAPS

Unfinished == {"planned", "queued", "running", "lost"}

Places ==
  /\ \A j \in Job : outcome[j] = "unknown" <=> status[j] \in Unfinished
  /\ callback \subseteq With("returned") \cap Succeeded
  /\ callback = {} \/ \E j \in Job : callback = {j}
  /\ results = {j \in Succeeded : status[j] = "ready"}

Slots ==
  /\ \A w \in Worker : at[w] \subseteq With("running")
  /\ \A v, w \in Worker : v # w => at[v] \cap at[w] = {}
  /\ \A w \in Worker : proc[w] = "writing" => w \in heirs /\ signals > 0

AllReady == \A j \in Job : status[j] = "ready"

AllGone == \A w \in Worker : proc[w] = "gone"

SavedLate ==
  /\ ~parallel => AllGone
  /\ pc = "saving" => AllReady /\ AllGone
  /\ writer # "closed" => pc \in {"saving", "handling"}
  /\ signals = 0 =>
       /\ pc # "handling" /\ left = {}
       /\ writer = "dumped" => buffer = results
       /\ pc = "stopping" => AllReady /\ AllGone /\ file = results
       /\ file # Unreadable \/ (parallel /\ pc = "exit") => AllReady /\ file = results

KeptByOne ==
  /\ left # {} => AllReady /\ \A x \in left : x.data = results
  /\ left # {} /\ writer = "dumped" => buffer = results
  /\ left # {} /\ pc = "stopping" => file = results
  /\ pc = "exit" => file # Unreadable

Kept ==
  signals > 0 /\ heirs = {} =>
    /\ pc \in {"handling", "stopping", "exit"}
    /\ known \subseteq results
    /\ writer = "dumped" => known \subseteq buffer
    /\ \A x \in left : known \subseteq x.data
    /\ file # Unreadable => known \subseteq file
    /\ pc = "stopping" => file # Unreadable
    /\ signals = 1 => KeptByOne

Counts ==
  /\ n_success = Cardinality(results) + Cardinality(callback)
  /\ n_fail = Cardinality({j \in Failed : status[j] = "ready"})

IInv == TypeOK /\ Places /\ Slots /\ SavedLate /\ Kept /\ Counts

(* What the induction has of the properties.                               *)
LEMMA Consequences == IInv => CountedOnce /\ CompleteWithoutSignal /\ SignalSaves
<1> SUFFICES ASSUME IInv PROVE CountedOnce /\ CompleteWithoutSignal /\ SignalSaves
  OBVIOUS
<1>1. CountedOnce
  BY DEF IInv, Counts, Places, CountedOnce, With
<1>2. CompleteWithoutSignal
  BY DEF IInv, Places, SavedLate, AllReady, CompleteWithoutSignal, Succeeded
<1>3. SignalSaves
  BY DEF IInv, Kept, KeptByOne, SignalSaves
<1> QED BY <1>1, <1>2, <1>3

(* Sets of experiments are finite.                                         *)
LEMMA FiniteJobs ==
  ASSUME NEW S, S \subseteq Job
  PROVE  IsFiniteSet(S) /\ Cardinality(S) \in Nat
BY OrchestratorAssumption, FS_Subset, FS_CardinalityType

(* No set of results is the file that cannot be read.                      *)
LEMMA Readable == ASSUME NEW S \in SUBSET Job PROVE S # Unreadable
BY OrchestratorAssumption

(* The invariant holds to begin with.                                      *)
LEMMA InitIInv == Init => IInv
<1> SUFFICES ASSUME Init PROVE IInv
  OBVIOUS
<1>1. TypeOK
  BY OrchestratorAssumption DEF Init, TypeOK, Worker
<1>2. Places /\ Slots
  BY DEF Init, Places, Slots, With, Succeeded, Unfinished
<1>3. SavedLate /\ Kept
  BY DEF Init, SavedLate, Kept, AllGone
<1>4. {j \in Failed : status[j] = "ready"} = {}
  BY DEF Init, Failed
<1>5. Counts
  <2>1. n_success = 0 /\ n_fail = 0 /\ callback = {} /\ results = {}
    BY DEF Init
  <2>2. Cardinality({}) = 0
    BY FS_EmptySet
  <2> QED BY <1>4, <2>1, <2>2 DEF Counts
<1> QED BY <1>1, <1>2, <1>3, <1>5 DEF IInv

(* What has been counted does not change where the jobs do not.            *)
LEMMA JobsStay ==
  ASSUME IInv, UNCHANGED jobs
  PROVE  Places' /\ Counts' /\ (AllReady' <=> AllReady)
BY DEF IInv, jobs, Places, Counts, With, Succeeded, Failed, AllReady

(* A step that leaves the main thread and the file alone keeps what was    *)
(* saved: once all experiments are ready, no result is added.              *)
LEMMA OutputStays ==
  ASSUME IInv, UNCHANGED <<parallel, pc, output>>,
         results \subseteq results', heirs \subseteq heirs',
         AllReady => AllReady' /\ results' = results,
         \A w \in Worker : proc[w] = "gone" => proc'[w] = "gone"
  PROVE  SavedLate' /\ Kept'
<1> USE DEF IInv, output
<1>1. AllGone => AllGone'
  BY DEF AllGone
<1>2. SavedLate'
  BY <1>1 DEF SavedLate
<1>3. heirs' = {} => heirs = {}
  OBVIOUS
<1>4. KeptByOne => KeptByOne'
  BY DEF KeptByOne
<1>5. Kept'
  BY <1>3, <1>4 DEF Kept
<1> QED BY <1>2, <1>5

(* The experiments M, which are not over, move, and no other one does.     *)
Moves(M) ==
  /\ \A j \in M : outcome[j] = "unknown"
  /\ status' \in [Job -> {"planned", "queued", "running", "returned", "ready", "lost"}]
  /\ outcome' \in [Job -> Outcome \cup {"unknown"}]
  /\ \A j \in Job \ M : status'[j] = status[j] /\ outcome'[j] = outcome[j]
  /\ \A j \in M : /\ status'[j] \in {"queued", "running", "returned", "lost"}
                  /\ outcome'[j] = "unknown" <=> status'[j] \in Unfinished

(* They are in new places then, and nothing is counted or stored.          *)
LEMMA Moving ==
  ASSUME IInv, UNCHANGED <<callback, n_success, n_fail, results>>,
         NEW M \in SUBSET Job, Moves(M)
  PROVE  Places' /\ Counts' /\ (AllReady => AllReady')
<1> USE DEF IInv
<1>1. \A j \in M : status[j] \in Unfinished
  BY DEF Places, Moves
<1>2. Places'
  BY <1>1 DEF Places, With, Succeeded, Unfinished, Moves
<1>3. {i \in Failed : status[i] = "ready"}' = {i \in Failed : status[i] = "ready"}
  BY <1>1 DEF Failed, Unfinished, Moves
<1>4. Counts'
  BY <1>3 DEF Counts
<1>5. AllReady => AllReady'
  BY <1>1 DEF AllReady, Unfinished, Moves
<1> QED BY <1>2, <1>4, <1>5

(* The main thread comes to its next phase.                                *)
LEMMA PhaseSteps ==
  ASSUME IInv, Close \/ Join \/ Finish
  PROVE  IInv'
<1> USE DEF IInv
<1>1. /\ UNCHANGED <<parallel, jobs, at, heirs, copy, output>>
      /\ pc \in {"scheduling", "waiting"} /\ pc' \in {"waiting", "saving"}
      /\ proc' \in {proc, [w \in Worker |-> "gone"]}
  BY DEF Close, Join, Finish, pool
<1>2. Places' /\ Counts' /\ (AllReady' <=> AllReady)
  BY <1>1, JobsStay
<1>3. TypeOK'
  BY <1>1 DEF TypeOK, jobs, output
<1>4. Slots'
  BY <1>1 DEF Slots, With, jobs, output
<1>5. pc' = "saving" => AllReady /\ AllGone'
  BY DEF Close, Join, Finish, AllReady, SavedLate, AllGone, pool
<1>6. (~parallel => AllGone') /\ (AllGone => AllGone')
  BY <1>1 DEF SavedLate, AllGone
<1>7. SavedLate'
  BY <1>1, <1>2, <1>5, <1>6 DEF SavedLate, output, jobs
<1>8. Kept'
  BY <1>1 DEF Kept, output
<1> QED BY <1>2, <1>3, <1>4, <1>7, <1>8

(* The main thread writes, in run.run or in the handler.                   *)
LEMMA WriterSteps ==
  ASSUME IInv, OpenFile \/ DumpResults \/ CloseFile
  PROVE  IInv'
<1> USE DEF IInv
<1>1. /\ UNCHANGED <<parallel, jobs, pool, left, signals, known>>
      /\ pc \in {"saving", "handling"}
      /\ signals = 0 => pc = "saving"
  BY DEF OpenFile, DumpResults, CloseFile, SavedLate
<1>2. Places' /\ Counts' /\ (AllReady' <=> AllReady)
  BY <1>1, JobsStay
<1>3. Slots'
  BY <1>1 DEF Slots, With, jobs, pool
<1>4. AllGone' <=> AllGone
  BY <1>1 DEF AllGone, pool
<1>5. pc = "saving" => AllReady /\ AllGone
  BY DEF SavedLate
<1>6. CASE OpenFile
  <2>1. /\ UNCHANGED <<pc, buffer>> /\ writer = "closed"
        /\ file' = Unreadable /\ writer' = "opened"
    BY <1>6 DEF OpenFile
  <2>2. TypeOK'
    BY <1>1, <2>1 DEF TypeOK, jobs, pool
  <2>3. SavedLate'
    BY <1>1, <1>2, <1>4, <1>5, <2>1 DEF SavedLate, jobs
  <2>4. KeptByOne => KeptByOne'
    BY <1>1, <1>2, <2>1 DEF KeptByOne, jobs
  <2>5. Kept'
    BY <1>1, <2>1, <2>4 DEF Kept, jobs, pool
  <2> QED BY <1>2, <1>3, <2>2, <2>3, <2>5
<1>7. CASE DumpResults
  <2>1. /\ UNCHANGED <<pc, file>>
        /\ writer = "opened" /\ writer' = "dumped" /\ buffer' = results
    BY <1>7 DEF DumpResults
  <2>2. TypeOK'
    BY <1>1, <2>1 DEF TypeOK, jobs, pool
  <2>3. SavedLate'
    BY <1>1, <1>2, <1>4, <1>5, <2>1 DEF SavedLate, jobs
  <2>4. KeptByOne => KeptByOne'
    BY <1>1, <1>2, <2>1 DEF KeptByOne, jobs
  <2>5. Kept'
    BY <1>1, <2>1, <2>4 DEF Kept, jobs, pool
  <2> QED BY <1>2, <1>3, <2>2, <2>3, <2>5
<1>8. CASE CloseFile
  <2>1. /\ writer = "dumped" /\ writer' = "closed" /\ buffer' = {} /\ pc' = "stopping"
        /\ file' \in {buffer, Unreadable}
        /\ signals = 0 \/ heirs = {} => file' = buffer
    BY <1>8 DEF CloseFile
  <2>2. TypeOK'
    BY <1>1, <2>1 DEF TypeOK, jobs, pool
  <2>3. SavedLate'
    BY <1>1, <1>2, <1>4, <1>5, <2>1 DEF SavedLate, jobs
  <2>4. buffer # Unreadable
    BY Readable DEF TypeOK
  <2>5. heirs = {} /\ KeptByOne => KeptByOne'
    BY <1>1, <1>2, <2>1 DEF KeptByOne, jobs
  <2>6. Kept'
    BY <1>1, <2>1, <2>4, <2>5 DEF Kept, jobs, pool
  <2> QED BY <1>2, <1>3, <2>2, <2>3, <2>6
<1> QED BY <1>6, <1>7, <1>8

(* A signal interrupts it: what it has dumped has all that was known.      *)
LEMMA SignalStep ==
  ASSUME IInv, Signal
  PROVE  IInv'
<1> USE DEF IInv
<1>1. /\ UNCHANGED <<parallel, jobs, pool, file>>
      /\ signals < MaxSignals /\ signals' = signals + 1
      /\ known' = IF signals = 0 THEN results ELSE known
      /\ writer' = "closed" /\ buffer' = {} /\ pc' = "handling"
  BY DEF Signal, Signalled
<1>2. signals \in Nat /\ signals' \in 0..MaxSignals /\ signals' > 0
  BY <1>1, OrchestratorAssumption DEF TypeOK
<1>3. Places' /\ Counts' /\ (AllReady' <=> AllReady)
  BY <1>1, JobsStay
<1>4. Slots'
  BY <1>1, <1>2 DEF Slots, With, jobs, pool
<1>5. AllGone => AllGone'
  BY <1>1 DEF AllGone, pool
<1>6. SavedLate'
  BY <1>1, <1>2, <1>5 DEF SavedLate
<1>7. PICK x \in Interrupted : left' = left \cup x
  BY DEF Signal
<1>8. /\ x \in SUBSET [data : SUBSET Job, whole : BOOLEAN]
      /\ writer = "closed" => x = {}
      /\ \A y \in x : y.data = IF writer = "opened" THEN results ELSE buffer
  <2>1. CASE writer = "closed"
    BY <1>7, <2>1 DEF Interrupted
  <2>2. CASE writer = "opened"
    <3>1. x = {[data |-> results, whole |-> FALSE]}
      BY <1>7, <2>2 DEF Interrupted
    <3>2. [data |-> results, whole |-> FALSE] \in [data : SUBSET Job, whole : BOOLEAN]
      BY DEF TypeOK
    <3> QED BY <2>2, <3>1, <3>2
  <2>3. CASE writer = "dumped"
    BY <1>7, <2>3 DEF Interrupted, TypeOK
  <2> QED BY <2>1, <2>2, <2>3 DEF TypeOK
<1>9. TypeOK'
  BY <1>1, <1>2, <1>7, <1>8 DEF TypeOK, jobs, pool
<1>10. Kept'
  <2>1. CASE signals = 0
    <3>1. left = {} /\ (writer # "closed" => pc = "saving" /\ AllReady)
      BY <2>1 DEF SavedLate
    <3>2. \A y \in left' : y.data = results /\ AllReady
      BY <2>1, <3>1, <1>7, <1>8 DEF SavedLate, TypeOK
    <3>3. file # Unreadable => file = results
      BY <2>1 DEF SavedLate
    <3>4. KeptByOne'
      BY <1>1, <1>3, <3>2 DEF KeptByOne, jobs
    <3> QED BY <1>1, <2>1, <3>2, <3>3, <3>4 DEF Kept, jobs
  <2>2. CASE signals # 0
    <3>1. signals > 0 /\ signals' # 1
      BY <1>1, <1>2, <2>2
    <3>2. CASE heirs = {}
      <4>1. \A y \in left : known \subseteq y.data
        BY <3>1, <3>2 DEF Kept
      <4>2. \A y \in x : known \subseteq y.data
        BY <1>8, <3>1, <3>2 DEF Kept, TypeOK
      <4> QED BY <1>1, <1>7, <2>2, <3>1, <3>2, <4>1, <4>2 DEF Kept, jobs
    <3>3. CASE heirs # {}
      BY <1>1, <3>3 DEF Kept, pool
    <3> QED BY <3>2, <3>3
  <2> QED BY <2>1, <2>2
<1> QED BY <1>3, <1>4, <1>6, <1>9, <1>10

(* The program ends: the writers it unwinds hold what was known as well.   *)
LEMMA StopStep ==
  ASSUME IInv, Stop
  PROVE  IInv'
<1> USE DEF IInv
<1>1. /\ UNCHANGED <<parallel, jobs, pool, writer, buffer, signals, known>>
      /\ pc = "stopping" /\ pc' = "exit" /\ left' = {} /\ AllGone
      /\ file' \in Unwound
  BY DEF Stop, AllGone
<1>2. Places' /\ Counts' /\ (AllReady' <=> AllReady)
  BY <1>1, JobsStay
<1>3. Slots'
  BY <1>1 DEF Slots, With, jobs, pool
<1>4. AllGone'
  BY <1>1 DEF AllGone, pool
<1>5. file' \in {file, Unreadable} \/ \E x \in left : file' = x.data
  BY <1>1 DEF Unwound
<1>6. (\A x \in left : x.data = file) => file' = file
  BY <1>1 DEF Unwound
<1>7. TypeOK'
  BY <1>1, <1>5 DEF TypeOK, jobs, pool
<1>8. SavedLate'
  <2>1. signals = 0 => file' = file /\ AllReady /\ file = results
    BY <1>1, <1>6 DEF SavedLate
  <2>2. writer = "closed"
    BY <1>1 DEF SavedLate
  <2> QED BY <1>1, <1>2, <1>4, <2>1, <2>2 DEF SavedLate, jobs
<1>9. Kept'
  <2> SUFFICES ASSUME signals > 0, heirs = {}
               PROVE  Kept'
    BY <1>1 DEF Kept, pool
  <2>1. signals = 1 => file' = file
    BY <1>1, <1>6 DEF Kept, KeptByOne
  <2>2. signals = 1 => KeptByOne'
    BY <1>1, <2>1 DEF Kept, KeptByOne
  <2>3. file' # Unreadable => known \subseteq file'
    BY <1>1, <1>5 DEF Kept
  <2> QED BY <1>1, <2>2, <2>3 DEF Kept, jobs
<1> QED BY <1>2, <1>3, <1>7, <1>8, <1>9

(* A signal comes to an heir, or the main thread ends a worker.            *)
LEMMA PoolSteps ==
  ASSUME IInv, NEW w \in Worker, HeirSignalled(w) \/ Terminate(w)
  PROVE  IInv'
<1> USE DEF IInv
<1>1. /\ UNCHANGED <<parallel, pc, jobs, heirs, copy, writer, buffer, left>>
      /\ proc[w] = "up"
      /\ proc' \in {[proc EXCEPT ![w] = "writing"], [proc EXCEPT ![w] = "gone"]}
      /\ at' \in {at, [at EXCEPT ![w] = {}]}
      /\ file' \in {file, Unreadable}
  BY DEF HeirSignalled, Terminate
<1>2. signals' \in 0..MaxSignals /\ signals \in Nat /\ (signals > 0 => signals' > 0)
  BY OrchestratorAssumption DEF TypeOK, HeirSignalled, Signalled, Terminate
<1>3. known' \in {known, results}
  BY DEF HeirSignalled, Signalled, Terminate
<1>4. ~AllGone /\ parallel /\ pc # "saving"
  BY <1>1 DEF AllGone, SavedLate
<1>5. Places' /\ Counts' /\ (AllReady' <=> AllReady)
  BY <1>1, JobsStay
<1>6. TypeOK'
  BY <1>1, <1>2, <1>3 DEF TypeOK, jobs
<1>7. w \in heirs \/ UNCHANGED <<file, signals, known>>
  BY DEF HeirSignalled, Terminate
<1>8. signals = 0 => pc # "stopping"
  BY <1>4 DEF SavedLate
<1>9. w \in heirs => signals' > 0
  <2>1. CASE HeirSignalled(w)
    BY <1>2, <2>1 DEF HeirSignalled, Signalled
  <2>2. CASE Terminate(w)
    BY <1>2, <1>8, <2>2 DEF Terminate
  <2> QED BY <2>1, <2>2
<1>10. proc'[w] = "writing" => w \in heirs
  BY DEF HeirSignalled, Terminate, TypeOK
<1>11. Slots'
  BY <1>1, <1>2, <1>9, <1>10 DEF Slots, With, jobs, TypeOK
<1>12. CASE w \in heirs
  <2>1. SavedLate'
    BY <1>1, <1>4, <1>9, <1>12 DEF SavedLate
  <2>2. Kept'
    BY <1>1, <1>12 DEF Kept
  <2> QED BY <1>5, <1>6, <1>11, <2>1, <2>2
<1>13. CASE w \notin heirs
  <2>1. UNCHANGED <<parallel, pc, output>> /\ UNCHANGED <<heirs, results>>
    BY <1>1, <1>7, <1>13 DEF output, jobs
  <2>2. \A v \in Worker : proc[v] = "gone" => proc'[v] = "gone"
    BY <1>1 DEF TypeOK
  <2>3. SavedLate' /\ Kept'
    BY <1>5, <2>1, <2>2, OutputStays
  <2> QED BY <1>5, <1>6, <1>11, <2>3
<1> QED BY <1>12, <1>13

(* Steps of an experiment that is not ready, which leave the file alone.   *)
LEMMA MovingSteps ==
  ASSUME IInv, NEW j \in Job, NEW o \in Outcome, NEW w \in Worker,
         Schedule(j) \/ Take(w, j) \/ Return(w, j, o)
  PROVE  IInv'
<1> USE DEF IInv
<1>1. /\ UNCHANGED <<parallel, pc, callback, n_success, n_fail, results, proc, heirs, copy, output>>
      /\ status[j] \in {"planned", "queued", "running"}
      /\ status' = [status EXCEPT ![j] = IF Schedule(j) THEN "queued" ELSE status'[j]]
      /\ outcome' = [outcome EXCEPT ![j] = outcome'[j]]
      /\ status'[j] \in {"queued", "running", "returned"}
      /\ outcome'[j] = "unknown" <=> status'[j] \in Unfinished
      /\ outcome'[j] \in Outcome \cup {"unknown"}
  BY DEF Schedule, Take, Return, Set, TypeOK, Places, Unfinished, Outcome, pool, Slots, With
<1>2. outcome[j] = "unknown"
  BY <1>1 DEF Places, Unfinished
<1>3. /\ status' \in [Job -> {"planned", "queued", "running", "returned", "ready", "lost"}]
      /\ outcome' \in [Job -> Outcome \cup {"unknown"}]
      /\ \A i \in Job \ {j} : status'[i] = status[i] /\ outcome'[i] = outcome[i]
  BY <1>1 DEF TypeOK
<1>4. Places' /\ Counts' /\ (AllReady => AllReady')
  <2>0. PICK M \in SUBSET Job : M = {j}
    OBVIOUS
  <2>1. \A i \in M : outcome[i] = "unknown"
    BY <1>2, <2>0
  <2>2. \A i \in Job \ M : status'[i] = status[i] /\ outcome'[i] = outcome[i]
    BY <1>3, <2>0
  <2>3. \A i \in M : /\ status'[i] \in {"queued", "running", "returned", "lost"}
                     /\ outcome'[i] = "unknown" <=> status'[i] \in Unfinished
    BY <1>1, <2>0
  <2>4. Moves(M)
    BY <1>3, <2>1, <2>2, <2>3 DEF Moves
  <2> QED BY <1>1, <2>4, Moving
<1>5. SavedLate' /\ Kept'
  BY <1>1, <1>4, OutputStays
<1>6. TypeOK'
  <2>1. at' \in [Worker -> SUBSET Job]
    BY DEF Schedule, Take, Return, TypeOK, pool
  <2> QED BY <1>1, <1>3, <2>1 DEF TypeOK, output
<1>7. Slots'
  <2>1. \A v \in Worker : proc'[v] = "writing" => v \in heirs' /\ signals' > 0
    BY <1>1 DEF Slots, output
  <2>2. CASE Schedule(j)
    <3>1. UNCHANGED at /\ status[j] = "planned"
      BY <2>2 DEF Schedule, pool
    <3> QED BY <1>3, <2>1, <3>1 DEF Slots, With
  <2>3. CASE Take(w, j)
    <3>1. at' = [at EXCEPT ![w] = {j}] /\ status'[j] = "running" /\ status[j] = "queued"
      BY <2>3 DEF Take, Set, TypeOK
    <3>2. \A v \in Worker : j \notin at[v]
      BY <3>1 DEF Slots, With
    <3>3. at'[w] = {j} /\ \A v \in Worker \ {w} : at'[v] = at[v]
      BY <3>1 DEF TypeOK
    <3> QED BY <1>3, <2>1, <3>1, <3>2, <3>3 DEF Slots, With
  <2>4. CASE Return(w, j, o)
    <3>1. at' = [at EXCEPT ![w] = {}] /\ j \in at[w]
      BY <2>4 DEF Return
    <3>2. \A v \in Worker \ {w} : j \notin at[v]
      BY <3>1 DEF Slots
    <3>3. at'[w] = {} /\ \A v \in Worker \ {w} : at'[v] = at[v]
      BY <3>1 DEF TypeOK
    <3> QED BY <1>3, <2>1, <3>2, <3>3 DEF Slots, With
  <2> QED BY <2>2, <2>3, <2>4
<1> QED BY <1>4, <1>5, <1>6, <1>7

(* An experiment without a pool, perhaps the end of the program.           *)
LEMMA RunHereStep ==
  ASSUME IInv, NEW j \in Job, NEW o \in Outcome, RunHere(j, o)
  PROVE  IInv'
<1> USE DEF IInv
<1>1. /\ UNCHANGED <<parallel, callback, n_success, n_fail, results, pool, output>>
      /\ ~parallel /\ pc = "scheduling" /\ pc' \in {pc, "exit"}
      /\ status[j] = "planned"
      /\ status' = [status EXCEPT ![j] = "returned"]
      /\ outcome' = [outcome EXCEPT ![j] = o]
  BY DEF RunHere, Set
<1>2. outcome[j] = "unknown" /\ "unknown" \notin Outcome
  BY <1>1 DEF Places, Unfinished, Outcome
<1>3. /\ status' \in [Job -> {"planned", "queued", "running", "returned", "ready", "lost"}]
      /\ outcome' \in [Job -> Outcome \cup {"unknown"}]
      /\ status'[j] = "returned" /\ outcome'[j] = o
      /\ \A i \in Job \ {j} : status'[i] = status[i] /\ outcome'[i] = outcome[i]
  BY <1>1 DEF TypeOK
<1>4. Places' /\ Counts'
  <2>0. PICK M \in SUBSET Job : M = {j}
    OBVIOUS
  <2>1. \A i \in M : outcome[i] = "unknown"
    BY <1>2, <2>0
  <2>2. \A i \in Job \ M : status'[i] = status[i] /\ outcome'[i] = outcome[i]
    BY <1>3, <2>0
  <2>3. \A i \in M : /\ status'[i] \in {"queued", "running", "returned", "lost"}
                     /\ outcome'[i] = "unknown" <=> status'[i] \in Unfinished
    BY <1>2, <1>3, <2>0 DEF Unfinished
  <2>4. Moves(M)
    BY <1>3, <2>1, <2>2, <2>3 DEF Moves
  <2> QED BY <1>1, <2>4, Moving
<1>5. ~AllReady
  BY <1>1 DEF AllReady
<1>6. AllGone'
  BY <1>1 DEF SavedLate, AllGone, pool
<1>7. SavedLate'
  BY <1>1, <1>5, <1>6 DEF SavedLate, output
<1>8. Kept'
  BY <1>1 DEF Kept, output, pool
<1>9. TypeOK'
  BY <1>1, <1>3 DEF TypeOK, output, pool
<1>10. Slots'
  <2>1. \A v \in Worker : j \notin at[v]
    BY <1>1 DEF Slots, With
  <2> QED BY <1>1, <1>3, <2>1 DEF Slots, With, output, pool
<1> QED BY <1>4, <1>7, <1>8, <1>9, <1>10

(* A worker dies, or an heir has written its copy.                         *)
LEMMA EndingSteps ==
  ASSUME IInv, NEW w \in Worker, Die(w) \/ HeirWrites(w)
  PROVE  IInv'
<1> USE DEF IInv
<1>1. /\ UNCHANGED <<parallel, pc, callback, n_success, n_fail, results, writer, buffer, left, signals, known>>
      /\ proc[w] # "gone"
      /\ proc' \in {[proc EXCEPT ![w] = "gone"], [proc EXCEPT ![w] = "up"]}
      /\ at' = [at EXCEPT ![w] = {}]
      /\ heirs' \in {heirs, heirs \cup {w}}
      /\ copy' \in {copy, [copy EXCEPT ![w] = results]}
  BY DEF Die, HeirWrites, Ends, output
<1>2. /\ \A j \in at[w] : outcome[j] = "unknown"
      /\ at[w] \in SUBSET Job
  BY DEF TypeOK, Slots, With, Places, Unfinished
<1>3. /\ status' \in [Job -> {"planned", "queued", "running", "returned", "ready", "lost"}]
      /\ outcome' \in [Job -> Outcome \cup {"unknown"}]
      /\ \A i \in Job \ at[w] : status'[i] = status[i] /\ outcome'[i] = outcome[i]
      /\ \A i \in at[w] : /\ status'[i] \in {"returned", "lost"}
                          /\ outcome'[i] = "unknown" <=> status'[i] \in Unfinished
  <2>1. CASE Die(w)
    BY <1>2, <2>1 DEF Die, TypeOK, Unfinished
  <2>2. CASE HeirWrites(w)
    BY <1>2, <2>2 DEF HeirWrites, TypeOK, Unfinished, Outcome
  <2> QED BY <2>1, <2>2
<1>4. Places' /\ Counts' /\ (AllReady => AllReady')
  <2>0. PICK M \in SUBSET Job : M = at[w]
    BY <1>2
  <2>1. \A j \in M : outcome[j] = "unknown"
    BY <1>2, <2>0
  <2>2. \A j \in Job \ M : status'[j] = status[j] /\ outcome'[j] = outcome[j]
    BY <1>3, <2>0
  <2>3. \A j \in M : /\ status'[j] \in {"queued", "running", "returned", "lost"}
                     /\ outcome'[j] = "unknown" <=> status'[j] \in Unfinished
    BY <1>3, <2>0
  <2>4. Moves(M)
    BY <1>3, <2>1, <2>2, <2>3 DEF Moves
  <2> QED BY <1>1, <2>4, Moving
<1>5. file' \in {file, copy[w], Unreadable}
  BY DEF Die, HeirWrites, output
<1>6. TypeOK'
  BY <1>1, <1>3, <1>5 DEF TypeOK
<1>7. Slots'
  <2>1. at'[w] = {} /\ \A v \in Worker \ {w} : at'[v] = at[v]
    BY <1>1 DEF TypeOK
  <2>2. proc'[w] # "writing" /\ \A v \in Worker \ {w} : proc'[v] = proc[v]
    BY <1>1 DEF TypeOK
  <2>3. \A v \in Worker \ {w} : at[v] \cap at[w] = {}
    BY DEF Slots
  <2> QED BY <1>1, <1>3, <2>1, <2>2, <2>3 DEF Slots, With
<1>8. SavedLate' /\ Kept'
  <2>1. CASE Die(w)
    <3>1. UNCHANGED output /\ heirs \subseteq heirs'
      BY <1>1, <2>1 DEF Die
    <3>2. \A v \in Worker : proc[v] = "gone" => proc'[v] = "gone"
      BY <1>1 DEF TypeOK
    <3> QED BY <1>1, <1>4, <3>1, <3>2, OutputStays
  <2>2. CASE HeirWrites(w)
    <3>1. w \in heirs /\ signals > 0
      BY <2>2 DEF HeirWrites, Slots
    <3>2. parallel /\ pc # "saving" /\ w \in heirs'
      BY <1>1, <3>1 DEF SavedLate, AllGone
    <3> QED BY <1>1, <3>1, <3>2 DEF SavedLate, Kept, TypeOK
  <2> QED BY <2>1, <2>2
<1> QED BY <1>4, <1>6, <1>7, <1>8

(* The callback counts an experiment.                                      *)
LEMMA DeliverStep ==
  ASSUME IInv, NEW j \in Job, Deliver(j)
  PROVE  IInv'
<1> USE DEF IInv
<1>1. /\ UNCHANGED <<parallel, pc, outcome, results, pool, output>>
      /\ callback = {} /\ status[j] = "returned"
      /\ \A i \in Job \ {j} : status'[i] = status[i]
  BY DEF Deliver, Set, TypeOK
<1>2. outcome[j] \in Outcome /\ j \notin results
  BY <1>1 DEF TypeOK, Places, Unfinished
<1>3. ~AllReady
  BY <1>1 DEF AllReady
<1>4. SavedLate' /\ Kept'
  BY <1>1, <1>3, OutputStays DEF pool
<1>5. Slots'
  BY <1>1 DEF Slots, With, pool, output
<1>6. Cardinality(results) \in Nat /\ Cardinality(callback) = 0
  BY <1>1, FiniteJobs, FS_EmptySet DEF TypeOK
<1>7. CASE outcome[j] = "tuple"
  <2>1. /\ n_success' = n_success + 1 /\ callback' = {j}
        /\ UNCHANGED <<status, n_fail>>
    BY <1>7 DEF Deliver
  <2>2. TypeOK'
    BY <1>1, <2>1 DEF TypeOK, pool, output
  <2>3. Places'
    BY <1>1, <1>7, <2>1 DEF Places, With, Succeeded
  <2>4. Cardinality(callback') = 1
    BY <2>1, FS_Singleton
  <2>5. Counts'
    BY <1>1, <1>6, <2>1, <2>4 DEF Counts, Failed
  <2> QED BY <1>4, <1>5, <2>2, <2>3, <2>5
<1>8. CASE outcome[j] # "tuple"
  <2>1. /\ n_fail' = IF outcome[j] = "None" THEN n_fail + 1 ELSE n_fail
        /\ status' = [status EXCEPT ![j] = "ready"]
        /\ UNCHANGED <<n_success, callback>>
    BY <1>8 DEF Deliver, Set
  <2>2. TypeOK'
    BY <1>1, <2>1 DEF TypeOK, pool, output
  <2>3. Places'
    BY <1>1, <1>2, <1>8, <2>1 DEF Places, With, Succeeded, TypeOK, Unfinished, Outcome
  <2> DEFINE F == {i \in Failed : status[i] = "ready"}
  <2>4. IsFiniteSet(F) /\ j \notin F
    BY <1>1, FiniteJobs DEF Failed
  <2>5. F' = IF outcome[j] = "None" THEN F \cup {j} ELSE F
    BY <1>1, <2>1 DEF Failed, TypeOK
  <2>6. n_fail' = Cardinality(F')
    <3>1. n_fail = Cardinality(F)
      BY DEF Counts
    <3> HIDE DEF F
    <3>2. Cardinality(F \cup {j}) = Cardinality(F) + 1
      BY <2>4, FS_AddElement
    <3> QED BY <2>1, <2>5, <3>1, <3>2
  <2>7. Counts'
    BY <1>1, <2>1, <2>6 DEF Counts
  <2> QED BY <1>4, <1>5, <2>2, <2>3, <2>7
<1> QED BY <1>7, <1>8

(* The callback stores the results of the experiment it has counted.       *)
LEMMA StoreStep ==
  ASSUME IInv, NEW j \in Job, Store(j)
  PROVE  IInv'
<1> USE DEF IInv
<1>1. /\ UNCHANGED <<parallel, pc, outcome, n_success, n_fail, pool, output>>
      /\ callback = {j} /\ callback' = {} /\ results' = results \cup {j}
      /\ status' = [status EXCEPT ![j] = "ready"]
  BY DEF Store, Set, Places
<1>2. status[j] = "returned" /\ outcome[j] = "tuple" /\ j \notin results
  BY <1>1 DEF Places, With, Succeeded
<1>3. TypeOK'
  BY <1>1 DEF TypeOK, pool, output
<1>4. Places'
  BY <1>1, <1>2 DEF Places, With, Succeeded, TypeOK, Unfinished
<1>5. ~AllReady
  BY <1>2 DEF AllReady
<1>6. SavedLate' /\ Kept'
  BY <1>1, <1>5, OutputStays DEF pool
<1>12. Slots'
  BY <1>1, <1>2 DEF Slots, With, pool, output, TypeOK
<1>7. {i \in Failed : status[i] = "ready"}' = {i \in Failed : status[i] = "ready"}
  BY <1>1, <1>2 DEF Failed, TypeOK
<1>8. /\ Cardinality(results') = Cardinality(results) + 1
      /\ Cardinality(callback) = 1 /\ Cardinality(callback') = 0
      /\ Cardinality(results) \in Nat
  BY <1>1, <1>2, FiniteJobs, FS_AddElement, FS_Singleton, FS_EmptySet DEF TypeOK
<1>9. n_success' = Cardinality(results') + Cardinality(callback')
  <2>1. n_success = Cardinality(results) + Cardinality(callback)
    BY DEF Counts
  <2> QED BY <1>1, <1>8, <2>1
<1>10. n_fail' = Cardinality({i \in Failed : status[i] = "ready"}')
  BY <1>1, <1>7 DEF Counts
<1>11. Counts'
  BY <1>9, <1>10 DEF Counts
<1> QED BY <1>3, <1>4, <1>6, <1>11, <1>12

(* Every step keeps it.                                                    *)
LEMMA NextIInv == IInv /\ [Next]_vars => IInv'
<1> SUFFICES ASSUME IInv, [Next]_vars PROVE IInv'
  OBVIOUS
<1>1. CASE Close \/ Join \/ Finish
  BY <1>1, PhaseSteps
<1>2. CASE OpenFile \/ DumpResults \/ CloseFile
  BY <1>2, WriterSteps
<1>3. CASE Signal
  BY <1>3, SignalStep
<1>4. CASE Stop
  BY <1>4, StopStep
<1>5. CASE \E w \in Worker : HeirSignalled(w) \/ Terminate(w)
  BY <1>5, PoolSteps
<1>6. CASE \E w \in Worker : Die(w) \/ HeirWrites(w)
  BY <1>6, EndingSteps
<1>7. CASE \E w \in Worker, j \in Job, o \in Outcome : Schedule(j) \/ Take(w, j) \/ Return(w, j, o)
  BY <1>7, MovingSteps
<1>8. CASE \E j \in Job, o \in Outcome : RunHere(j, o)
  BY <1>8, RunHereStep
<1>9. CASE \E j \in Job : Deliver(j)
  BY <1>9, DeliverStep
<1>10. CASE \E j \in Job : Store(j)
  BY <1>10, StoreStep
<1>11. CASE UNCHANGED vars
  <2>1. UNCHANGED <<parallel, pc, jobs, pool, output>>
    BY <1>11 DEF vars
  <2>2. Places' /\ Counts' /\ (AllReady' <=> AllReady)
    BY <2>1, JobsStay
  <2>3. SavedLate' /\ Kept'
    BY <2>1, <2>2, OutputStays DEF jobs, pool
  <2>4. TypeOK' /\ Slots'
    BY <2>1 DEF IInv, TypeOK, Slots, With, jobs, pool, output
  <2> QED BY <2>2, <2>3, <2>4 DEF IInv
<1>12. "None" \in Outcome /\ 1 \in Worker
  BY OrchestratorAssumption DEF Outcome, Worker
<1> QED BY <1>1, <1>2, <1>3, <1>4, <1>5, <1>6, <1>7, <1>8, <1>9, <1>10, <1>11, <1>12
        DEF Next, Main, Work, Deliveries, Troubles

(* So it always holds.                                                     *)
THEOREM Invariance == Spec => []IInv
<1>1. Init => IInv
  BY InitIInv
<1>2. IInv /\ [Next]_vars => IInv'
  BY NextIInv
<1> QED BY <1>1, <1>2, PTL DEF Spec

(* The variables of a campaign keep their types.                           *)
THEOREM TypeCorrect == Spec => []TypeOK
<1>1. IInv => TypeOK
  BY DEF IInv
<1> QED BY <1>1, Invariance, PTL

(* experiment_callback counts and stores every experiment once, however    *)
(* many processes send their results at the same time.                     *)
THEOREM CountingIsCorrect == Spec => []CountedOnce
<1>1. IInv => CountedOnce
  BY Consequences
<1> QED BY <1>1, Invariance, PTL

(* run.run saves no incomplete campaign unless a signal made it stop.      *)
THEOREM SavingIsComplete == Spec => []CompleteWithoutSignal
<1>1. IInv => CompleteWithoutSignal
  BY Consequences
<1> QED BY <1>1, Invariance, PTL

(* However many signals break off the writing of the results, also one     *)
(* another's, what the first one found stored is in the file at the end,   *)
(* if the file can be read; and a single one leaves a file that can.       *)
THEOREM SignalsSave == Spec => []SignalSaves
<1>1. IInv => SignalSaves
  BY Consequences
<1> QED BY <1>1, Invariance, PTL
=============================================================================
