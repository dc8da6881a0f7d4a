-------------------------- MODULE CombinationEvaluator --------------------------
(***************************************************************************)
(* The evaluation of a job's parameter combinations in worker processes,   *)
(* with threads in their place when those fail: CombinationEvaluator of    *)
(* backend/app/optimizer/parallel_runner.py.  Several jobs of one API      *)
(* process evaluate beside each other, each one call of run.  A worker     *)
(* process has the data of its job; threads read the module's globals,     *)
(* which the last job to need threads has set.                             *)
(***************************************************************************)
EXTENDS Integers, FiniteSets, Sequences, FiniteSetsExt, Functions

CONSTANTS
  Runs,         \* the calls of run, one of each job
  Rows,         \* the row ids of a job's tasks, in their order
  BatchSize,
  Nobody

VARIABLES
  fallback,    \* _ALLOW_PROCESS_FALLBACK_TO_THREAD, of the environment
  mode,        \* where each job is: with its pool, with its executor, or how it ended
  todo,        \* the rows that have not been submitted
  task,        \* what has become of a row that has
  basis,       \* history: the jobs whose data a row was computed from
  results,     \* the rows in results, in their order
  cancelled,   \* the jobs with a requested cancellation
  globals,     \* the job that _WORKER_CANDLES, _WORKER_TARGET, ... are of
  noticed,     \* history: how many results a job had when its progress hook first raised
  overlap      \* history: the jobs that have used threads while another one did

runVars == <<fallback, mode, todo, task, basis, results, cancelled, globals, noticed, overlap>>

Ended == {"returned", "cancelled", "failed"}

RunTypeOK ==
  /\ fallback \in BOOLEAN
  /\ mode \in [Runs -> {"new", "pool", "executor"} \cup Ended]
  /\ todo \in [Runs -> SUBSET Rows]
  /\ task \in [Runs -> [Rows -> {"none", "queued", "computing", "ready", "emitted", "lost"}]]
  /\ basis \in [Runs -> [Rows -> SUBSET Runs]]
  /\ \A j \in Runs : results[j] \in Seq(Rows)
  /\ cancelled \subseteq Runs
  /\ globals \in Runs \cup {Nobody}
  /\ \A j \in Runs : noticed[j] \in {-1} \cup Nat
  /\ overlap \subseteq Runs

RunInit ==
  /\ fallback \in BOOLEAN
  /\ mode = [j \in Runs |-> "new"]
  /\ todo = [j \in Runs |-> Rows]
  /\ task = [j \in Runs |-> [r \in Rows |-> "none"]]
  /\ basis = [j \in Runs |-> [r \in Rows |-> {}]]
  /\ results = [j \in Runs |-> << >>]
  /\ cancelled = {}
  /\ globals = Nobody
  /\ noticed = [j \in Runs |-> -1]
  /\ overlap = {}

\* seen_row_ids
Seen(j) == Range(results[j])

InState(j, S) == {r \in Rows : task[j][r] \in S}

\* _init_worker in the API process, for the threads of a job.
GlobalsFor(j) == j

InitThreads(j) ==
  /\ globals' = GlobalsFor(j)
  /\ LET others == {i \in Runs \ {j} : mode[i] = "executor"} IN
     overlap' = overlap \cup others \cup (IF others = {} THEN {} ELSE {j})

-----------------------------------------------------------------------------
\* __enter__, and the start of run: a pool, or threads where there can be none.
EnterPool(j) ==
  /\ mode[j] = "new"
  /\ mode' = [mode EXCEPT ![j] = "pool"]
  /\ UNCHANGED <<fallback, todo, task, basis, results, cancelled, globals, noticed, overlap>>

EnterThreads(j) ==
  /\ mode[j] = "new"
  /\ mode' = [mode EXCEPT ![j] = "executor"]
  /\ InitThreads(j)
  /\ UNCHANGED <<fallback, todo, task, basis, results, cancelled, noticed>>

\* _iter_batches: the next batch, when the last one has been gone through.
Batch(j) ==
  {r \in todo[j] : Cardinality({s \in todo[j] : s <= r}) <= BatchSize}

Submit(j) ==
  /\ mode[j] \in {"pool", "executor"}
  /\ todo[j] # {}
  /\ InState(j, {"queued", "computing", "ready", "lost"}) = {}
  /\ task' = [task EXCEPT ![j] = [r \in Rows |-> IF r \in Batch(j) THEN "queued" ELSE @[r]]]
  /\ todo' = [todo EXCEPT ![j] = @ \ Batch(j)]
  /\ UNCHANGED <<fallback, mode, basis, results, cancelled, globals, noticed, overlap>>

\* A worker begins with a row, with the candles that it finds.
Begin(j, r) ==
  /\ mode[j] \notin Ended /\ task[j][r] = "queued"
  /\ task' = [task EXCEPT ![j][r] = "computing"]
  /\ basis' = [basis EXCEPT ![j][r] = IF mode[j] = "pool" THEN {j} ELSE {globals}]
  /\ UNCHANGED <<fallback, mode, todo, results, cancelled, globals, noticed, overlap>>

\* It computes the score, with the target that it finds.
Score(j, r) ==
  /\ mode[j] \notin Ended /\ task[j][r] = "computing"
  /\ task' = [task EXCEPT ![j][r] = "ready"]
  /\ basis' = [basis EXCEPT ![j][r] = @ \cup (IF mode[j] = "pool" THEN {j} ELSE {globals})]
  /\ UNCHANGED <<fallback, mode, todo, results, cancelled, globals, noticed, overlap>>

\* The worker process is killed: the pool starts another one, which knows nothing of the row.
WorkerDies(j, r) ==
  /\ mode[j] = "pool"
  /\ task[j][r] = "computing"
  /\ task' = [task EXCEPT ![j][r] = "lost"]
  /\ UNCHANGED <<fallback, mode, todo, basis, results, cancelled, globals, noticed, overlap>>

\* The pool has failed: the job fails, or its threads get all rows that are not in results.
Pending_Unsubmitted(j, seen) == todo[j]   \* mutated form: what was submitted is not repeated
Pending(j, seen) == Rows \ seen


Failed(j, seen) ==
  IF fallback
  THEN /\ mode' = [mode EXCEPT ![j] = "executor"]
       /\ InitThreads(j)
       /\ todo' = [todo EXCEPT ![j] = Pending(j, seen)]
       /\ task' = [task EXCEPT ![j] = [r \in Rows |-> IF r \in seen THEN "emitted" ELSE "none"]]
  ELSE /\ mode' = [mode EXCEPT ![j] = "failed"]
       /\ UNCHANGED <<todo, task, globals, overlap>>

PoolRaises(j) ==
  /\ mode[j] = "pool"
  /\ Failed(j, Seen(j))
  /\ UNCHANGED <<fallback, basis, results, cancelled, noticed>>

\* The next item: of the pool any that is ready, of the executor the first of those submitted.
IsNext(j, r) ==
  /\ task[j][r] = "ready"
  /\ mode[j] = "executor" => \A s \in InState(j, {"queued", "computing", "ready"}) : r <= s

\* The progress hook of a job, advance of optimizer.py, raises when the job is to be cancelled.
HookRaises(j) == j \in cancelled

\* emit_progress: the row is in results before the progress hook raises for a cancelled job.  To
\* the pool's loop that is a failure of the pool.
Emit(j, r) ==
  /\ mode[j] \in {"pool", "executor"}
  /\ IsNext(j, r)
  /\ results' = [results EXCEPT ![j] = IF r \in Seen(j) THEN @ ELSE Append(@, r)]
  /\ IF HookRaises(j)
     THEN /\ noticed' = [noticed EXCEPT ![j] = IF @ = -1 THEN Len(results[j]) + 1 ELSE @]
          /\ IF mode[j] = "pool"
             THEN Failed(j, Seen(j) \cup {r})
             ELSE /\ mode' = [mode EXCEPT ![j] = "cancelled"]
                  /\ UNCHANGED <<todo, task, globals, overlap>>
     ELSE /\ task' = [task EXCEPT ![j][r] = "emitted"]
          /\ UNCHANGED <<mode, todo, globals, noticed, overlap>>
  /\ UNCHANGED <<fallback, basis, cancelled>>

Return(j) ==
  /\ mode[j] \in {"pool", "executor"}
  /\ todo[j] = {}
  /\ InState(j, {"queued", "computing", "ready", "lost"}) = {}
  /\ mode' = [mode EXCEPT ![j] = "returned"]
  /\ UNCHANGED <<fallback, todo, task, basis, results, cancelled, globals, noticed, overlap>>

\* A client cancels the job.
Cancel(j) ==
  /\ mode[j] \notin Ended /\ j \notin cancelled
  /\ cancelled' = cancelled \cup {j}
  /\ UNCHANGED <<fallback, mode, todo, task, basis, results, globals, noticed, overlap>>

AllEnded == (\A j \in Runs : mode[j] \in Ended) /\ UNCHANGED runVars

Step(j) ==
  Submit(j) \/ Return(j) \/ \E r \in Rows : Begin(j, r) \/ Score(j, r) \/ Emit(j, r)

RunNext ==
  \/ \E j \in Runs :
       \/ EnterPool(j) \/ EnterThreads(j) \/ Step(j) \/ PoolRaises(j) \/ Cancel(j)
       \/ \E r \in Rows : WorkerDies(j, r)
  \/ AllEnded

\* The job's thread and its workers keep running; the pool need not fail, and nobody need cancel.
RunSpec == RunInit /\ [][RunNext]_runVars /\ \A j \in Runs : WF_runVars(Step(j))

-----------------------------------------------------------------------------
(* Properties. *)

\* A run that returns has the result of every row, and of every row once, also when its pool failed
\* in the middle and the threads began again.
ExactlyOnce ==
  \A j \in Runs :
    mode[j] = "returned" => Seen(j) = Rows /\ Len(results[j]) = Cardinality(Rows)

\* A result is computed with the candles and the target of its own job, unless the job and another
\* one used threads at the same time (_WORKER_CANDLES, _WORKER_TARGET).
OwnData ==
  \A j \in Runs \ overlap : \A r \in Seen(j) : basis[j][r] = {j}

\* After the progress hook has first raised for a cancellation, at most one more result comes: the
\* threads that replace the pool stop at their first.
StopsSoon ==
  \A j \in Runs : noticed[j] # -1 => Len(results[j]) <= noticed[j] + 1

\* What a run keeps to, whatever becomes of its pool.
RowsAreComplete == ExactlyOnce /\ OwnData /\ StopsSoon
=============================================================================
