---------------------------- MODULE OptimizationJobs ----------------------------
(***************************************************************************)
(* Optimization jobs run by threads of the API process                     *)
(* (backend/app/optimizer/optimizer.py with persistence.py and             *)
(* job_store.py): the dictionary _JOBS under _JOB_LOCK, the thread handles *)
(* _JOB_THREADS, the SQLite snapshot every change is written through to,   *)
(* a process that may die, and the recovery that runs before the next one  *)
(* serves requests.                                                        *)
(*                                                                         *)
(* A critical section of _JOB_LOCK with the transactions inside it is one  *)
(* action.  Progress, messages and the queue depth are left out, and with  *)
(* them the throttle of saves that change nothing else; a result is a      *)
(* Boolean.  A finished record may be past its TTL, or over the size       *)
(* limit, at any cleanup.                                                  *)
(***************************************************************************)
EXTENDS Integers, FiniteSets

CONSTANTS
  Jobs,          \* job ids
  NoRecord,      \* a missing record of _JOBS, or a missing row
  LastStage,     \* the pieces of work of a job, the move to RUNNING being the first
  RecoveryMax,   \* _RECOVERY_MAX_JOBS
  Broken,        \* the jobs whose stored request a restarted process may fail to parse
  Clearable,     \* the jobs clients clear from the history and restore
  MaxCrashes     \* bound on the deaths of the process, for TLC

Finished == {"completed", "failed", "cancelled"}
Status == {"pending", "running"} \cup Finished
Record == [status : Status, cancelRequested : BOOLEAN, rows : BOOLEAN]
Row == [status : Status, cancelRequested : BOOLEAN, rows : BOOLEAN, deleted : BOOLEAN]

ASSUME OptimizationAssumption ==
  /\ NoRecord \notin Record \cup Row
  /\ LastStage \in Nat \ {0} /\ MaxCrashes \in Nat

VARIABLES
  up,        \* the process serves requests
  crashes,   \* how often it has died
  jobs,      \* _JOBS
  row,       \* optimization_job_snapshots
  pc,        \* where each job's thread is
  stage,     \* the pieces of work it has behind it
  starting,  \* its starter has still to put its handle into _JOB_THREADS
  handle,    \* _JOB_THREADS has its handle
  clear,     \* the handler that clears the job from the history
  told,      \* history: the final statuses a client was shown
  cleared,   \* history: a client was told that the job is deleted
  lost,      \* history: the job lost its record while its thread ran, or lost its process
  unsaved    \* history: a save of the job raised, which _persist_record_snapshot swallows

vars == <<up, crashes, jobs, row, pc, stage, starting, handle, clear, told, cleared, lost,
          unsaved>>
threads == <<pc, stage, starting, handle>>
clients == <<clear, told, cleared>>
store == <<row, unsaved>>

TypeOK ==
  /\ up \in BOOLEAN
  /\ crashes \in 0 .. MaxCrashes
  /\ jobs \in [Jobs -> Record \cup {NoRecord}]
  /\ row \in [Jobs -> Row \cup {NoRecord}]
  /\ pc \in [Jobs -> {"none", "check", "work", "commit", "cancel", "fail", "resave",
                      "finally", "done"}]
  /\ stage \in [Jobs -> 0 .. LastStage]
  /\ starting \in [Jobs -> BOOLEAN]
  /\ handle \in [Jobs -> BOOLEAN]
  /\ clear \in [Jobs -> {"none", "update", "drop"}]
  /\ told \in [Jobs -> SUBSET Finished]
  /\ cleared \in [Jobs -> BOOLEAN]
  /\ lost \in [Jobs -> BOOLEAN]
  /\ unsaved \in [Jobs -> BOOLEAN]

Init ==
  /\ up = TRUE
  /\ crashes = 0
  /\ jobs = [j \in Jobs |-> NoRecord]
  /\ row = [j \in Jobs |-> NoRecord]
  /\ pc = [j \in Jobs |-> "none"]
  /\ stage = [j \in Jobs |-> 0]
  /\ starting = [j \in Jobs |-> FALSE]
  /\ handle = [j \in Jobs |-> FALSE]
  /\ clear = [j \in Jobs |-> "none"]
  /\ told = [j \in Jobs |-> {}]
  /\ cleared = [j \in Jobs |-> FALSE]
  /\ lost = [j \in Jobs |-> FALSE]
  /\ unsaved = [j \in Jobs |-> FALSE]

-----------------------------------------------------------------------------
(* The store. *)

\* The row save_job_snapshot leaves: it keeps rows the record does not have, and
\* brings a soft-deleted row back.
Upsert(old, r) ==
  [status |-> r.status, cancelRequested |-> r.cancelRequested,
   rows |-> r.rows \/ (old # NoRecord /\ old.rows), deleted |-> FALSE]

\* _persist_record_snapshot for the records of js that are in J.
Persist(js, J) ==
  \E failed \in SUBSET J :
    /\ unsaved' = [j \in Jobs |-> unsaved[j] \/ j \in failed]
    /\ row' = [j \in Jobs |-> IF j \in J \ failed THEN Upsert(row[j], js[j]) ELSE row[j]]

\* _load_record_from_snapshot
Loaded(j) ==
  IF row[j] = NoRecord \/ (row[j] # NoRecord /\ row[j].deleted) THEN NoRecord
  ELSE [status |-> row[j].status, cancelRequested |-> row[j].cancelRequested, rows |-> row[j].rows]

-----------------------------------------------------------------------------
(* The registry. *)

IsFinished(js, j) == js[j] # NoRecord /\ js[j].status \in Finished

\* What _cleanup_jobs_locked may drop.
MayDrop == {j \in Jobs : IsFinished(jobs, j)}

Without(E) == [j \in Jobs |-> IF j \in E THEN NoRecord ELSE jobs[j]]

Working(j) == pc[j] \notin {"none", "done"}

\* A cleanup that drops E forgets the handles of E, too.
DropResources(E) ==
  /\ handle' = [j \in Jobs |-> handle[j] /\ j \notin E]
  /\ lost' = [j \in Jobs |-> lost[j] \/ (j \in E /\ Working(j))]

\* The record a handler finds, after the cleanup left js.
Found(js, j) == IF js[j] = NoRecord THEN Loaded(j) ELSE js[j]

Tell(j, r) ==
  told' = IF r.status \in Finished THEN [told EXCEPT ![j] = @ \cup {r.status}] ELSE told

-----------------------------------------------------------------------------
(* The API handlers. *)

\* start_optimization_job up to thread.start()
StartOptimizationJob(j) ==
  /\ up /\ pc[j] = "none"
  /\ \E E \in SUBSET MayDrop :
       /\ jobs' = [Without(E) EXCEPT ![j] =
                     [status |-> "pending", cancelRequested |-> FALSE, rows |-> FALSE]]
       /\ DropResources(E)
  /\ Persist(jobs', {j})
  /\ pc' = [pc EXCEPT ![j] = "check"]
  /\ starting' = [starting EXCEPT ![j] = TRUE]
  /\ UNCHANGED <<up, crashes, stage, clients>>

\* The second critical section of the starter: the thread may have ended by now.
Register(j) ==
  /\ starting[j]
  /\ starting' = [starting EXCEPT ![j] = FALSE]
  /\ handle' = [handle EXCEPT ![j] = TRUE]
  /\ UNCHANGED <<up, crashes, jobs, store, pc, stage, clients, lost>>

\* _refresh_record_from_snapshot_for_remote_worker_locked: without a live handle of
\* its own, an unfinished record gives way to a snapshot that says otherwise.
Refreshed(j, r) ==
  IF (handle'[j] /\ Working(j)) \/ r.status \in Finished \/ Loaded(j) = NoRecord
  THEN r ELSE Loaded(j)

\* A finished record without rows takes the rows of the snapshot.
WithStoredRows(j, r) ==
  IF r.status \in Finished /\ Loaded(j) # NoRecord
  THEN [r EXCEPT !.rows = @ \/ Loaded(j).rows] ELSE r

\* _ensure_running_job_alive_locked: the handle says that the thread is dead.
IsOrphan(j, r) == r.status = "running" /\ handle'[j] /\ ~Working(j)

\* get_optimization_status, which the rows, heatmap and progress views repeat.
GetOptimizationStatus(j) ==
  /\ up
  /\ \E E \in SUBSET MayDrop :
       /\ DropResources(E)
       /\ IF Found(Without(E), j) = NoRecord
          THEN jobs' = Without(E) /\ UNCHANGED <<store, told>>
          ELSE LET r == WithStoredRows(j, Refreshed(j, Found(Without(E), j)))
               IN  IF IsOrphan(j, r)
                   THEN /\ jobs' = [Without(E) EXCEPT ![j] = [r EXCEPT !.status = "failed"]]
                        /\ Persist(jobs', {j})
                        /\ Tell(j, jobs'[j])
                   ELSE /\ jobs' = [Without(E) EXCEPT ![j] = r]
                        /\ Tell(j, r)
                        /\ UNCHANGED store
  /\ UNCHANGED <<up, crashes, pc, stage, starting, clear, cleared>>

Cancelled(r) ==
  [r EXCEPT !.cancelRequested = TRUE, !.status = IF @ = "pending" THEN "cancelled" ELSE @]

\* set_job_cancel_requested alone, where the save that follows is throttled or fails.
FlagRow(j) ==
  row' = IF row[j] = NoRecord THEN row ELSE [row EXCEPT ![j].cancelRequested = TRUE]

\* cancel_optimization_job
CancelOptimizationJob(j) ==
  /\ up
  /\ \E E \in SUBSET MayDrop :
       /\ DropResources(E)
       /\ LET r == Found(Without(E), j) IN
          \/ r = NoRecord /\ jobs' = Without(E) /\ UNCHANGED <<store, told>>
          \/ /\ r # NoRecord /\ r.status \in Finished
             /\ jobs' = [Without(E) EXCEPT ![j] = r]
             /\ Tell(j, r)
             /\ UNCHANGED store
          \/ /\ r # NoRecord /\ r.status \notin Finished
             /\ jobs' = [Without(E) EXCEPT ![j] = Cancelled(r)]
             /\ Tell(j, jobs'[j])
             /\ \/ Persist(jobs', {j})
                \/ FlagRow(j) /\ unsaved' = [unsaved EXCEPT ![j] = @ \/ r.status = "pending"]
  /\ UNCHANGED <<up, crashes, pc, stage, starting, clear, cleared>>

\* clear_selected_optimization_history: the SELECT that decides what to answer,
\* the UPDATE, and the critical section that forgets the record.
ClearRead(j) ==
  /\ up /\ clear[j] = "none" /\ j \in Clearable
  /\ row[j] # NoRecord /\ ~row[j].deleted /\ row[j].status \in Finished
  /\ clear' = [clear EXCEPT ![j] = "update"]
  /\ UNCHANGED <<up, crashes, jobs, store, threads, told, cleared, lost>>

ClearUpdate(j) ==
  /\ clear[j] = "update"
  /\ row' = IF row[j].status \in Finished THEN [row EXCEPT ![j].deleted = TRUE] ELSE row
  /\ clear' = [clear EXCEPT ![j] = "drop"]
  /\ UNCHANGED <<up, crashes, jobs, threads, told, cleared, lost, unsaved>>

ClearDrop(j) ==
  /\ clear[j] = "drop"
  /\ IF IsFinished(jobs, j)
     THEN jobs' = Without({j}) /\ DropResources({j})
     ELSE UNCHANGED <<jobs, handle, lost>>
  /\ clear' = [clear EXCEPT ![j] = "none"]
  /\ cleared' = [cleared EXCEPT ![j] = TRUE]
  /\ UNCHANGED <<up, crashes, store, pc, stage, starting, told>>

\* restore_selected_optimization_history
Restore(j) ==
  /\ up /\ row[j] # NoRecord /\ row[j].deleted
  /\ row' = [row EXCEPT ![j].deleted = FALSE]
  /\ cleared' = [cleared EXCEPT ![j] = FALSE]
  /\ UNCHANGED <<up, crashes, jobs, threads, clear, told, lost, unsaved>>

-----------------------------------------------------------------------------
(* The thread of a job, _run_job. *)

\* _is_cancel_requested: a missing record is not cancelled.
IsCancelRequested(j) == jobs[j] # NoRecord /\ jobs[j].cancelRequested

RaiseIfCancelled(j) ==
  /\ pc[j] = "check"
  /\ pc' = [pc EXCEPT ![j] = IF IsCancelRequested(j) THEN "cancel"
                             ELSE IF stage[j] = LastStage THEN "commit" ELSE "work"]
  /\ UNCHANGED <<up, crashes, jobs, store, stage, starting, handle, clients, lost>>

\* _update_job_meta, r being what it makes of the record.
UpdateJobMeta(j, r) ==
  IF jobs[j] = NoRecord THEN UNCHANGED <<jobs, store>>
  ELSE jobs' = [jobs EXCEPT ![j] = r] /\ Persist(jobs', {j})

\* The first piece of work sets RUNNING; each later one may raise, or ends in an
\* update (candles, funding rates, evaluated combinations, the best run).
Work(j) ==
  /\ pc[j] = "work"
  /\ \/ /\ UpdateJobMeta(j, IF stage[j] = 0 THEN [jobs[j] EXCEPT !.status = "running"] ELSE jobs[j])
        /\ pc' = [pc EXCEPT ![j] = "check"]
        /\ stage' = [stage EXCEPT ![j] = @ + 1]
     \/ /\ stage[j] > 0
        /\ pc' = [pc EXCEPT ![j] = "fail"]
        /\ UNCHANGED <<jobs, store, stage>>
  /\ UNCHANGED <<up, crashes, starting, handle, clients, lost>>

\* The last critical section: _JOBS[job_id] raises for a missing record.
Commit(j) ==
  /\ pc[j] = "commit"
  /\ IF jobs[j] = NoRecord
     THEN pc' = [pc EXCEPT ![j] = "fail"] /\ UNCHANGED <<jobs, store>>
     ELSE /\ jobs' = [jobs EXCEPT ![j] = [@ EXCEPT !.status = "completed", !.rows = TRUE]]
          /\ Persist(jobs', {j})
          /\ pc' = [pc EXCEPT ![j] = "finally"]
  /\ UNCHANGED <<up, crashes, stage, starting, handle, clients, lost>>

\* except JobCancelledError, except Exception
EndWithout(j) ==
  /\ \/ pc[j] = "cancel" /\ UpdateJobMeta(j, [jobs[j] EXCEPT !.status = "cancelled"])
     \/ pc[j] = "fail" /\ UpdateJobMeta(j, [jobs[j] EXCEPT !.status = "failed"])
  /\ pc' = [pc EXCEPT ![j] = "resave"]
  /\ UNCHANGED <<up, crashes, stage, starting, handle, clients, lost>>

\* Their second critical section saves the record once more, now with rows.
Resave(j) ==
  /\ pc[j] = "resave"
  /\ IF jobs[j] = NoRecord THEN UNCHANGED store ELSE Persist(jobs, {j})
  /\ pc' = [pc EXCEPT ![j] = "finally"]
  /\ UNCHANGED <<up, crashes, jobs, stage, starting, handle, clients, lost>>

Finally(j) ==
  /\ pc[j] = "finally"
  /\ handle' = [handle EXCEPT ![j] = FALSE]
  /\ pc' = [pc EXCEPT ![j] = "done"]
  /\ UNCHANGED <<up, crashes, jobs, store, stage, starting, clients, lost>>

-----------------------------------------------------------------------------
(* The process dies, and the next one recovers before it serves requests. *)

Crash ==
  /\ up /\ crashes < MaxCrashes
  /\ up' = FALSE
  /\ crashes' = crashes + 1
  /\ jobs' = [j \in Jobs |-> NoRecord]
  /\ pc' = [j \in Jobs |-> IF pc[j] = "none" THEN "none" ELSE "done"]
  /\ starting' = [j \in Jobs |-> FALSE]
  /\ handle' = [j \in Jobs |-> FALSE]
  /\ clear' = [j \in Jobs |-> "none"]
  /\ lost' = [j \in Jobs |-> lost[j] \/ Working(j)]
  /\ UNCHANGED <<store, stage, told, cleared>>

\* list_recoverable_job_snapshots
Recoverable_All == {j \in Jobs : Loaded(j) # NoRecord}   \* mutated form: no WHERE status
Recoverable == {j \in Jobs : Loaded(j) # NoRecord /\ Loaded(j).status \notin Finished}

\* What the recovery makes of the record of a job it starts again.
Restarted(r) == [r EXCEPT !.status = "pending", !.cancelRequested = FALSE]

\* recover_interrupted_optimization_jobs: the jobs whose request cannot be parsed
\* have failed, and of the others the most recently saved are started again, up to
\* the limit; which these are is left open.
Recover ==
  /\ ~up
  /\ up' = TRUE
  /\ \E F \in SUBSET (Recoverable \cap Broken), S \in SUBSET Recoverable :
       /\ S \cap F = {}
       /\ \/ Cardinality(S) = RecoveryMax
          \/ Cardinality(S) < RecoveryMax /\ S = Recoverable \ F
       /\ jobs' = [j \in Jobs |-> IF j \in F THEN [Loaded(j) EXCEPT !.status = "failed"]
                                ELSE IF j \in S THEN Restarted(Loaded(j)) ELSE NoRecord]
       /\ Persist(jobs', F \cup S)
       /\ pc' = [j \in Jobs |-> IF j \in S THEN "check" ELSE pc[j]]
       /\ stage' = [j \in Jobs |-> IF j \in S THEN 0 ELSE stage[j]]
       /\ starting' = [j \in Jobs |-> j \in S]
  /\ UNCHANGED <<crashes, handle, clients, lost>>

-----------------------------------------------------------------------------
Worker(j) ==
  RaiseIfCancelled(j) \/ Work(j) \/ Commit(j) \/ EndWithout(j) \/ Resave(j) \/ Finally(j)
Handler(j) == Register(j) \/ ClearUpdate(j) \/ ClearDrop(j)
Client(j) ==
  \/ StartOptimizationJob(j) \/ GetOptimizationStatus(j) \/ CancelOptimizationJob(j)
  \/ ClearRead(j) \/ Restore(j)

Next == Crash \/ Recover \/ \E j \in Jobs : Client(j) \/ Handler(j) \/ Worker(j)

\* Threads and handlers under way keep running, and a dead process is restarted.
Spec ==
  /\ Init /\ [][Next]_vars
  /\ WF_vars(Recover) /\ \A j \in Jobs : WF_vars(Worker(j)) /\ WF_vars(Handler(j))

-----------------------------------------------------------------------------
(* Properties. *)

\* Unless a save of it failed, what the registry knows of a job is on disk: no crash,
\* at whatever step, loses more than a client was shown.
RecordIsStored ==
  \A j \in Jobs :
    jobs[j] # NoRecord /\ ~unsaved[j] => /\ row[j] # NoRecord
                          /\ row[j].status = jobs[j].status
                          /\ row[j].cancelRequested = jobs[j].cancelRequested
                          /\ row[j].rows = jobs[j].rows

\* A client told COMPLETED can rely on it across crashes, recoveries, clearing and
\* restoring: the result stays on disk, and no recovery runs the job again.  A failed
\* save breaks this.
CompletedIsDurable ==
  \A j \in Jobs : "completed" \in told[j] /\ ~unsaved[j] =>
    /\ row[j] # NoRecord /\ row[j].status = "completed" /\ row[j].rows
    /\ pc[j] \in {"finally", "done"}

\* A client told CANCELLED or FAILED is shown COMPLETED only if the registry lost
\* the record of the running job in between, by a crash or by a cleanup: recovery
\* forgets a cancellation, and a missing record does not count as one.  A cancellation
\* that was not saved is lost, too: until the handle is registered, a poll takes the job
\* for a remote one and prefers the snapshot.
OneAnswerUnlessLost ==
  \A j \in Jobs : "completed" \in told[j] => told[j] = {"completed"} \/ lost[j] \/ unsaved[j]

\* As long as the process lives, an unfinished record has a thread that will finish
\* it: nobody polls a job for ever.  A failed save breaks this: the cleanup drops a
\* finished record that only memory knew to be finished, and the next poll loads the
\* stored RUNNING one.
UnfinishedHasThread ==
  \A j \in Jobs : crashes = 0 /\ ~unsaved[j] /\ jobs[j] # NoRecord /\ jobs[j].status \notin Finished => Working(j)

\* What a registry with snapshots keeps to, whatever dies or fails to save.
JobsAreDurable ==
  TypeOK /\ RecordIsStored /\ CompletedIsDurable /\ OneAnswerUnlessLost /\ UnfinishedHasThread
=============================================================================
