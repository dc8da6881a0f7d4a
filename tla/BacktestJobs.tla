----------------------------- MODULE BacktestJobs -----------------------------
(***************************************************************************)
(* The in-memory backtest job registry of                                  *)
(* backend/app/services/backtest_jobs.py: the dictionary _JOBS, the lock   *)
(* that guards it, one daemon thread per job and the API handlers that     *)
(* start, poll and cancel jobs.                                            *)
(*                                                                         *)
(* Every critical section of _JOBS_LOCK is one action; a worker thread is  *)
(* between two critical sections at each value of pc.  Loading data,       *)
(* simulating and scoring touch no shared state, so each of them is the    *)
(* choice between going on and raising, taken with the update before it.   *)
(* Progress percentages and messages are left out; a result is a Boolean.  *)
(***************************************************************************)
EXTENDS Integers, FiniteSets

CONSTANTS
  Jobs,        \* the job ids (uuid4().hex: never used twice)
  NoRecord,    \* what _JOBS.get(job_id) returns for a missing job
  MaxRecords,  \* _JOB_MAX_RECORDS
  TTL,         \* _JOB_TTL_SECONDS
  LastStage,   \* the pieces of work of a job: 4 (candles, funding, simulation, scoring)
  MaxTime      \* bound on the clock, for TLC

Finished == {"completed", "failed", "cancelled"}
Status == {"pending", "running"} \cup Finished
NotFinished == -1   \* finished_at is None

\* A _BacktestJobRecord with the parts of its meta that control depends on.
Record == [status : Status, finishedAt : Nat \cup {NotFinished},
           cancelRequested : BOOLEAN, result : BOOLEAN]

ASSUME JobsAssumption == IsFiniteSet(Jobs)
ASSUME NoRecordAssumption == NoRecord \notin Record
ASSUME LimitAssumption == {MaxRecords, TTL, MaxTime} \subseteq Nat /\ LastStage \in Nat \ {0}

VARIABLES
  jobs,    \* _JOBS, NoRecord where the dictionary has no entry
  pc,      \* where each job's thread is
  stage,   \* how many of the four pieces of work the thread has behind it
  gauge,   \* the queue depth last published
  now,     \* the clock
  told     \* history: the final statuses a client was shown, per job

vars == <<jobs, pc, stage, gauge, now, told>>

TypeOK ==
  /\ jobs \in [Jobs -> Record \cup {NoRecord}]
  /\ pc \in [Jobs -> {"none", "begin", "check", "update", "commit",
                      "cancel", "fail", "finally", "done"}]
  /\ stage \in [Jobs -> 0 .. LastStage]
  /\ gauge \in Nat
  /\ now \in Nat
  /\ told \in [Jobs -> SUBSET Finished]

Init ==
  /\ jobs = [j \in Jobs |-> NoRecord]
  /\ pc = [j \in Jobs |-> "none"]
  /\ stage = [j \in Jobs |-> 0]
  /\ gauge = 0
  /\ now = 0
  /\ told = [j \in Jobs |-> {}]

-----------------------------------------------------------------------------
Present(js) == {j \in Jobs : js[j] # NoRecord}
Active(js) == {j \in Present(js) : js[j].status \notin Finished}
FinishedJobs(js) == Present(js) \ Active(js)

\* What _refresh_queue_depth_locked publishes.
Depth(js) == Cardinality(Active(js))

IsExpired(r) == r.status \in Finished /\ r.finishedAt # NotFinished /\ r.finishedAt < now - TTL

\* The records left once those past their TTL are gone.
AfterExpiry(js) ==
  [j \in Jobs |-> IF js[j] # NoRecord /\ IsExpired(js[j]) THEN NoRecord ELSE js[j]]

MayEvict_AnyStatus(js) == Present(js)   \* mutated form: running jobs are candidates too
MayEvict(js) == FinishedJobs(js)

EvictBefore(r, s) == r.finishedAt <= s.finishedAt

\* The sets of finished records the size limit may take: just enough of them,
\* the earliest finished first (records finished at one instant in any order).
Evictions(js) ==
  LET excess == Cardinality(Present(js)) - MaxRecords
  IN  {E \in SUBSET MayEvict(js) :
        /\ \A e \in E, k \in MayEvict(js) \ E : EvictBefore(js[e], js[k])
        /\ \/ Cardinality(E) = excess
           \/ excess <= 0 /\ E = {}
           \/ excess > Cardinality(MayEvict(js)) /\ E = MayEvict(js)}

Without(js, E) == [j \in Jobs |-> IF j \in E THEN NoRecord ELSE js[j]]

\* The registries _cleanup_jobs_locked can leave.
CleanedUp == {Without(AfterExpiry(jobs), E) : E \in Evictions(AfterExpiry(jobs))}

\* It refreshes the gauge only when the limit was exceeded.
GaugeAfterCleanup(js) ==
  IF Cardinality(Present(AfterExpiry(jobs))) <= MaxRecords THEN gauge ELSE Depth(js)

-----------------------------------------------------------------------------
(* The API handlers. *)

NewRecord ==
  [status |-> "pending", finishedAt |-> NotFinished, cancelRequested |-> FALSE, result |-> FALSE]

\* start_backtest_job, the request having passed validation.
StartBacktestJob(j) ==
  /\ pc[j] = "none"
  /\ \E js \in CleanedUp :
       /\ jobs' = [js EXCEPT ![j] = NewRecord]
       /\ gauge' = Depth(jobs')
  /\ pc' = [pc EXCEPT ![j] = "begin"]
  /\ UNCHANGED <<stage, now, told>>

\* What a response that carries the record r shows the client of job j.
Tell(j, r) ==
  told' = IF r.status \in Finished THEN [told EXCEPT ![j] = @ \cup {r.status}] ELSE told

\* get_backtest_job_status; a missing record is a 404.
GetBacktestJobStatus(j) ==
  \E js \in CleanedUp :
    /\ jobs' = js
    /\ gauge' = GaugeAfterCleanup(js)
    /\ IF js[j] # NoRecord THEN Tell(j, js[j]) ELSE UNCHANGED told
    /\ UNCHANGED <<pc, stage, now>>

\* What a cancellation makes of a record that is not finished: a job whose
\* thread has not set RUNNING yet is finished on the spot.
Cancelled_NoFlag(r) ==   \* mutated form: a pending job is finished but not flagged
  IF r.status = "pending" THEN [r EXCEPT !.status = "cancelled", !.finishedAt = now]
                          ELSE [r EXCEPT !.cancelRequested = TRUE]
Cancelled(r) ==
  IF r.status = "pending"
  THEN [r EXCEPT !.cancelRequested = TRUE, !.status = "cancelled", !.finishedAt = now]
  ELSE [r EXCEPT !.cancelRequested = TRUE]

\* cancel_backtest_job: a finished job is answered as it is.
CancelBacktestJob(j) ==
  \E js \in CleanedUp :
    /\ UNCHANGED <<pc, stage, now>>
    /\ \/ /\ js[j] = NoRecord
          /\ jobs' = js
          /\ gauge' = GaugeAfterCleanup(js)
          /\ UNCHANGED told
       \/ /\ js[j] # NoRecord
          /\ js[j].status \in Finished
          /\ jobs' = js
          /\ gauge' = GaugeAfterCleanup(js)
          /\ Tell(j, js[j])
       \/ /\ js[j] # NoRecord
          /\ js[j].status \notin Finished
          /\ jobs' = [js EXCEPT ![j] = Cancelled(js[j])]
          /\ gauge' = Depth(jobs')
          /\ Tell(j, Cancelled(js[j]))

-----------------------------------------------------------------------------
(* The thread of job j, _run_backtest_job. *)

\* record = _JOBS.get(job_id): the thread of a job already evicted ends here.
Begin(j) ==
  /\ pc[j] = "begin"
  /\ pc' = [pc EXCEPT ![j] = IF jobs[j] = NoRecord THEN "done" ELSE "check"]
  /\ UNCHANGED <<jobs, stage, gauge, now, told>>

\* _is_cancel_requested: an evicted job counts as cancelled.
IsCancelRequested(j) == IF jobs[j] = NoRecord THEN TRUE ELSE jobs[j].cancelRequested

\* _raise_if_cancelled.
RaiseIfCancelled(j) ==
  /\ pc[j] = "check"
  /\ pc' = [pc EXCEPT ![j] = IF IsCancelRequested(j) THEN "cancel"
                             ELSE IF stage[j] = LastStage THEN "commit" ELSE "update"]
  /\ UNCHANGED <<jobs, stage, gauge, now, told>>

\* _update_job_meta(job_id, ...), r being what it makes of the record.
UpdateJobMeta(j, r) ==
  /\ jobs' = IF jobs[j] = NoRecord THEN jobs ELSE [jobs EXCEPT ![j] = r]
  /\ gauge' = IF jobs[j] = NoRecord THEN gauge ELSE Depth(jobs')

\* What the update that opens the next piece of work makes of the record.
Opened(j) == IF stage[j] = 0 THEN [jobs[j] EXCEPT !.status = "running"] ELSE jobs[j]

\* The update that opens a piece of work, and the work: validation and candles
\* (status RUNNING), funding rates, the simulation, the scoring.
UpdateAndWork(j) ==
  /\ pc[j] = "update"
  /\ UpdateJobMeta(j, Opened(j))
  /\ \/ /\ pc' = [pc EXCEPT ![j] = "check"]
        /\ stage' = [stage EXCEPT ![j] = @ + 1]
     \/ /\ pc' = [pc EXCEPT ![j] = "fail"]
        /\ UNCHANGED stage
  /\ UNCHANGED <<now, told>>

\* The last critical section before the finally block.  It leaves the gauge alone.
Commit(j) ==
  /\ pc[j] = "commit"
  /\ jobs' = IF jobs[j] = NoRecord THEN jobs
             ELSE [jobs EXCEPT ![j] = [@ EXCEPT !.status = "completed",
                                                !.finishedAt = now,
                                                !.result = TRUE]]
  /\ pc' = [pc EXCEPT ![j] = "finally"]
  /\ UNCHANGED <<stage, gauge, now, told>>

\* except _BacktestCancelledError
EndCancelled(j) ==
  /\ pc[j] = "cancel"
  /\ UpdateJobMeta(j, [jobs[j] EXCEPT !.status = "cancelled", !.finishedAt = now])
  /\ pc' = [pc EXCEPT ![j] = "finally"]
  /\ UNCHANGED <<stage, now, told>>

\* except (ValueError, DataLoadError) and except Exception
EndFailed(j) ==
  /\ pc[j] = "fail"
  /\ UpdateJobMeta(j, [jobs[j] EXCEPT !.status = "failed", !.finishedAt = now])
  /\ pc' = [pc EXCEPT ![j] = "finally"]
  /\ UNCHANGED <<stage, now, told>>

\* finally
Finally(j) ==
  /\ pc[j] = "finally"
  /\ gauge' = Depth(jobs)
  /\ pc' = [pc EXCEPT ![j] = "done"]
  /\ UNCHANGED <<jobs, stage, now, told>>

Tick == now < MaxTime /\ now' = now + 1 /\ UNCHANGED <<jobs, pc, stage, gauge, told>>

Worker(j) ==
  \/ Begin(j) \/ RaiseIfCancelled(j) \/ UpdateAndWork(j) \/ Commit(j)
  \/ EndCancelled(j) \/ EndFailed(j) \/ Finally(j)

Client(j) == StartBacktestJob(j) \/ GetBacktestJobStatus(j) \/ CancelBacktestJob(j)

Next == Tick \/ \E j \in Jobs : Client(j) \/ Worker(j)

\* A started thread keeps running; clients and the clock may stop.
Spec == Init /\ [][Next]_vars /\ \A j \in Jobs : WF_vars(Worker(j))

-----------------------------------------------------------------------------
(* Properties. *)

\* A record carries a result exactly when its status is COMPLETED, whatever
\* cancellations, evictions and failures came between (GET /backtest/{job_id}
\* answers both fields of one record).
ResultIffCompleted ==
  \A j \in Present(jobs) : jobs[j].result <=> jobs[j].status = "completed"

\* A client that was told its job is COMPLETED is never told anything else, and
\* one told it was cancelled or failed never sees it completed: a thread that a
\* cancellation overtook before RUNNING may run on, but never to a result.
CompletedIsTheOnlyAnswer ==
  \A j \in Jobs : "completed" \in told[j] => told[j] = {"completed"}

\* The published queue depth is the number of unfinished jobs whenever no thread
\* is between its last update and its finally block, although evictions refresh
\* it only on one of two paths and the completing update not at all.
GaugeExactWhenSettled ==
  (\A j \in Jobs : pc[j] # "finally") => gauge = Depth(jobs)

\* What the records, the answers and the gauge keep to.
RegistryIsSound == ResultIffCompleted /\ CompletedIsTheOnlyAnswer /\ GaugeExactWhenSettled

\* A COMPLETED or FAILED record never changes again.
OutcomeIsFinal ==
  [][\A j \in Present(jobs) \cap Present(jobs') :
       jobs[j].status \in {"completed", "failed"} => jobs'[j] = jobs[j]]_vars

\* What the registry promises: the job is open until its thread can write to the
\* record no more, then its status is its outcome until cleanup drops it.
Phase(j) ==
  IF pc[j] = "none" THEN "absent"
  ELSE IF jobs[j] = NoRecord THEN "gone"
  ELSE IF pc[j] \in {"finally", "done"} THEN jobs[j].status
  ELSE IF jobs[j].cancelRequested THEN "withdrawn" ELSE "open"

Outcome == INSTANCE JobOutcome WITH phase <- [j \in Jobs |-> Phase(j)]

\* The registry implements JobOutcome, its fairness included: a job settles once,
\* only a withdrawn job is cancelled or dropped early, and none stays open.
ImplementsJobOutcome == Outcome!Spec
=============================================================================
