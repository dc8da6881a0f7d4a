------------------------------ MODULE BacktestArq ------------------------------
(***************************************************************************)
(* Backtest jobs on the ARQ backend (backend/app/services/backtest_jobs.py *)
(* with backtest_job_store.py): API processes that start, poll and cancel  *)
(* a job, a queue that delivers it at least once, a worker that runs it,   *)
(* and the SQLite row all of them read and write.                          *)
(*                                                                         *)
(* A transaction on the row is one action; a handler and the worker are    *)
(* between two transactions at each value of their pc, holding what they   *)
(* read before.  The worker's private copy of the meta only ever says what *)
(* its pc says, so it is not a variable.  Busy retries of SQLite are part  *)
(* of the transaction.  Payloads are left out: both sides parse them with  *)
(* the same model, so the invalid-payload branch is not reached.           *)
(***************************************************************************)
EXTENDS Integers, FiniteSets

CONSTANTS
  QueueJobs,      \* job ids
  NoRow,          \* the answer of a SELECT that finds no row
  Pieces,         \* the pieces of work of a job: 4
  MaxDeliveries   \* how often the queue hands a job to a worker (arq's max_tries)

Ended == {"completed", "failed", "cancelled"}
RowStatus == {"pending", "running"} \cup Ended
Row == [status : RowStatus, result : BOOLEAN, cancelRequested : BOOLEAN]

ASSUME QueueAssumption ==
  NoRow \notin Row /\ Pieces \in Nat \ {0} /\ MaxDeliveries \in Nat \ {0}

VARIABLES
  row,         \* backtest_job_snapshots
  queue,       \* where the job is for arq: none, queued, taken, dropped (given up) or done
  deliveries,  \* how often a worker took it
  start,       \* the handler that starts the job
  cancel,      \* the handler that cancels the job, one at a time
  read,        \* the row that handler loaded
  worker,      \* the worker that runs the job
  piece,       \* the pieces of work this run has behind it
  shown,       \* history: the final statuses a client was shown
  overwrote,   \* history: a cancellation wrote an unfinished status over a finished row
  purged       \* history: the store has forgotten the row

queueVars == <<row, queue, deliveries, start, cancel, read, worker, piece, shown, overwrote, purged>>
history == <<overwrote, purged>>

QueueTypeOK ==
  /\ row \in [QueueJobs -> Row \cup {NoRow}]
  /\ queue \in [QueueJobs -> {"none", "queued", "taken", "dropped", "done"}]
  /\ deliveries \in [QueueJobs -> 0 .. MaxDeliveries]
  /\ start \in [QueueJobs -> {"none", "enqueue", "failed", "raised", "answered"}]
  /\ cancel \in [QueueJobs -> {"none", "flag", "save"}]
  /\ read \in [QueueJobs -> Row \cup {NoRow}]
  /\ worker \in [QueueJobs -> {"idle", "check", "save", "complete", "cancel", "fail"}]
  /\ piece \in [QueueJobs -> 0 .. Pieces]
  /\ shown \in [QueueJobs -> SUBSET Ended]
  /\ overwrote \in [QueueJobs -> BOOLEAN]
  /\ purged \in [QueueJobs -> BOOLEAN]

QueueInit ==
  /\ row = [j \in QueueJobs |-> NoRow]
  /\ queue = [j \in QueueJobs |-> "none"]
  /\ deliveries = [j \in QueueJobs |-> 0]
  /\ start = [j \in QueueJobs |-> "none"]
  /\ cancel = [j \in QueueJobs |-> "none"]
  /\ read = [j \in QueueJobs |-> NoRow]
  /\ worker = [j \in QueueJobs |-> "idle"]
  /\ piece = [j \in QueueJobs |-> 0]
  /\ shown = [j \in QueueJobs |-> {}]
  /\ overwrote = [j \in QueueJobs |-> FALSE]
  /\ purged = [j \in QueueJobs |-> FALSE]

-----------------------------------------------------------------------------
(* The store. *)

\* The row save_backtest_job_snapshot leaves, given the old row, the status and
\* the optional result.  A result that is not given keeps the old one; the flag
\* does not: COALESCE(?, 0) turns a flag that is not given into 0 before the
\* conflict clause looks for NULL, so flag is FALSE where the caller gives none.
Upsert_ReplacesResult(old, status, result, flag) ==   \* mutated form: a missing result is stored as NULL
  [status |-> status, result |-> result, cancelRequested |-> flag]
Upsert(old, status, result, flag) ==
  [status |-> status, result |-> result \/ (old # NoRow /\ old.result), cancelRequested |-> flag]

NotGiven == FALSE   \* no result, or no flag, among the arguments of a save

SaveSnapshot(j, status, result, flag) ==
  row' = [row EXCEPT ![j] = Upsert(row[j], status, result, flag)]

\* set_backtest_cancel_requested(job_id, True)
SetCancelRequested(j) ==
  row' = IF row[j] = NoRow THEN row ELSE [row EXCEPT ![j].cancelRequested = TRUE]

\* is_backtest_cancel_requested: a missing row is not cancelled.
RowIsCancelled(j) == row[j] # NoRow /\ row[j].cancelRequested

\* _cleanup_if_needed: the store forgets rows by age and beyond its size limit,
\* whatever their status.
Purge(j) ==
  /\ row[j] # NoRow
  /\ row' = [row EXCEPT ![j] = NoRow]
  /\ purged' = [purged EXCEPT ![j] = TRUE]
  /\ UNCHANGED <<queue, deliveries, start, cancel, read, worker, piece, shown, overwrote>>

-----------------------------------------------------------------------------
(* The API process. *)

\* start_backtest_job up to the call of the queue.
PostJob(j) ==
  /\ start[j] = "none"
  /\ SaveSnapshot(j, "pending", NotGiven, NotGiven)
  /\ start' = [start EXCEPT ![j] = "enqueue"]
  /\ UNCHANGED <<queue, deliveries, cancel, read, worker, piece, shown, history>>

\* enqueue_backtest_job returns, raises, or times out after the job went in.
Enqueue(j) ==
  /\ start[j] = "enqueue"
  /\ \/ /\ start' = [start EXCEPT ![j] = "answered"]
        /\ queue' = [queue EXCEPT ![j] = "queued"]
     \/ /\ start' = [start EXCEPT ![j] = "failed"]
        /\ queue' \in {queue, [queue EXCEPT ![j] = "queued"]}
  /\ UNCHANGED <<row, deliveries, cancel, read, worker, piece, shown, history>>

\* except Exception: the job is marked FAILED and the error raised again (503).
EnqueueFailed(j) ==
  /\ start[j] = "failed"
  /\ SaveSnapshot(j, "failed", NotGiven, NotGiven)
  /\ start' = [start EXCEPT ![j] = "raised"]
  /\ UNCHANGED <<queue, deliveries, cancel, read, worker, piece, shown, history>>

Show(j, status) ==
  shown' = IF status \in Ended THEN [shown EXCEPT ![j] = @ \cup {status}] ELSE shown

\* get_backtest_job_status: only a client that was answered has the id.
ShowRow(j) ==
  /\ start[j] = "answered"
  /\ row[j] # NoRow
  /\ Show(j, row[j].status)
  /\ UNCHANGED <<row, queue, deliveries, start, cancel, read, worker, piece, history>>

\* cancel_backtest_job, first transaction: load; a finished job is answered as it
\* is, a missing one with 404.
CancelLoad(j) ==
  /\ start[j] = "answered"
  /\ cancel[j] = "none"
  /\ row[j] # NoRow
  /\ IF row[j].status \in Ended
     THEN Show(j, row[j].status) /\ UNCHANGED <<cancel, read>>
     ELSE /\ cancel' = [cancel EXCEPT ![j] = "flag"]
          /\ read' = [read EXCEPT ![j] = row[j]]
          /\ UNCHANGED shown
  /\ UNCHANGED <<row, queue, deliveries, start, worker, piece, history>>

\* Second transaction: the flag.
CancelFlag(j) ==
  /\ cancel[j] = "flag"
  /\ SetCancelRequested(j)
  /\ cancel' = [cancel EXCEPT ![j] = "save"]
  /\ UNCHANGED <<queue, deliveries, start, read, worker, piece, shown, history>>

\* What the handler writes back of the status it loaded.
WrittenBack(status) == IF status = "pending" THEN "cancelled" ELSE status

\* Third transaction: the meta loaded in the first one is written back.
CancelSave(j) ==
  /\ cancel[j] = "save"
  /\ LET status == WrittenBack(read[j].status) IN
       /\ SaveSnapshot(j, status, read[j].result, TRUE)
       /\ Show(j, status)
       /\ overwrote' = [overwrote EXCEPT ![j] =
            @ \/ (row[j] # NoRow /\ row[j].status \in Ended /\ status \notin Ended)]
  /\ cancel' = [cancel EXCEPT ![j] = "none"]
  /\ read' = [read EXCEPT ![j] = NoRow]
  /\ UNCHANGED <<queue, deliveries, start, worker, piece, purged>>

-----------------------------------------------------------------------------
(* The worker, run_backtest_job_from_arq. *)

\* The queue hands the job over; a job without a row is dropped.
Take(j) ==
  /\ queue[j] = "queued"
  /\ deliveries' = [deliveries EXCEPT ![j] = @ + 1]
  /\ IF row[j] = NoRow
     THEN queue' = [queue EXCEPT ![j] = "done"] /\ UNCHANGED <<worker, piece>>
     ELSE /\ queue' = [queue EXCEPT ![j] = "taken"]
          /\ worker' = [worker EXCEPT ![j] = "check"]
          /\ piece' = [piece EXCEPT ![j] = 0]
  /\ UNCHANGED <<row, start, cancel, read, shown, history>>

\* _raise_if_cancelled_arq
CheckCancelled(j) ==
  /\ worker[j] = "check"
  /\ worker' = [worker EXCEPT ![j] = IF RowIsCancelled(j) THEN "cancel"
                                     ELSE IF piece[j] = Pieces THEN "complete" ELSE "save"]
  /\ UNCHANGED <<row, queue, deliveries, start, cancel, read, piece, shown, history>>

\* The save that opens a piece of work, and the work, which may raise.
SaveAndWork(j) ==
  /\ worker[j] = "save"
  /\ SaveSnapshot(j, "running", NotGiven, NotGiven)
  /\ \/ /\ worker' = [worker EXCEPT ![j] = "check"]
        /\ piece' = [piece EXCEPT ![j] = @ + 1]
     \/ /\ worker' = [worker EXCEPT ![j] = "fail"]
        /\ UNCHANGED piece
  /\ UNCHANGED <<queue, deliveries, start, cancel, read, shown, history>>

\* The last save: COMPLETED with the result, CANCELLED or FAILED; then the queue
\* is told that the job is done.
End(j) ==
  /\ \/ worker[j] = "complete" /\ SaveSnapshot(j, "completed", TRUE, FALSE)
     \/ worker[j] = "cancel" /\ SaveSnapshot(j, "cancelled", NotGiven, TRUE)
     \/ worker[j] = "fail" /\ SaveSnapshot(j, "failed", NotGiven, NotGiven)
  /\ worker' = [worker EXCEPT ![j] = "idle"]
  /\ UNCHANGED <<queue, deliveries, start, cancel, read, piece, shown, history>>

Acknowledge(j) ==
  /\ queue[j] = "taken" /\ worker[j] = "idle"
  /\ queue' = [queue EXCEPT ![j] = "done"]
  /\ UNCHANGED <<row, deliveries, start, cancel, read, worker, piece, shown, history>>

\* The worker process dies before the acknowledgement: the queue delivers the job
\* again, or gives it up after the last delivery.
WorkerCrash(j) ==
  /\ queue[j] = "taken"
  /\ worker' = [worker EXCEPT ![j] = "idle"]
  /\ queue' = [queue EXCEPT ![j] = IF deliveries[j] < MaxDeliveries THEN "queued" ELSE "dropped"]
  /\ UNCHANGED <<row, deliveries, start, cancel, read, piece, shown, history>>

-----------------------------------------------------------------------------
RunRow(j) == Take(j) \/ CheckCancelled(j) \/ SaveAndWork(j) \/ End(j) \/ Acknowledge(j)
Handler(j) == Enqueue(j) \/ EnqueueFailed(j) \/ CancelFlag(j) \/ CancelSave(j)
Asker(j) == PostJob(j) \/ ShowRow(j) \/ CancelLoad(j)

QueueNext == \E j \in QueueJobs : Asker(j) \/ Handler(j) \/ RunRow(j) \/ WorkerCrash(j) \/ Purge(j)

\* A handler and a worker that runs keep running; clients may stop asking.
QueueSpec ==
  /\ QueueInit /\ [][QueueNext]_queueVars
  /\ \A j \in QueueJobs : WF_queueVars(RunRow(j)) /\ WF_queueVars(Handler(j))

-----------------------------------------------------------------------------
(* Properties. *)

HasStatus(j, S) == row[j] # NoRow /\ row[j].status \in S

\* Once a row holds a result no later save loses it: not the progress saves of a
\* second delivery, not the stale meta a cancellation writes back.
ResultIsKept ==
  [][\A j \in QueueJobs :
       row[j] # NoRow /\ row[j].result /\ row'[j] # NoRow => row'[j].result]_queueVars

\* A job whose row the store has forgotten comes back only through a handler or
\* a worker that was under way when it was forgotten: a delivery without a row
\* runs nothing.
ForgottenStaysForgotten ==
  \A j \in QueueJobs :
    [](/\ row[j] = NoRow /\ start[j] \in {"answered", "raised"}
       /\ worker[j] = "idle" /\ cancel[j] = "none"
       => [](row[j] = NoRow))

\* A cancellation that was answered CANCELLED before any worker took the job
\* holds, unless the row is forgotten: no delivery, first or repeated, brings the job to
\* COMPLETED.
CancelBeforePickupHolds ==
  \A j \in QueueJobs :
    [](deliveries[j] = 0 /\ "cancelled" \in shown[j]
       => [](HasStatus(j, {"completed"}) => purged[j]))

\* A queued job reaches a final status, unless the queue gave it up, the store forgot
\* it or a cancellation wrote a stale unfinished status over its outcome: the handler
\* writes back the status it loaded two transactions before.
QueuedJobSettles ==
  \A j \in QueueJobs :
    queue[j] = "queued" ~>
      HasStatus(j, Ended) \/ queue[j] = "dropped" \/ purged[j] \/ overwrote[j]

\* What the queue keeps to, whatever is delivered again, cancelled or forgotten.
QueueKeepsResults == []QueueTypeOK /\ ResultIsKept /\ ForgottenStaysForgotten /\ CancelBeforePickupHolds
=============================================================================
