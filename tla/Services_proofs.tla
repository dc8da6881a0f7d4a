---------------------------- MODULE Services_proofs ----------------------------
(***************************************************************************)
(* Proofs about the services of the back end, which share no state, for    *)
(* any number of jobs, requests, counters and failures.  The registry of   *)
(* backtest jobs: its types, invariants and the safety half of the         *)
(* refinement of JobOutcome.  Backtest jobs on ARQ: results that are kept  *)
(* and cancellations that hold.  The ceilings: nobody is let in that is    *)
(* not counted.  Starts under one key: one job, one answer.                *)
(***************************************************************************)
EXTENDS BacktestJobs, BacktestArq, ConcurrencyLimit, Idempotency, FiniteSetTheorems, TLAPS

-----------------------------------------------------------------------------
(* The inductive invariant, as named parts. *)

\* What a record says about its thread.
RecordInv(j) ==
  LET r == jobs[j] IN
    /\ r.result <=> r.status = "completed"
    /\ r.status = "pending" =>
         pc[j] \in {"begin", "check", "update"} /\ stage[j] = 0 /\ ~r.cancelRequested
    /\ r.status \in {"completed", "failed"} => pc[j] \in {"finally", "done"}
    /\ r.status = "cancelled" =>
         r.cancelRequested /\ (pc[j] \in {"begin", "check", "update"} => stage[j] = 0)
    /\ pc[j] = "cancel" => r.cancelRequested
    /\ pc[j] = "commit" => r.status = "running"
    /\ pc[j] = "fail" => r.status = "running"
    /\ pc[j] \in {"finally", "done"} => r.status \in Finished

\* What the answers given so far say about the record.
ToldInv(j) ==
  /\ jobs[j] # NoRecord /\ "cancelled" \in told[j] =>
       jobs[j].cancelRequested /\ pc[j] # "commit" /\ jobs[j].status # "completed"
  /\ "failed" \in told[j] =>
       pc[j] \in {"finally", "done"} /\ (jobs[j] # NoRecord => jobs[j].status = "failed")
  /\ "completed" \in told[j] =>
       /\ told[j] = {"completed"}
       /\ pc[j] \in {"finally", "done"}
       /\ jobs[j] # NoRecord => jobs[j].status = "completed"

JobInv(j) ==
  /\ pc[j] = "none" => jobs[j] = NoRecord /\ stage[j] = 0 /\ told[j] = {}
  /\ pc[j] = "update" => stage[j] < LastStage
  /\ jobs[j] # NoRecord => RecordInv(j)
  /\ ToldInv(j)

Inv == TypeOK /\ (\A j \in Jobs : JobInv(j)) /\ GaugeExactWhenSettled

-----------------------------------------------------------------------------
(* What the helpers return. *)

LEMMA DepthType == ASSUME NEW js PROVE Depth(js) \in Nat
<1>1. Active(js) \subseteq Jobs
  BY DEF Active, Present
<1>2. QED
  BY <1>1, JobsAssumption, FS_Subset, FS_CardinalityType DEF Depth

\* Cleanup drops finished records and touches no other.
LEMMA CleanupDropsFinished ==
  ASSUME TypeOK, NEW js \in CleanedUp
  PROVE  /\ js \in [Jobs -> Record \cup {NoRecord}]
         /\ \A j \in Jobs : js[j] = jobs[j] \/ (js[j] = NoRecord /\ jobs[j].status \in Finished)
         /\ Active(js) = Active(jobs)
<1>1. PICK E \in Evictions(AfterExpiry(jobs)) : js = Without(AfterExpiry(jobs), E)
  BY DEF CleanedUp
<1>2. E \subseteq FinishedJobs(AfterExpiry(jobs))
  BY DEF Evictions, MayEvict
<1>3. AfterExpiry(jobs) \in [Jobs -> Record \cup {NoRecord}]
  BY DEF AfterExpiry, TypeOK
<1>4. \A j \in Jobs : \/ AfterExpiry(jobs)[j] = jobs[j]
                      \/ AfterExpiry(jobs)[j] = NoRecord /\ jobs[j].status \in Finished
  BY DEF AfterExpiry, IsExpired
<1>5. js \in [Jobs -> Record \cup {NoRecord}]
  BY <1>1, <1>3 DEF Without
<1>6. \A j \in Jobs : js[j] = jobs[j] \/ (js[j] = NoRecord /\ jobs[j].status \in Finished)
  BY <1>1, <1>2, <1>4 DEF Without, FinishedJobs, Active, Present
<1>7. Active(js) = Active(jobs)
  BY <1>6 DEF Active, Present
<1>8. QED
  BY <1>5, <1>6, <1>7

-----------------------------------------------------------------------------
(* Type correctness. *)

LEMMA InitTypeOK == Init => TypeOK
BY LimitAssumption DEF Init, TypeOK

LEMMA NewRecordType == NewRecord \in Record
BY DEF NewRecord, Record, Status, NotFinished

LEMMA FinishTypes ==
  ASSUME TypeOK, NEW r \in Record, NEW s \in Status, NEW b \in BOOLEAN
  PROVE  /\ [r EXCEPT !.status = s] \in Record
         /\ [r EXCEPT !.status = s, !.finishedAt = now] \in Record
         /\ [r EXCEPT !.status = s, !.finishedAt = now, !.result = TRUE] \in Record
         /\ Cancelled(r) \in Record
BY DEF TypeOK, Record, Status, Finished, Cancelled

LEMMA StepTypeOK == Inv /\ [Next]_vars => TypeOK'
<1> SUFFICES ASSUME Inv, [Next]_vars PROVE TypeOK'
  OBVIOUS
<1> TypeOK
  BY DEF Inv
<1>1. ASSUME NEW j \in Jobs, StartBacktestJob(j) PROVE TypeOK'
  BY <1>1, CleanupDropsFinished, NewRecordType, DepthType DEF StartBacktestJob, TypeOK
<1>2. ASSUME NEW j \in Jobs, GetBacktestJobStatus(j) PROVE TypeOK'
  <2>1. PICK js \in CleanedUp :
          /\ jobs' = js
          /\ gauge' = GaugeAfterCleanup(js)
          /\ IF js[j] # NoRecord THEN Tell(j, js[j]) ELSE UNCHANGED told
          /\ UNCHANGED <<pc, stage, now>>
    BY <1>2 DEF GetBacktestJobStatus
  <2>2. gauge' \in Nat
    BY <2>1, DepthType DEF GaugeAfterCleanup, TypeOK
  <2>3. told' \in [Jobs -> SUBSET Finished]
    BY <2>1 DEF Tell, TypeOK
  <2>4. QED
    BY <2>1, <2>2, <2>3, CleanupDropsFinished DEF TypeOK
<1>3. ASSUME NEW j \in Jobs, CancelBacktestJob(j) PROVE TypeOK'
  <2>1. PICK js \in CleanedUp :
          /\ UNCHANGED <<pc, stage, now>>
          /\ \/ jobs' = js
             \/ js[j] # NoRecord /\ jobs' = [js EXCEPT ![j] = Cancelled(js[j])]
          /\ gauge' = GaugeAfterCleanup(js) \/ gauge' = Depth(jobs')
          /\ \/ UNCHANGED told
             \/ Tell(j, js[j])
             \/ Tell(j, Cancelled(js[j]))
    BY <1>3 DEF CancelBacktestJob
  <2>2. gauge' \in Nat
    BY <2>1, DepthType DEF GaugeAfterCleanup, TypeOK
  <2>3. told' \in [Jobs -> SUBSET Finished]
    BY <2>1 DEF Tell, TypeOK
  <2>4. js \in [Jobs -> Record \cup {NoRecord}]
    BY CleanupDropsFinished
  <2>5. js[j] # NoRecord => Cancelled(js[j]) \in Record
    BY <2>4, FinishTypes DEF Status
  <2>6. jobs' \in [Jobs -> Record \cup {NoRecord}]
    BY <2>1, <2>4, <2>5
  <2>7. QED
    BY <2>1, <2>2, <2>3, <2>6 DEF TypeOK
<1>4. ASSUME NEW j \in Jobs, Begin(j) PROVE TypeOK'
  BY <1>4 DEF Begin, TypeOK
<1>5. ASSUME NEW j \in Jobs, RaiseIfCancelled(j) PROVE TypeOK'
  BY <1>5 DEF RaiseIfCancelled, TypeOK
<1>6. ASSUME NEW j \in Jobs, NEW r, jobs[j] # NoRecord => r \in Record, UpdateJobMeta(j, r)
      PROVE  jobs' \in [Jobs -> Record \cup {NoRecord}] /\ gauge' \in Nat
  BY <1>6, DepthType DEF UpdateJobMeta, TypeOK
<1>7. ASSUME NEW j \in Jobs, UpdateAndWork(j) PROVE TypeOK'
  <2>1. jobs[j] # NoRecord => jobs[j] \in Record
    BY DEF TypeOK
  <2>2. jobs[j] # NoRecord => [jobs[j] EXCEPT !.status = "running"] \in Record
    BY <2>1, FinishTypes DEF Status
  <2>3. jobs' \in [Jobs -> Record \cup {NoRecord}] /\ gauge' \in Nat
    BY <1>6, <1>7, <2>1, <2>2 DEF UpdateAndWork, Opened
  <2>4. stage[j] < LastStage
    BY <1>7 DEF Inv, JobInv, UpdateAndWork
  <2>5. stage' \in [Jobs -> 0 .. LastStage]
    BY <1>7, <2>4, LimitAssumption DEF UpdateAndWork, TypeOK
  <2>6. QED
    BY <1>7, <2>3, <2>5 DEF UpdateAndWork, TypeOK
<1>8. ASSUME NEW j \in Jobs, Commit(j) PROVE TypeOK'
  <2>1. jobs[j] # NoRecord =>
          [jobs[j] EXCEPT !.status = "completed", !.finishedAt = now, !.result = TRUE] \in Record
    BY FinishTypes DEF Status, Finished, TypeOK
  <2>2. QED
    BY <1>8, <2>1 DEF Commit, TypeOK
<1>9. ASSUME NEW j \in Jobs, EndCancelled(j) \/ EndFailed(j) PROVE TypeOK'
  <2>1. \A s \in Finished :
          jobs[j] # NoRecord => [jobs[j] EXCEPT !.status = s, !.finishedAt = now] \in Record
    BY FinishTypes DEF Status, TypeOK
  <2>2. jobs' \in [Jobs -> Record \cup {NoRecord}] /\ gauge' \in Nat
    BY <1>6, <1>9, <2>1 DEF EndCancelled, EndFailed, Finished
  <2>3. QED
    BY <1>9, <2>2 DEF EndCancelled, EndFailed, TypeOK
<1>10. ASSUME NEW j \in Jobs, Finally(j) PROVE TypeOK'
  BY <1>10, DepthType DEF Finally, TypeOK
<1>11. CASE Tick
  BY <1>11 DEF Tick, TypeOK
<1>12. CASE UNCHANGED vars
  BY <1>12 DEF vars, TypeOK
<1>13. QED
  BY <1>1, <1>2, <1>3, <1>4, <1>5, <1>7, <1>8, <1>9, <1>10, <1>11, <1>12
     DEF Next, Worker, Client

-----------------------------------------------------------------------------
(* The inductive invariant is preserved. *)

\* A job whose thread and answers stand still keeps its part of the invariant,
\* whether its record stays or is dropped.
LEMMA JobInvStable ==
  ASSUME NEW k \in Jobs, JobInv(k),
         jobs'[k] = jobs[k] \/ jobs'[k] = NoRecord,
         pc'[k] = pc[k], stage'[k] = stage[k], told'[k] = told[k]
  PROVE  JobInv(k)'
BY DEF JobInv, RecordInv, ToldInv

\* Showing the client a record keeps what the answers say.
LEMMA ToldStable ==
  ASSUME TypeOK, NEW j \in Jobs, JobInv(j), NEW r \in Record, Tell(j, r),
         jobs'[j] = r, pc'[j] = pc[j], stage'[j] = stage[j],
         jobs[j] # NoRecord, RecordInv(j)',
         \/ r = jobs[j]
         \/ r.cancelRequested /\ jobs[j].status = "running" /\ r.status = "running"
         \/ r.cancelRequested /\ jobs[j].status = "pending" /\ r.status = "cancelled"
  PROVE  JobInv(j)'
<1>1. told[j] \subseteq Finished /\ told'[j] = IF r.status \in Finished THEN told[j] \cup {r.status} ELSE told[j]
  BY DEF Tell, TypeOK
<1>2. ToldInv(j) /\ RecordInv(j) /\ pc[j] # "none" /\ (pc[j] = "update" => stage[j] < LastStage)
  BY DEF JobInv
<1>3. r # NoRecord
  BY NoRecordAssumption
<1>4. CASE r.status \notin Finished
  BY <1>1, <1>2, <1>3, <1>4 DEF JobInv, ToldInv, RecordInv, Finished
<1>5. CASE r.status = "cancelled"
  BY <1>1, <1>2, <1>3, <1>5 DEF JobInv, ToldInv, RecordInv, Finished
<1>6. CASE r.status = "failed"
  BY <1>1, <1>2, <1>3, <1>6 DEF JobInv, ToldInv, RecordInv, Finished
<1>7. CASE r.status = "completed"
  BY <1>1, <1>2, <1>3, <1>7 DEF JobInv, ToldInv, RecordInv, Finished
<1>8. QED
  BY <1>4, <1>5, <1>6, <1>7 DEF Finished

LEMMA StepJobInv == Inv /\ [Next]_vars => \A k \in Jobs : JobInv(k)'
<1> SUFFICES ASSUME Inv, [Next]_vars, NEW k \in Jobs PROVE JobInv(k)'
  OBVIOUS
<1> USE DEF Inv
<1>1. ASSUME NEW j \in Jobs, StartBacktestJob(j) PROVE JobInv(k)'
  <2>1. PICK js \in CleanedUp : jobs' = [js EXCEPT ![j] = NewRecord]
    BY <1>1 DEF StartBacktestJob
  <2>2. CASE k = j
    <3>1. jobs'[k] = NewRecord /\ pc'[k] = "begin" /\ stage'[k] = 0 /\ told'[k] = {}
      BY <1>1, <2>1, <2>2, CleanupDropsFinished DEF StartBacktestJob, JobInv, TypeOK
    <3>2. QED
      BY <3>1 DEF JobInv, RecordInv, ToldInv, NewRecord
  <2>3. CASE k # j
    BY <1>1, <2>1, <2>3, CleanupDropsFinished, JobInvStable DEF StartBacktestJob, TypeOK
  <2>4. QED
    BY <2>2, <2>3
<1>2. ASSUME NEW j \in Jobs, GetBacktestJobStatus(j) PROVE JobInv(k)'
  <2>1. PICK js \in CleanedUp :
          /\ jobs' = js
          /\ IF js[j] # NoRecord THEN Tell(j, js[j]) ELSE UNCHANGED told
          /\ UNCHANGED <<pc, stage, now>>
    BY <1>2 DEF GetBacktestJobStatus
  <2>2. jobs'[k] = jobs[k] \/ jobs'[k] = NoRecord
    BY <2>1, CleanupDropsFinished
  <2>3. CASE k = j /\ js[j] # NoRecord
    <3>1. jobs'[k] = jobs[k] /\ jobs[k] \in Record
      BY <2>1, <2>2, <2>3 DEF TypeOK
    <3>2. RecordInv(k)'
      BY <2>1, <2>3, <3>1 DEF JobInv, RecordInv
    <3>3. QED
      BY <2>1, <2>3, <3>1, <3>2, ToldStable
  <2>4. CASE k # j \/ js[j] = NoRecord
    BY <2>1, <2>2, <2>4, JobInvStable DEF Tell, TypeOK
  <2>5. QED
    BY <2>3, <2>4
<1>3. ASSUME NEW j \in Jobs, CancelBacktestJob(j) PROVE JobInv(k)'
  <2>1. PICK js \in CleanedUp :
          /\ UNCHANGED <<pc, stage, now>>
          /\ \/ js[j] = NoRecord /\ jobs' = js /\ UNCHANGED told
             \/ js[j] # NoRecord /\ js[j].status \in Finished /\ jobs' = js /\ Tell(j, js[j])
             \/ /\ js[j] # NoRecord
                /\ js[j].status \notin Finished
                /\ jobs' = [js EXCEPT ![j] = Cancelled(js[j])]
                /\ Tell(j, Cancelled(js[j]))
    BY <1>3 DEF CancelBacktestJob
  <2>2. js \in [Jobs -> Record \cup {NoRecord}] /\ (js[k] = jobs[k] \/ js[k] = NoRecord)
    BY CleanupDropsFinished
  <2>3. CASE k = j /\ js[j] # NoRecord
    <3>1. js[k] = jobs[k] /\ jobs[k] \in Record
      BY <2>2, <2>3 DEF TypeOK
    <3>2. CASE jobs[k].status \in Finished
      <4>1. jobs'[k] = jobs[k] /\ Tell(k, jobs[k])
        BY <2>1, <2>3, <3>1, <3>2
      <4>2. RecordInv(k)'
        BY <2>1, <2>3, <3>1, <4>1 DEF JobInv, RecordInv
      <4>3. QED
        BY <2>1, <2>3, <3>1, <4>1, <4>2, ToldStable
    <3>3. CASE jobs[k].status \notin Finished
      <4>1. jobs'[k] = Cancelled(jobs[k]) /\ Tell(k, Cancelled(jobs[k]))
        BY <2>1, <2>2, <2>3, <3>1, <3>3
      <4>2. Cancelled(jobs[k]) \in Record
        BY <3>1, FinishTypes DEF Status
      <4>3. /\ Cancelled(jobs[k]).cancelRequested
            /\ Cancelled(jobs[k]).result = jobs[k].result
            /\ \/ jobs[k].status = "running" /\ Cancelled(jobs[k]).status = "running"
               \/ jobs[k].status = "pending" /\ Cancelled(jobs[k]).status = "cancelled"
        BY <3>1, <3>3 DEF Cancelled, Record, Status
      <4>4. RecordInv(k)'
        BY <2>1, <2>3, <3>1, <4>1, <4>3 DEF JobInv, RecordInv, Finished
      <4>5. QED
        BY <2>1, <2>3, <3>1, <4>1, <4>2, <4>3, <4>4, ToldStable
    <3>4. QED
      BY <3>2, <3>3
  <2>4. CASE k # j \/ js[j] = NoRecord
    <3>1. jobs'[k] = js[k] /\ told'[k] = told[k] /\ pc'[k] = pc[k] /\ stage'[k] = stage[k]
      BY <2>1, <2>2, <2>4 DEF Tell, TypeOK
    <3>2. QED
      BY <2>2, <3>1, JobInvStable
  <2>5. QED
    BY <2>3, <2>4
<1>4. ASSUME NEW j \in Jobs, Worker(j), k # j PROVE JobInv(k)'
  <2>1. jobs'[k] = jobs[k] /\ told'[k] = told[k] /\ pc'[k] = pc[k] /\ stage'[k] = stage[k]
    BY <1>4 DEF Worker, Begin, RaiseIfCancelled, UpdateAndWork, Opened, UpdateJobMeta, Commit,
                EndCancelled, EndFailed, Finally, TypeOK
  <2>2. QED
    BY <2>1, JobInvStable
<1>5. CASE Begin(k)
  BY <1>5, NoRecordAssumption DEF Begin, JobInv, RecordInv, ToldInv, TypeOK
<1>6. CASE RaiseIfCancelled(k)
  <2>1. pc[k] = "check" /\ UNCHANGED <<jobs, stage, told>> /\ stage[k] \in 0 .. LastStage
    BY <1>6 DEF RaiseIfCancelled, TypeOK
  <2>2. CASE IsCancelRequested(k)
    <3>1. pc'[k] = "cancel"
      BY <1>6, <2>2 DEF RaiseIfCancelled, TypeOK
    <3>2. QED
      BY <2>1, <2>2, <3>1 DEF IsCancelRequested, JobInv, RecordInv, ToldInv, Finished
  <2>3. CASE ~IsCancelRequested(k) /\ stage[k] = LastStage
    <3>1. pc'[k] = "commit"
      BY <1>6, <2>3 DEF RaiseIfCancelled, TypeOK
    <3>2. jobs[k] # NoRecord /\ ~jobs[k].cancelRequested /\ jobs[k] \in Record
      BY <2>3 DEF IsCancelRequested, TypeOK
    <3>3. jobs[k].status = "running"
      BY <2>1, <2>3, <3>2, LimitAssumption DEF JobInv, RecordInv, Record, Status, Finished
    <3>4. QED
      BY <2>1, <3>1, <3>2, <3>3 DEF JobInv, RecordInv, ToldInv, Finished
  <2>4. CASE ~IsCancelRequested(k) /\ stage[k] # LastStage
    <3>1. pc'[k] = "update" /\ stage[k] < LastStage
      BY <1>6, <2>1, <2>4, LimitAssumption DEF RaiseIfCancelled, TypeOK
    <3>2. QED
      BY <2>1, <3>1 DEF JobInv, RecordInv, ToldInv, Finished
  <2>5. QED
    BY <2>2, <2>3, <2>4
<1>7. CASE UpdateAndWork(k)
  <2>1. pc[k] = "update" /\ told'[k] = told[k] /\ stage[k] < LastStage
    BY <1>7 DEF UpdateAndWork, JobInv
  <2>2. \/ pc'[k] = "check" /\ stage'[k] = stage[k] + 1
        \/ pc'[k] = "fail" /\ stage'[k] = stage[k]
    BY <1>7 DEF UpdateAndWork, TypeOK
  <2>3. CASE jobs[k] = NoRecord
    BY <1>7, <2>1, <2>2, <2>3 DEF UpdateAndWork, Opened, UpdateJobMeta, JobInv, ToldInv
  <2>4. CASE jobs[k] # NoRecord
    <3>1. jobs[k] \in Record /\ stage[k] \in Nat
      BY <2>4 DEF TypeOK
    <3>2. jobs'[k] = IF stage[k] = 0 THEN [jobs[k] EXCEPT !.status = "running"] ELSE jobs[k]
      BY <1>7, <2>4 DEF UpdateAndWork, Opened, UpdateJobMeta, TypeOK
    <3>3. RecordInv(k) /\ ToldInv(k)
      BY <2>4 DEF JobInv
    <3>4. jobs[k].status \in {"pending", "running", "cancelled"}
      BY <2>1, <3>1, <3>3 DEF RecordInv, Record, Status, Finished
    <3>5. CASE pc'[k] = "check"
      BY <2>1, <2>2, <2>4, <3>1, <3>2, <3>3, <3>4, <3>5 DEF JobInv, RecordInv, ToldInv, Record, Finished
    <3>6. CASE pc'[k] = "fail"
      BY <2>1, <2>2, <2>4, <3>1, <3>2, <3>3, <3>4, <3>6 DEF JobInv, RecordInv, ToldInv, Record, Finished
    <3>7. QED
      BY <2>2, <3>5, <3>6
  <2>5. QED
    BY <2>3, <2>4
<1>8. ASSUME Commit(k) \/ EndCancelled(k) \/ EndFailed(k) PROVE JobInv(k)'
  <2>1. /\ pc[k] \in {"commit", "cancel", "fail"} /\ pc'[k] = "finally"
        /\ told'[k] = told[k] /\ stage'[k] = stage[k]
    BY <1>8 DEF Commit, EndCancelled, EndFailed, TypeOK
  <2>2. CASE jobs[k] = NoRecord
    BY <1>8, <2>1, <2>2 DEF Commit, EndCancelled, EndFailed, UpdateJobMeta, JobInv, ToldInv
  <2>3. CASE jobs[k] # NoRecord
    <3>1. jobs[k] \in Record /\ RecordInv(k) /\ ToldInv(k)
      BY <2>3 DEF TypeOK, JobInv
    <3>2. CASE Commit(k)
      <4>1. jobs'[k] = [jobs[k] EXCEPT !.status = "completed", !.finishedAt = now, !.result = TRUE]
        BY <2>3, <3>2 DEF Commit, TypeOK
      <4>2. /\ jobs'[k].status = "completed"
            /\ jobs'[k].cancelRequested = jobs[k].cancelRequested
            /\ jobs'[k].result
        BY <3>1, <4>1 DEF Record
      <4>3. jobs[k].status = "running" /\ pc[k] = "commit"
        BY <3>1, <3>2 DEF Commit, RecordInv
      <4>4. RecordInv(k)'
        BY <2>1, <4>2 DEF RecordInv, Finished
      <4>5. ToldInv(k)'
        BY <2>1, <2>3, <3>1, <4>2, <4>3 DEF ToldInv
      <4>6. QED
        BY <2>1, <4>4, <4>5 DEF JobInv
    <3>3. CASE EndCancelled(k)
      <4>1. jobs'[k] = [jobs[k] EXCEPT !.status = "cancelled", !.finishedAt = now]
        BY <2>3, <3>3 DEF EndCancelled, UpdateJobMeta, TypeOK
      <4>2. /\ jobs'[k].status = "cancelled"
            /\ jobs'[k].cancelRequested = jobs[k].cancelRequested
            /\ jobs'[k].result = jobs[k].result
        BY <3>1, <4>1 DEF Record
      <4>3. ~jobs[k].result /\ pc[k] = "cancel"
        BY <3>1, <3>3 DEF EndCancelled, RecordInv
      <4>4. QED
        BY <2>1, <3>1, <4>2, <4>3 DEF JobInv, RecordInv, ToldInv, Finished
    <3>4. CASE EndFailed(k)
      <4>1. jobs'[k] = [jobs[k] EXCEPT !.status = "failed", !.finishedAt = now]
        BY <2>3, <3>4 DEF EndFailed, UpdateJobMeta, TypeOK
      <4>2. /\ jobs'[k].status = "failed"
            /\ jobs'[k].cancelRequested = jobs[k].cancelRequested
            /\ jobs'[k].result = jobs[k].result
        BY <3>1, <4>1 DEF Record
      <4>3. ~jobs[k].result /\ pc[k] = "fail"
        BY <3>1, <3>4 DEF EndFailed, RecordInv
      <4>4. RecordInv(k)'
        BY <2>1, <4>2, <4>3 DEF RecordInv, Finished
      <4>5. ToldInv(k)'
        BY <2>1, <2>3, <3>1, <4>2, <4>3 DEF ToldInv
      <4>6. QED
        BY <2>1, <4>4, <4>5 DEF JobInv
    <3>5. QED
      BY <1>8, <3>2, <3>3, <3>4
  <2>4. QED
    BY <2>2, <2>3
<1>9. CASE Finally(k)
  BY <1>9 DEF Finally, JobInv, RecordInv, ToldInv, TypeOK
<1>10. CASE Tick
  BY <1>10, JobInvStable DEF Tick
<1>11. CASE UNCHANGED vars
  BY <1>11, JobInvStable DEF vars
<1>12. QED
  BY <1>1, <1>2, <1>3, <1>4, <1>5, <1>6, <1>7, <1>8, <1>9, <1>10, <1>11 DEF Next, Worker, Client

\* The gauge is exact again after every step that leaves no thread before its
\* finally block: a step republishes it, or changes no job's being active.
LEMMA StepGauge == Inv /\ [Next]_vars => GaugeExactWhenSettled'
<1> SUFFICES ASSUME Inv, [Next]_vars, \A j \in Jobs : pc'[j] # "finally"
             PROVE  gauge' = Depth(jobs)'
  BY DEF GaugeExactWhenSettled
<1> TypeOK
  BY DEF Inv
<1>1. CASE \E j \in Jobs : StartBacktestJob(j) \/ Finally(j)
  BY <1>1 DEF StartBacktestJob, Finally, Depth, Active, Present
<1>2. CASE \A j \in Jobs : pc[j] # "finally"
  <2>0. gauge = Depth(jobs)
    BY <1>2 DEF Inv, GaugeExactWhenSettled
  <2>1. ASSUME NEW js \in CleanedUp, jobs' = js, gauge' = GaugeAfterCleanup(js)
        PROVE  gauge' = Depth(jobs)'
    BY <2>0, <2>1, CleanupDropsFinished DEF GaugeAfterCleanup, Depth, Active, Present
  <2>2. ASSUME NEW j \in Jobs, GetBacktestJobStatus(j) \/ CancelBacktestJob(j)
        PROVE  gauge' = Depth(jobs)'
    BY <2>1, <2>2 DEF GetBacktestJobStatus, CancelBacktestJob, Depth, Active, Present
  <2>3. ASSUME NEW j \in Jobs, UpdateAndWork(j) PROVE gauge' = Depth(jobs)'
    BY <2>0, <2>3 DEF UpdateAndWork, Opened, UpdateJobMeta, Depth, Active, Present
  <2>4. ASSUME NEW j \in Jobs, Commit(j) \/ EndCancelled(j) \/ EndFailed(j) PROVE FALSE
    BY <2>4 DEF Commit, EndCancelled, EndFailed, TypeOK
  <2>5. ASSUME UNCHANGED <<jobs, gauge>> PROVE gauge' = Depth(jobs)'
    BY <2>0, <2>5 DEF Depth, Active, Present
  <2>6. QED
    BY <1>1, <2>2, <2>3, <2>4, <2>5 DEF Next, Worker, Client, Begin, RaiseIfCancelled, Tick, vars
<1>3. ASSUME NEW j \in Jobs, pc[j] = "finally" PROVE Finally(j)
  <2>1. pc'[j] # pc[j]
    BY <1>3
  <2>2. ASSUME NEW i \in Jobs, Worker(i), i # j PROVE FALSE
    BY <2>1, <2>2 DEF Worker, Begin, RaiseIfCancelled, UpdateAndWork, Commit, EndCancelled,
                      EndFailed, Finally, TypeOK
  <2>3. ASSUME NEW i \in Jobs, Client(i) PROVE FALSE
    BY <1>3, <2>1, <2>3 DEF Client, StartBacktestJob, GetBacktestJobStatus, CancelBacktestJob, TypeOK
  <2>4. Worker(j)
    BY <2>1, <2>2, <2>3 DEF Next, Tick, vars
  <2>5. QED
    BY <1>3, <2>4 DEF Worker, Begin, RaiseIfCancelled, UpdateAndWork, Commit, EndCancelled, EndFailed
<1>4. QED
  BY <1>1, <1>2, <1>3

-----------------------------------------------------------------------------
(* The theorems. *)

LEMMA InitInv == Init => Inv
<1> SUFFICES ASSUME Init PROVE Inv
  OBVIOUS
<1>1. TypeOK
  BY InitTypeOK
<1>2. \A j \in Jobs : JobInv(j)
  BY DEF Init, JobInv, ToldInv
<1>3. Depth(jobs) = 0
  <2>1. Active(jobs) = {}
    BY DEF Init, Active, Present
  <2>2. QED
    BY <2>1, FS_EmptySet DEF Depth
<1>4. QED
  BY <1>1, <1>2, <1>3 DEF Inv, GaugeExactWhenSettled, Init

LEMMA Invariance == Spec => []Inv
<1>1. Inv /\ [Next]_vars => Inv'
  BY StepTypeOK, StepJobInv, StepGauge DEF Inv
<1>2. QED
  BY <1>1, InitInv, PTL DEF Spec

\* The registry, the threads' positions, the gauge and the history keep their types.
THEOREM TypeCorrect == Spec => []TypeOK
<1>1. Inv => TypeOK
  BY DEF Inv
<1>2. QED
  BY <1>1, Invariance, PTL

\* GET /backtest/{job_id} never shows a result without COMPLETED, or COMPLETED
\* without its result, for any number of jobs and any size of the registry.
THEOREM ResultMatchesStatus == Spec => []ResultIffCompleted
<1>1. Inv => ResultIffCompleted
  BY DEF Inv, JobInv, RecordInv, ResultIffCompleted, Present
<1>2. QED
  BY <1>1, Invariance, PTL

\* No client of a job is ever told both COMPLETED and another outcome.
THEOREM CompletedAnswerStands == Spec => []CompletedIsTheOnlyAnswer
<1>1. Inv => CompletedIsTheOnlyAnswer
  BY DEF Inv, JobInv, ToldInv, CompletedIsTheOnlyAnswer
<1>2. QED
  BY <1>1, Invariance, PTL

\* The published queue depth is exact whenever no thread has its finally block ahead.
THEOREM GaugeExact == Spec => []GaugeExactWhenSettled
<1>1. Inv => GaugeExactWhenSettled
  BY DEF Inv
<1>2. QED
  BY <1>1, Invariance, PTL

\* Answers, records and the gauge agree as RegistryIsSound says: results come with COMPLETED and
\* only with it, and nobody is told another outcome next to it.
THEOREM RegistrySound == Spec => []RegistryIsSound
BY ResultMatchesStatus, CompletedAnswerStands, GaugeExact, PTL DEF RegistryIsSound

\* No step changes a COMPLETED or FAILED record: the thread is past its last
\* update and cancellations leave a finished record alone.
THEOREM OutcomeStands == Spec => OutcomeIsFinal
<1>1. ASSUME Inv, [Next]_vars, NEW k \in Jobs, jobs[k] # NoRecord, jobs'[k] # NoRecord,
             jobs[k].status \in {"completed", "failed"}
      PROVE  jobs'[k] = jobs[k]
  <2>1. pc[k] \in {"finally", "done"} /\ TypeOK
    BY <1>1 DEF Inv, JobInv, RecordInv
  <2>2. ASSUME NEW js \in CleanedUp, js[k] # NoRecord PROVE js[k] = jobs[k]
    BY <2>1, <2>2, CleanupDropsFinished
  <2>3. ASSUME NEW j \in Jobs, StartBacktestJob(j) PROVE jobs'[k] = jobs[k]
    <3>1. PICK js \in CleanedUp : jobs' = [js EXCEPT ![j] = NewRecord]
      BY <2>3 DEF StartBacktestJob
    <3>2. j # k
      BY <2>1, <2>3 DEF StartBacktestJob
    <3>3. QED
      BY <1>1, <2>1, <2>2, <3>1, <3>2, CleanupDropsFinished
  <2>4. ASSUME NEW j \in Jobs, GetBacktestJobStatus(j) PROVE jobs'[k] = jobs[k]
    BY <1>1, <2>2, <2>4 DEF GetBacktestJobStatus
  <2>5. ASSUME NEW j \in Jobs, CancelBacktestJob(j) PROVE jobs'[k] = jobs[k]
    <3>1. PICK js \in CleanedUp :
            \/ jobs' = js
            \/ js[j] # NoRecord /\ js[j].status \notin Finished /\ jobs' = [js EXCEPT ![j] = Cancelled(js[j])]
      BY <2>5 DEF CancelBacktestJob
    <3>2. CASE j = k
      BY <1>1, <2>1, <2>2, <3>1, <3>2, CleanupDropsFinished DEF Finished
    <3>3. CASE j # k
      BY <1>1, <2>1, <2>2, <3>1, <3>3, CleanupDropsFinished
    <3>4. QED
      BY <3>2, <3>3
  <2>6. ASSUME NEW j \in Jobs, Worker(j) PROVE jobs'[k] = jobs[k]
    BY <2>1, <2>6 DEF Worker, Begin, RaiseIfCancelled, UpdateAndWork, Opened, UpdateJobMeta, Commit,
                      EndCancelled, EndFailed, Finally, TypeOK
  <2>7. QED
    BY <1>1, <2>3, <2>4, <2>5, <2>6 DEF Next, Client, Tick, vars
<1>2. Inv /\ [Next]_vars =>
        [\A j \in Present(jobs) \cap Present(jobs') :
           jobs[j].status \in {"completed", "failed"} => jobs'[j] = jobs[j]]_vars
  BY <1>1 DEF Present
<1>3. QED
  BY <1>2, Invariance, PTL DEF Spec, OutcomeIsFinal

-----------------------------------------------------------------------------
(* The refinement. *)

\* A step that leaves a job's thread and answers alone keeps its phase or, by
\* dropping a finished record, makes the job gone.
LEMMA PhaseOfBystander ==
  ASSUME Inv, NEW k \in Jobs, pc'[k] = pc[k],
         jobs'[k] = jobs[k] \/ (jobs'[k] = NoRecord /\ jobs[k].status \in Finished)
  PROVE  Phase(k)' = Phase(k) \/ <<Phase(k), Phase(k)'>> \in Outcome!Moves
BY DEF Inv, JobInv, RecordInv, Phase, Outcome!Moves, Outcome!Settled, Finished

LEMMA StepPhase ==
  ASSUME Inv, Inv', [Next]_vars, NEW k \in Jobs
  PROVE  Phase(k)' = Phase(k) \/ <<Phase(k), Phase(k)'>> \in Outcome!Moves
<1> TypeOK
  BY DEF Inv
<1>1. ASSUME NEW j \in Jobs, StartBacktestJob(j)
      PROVE  Phase(k)' = Phase(k) \/ <<Phase(k), Phase(k)'>> \in Outcome!Moves
  <2>1. PICK js \in CleanedUp : jobs' = [js EXCEPT ![j] = NewRecord]
    BY <1>1 DEF StartBacktestJob
  <2>2. CASE k = j
    <3>1. pc[k] = "none" /\ pc'[k] = "begin" /\ jobs'[k] = NewRecord
      BY <1>1, <2>1, <2>2, CleanupDropsFinished DEF StartBacktestJob, TypeOK
    <3>2. NewRecord # NoRecord /\ ~NewRecord.cancelRequested
      BY NewRecordType, NoRecordAssumption DEF NewRecord
    <3>3. Phase(k) = "absent" /\ Phase(k)' = "open"
      BY <3>1, <3>2 DEF Phase
    <3>4. QED
      BY <3>3 DEF Outcome!Moves
  <2>3. CASE k # j
    BY <1>1, <2>1, <2>3, CleanupDropsFinished, PhaseOfBystander DEF StartBacktestJob, TypeOK
  <2>4. QED
    BY <2>2, <2>3
<1>2. ASSUME NEW j \in Jobs, GetBacktestJobStatus(j)
      PROVE  Phase(k)' = Phase(k) \/ <<Phase(k), Phase(k)'>> \in Outcome!Moves
  BY <1>2, CleanupDropsFinished, PhaseOfBystander DEF GetBacktestJobStatus
<1>3. ASSUME NEW j \in Jobs, CancelBacktestJob(j)
      PROVE  Phase(k)' = Phase(k) \/ <<Phase(k), Phase(k)'>> \in Outcome!Moves
  <2>1. PICK js \in CleanedUp :
          /\ UNCHANGED pc
          /\ \/ jobs' = js
             \/ js[j] # NoRecord /\ js[j].status \notin Finished /\ jobs' = [js EXCEPT ![j] = Cancelled(js[j])]
    BY <1>3 DEF CancelBacktestJob
  <2>2. CASE jobs'[k] = js[k]
    BY <2>1, <2>2, CleanupDropsFinished, PhaseOfBystander
  <2>3. CASE jobs'[k] # js[k]
    <3>1. k = j /\ jobs[k] # NoRecord /\ jobs[k].status \notin Finished /\ jobs'[k] = Cancelled(jobs[k])
      BY <2>1, <2>3, CleanupDropsFinished
    <3>2. jobs[k] \in Record /\ Cancelled(jobs[k]) \in Record
      BY <3>1, FinishTypes DEF TypeOK, Status
    <3>3. Cancelled(jobs[k]).cancelRequested /\ jobs'[k] # NoRecord
      BY <3>1, <3>2, NoRecordAssumption DEF Cancelled, Record
    <3>4. pc[k] \notin {"none", "finally", "done"} /\ pc'[k] = pc[k]
      BY <2>1, <3>1 DEF Inv, JobInv, RecordInv, Finished
    <3>5. QED
      BY <3>1, <3>3, <3>4 DEF Phase, Outcome!Moves
  <2>4. QED
    BY <2>2, <2>3
<1>4. ASSUME NEW j \in Jobs, Worker(j), k # j
      PROVE  Phase(k)' = Phase(k) \/ <<Phase(k), Phase(k)'>> \in Outcome!Moves
  <2>1. jobs'[k] = jobs[k] /\ pc'[k] = pc[k]
    BY <1>4 DEF Worker, Begin, RaiseIfCancelled, UpdateAndWork, Opened, UpdateJobMeta, Commit,
                EndCancelled, EndFailed, Finally, TypeOK
  <2>2. QED
    BY <2>1, PhaseOfBystander
<1>5. CASE Begin(k) \/ RaiseIfCancelled(k) \/ Finally(k)
  BY <1>5 DEF Begin, RaiseIfCancelled, Finally, Phase, TypeOK, Inv, JobInv, RecordInv
<1>6. CASE UpdateAndWork(k)
  <2>1. pc[k] = "update" /\ pc'[k] \in {"check", "fail"}
    BY <1>6 DEF UpdateAndWork, TypeOK
  <2>2. jobs[k] = NoRecord => jobs'[k] = NoRecord
    BY <1>6 DEF UpdateAndWork, Opened, UpdateJobMeta
  <2>3. jobs[k] # NoRecord => jobs'[k] # NoRecord /\ jobs'[k].cancelRequested = jobs[k].cancelRequested
    <3>1. HAVE jobs[k] # NoRecord
    <3>2. jobs[k] \in Record /\ [jobs[k] EXCEPT !.status = "running"] \in Record
      BY <3>1, FinishTypes DEF TypeOK, Status
    <3>3. jobs'[k] = jobs[k] \/ jobs'[k] = [jobs[k] EXCEPT !.status = "running"]
      BY <1>6, <3>1 DEF UpdateAndWork, Opened, UpdateJobMeta, TypeOK
    <3>4. QED
      BY <3>2, <3>3, NoRecordAssumption DEF Record
  <2>4. QED
    BY <2>1, <2>2, <2>3 DEF Phase
<1>7. CASE Commit(k) \/ EndCancelled(k) \/ EndFailed(k)
  <2>1. pc[k] \in {"commit", "cancel", "fail"} /\ pc'[k] = "finally"
    BY <1>7 DEF Commit, EndCancelled, EndFailed, TypeOK
  <2>2. CASE jobs[k] = NoRecord
    BY <1>7, <2>1, <2>2 DEF Commit, EndCancelled, EndFailed, UpdateJobMeta, Phase
  <2>3. CASE jobs[k] # NoRecord
    <3>1. jobs[k] \in Record /\ JobInv(k)
      BY <2>3 DEF TypeOK, Inv
    <3>2. jobs'[k].status \in IF jobs[k].cancelRequested THEN Outcome!Settled
                                                           ELSE {"completed", "failed"}
      <4>1. CASE Commit(k)
        BY <2>3, <3>1, <4>1 DEF Commit, TypeOK, Outcome!Settled, Record
      <4>2. CASE EndCancelled(k)
        BY <2>3, <3>1, <4>2 DEF EndCancelled, UpdateJobMeta, TypeOK, JobInv, RecordInv, Outcome!Settled, Record
      <4>3. CASE EndFailed(k)
        BY <2>3, <3>1, <4>3 DEF EndFailed, UpdateJobMeta, TypeOK, Outcome!Settled, Record
      <4>4. QED
        BY <1>7, <4>1, <4>2, <4>3
    <3>3. jobs'[k] # NoRecord
      <4>1. \A s \in Finished :
              /\ [jobs[k] EXCEPT !.status = s, !.finishedAt = now] \in Record
              /\ [jobs[k] EXCEPT !.status = s, !.finishedAt = now, !.result = TRUE] \in Record
        BY <3>1, FinishTypes DEF Status
      <4>2. jobs'[k] \in Record
        BY <1>7, <2>3, <4>1 DEF Commit, EndCancelled, EndFailed, UpdateJobMeta, TypeOK, Finished
      <4>3. QED
        BY <4>2, NoRecordAssumption
    <3>4. QED
      BY <2>1, <2>3, <3>2, <3>3 DEF Phase, Outcome!Moves, Outcome!Settled
  <2>4. QED
    BY <2>2, <2>3
<1>8. CASE Tick \/ UNCHANGED vars
  BY <1>8, PhaseOfBystander DEF Tick, vars
<1>9. QED
  BY <1>1, <1>2, <1>3, <1>4, <1>5, <1>6, <1>7, <1>8 DEF Next, Worker, Client

\* For any number of jobs, the registry with its threads implements the safety
\* part of JobOutcome: each job settles once and only a withdrawn job is
\* cancelled or dropped before it settles.
THEOREM ImplementsSafeOutcome == Spec => Outcome!Safe
<1>1. Init => Outcome!Init
  BY DEF Init, Outcome!Init, Phase
<1>2. Inv /\ Inv' /\ [Next]_vars => [Outcome!Next]_([j \in Jobs |-> Phase(j)])
  <2> SUFFICES ASSUME Inv, Inv', [Next]_vars PROVE Outcome!Next
    OBVIOUS
  <2>1. [j \in Jobs |-> Phase(j)]' \in [Jobs -> Outcome!Phases]
    BY DEF Inv, TypeOK, JobInv, RecordInv, Phase, Outcome!Phases, Outcome!Settled, Finished
  <2>2. \A k \in Jobs : Phase(k)' = Phase(k) \/ <<Phase(k), Phase(k)'>> \in Outcome!Moves
    BY StepPhase
  <2>3. QED
    BY <2>1, <2>2 DEF Outcome!Next
<1>3. QED
  BY <1>1, <1>2, Invariance, PTL DEF Spec, Outcome!Safe

-----------------------------------------------------------------------------
(* Backtest jobs on ARQ (BacktestArq).  A cancellation that was answered   *)
(* before any worker took the job leaves the row flagged: whatever is      *)
(* saved then is saved by a cancellation, for a worker looks at the flag   *)
(* before it saves anything.                                               *)

QueuedInv(j) ==
  /\ queue[j] = "queued" => deliveries[j] < MaxDeliveries
  /\ start[j] \in {"none", "enqueue"} => queue[j] = "none"
  /\ queue[j] = "none" => deliveries[j] = 0
  /\ queue[j] = "taken" => deliveries[j] > 0
  /\ worker[j] # "idle" => queue[j] = "taken"
  /\ worker[j] = "save" => piece[j] < Pieces
  /\ shown[j] # {} \/ cancel[j] # "none" => start[j] = "answered"
  /\ cancel[j] # "none" => read[j] # NoRow /\ read[j].status \notin Ended

WithdrawnInv(j) ==
  /\ HasStatus(j, {"cancelled"}) => row[j].cancelRequested
  /\ HasStatus(j, {"completed"}) => deliveries[j] > 0
  /\ deliveries[j] = 0 /\ "cancelled" \in shown[j] /\ ~purged[j] => RowIsCancelled(j)

RowInv(j) == QueuedInv(j) /\ WithdrawnInv(j)

QueueInv == QueueTypeOK /\ \A j \in QueueJobs : RowInv(j)

\* A job whose row was forgotten with nothing under way, and one whose cancellation is to hold.
Forgotten(j) ==
  /\ row[j] = NoRow /\ start[j] \in {"answered", "raised"}
  /\ worker[j] = "idle" /\ cancel[j] = "none"

Withdrawn(j) ==
  \/ purged[j]
  \/ /\ RowIsCancelled(j) /\ row[j].status # "completed"
     /\ worker[j] \in {"idle", "check", "cancel"} /\ start[j] = "answered"

QueueStep(j) == Asker(j) \/ Handler(j) \/ RunRow(j) \/ WorkerCrash(j) \/ Purge(j)

\* A save makes a row of what it is given and keeps a result.
LEMMA SaveMakes ==
  ASSUME QueueTypeOK, NEW j \in QueueJobs, NEW status \in RowStatus,
         NEW result \in BOOLEAN, NEW flag \in BOOLEAN, SaveSnapshot(j, status, result, flag)
  PROVE  /\ row' \in [QueueJobs -> Row \cup {NoRow}]
         /\ row'[j] # NoRow /\ row'[j].status = status /\ (row'[j].cancelRequested <=> flag)
         /\ row[j] # NoRow /\ row[j].result => row'[j].result
<1>1. PICK new : new = Upsert(row[j], status, result, flag)
  OBVIOUS
<1>2. new \in Row /\ new.status = status /\ (new.cancelRequested <=> flag)
  <2>1. (result \/ (row[j] # NoRow /\ row[j].result)) \in BOOLEAN
    BY DEF QueueTypeOK, Row
  <2> QED BY <1>1, <2>1 DEF Upsert, Row
<1>3. row[j] # NoRow /\ row[j].result => new.result
  BY <1>1 DEF Upsert
<1>4. row' = [row EXCEPT ![j] = new]
  BY <1>1 DEF SaveSnapshot
<1> QED BY <1>2, <1>3, <1>4, QueueAssumption DEF QueueTypeOK

LEMMA FlagMakes ==
  ASSUME QueueTypeOK, NEW j \in QueueJobs, SetCancelRequested(j)
  PROVE  /\ row' \in [QueueJobs -> Row \cup {NoRow}]
         /\ row[j] = NoRow => row' = row
         /\ row[j] # NoRow => /\ row'[j] # NoRow /\ row'[j].status = row[j].status
                              /\ (row'[j].result <=> row[j].result) /\ row'[j].cancelRequested
<1>1. CASE row[j] # NoRow
  <2>1. PICK new : new = [row[j] EXCEPT !.cancelRequested = TRUE]
    OBVIOUS
  <2>2. row[j] \in Row
    BY <1>1 DEF QueueTypeOK
  <2>3. /\ new \in Row /\ new.status = row[j].status /\ (new.result <=> row[j].result)
        /\ new.cancelRequested
    BY <2>1, <2>2 DEF Row
  <2>4. row' = [row EXCEPT ![j] = new]
    BY <1>1, <2>1 DEF SetCancelRequested
  <2> QED BY <1>1, <2>3, <2>4, QueueAssumption DEF QueueTypeOK
<1>2. CASE row[j] = NoRow
  BY <1>2 DEF SetCancelRequested, QueueTypeOK
<1> QED BY <1>1, <1>2

\* What the handler of a cancellation writes back never says completed.
LEMMA WrittenBackIs ==
  ASSUME QueueInv, NEW j \in QueueJobs, cancel[j] = "save"
  PROVE  /\ WrittenBack(read[j].status) \in {"cancelled", "running"}
         /\ read[j].result \in BOOLEAN /\ start[j] = "answered"
BY DEF QueueInv, QueueTypeOK, RowInv, QueuedInv, WrittenBack, Row, RowStatus, Ended

LEMMA ShowMakes ==
  ASSUME QueueTypeOK, NEW j \in QueueJobs, NEW status, Show(j, status)
  PROVE  /\ shown' \in [QueueJobs -> SUBSET Ended]
         /\ \A s \in shown'[j] : s \in shown[j] \/ s = status
         /\ \A k \in QueueJobs \ {j} : shown'[k] = shown[k]
BY DEF QueueTypeOK, Show

\* A step of one job leaves the others alone.
LEMMA OthersStay ==
  ASSUME QueueTypeOK, NEW j \in QueueJobs, QueueStep(j), NEW k \in QueueJobs, k # j
  PROVE  /\ row'[k] = row[k] /\ queue'[k] = queue[k] /\ deliveries'[k] = deliveries[k]
         /\ start'[k] = start[k] /\ cancel'[k] = cancel[k] /\ read'[k] = read[k]
         /\ worker'[k] = worker[k] /\ piece'[k] = piece[k] /\ shown'[k] = shown[k]
         /\ purged'[k] = purged[k]
<1>1. CASE Asker(j)
  BY <1>1 DEF Asker, PostJob, ShowRow, CancelLoad, SaveSnapshot, Show, history, QueueTypeOK
<1>2. CASE Handler(j)
  BY <1>2 DEF Handler, Enqueue, EnqueueFailed, CancelFlag, CancelSave, SaveSnapshot,
              SetCancelRequested, Show, history, QueueTypeOK
<1>3. CASE RunRow(j)
  BY <1>3 DEF RunRow, Take, CheckCancelled, SaveAndWork, End, Acknowledge, SaveSnapshot, history,
              QueueTypeOK
<1>4. CASE WorkerCrash(j) \/ Purge(j)
  BY <1>4 DEF WorkerCrash, Purge, history, QueueTypeOK
<1> QED BY <1>1, <1>2, <1>3, <1>4 DEF QueueStep

\* What a step of job j has to keep.
StaysSound(j) ==
  /\ QueueTypeOK' /\ RowInv(j)'
  /\ Forgotten(j) => Forgotten(j)'
  /\ Withdrawn(j) => Withdrawn(j)'
  /\ row[j] # NoRow /\ row[j].result /\ row'[j] # NoRow => row'[j].result

LEMMA AskerKeeps ==
  ASSUME QueueInv, NEW j \in QueueJobs, Asker(j) PROVE StaysSound(j)
<1> USE DEF history
<1> QueueTypeOK /\ RowInv(j)
  BY DEF QueueInv
<1>1. CASE PostJob(j)
  <2>1. SaveSnapshot(j, "pending", FALSE, FALSE) /\ "pending" \in RowStatus
    BY <1>1 DEF PostJob, NotGiven, RowStatus
  <2>2. /\ row' \in [QueueJobs -> Row \cup {NoRow}]
        /\ row'[j] # NoRow /\ row'[j].status = "pending"
        /\ row[j] # NoRow /\ row[j].result => row'[j].result
    BY <2>1, SaveMakes
  <2>3. start[j] = "none" /\ start' \in [QueueJobs -> {"none", "enqueue", "failed", "raised", "answered"}]
        /\ start'[j] = "enqueue"
    BY <1>1 DEF PostJob, QueueTypeOK
  <2>4. QueueTypeOK'
    BY <1>1, <2>2, <2>3 DEF PostJob, QueueTypeOK
  <2>5. RowInv(j)'
    BY <1>1, <2>2, <2>3 DEF PostJob, RowInv, QueuedInv, WithdrawnInv, HasStatus
  <2> QED BY <1>1, <2>2, <2>3, <2>4, <2>5 DEF PostJob, StaysSound, Forgotten, Withdrawn
<1>2. CASE ShowRow(j)
  <2>1. /\ shown' \in [QueueJobs -> SUBSET Ended]
        /\ \A s \in shown'[j] : s \in shown[j] \/ s = row[j].status
    BY <1>2, ShowMakes DEF ShowRow
  <2>2. QueueTypeOK'
    BY <1>2, <2>1 DEF ShowRow, QueueTypeOK
  <2>3. RowInv(j)'
    BY <1>2, <2>1 DEF ShowRow, RowInv, QueuedInv, WithdrawnInv, HasStatus, RowIsCancelled
  <2> QED BY <1>2, <2>2, <2>3 DEF ShowRow, StaysSound, Forgotten, Withdrawn, RowIsCancelled
<1>3. CASE CancelLoad(j)
  <2>1. /\ shown' \in [QueueJobs -> SUBSET Ended]
        /\ \A s \in shown'[j] : s \in shown[j] \/ s = row[j].status
    BY <1>3, ShowMakes DEF CancelLoad, QueueTypeOK
  <2>2. /\ cancel' \in [QueueJobs -> {"none", "flag", "save"}]
        /\ read' \in [QueueJobs -> Row \cup {NoRow}]
        /\ cancel'[j] # "none" => read'[j] # NoRow /\ read'[j].status \notin Ended
    BY <1>3 DEF CancelLoad, QueueTypeOK
  <2>3. QueueTypeOK'
    BY <1>3, <2>1, <2>2 DEF CancelLoad, QueueTypeOK
  <2>4. RowInv(j)'
    BY <1>3, <2>1, <2>2 DEF CancelLoad, RowInv, QueuedInv, WithdrawnInv, HasStatus, RowIsCancelled
  <2> QED BY <1>3, <2>3, <2>4 DEF CancelLoad, StaysSound, Forgotten, Withdrawn, RowIsCancelled
<1> QED BY <1>1, <1>2, <1>3 DEF Asker

LEMMA HandlerKeeps ==
  ASSUME QueueInv, NEW j \in QueueJobs, Handler(j) PROVE StaysSound(j)
<1> USE DEF history
<1> QueueTypeOK /\ RowInv(j)
  BY DEF QueueInv
<1>1. CASE Enqueue(j)
  <2>1. /\ start' \in [QueueJobs -> {"none", "enqueue", "failed", "raised", "answered"}]
        /\ start[j] = "enqueue" /\ start'[j] \in {"failed", "answered"}
    BY <1>1 DEF Enqueue, QueueTypeOK
  <2>2. /\ queue' \in [QueueJobs -> {"none", "queued", "taken", "dropped", "done"}]
        /\ queue'[j] \in {"none", "queued"}
    BY <1>1 DEF Enqueue, QueueTypeOK, RowInv, QueuedInv
  <2>3. QueueTypeOK'
    BY <1>1, <2>1, <2>2 DEF Enqueue, QueueTypeOK
  <2>4. RowInv(j)'
    BY <1>1, <2>1, <2>2, QueueAssumption
    DEF Enqueue, RowInv, QueuedInv, WithdrawnInv, HasStatus, RowIsCancelled
  <2> QED BY <1>1, <2>1, <2>3, <2>4 DEF Enqueue, StaysSound, Forgotten, Withdrawn
<1>2. CASE EnqueueFailed(j)
  <2>1. SaveSnapshot(j, "failed", FALSE, FALSE) /\ "failed" \in RowStatus
    BY <1>2 DEF EnqueueFailed, NotGiven, RowStatus, Ended
  <2>2. /\ row' \in [QueueJobs -> Row \cup {NoRow}]
        /\ row'[j] # NoRow /\ row'[j].status = "failed"
        /\ row[j] # NoRow /\ row[j].result => row'[j].result
    BY <2>1, SaveMakes
  <2>3. start[j] = "failed" /\ start' \in [QueueJobs -> {"none", "enqueue", "failed", "raised", "answered"}]
        /\ start'[j] = "raised"
    BY <1>2 DEF EnqueueFailed, QueueTypeOK
  <2>4. QueueTypeOK'
    BY <1>2, <2>2, <2>3 DEF EnqueueFailed, QueueTypeOK
  <2>5. RowInv(j)'
    BY <1>2, <2>2, <2>3 DEF EnqueueFailed, RowInv, QueuedInv, WithdrawnInv, HasStatus
  <2> QED BY <1>2, <2>2, <2>3, <2>4, <2>5 DEF EnqueueFailed, StaysSound, Forgotten, Withdrawn
<1>3. CASE CancelFlag(j)
  <2>1. /\ row' \in [QueueJobs -> Row \cup {NoRow}]
        /\ row[j] = NoRow => row' = row
        /\ row[j] # NoRow => /\ row'[j] # NoRow /\ row'[j].status = row[j].status
                             /\ (row'[j].result <=> row[j].result) /\ row'[j].cancelRequested
    BY <1>3, FlagMakes DEF CancelFlag
  <2>2. /\ cancel' \in [QueueJobs -> {"none", "flag", "save"}]
        /\ cancel[j] = "flag" /\ cancel'[j] = "save"
    BY <1>3 DEF CancelFlag, QueueTypeOK
  <2>3. QueueTypeOK'
    BY <1>3, <2>1, <2>2 DEF CancelFlag, QueueTypeOK
  <2>4. RowInv(j)'
    BY <1>3, <2>1, <2>2 DEF CancelFlag, RowInv, QueuedInv, WithdrawnInv, HasStatus, RowIsCancelled
  <2> QED BY <1>3, <2>1, <2>2, <2>3, <2>4
          DEF CancelFlag, StaysSound, Forgotten, Withdrawn, RowIsCancelled
<1>4. CASE CancelSave(j)
  <2>1. PICK status : status = WrittenBack(read[j].status)
    OBVIOUS
  <2>2. /\ status \in {"cancelled", "running"} /\ status \in RowStatus
        /\ read[j].result \in BOOLEAN /\ start[j] = "answered" /\ cancel[j] = "save"
    BY <1>4, <2>1, WrittenBackIs DEF CancelSave, RowStatus, Ended
  <2>3. SaveSnapshot(j, status, read[j].result, TRUE) /\ Show(j, status)
    BY <1>4, <2>1 DEF CancelSave
  <2>4. /\ row' \in [QueueJobs -> Row \cup {NoRow}]
        /\ row'[j] # NoRow /\ row'[j].status = status /\ row'[j].cancelRequested
        /\ row[j] # NoRow /\ row[j].result => row'[j].result
    BY <2>2, <2>3, SaveMakes
  <2>5. /\ shown' \in [QueueJobs -> SUBSET Ended]
        /\ \A s \in shown'[j] : s \in shown[j] \/ s = status
    BY <2>3, ShowMakes
  <2>6. /\ cancel' \in [QueueJobs -> {"none", "flag", "save"}] /\ cancel'[j] = "none"
        /\ read' \in [QueueJobs -> Row \cup {NoRow}]
    BY <1>4 DEF CancelSave, QueueTypeOK
  <2>7. overwrote' \in [QueueJobs -> BOOLEAN]
    BY <1>4 DEF CancelSave, QueueTypeOK
  <2>8. QueueTypeOK'
    BY <1>4, <2>4, <2>5, <2>6, <2>7 DEF CancelSave, QueueTypeOK
  <2>9. RowInv(j)'
    BY <1>4, <2>2, <2>4, <2>5, <2>6
    DEF CancelSave, RowInv, QueuedInv, WithdrawnInv, HasStatus, RowIsCancelled
  <2> QED BY <1>4, <2>2, <2>4, <2>8, <2>9
          DEF CancelSave, StaysSound, Forgotten, Withdrawn, RowIsCancelled
<1> QED BY <1>1, <1>2, <1>3, <1>4 DEF Handler

LEMMA RunKeeps ==
  ASSUME QueueInv, NEW j \in QueueJobs, RunRow(j) PROVE StaysSound(j)
<1> USE DEF history
<1> QueueTypeOK /\ RowInv(j)
  BY DEF QueueInv
<1>1. CASE Take(j)
  <2>1. /\ deliveries' \in [QueueJobs -> 0 .. MaxDeliveries]
        /\ deliveries'[j] > 0
    <3>1. deliveries[j] + 1 \in 0 .. MaxDeliveries /\ deliveries[j] + 1 > 0
      BY <1>1, QueueAssumption DEF Take, RowInv, QueuedInv, QueueTypeOK
    <3> QED BY <1>1, <3>1 DEF Take, QueueTypeOK
  <2>2. /\ queue' \in [QueueJobs -> {"none", "queued", "taken", "dropped", "done"}]
        /\ queue'[j] \in {"taken", "done"} /\ worker[j] = "idle"
        /\ worker' \in [QueueJobs -> {"idle", "check", "save", "complete", "cancel", "fail"}]
        /\ worker'[j] \in {"idle", "check"}
        /\ worker'[j] = "check" => queue'[j] = "taken" /\ row[j] # NoRow
    BY <1>1 DEF Take, RowInv, QueuedInv, QueueTypeOK
  <2>3. piece' \in [QueueJobs -> 0 .. Pieces]
    <3>1. 0 \in 0 .. Pieces
      BY QueueAssumption
    <3> QED BY <1>1, <3>1 DEF Take, QueueTypeOK
  <2>4. QueueTypeOK'
    BY <1>1, <2>1, <2>2, <2>3 DEF Take, QueueTypeOK
  <2>5. RowInv(j)'
    BY <1>1, <2>1, <2>2 DEF Take, RowInv, QueuedInv, WithdrawnInv, HasStatus, RowIsCancelled, QueueTypeOK
  <2> QED BY <1>1, <2>2, <2>4, <2>5 DEF Take, StaysSound, Forgotten, Withdrawn, RowIsCancelled
<1>2. CASE CheckCancelled(j)
  <2>1. /\ worker' \in [QueueJobs -> {"idle", "check", "save", "complete", "cancel", "fail"}]
        /\ worker[j] = "check" /\ worker'[j] \in {"cancel", "complete", "save"}
        /\ RowIsCancelled(j) => worker'[j] = "cancel"
        /\ worker'[j] = "save" => piece[j] # Pieces
    BY <1>2 DEF CheckCancelled, QueueTypeOK
  <2>2. worker'[j] = "save" => piece[j] < Pieces
    BY <2>1, QueueAssumption DEF QueueTypeOK
  <2>3. QueueTypeOK'
    BY <1>2, <2>1 DEF CheckCancelled, QueueTypeOK
  <2>4. RowInv(j)'
    BY <1>2, <2>1, <2>2 DEF CheckCancelled, RowInv, QueuedInv, WithdrawnInv, HasStatus, RowIsCancelled
  <2> QED BY <1>2, <2>1, <2>3, <2>4 DEF CheckCancelled, StaysSound, Forgotten, Withdrawn, RowIsCancelled
<1>3. CASE SaveAndWork(j)
  <2>1. SaveSnapshot(j, "running", FALSE, FALSE) /\ "running" \in RowStatus
    BY <1>3 DEF SaveAndWork, NotGiven, RowStatus
  <2>2. /\ row' \in [QueueJobs -> Row \cup {NoRow}]
        /\ row'[j] # NoRow /\ row'[j].status = "running"
        /\ row[j] # NoRow /\ row[j].result => row'[j].result
    BY <2>1, SaveMakes
  <2>3. /\ worker' \in [QueueJobs -> {"idle", "check", "save", "complete", "cancel", "fail"}]
        /\ worker[j] = "save" /\ worker'[j] \in {"check", "fail"}
    BY <1>3 DEF SaveAndWork, QueueTypeOK
  <2>4. piece' \in [QueueJobs -> 0 .. Pieces]
    <3>1. piece[j] + 1 \in 0 .. Pieces
      BY <2>3, QueueAssumption DEF QueueTypeOK, RowInv, QueuedInv
    <3> QED BY <1>3, <3>1 DEF SaveAndWork, QueueTypeOK
  <2>5. QueueTypeOK'
    BY <1>3, <2>2, <2>3, <2>4 DEF SaveAndWork, QueueTypeOK
  <2>6. deliveries[j] > 0
    BY <2>3 DEF RowInv, QueuedInv
  <2>7. RowInv(j)'
    BY <1>3, <2>2, <2>3, <2>6 DEF SaveAndWork, RowInv, QueuedInv, WithdrawnInv, HasStatus, QueueTypeOK
  <2> QED BY <1>3, <2>2, <2>3, <2>5, <2>7 DEF SaveAndWork, StaysSound, Forgotten, Withdrawn
<1>4. CASE End(j)
  <2>1. PICK status \in Ended, flag \in BOOLEAN, result \in BOOLEAN :
          /\ SaveSnapshot(j, status, result, flag)
          /\ status = "cancelled" => flag
          /\ worker[j] \in {"complete", "fail"} \/ status = "cancelled"
    <3>1. CASE worker[j] = "complete" /\ SaveSnapshot(j, "completed", TRUE, FALSE)
      BY <3>1 DEF Ended
    <3>2. CASE worker[j] = "cancel" /\ SaveSnapshot(j, "cancelled", NotGiven, TRUE)
      BY <3>2 DEF Ended, NotGiven
    <3>3. CASE worker[j] = "fail" /\ SaveSnapshot(j, "failed", NotGiven, NotGiven)
      BY <3>3 DEF Ended, NotGiven
    <3> QED BY <1>4, <3>1, <3>2, <3>3 DEF End
  <2>2. /\ row' \in [QueueJobs -> Row \cup {NoRow}]
        /\ row'[j] # NoRow /\ row'[j].status = status /\ (row'[j].cancelRequested <=> flag)
        /\ row[j] # NoRow /\ row[j].result => row'[j].result
    BY <2>1, SaveMakes DEF RowStatus
  <2>3. /\ worker' \in [QueueJobs -> {"idle", "check", "save", "complete", "cancel", "fail"}]
        /\ worker[j] # "idle" /\ worker'[j] = "idle"
    BY <1>4 DEF End, QueueTypeOK
  <2>4. QueueTypeOK'
    BY <1>4, <2>2, <2>3 DEF End, QueueTypeOK
  <2>5. deliveries[j] > 0
    BY <2>3 DEF RowInv, QueuedInv
  <2>6. RowInv(j)'
    BY <1>4, <2>1, <2>2, <2>3, <2>5 DEF End, RowInv, QueuedInv, WithdrawnInv, HasStatus, QueueTypeOK
  <2> QED BY <1>4, <2>1, <2>2, <2>3, <2>4, <2>6
          DEF End, StaysSound, Forgotten, Withdrawn, RowIsCancelled
<1>5. CASE Acknowledge(j)
  <2>1. /\ queue' \in [QueueJobs -> {"none", "queued", "taken", "dropped", "done"}]
        /\ queue[j] = "taken" /\ queue'[j] = "done" /\ worker[j] = "idle"
    BY <1>5 DEF Acknowledge, QueueTypeOK
  <2>2. QueueTypeOK'
    BY <1>5, <2>1 DEF Acknowledge, QueueTypeOK
  <2>3. RowInv(j)'
    BY <1>5, <2>1 DEF Acknowledge, RowInv, QueuedInv, WithdrawnInv, HasStatus, RowIsCancelled
  <2> QED BY <1>5, <2>2, <2>3 DEF Acknowledge, StaysSound, Forgotten, Withdrawn, RowIsCancelled
<1> QED BY <1>1, <1>2, <1>3, <1>4, <1>5 DEF RunRow

LEMMA AroundKeeps ==
  ASSUME QueueInv, NEW j \in QueueJobs, WorkerCrash(j) \/ Purge(j) PROVE StaysSound(j)
<1> USE DEF history
<1> QueueTypeOK /\ RowInv(j)
  BY DEF QueueInv
<1>1. CASE WorkerCrash(j)
  <2>1. /\ queue' \in [QueueJobs -> {"none", "queued", "taken", "dropped", "done"}]
        /\ queue[j] = "taken" /\ queue'[j] \in {"queued", "dropped"}
        /\ queue'[j] = "queued" => deliveries[j] < MaxDeliveries
        /\ worker' \in [QueueJobs -> {"idle", "check", "save", "complete", "cancel", "fail"}]
        /\ worker'[j] = "idle"
    BY <1>1 DEF WorkerCrash, QueueTypeOK
  <2>2. QueueTypeOK'
    BY <1>1, <2>1 DEF WorkerCrash, QueueTypeOK
  <2>3. RowInv(j)'
    BY <1>1, <2>1 DEF WorkerCrash, RowInv, QueuedInv, WithdrawnInv, HasStatus, RowIsCancelled
  <2> QED BY <1>1, <2>1, <2>2, <2>3 DEF WorkerCrash, StaysSound, Forgotten, Withdrawn, RowIsCancelled
<1>2. CASE Purge(j)
  <2>1. /\ row' \in [QueueJobs -> Row \cup {NoRow}] /\ row'[j] = NoRow
        /\ purged' \in [QueueJobs -> BOOLEAN] /\ purged'[j]
    BY <1>2 DEF Purge, QueueTypeOK
  <2>2. QueueTypeOK'
    BY <1>2, <2>1 DEF Purge, QueueTypeOK
  <2>3. RowInv(j)'
    BY <1>2, <2>1 DEF Purge, RowInv, QueuedInv, WithdrawnInv, HasStatus, RowIsCancelled
  <2> QED BY <1>2, <2>1, <2>2, <2>3 DEF Purge, StaysSound, Forgotten, Withdrawn
<1> QED BY <1>1, <1>2

LEMMA QueueKeeps ==
  ASSUME QueueInv, [QueueNext]_queueVars
  PROVE  QueueTypeOK' /\ \A j \in QueueJobs : StaysSound(j)
<1>1. CASE UNCHANGED queueVars
  BY <1>1 DEF queueVars, QueueInv, QueueTypeOK, RowInv, QueuedInv, WithdrawnInv, HasStatus,
              RowIsCancelled, StaysSound, Forgotten, Withdrawn
<1>2. ASSUME NEW j \in QueueJobs, QueueStep(j)
      PROVE  QueueTypeOK' /\ \A k \in QueueJobs : StaysSound(k)
  <2>1. StaysSound(j)
    BY <1>2, AskerKeeps, HandlerKeeps, RunKeeps, AroundKeeps DEF QueueStep
  <2>2. QueueTypeOK'
    BY <2>1 DEF StaysSound
  <2>3. ASSUME NEW k \in QueueJobs, k # j PROVE StaysSound(k)
    <3>1. /\ row'[k] = row[k] /\ queue'[k] = queue[k] /\ deliveries'[k] = deliveries[k]
          /\ start'[k] = start[k] /\ cancel'[k] = cancel[k] /\ read'[k] = read[k]
          /\ worker'[k] = worker[k] /\ piece'[k] = piece[k] /\ shown'[k] = shown[k]
          /\ purged'[k] = purged[k]
      BY <1>2, <2>3, OthersStay DEF QueueInv
    <3>2. RowInv(k)'
      BY <3>1 DEF QueueInv, RowInv, QueuedInv, WithdrawnInv, HasStatus, RowIsCancelled
    <3> QED BY <2>2, <3>1, <3>2 DEF StaysSound, Forgotten, Withdrawn, RowIsCancelled
  <2> QED BY <2>1, <2>2, <2>3
<1> QED BY <1>1, <1>2 DEF QueueNext, QueueStep

LEMMA QueueStarts == QueueInit => QueueInv
BY QueueAssumption DEF QueueInit, QueueInv, QueueTypeOK, RowInv, QueuedInv, WithdrawnInv, HasStatus

LEMMA QueueInvariant == QueueSpec => []QueueInv
<1>1. QueueInv /\ [QueueNext]_queueVars => QueueInv'
  BY QueueKeeps DEF QueueInv, StaysSound
<1> QED BY <1>1, QueueStarts, PTL DEF QueueSpec

\* For any jobs, pieces of work and deliveries: no save loses a result, a forgotten job with nothing
\* under way stays forgotten, and a cancellation answered before the pickup holds.
THEOREM QueueSafe == QueueSpec => QueueKeepsResults
<1>1. QueueInv => QueueTypeOK
  BY DEF QueueInv
<1>2. QueueInv /\ [QueueNext]_queueVars =>
        [\A j \in QueueJobs :
           row[j] # NoRow /\ row[j].result /\ row'[j] # NoRow => row'[j].result]_queueVars
  BY QueueKeeps DEF StaysSound
<1>3. QueueSpec => ResultIsKept
  BY <1>2, QueueInvariant, PTL DEF QueueSpec, ResultIsKept
<1>4. ASSUME NEW j \in QueueJobs
      PROVE  QueueSpec => [](/\ row[j] = NoRow /\ start[j] \in {"answered", "raised"}
                             /\ worker[j] = "idle" /\ cancel[j] = "none"
                             => [](row[j] = NoRow))
  <2>1. Forgotten(j) /\ QueueInv /\ [QueueNext]_queueVars => Forgotten(j)'
    BY QueueKeeps DEF StaysSound
  <2>2. Forgotten(j) => row[j] = NoRow
    BY DEF Forgotten
  <2>3. /\ row[j] = NoRow /\ start[j] \in {"answered", "raised"}
        /\ worker[j] = "idle" /\ cancel[j] = "none"
        => Forgotten(j)
    BY DEF Forgotten
  <2> QED BY <2>1, <2>2, <2>3, QueueInvariant, PTL DEF QueueSpec
<1>5. ASSUME NEW j \in QueueJobs
      PROVE  QueueSpec => [](deliveries[j] = 0 /\ "cancelled" \in shown[j]
                             => [](HasStatus(j, {"completed"}) => purged[j]))
  <2>1. Withdrawn(j) /\ QueueInv /\ [QueueNext]_queueVars => Withdrawn(j)'
    BY QueueKeeps DEF StaysSound
  <2>2. Withdrawn(j) => (HasStatus(j, {"completed"}) => purged[j])
    BY DEF Withdrawn, HasStatus
  <2>3. QueueInv /\ deliveries[j] = 0 /\ "cancelled" \in shown[j] => Withdrawn(j)
    BY DEF QueueInv, QueueTypeOK, RowInv, QueuedInv, WithdrawnInv, HasStatus, Withdrawn, RowIsCancelled
  <2> QED BY <2>1, <2>2, <2>3, QueueInvariant, PTL DEF QueueSpec
<1>6. QueueSpec => ForgottenStaysForgotten
  BY <1>4 DEF ForgottenStaysForgotten
<1>7. QueueSpec => CancelBeforePickupHolds
  BY <1>5 DEF CancelBeforePickupHolds
<1> QED BY <1>1, <1>3, <1>6, <1>7, QueueInvariant, PTL DEF QueueKeepsResults

-----------------------------------------------------------------------------
(* The ceilings (ConcurrencyLimit): each request is counted from the      *)
(* first of its counters to the one it has come to, up or down.            *)

\* Where an attempt or its release is among its counters.
Counting == {"incr", "expire", "held", "denied", "failed", "release"}
GivingBack == {"denied", "failed", "release"}
Places == Counting \cup {"idle", "memory", "held in memory", "done"}

PlaceOf(r) ==
  /\ at[r] = "idle" => touched[r] = 0 /\ turn[r] = 1 /\ ~over[r]
  /\ at[r] \in Counting => turn[r] \in 1 .. Len(KeysOf[r]) /\ touched[r] <= Len(KeysOf[r])
  /\ at[r] = "incr" => touched[r] = turn[r] - 1
  /\ at[r] = "expire" => touched[r] = turn[r]
  /\ at[r] = "held" => touched[r] = Len(KeysOf[r])
  /\ at[r] \in {"held", "release"} => ~over[r]
  /\ at[r] \in GivingBack => turn[r] <= touched[r]

SlotShape ==
  /\ redis \in [Keys -> Counter \cup {Missing}] /\ memory \in [Keys -> Nat]
  /\ at \in [Guarded -> Places] /\ turn \in [Guarded -> Nat] /\ touched \in [Guarded -> Nat]
  /\ over \in [Guarded -> BOOLEAN]
  /\ \A r \in Guarded : PlaceOf(r)

\* A request that is in a counter: it has been put there, and not been taken out.
From(r) == IF at[r] \in GivingBack THEN turn[r] ELSE 1
IsCounted(r, k) == at[r] \in Counting /\ \E i \in From(r) .. touched[r] : KeysOf[r][i] = k
Counted(k) == {r \in Guarded : IsCounted(r, k)}
Cleared(k) == {r \in Guarded : IsCounted(r, k) /\ ~over[r]}

\* A counter has at least the requests that are in it, and no more than the ceiling of them have not
\* seen it exceeded.
KeyCounts(k) == Value(k) >= Cardinality(Counted(k)) /\ Cardinality(Cleared(k)) <= Limit[k]
CountsHold == "expiry" \notin mishaps => \A k \in Keys : KeyCounts(k)

SlotInv == SlotShape /\ CountsHold /\ MemoryIsExact

\* A step of one request.
Alone(r) ==
  /\ \A q \in Guarded \ {r} :
       at'[q] = at[q] /\ turn'[q] = turn[q] /\ touched'[q] = touched[q] /\ over'[q] = over[q]
  /\ "expiry" \in mishaps => "expiry" \in mishaps'

\* What the step of a request does to a counter.
Stays(r, k) ==
  /\ IsCounted(r, k)' => IsCounted(r, k)
  /\ IsCounted(r, k)' /\ ~over'[r] => ~over[r]
  /\ Value(k)' >= Value(k)
Leaves(r, k) == IsCounted(r, k) /\ ~IsCounted(r, k)' /\ Value(k)' >= Value(k) - 1
Joins(r, k) == Value(k)' = Value(k) + 1 /\ (~over'[r] => Value(k) + 1 <= Limit[k])

LEMMA SlotSetsAreFinite ==
  \A k : /\ IsFiniteSet(Counted(k)) /\ IsFiniteSet(Cleared(k)) /\ IsFiniteSet(Holders(k))
         /\ IsFiniteSet(MemoryHolders(k))
<1> SUFFICES ASSUME NEW k
             PROVE  /\ IsFiniteSet(Counted(k)) /\ IsFiniteSet(Cleared(k)) /\ IsFiniteSet(Holders(k))
                    /\ IsFiniteSet(MemoryHolders(k))
  OBVIOUS
<1>1. /\ Counted(k) \in SUBSET Guarded /\ Cleared(k) \in SUBSET Guarded
      /\ Holders(k) \in SUBSET Guarded /\ MemoryHolders(k) \in SUBSET Guarded
  BY DEF Counted, Cleared, Holders, MemoryHolders
<1> QED BY <1>1, SlotAssumption, FS_Subset

LEMMA ValueIsInt == ASSUME SlotShape, NEW k \in Keys PROVE Value(k) \in Int
BY DEF SlotShape, Value, Counter

\* One request more, at most, makes a set larger by one, at most.
LEMMA OneMore ==
  ASSUME NEW S, IsFiniteSet(S), NEW T, NEW r, T \ {r} \subseteq S
  PROVE  IsFiniteSet(T) /\ Cardinality(T) <= Cardinality(S) + 1
<1>1. IsFiniteSet(S \cup {r}) /\ Cardinality(S \cup {r}) <= Cardinality(S) + 1
  <2>1. IsFiniteSet(S \cup {r}) /\ Cardinality(S \cup {r}) =
          IF r \in S THEN Cardinality(S) ELSE Cardinality(S) + 1
    BY FS_AddElement
  <2> QED BY <2>1, FS_CardinalityType
<1>2. T \in SUBSET (S \cup {r})
  OBVIOUS
<1>3. IsFiniteSet(T) /\ Cardinality(T) <= Cardinality(S \cup {r})
  BY <1>1, <1>2, FS_Subset
<1> QED BY <1>1, <1>3, FS_CardinalityType

LEMMA OneLess ==
  ASSUME NEW S, IsFiniteSet(S), NEW T, NEW r \in S, T \subseteq S \ {r}
  PROVE  IsFiniteSet(T) /\ Cardinality(T) <= Cardinality(S) - 1
<1>1. IsFiniteSet(S \ {r}) /\ Cardinality(S \ {r}) = Cardinality(S) - 1
  BY FS_RemoveElement
<1>2. T \in SUBSET (S \ {r})
  OBVIOUS
<1> QED BY <1>1, <1>2, FS_Subset, FS_CardinalityType

\* Stays, leaves and joins keep the counts.
LEMMA StepCounts ==
  ASSUME SlotShape, SlotShape', CountsHold, NEW r \in Guarded, Alone(r),
         "expiry" \notin mishaps' => \A k \in Keys : Stays(r, k) \/ Leaves(r, k) \/ Joins(r, k)
  PROVE  CountsHold'
<1> SUFFICES ASSUME "expiry" \notin mishaps', NEW k \in Keys PROVE KeyCounts(k)'
  BY DEF CountsHold
<1>1. KeyCounts(k)
  BY DEF CountsHold, Alone
<1>2. Value(k) \in Int /\ Value(k)' \in Int /\ Limit[k] \in Nat
  <2>1. (SlotShape /\ k \in Keys => Value(k) \in Int)'
    BY ValueIsInt, PTL
  <2> QED BY <2>1, ValueIsInt, SlotAssumption
<1>3. /\ IsFiniteSet(Counted(k)) /\ IsFiniteSet(Cleared(k))
      /\ Cardinality(Counted(k)) \in Nat /\ Cardinality(Cleared(k)) \in Nat
  BY SlotSetsAreFinite, FS_CardinalityType
<1>4. \A q \in Guarded \ {r} : (IsCounted(q, k)' <=> IsCounted(q, k)) /\ over'[q] = over[q]
  BY DEF Alone, IsCounted, From
<1>5. PICK C : C = Counted(k)'
  OBVIOUS
<1>6. PICK D : D = Cleared(k)'
  OBVIOUS
<1>7. /\ C = {q \in Guarded : IsCounted(q, k)'}
      /\ D = {q \in Guarded : IsCounted(q, k)' /\ ~over'[q]}
  BY <1>5, <1>6 DEF Counted, Cleared
<1>8. C \ {r} \subseteq Counted(k) /\ D \ {r} \subseteq Cleared(k) /\ D \subseteq C
  BY <1>4, <1>7 DEF Counted, Cleared
<1>9. /\ IsFiniteSet(C) /\ Cardinality(C) \in Nat /\ Cardinality(C) <= Cardinality(Counted(k)) + 1
      /\ IsFiniteSet(D) /\ Cardinality(D) \in Nat /\ Cardinality(D) <= Cardinality(C)
  <2>1. IsFiniteSet(C) /\ Cardinality(C) <= Cardinality(Counted(k)) + 1
    BY <1>3, <1>8, OneMore
  <2>2. D \in SUBSET C
    BY <1>8
  <2> QED BY <2>1, <2>2, FS_Subset, FS_CardinalityType
<1>10. Value(k)' >= Cardinality(C) /\ Cardinality(D) <= Limit[k]
  <2>1. CASE Stays(r, k)
    <3>1. C \in SUBSET Counted(k) /\ D \in SUBSET Cleared(k)
      BY <1>7, <1>8, <2>1 DEF Stays, Counted, Cleared
    <3>2. Cardinality(C) <= Cardinality(Counted(k)) /\ Cardinality(D) <= Cardinality(Cleared(k))
      BY <1>3, <3>1, FS_Subset
    <3> QED BY <1>1, <1>2, <1>3, <1>9, <2>1, <3>2 DEF Stays, KeyCounts
  <2>2. CASE Leaves(r, k)
    <3>1. r \in Counted(k) /\ C \subseteq Counted(k) \ {r} /\ D \in SUBSET Cleared(k)
      BY <1>7, <1>8, <2>2 DEF Leaves, Counted
    <3>2. Cardinality(C) <= Cardinality(Counted(k)) - 1 /\ Cardinality(D) <= Cardinality(Cleared(k))
      BY <1>3, <3>1, FS_Subset, OneLess
    <3> QED BY <1>1, <1>2, <1>3, <1>9, <2>2, <3>2 DEF Leaves, KeyCounts
  <2>3. CASE Joins(r, k)
    <3>1. Value(k)' >= Cardinality(C)
      BY <1>1, <1>2, <1>3, <1>9, <2>3 DEF Joins, KeyCounts
    <3>2. CASE over'[r]
      <4>1. D \in SUBSET Cleared(k)
        BY <1>7, <1>8, <3>2
      <4>2. Cardinality(D) <= Cardinality(Cleared(k))
        BY <1>3, <4>1, FS_Subset
      <4> QED BY <1>1, <1>2, <1>3, <1>9, <3>1, <4>2 DEF KeyCounts
    <3>3. CASE ~over'[r]
      <4>1. Value(k)' <= Limit[k]
        BY <2>3, <3>3 DEF Joins
      <4> QED BY <1>2, <1>9, <3>1, <4>1
    <3> QED BY <3>1, <3>2, <3>3
  <2> QED BY <2>1, <2>2, <2>3
<1> QED BY <1>5, <1>6, <1>10 DEF KeyCounts

-----------------------------------------------------------------------------
(* The calls to Redis                                                      *)

\* What Redis counts after a call.
LEMMA AddIs ==
  ASSUME SlotShape, NEW k \in Keys, NEW d \in {-1, 1}, redis' \in {redis, Add(k, d)}
  PROVE  /\ redis' \in [Keys -> Counter \cup {Missing}]
         /\ \A j \in Keys \ {k} : Value(j)' = Value(j)
         /\ Value(k)' \in {Value(k), Value(k) + d}
         /\ redis' = Add(k, d) => Value(k)' = Value(k) + d
<1>1. Value(k) \in Int /\ redis \in [Keys -> Counter \cup {Missing}]
  BY ValueIsInt DEF SlotShape
<1>2. CASE redis' # Add(k, d)
  <2>1. redis' = redis
    BY <1>2
  <2>2. \A j \in Keys : Value(j)' = Value(j)
    BY <2>1 DEF Value
  <2> QED BY <1>1, <1>2, <2>1, <2>2
<1>3. CASE redis' = Add(k, d)
  <2>1. PICK c : c = [value |-> Value(k) + d, expires |-> redis[k] # Missing /\ redis[k].expires]
    OBVIOUS
  <2>2. c \in Counter /\ c.value = Value(k) + d /\ c # Missing
    <3>1. (redis[k] # Missing /\ redis[k].expires) \in BOOLEAN
      OBVIOUS
    <3>2. c \in Counter /\ c.value = Value(k) + d
      BY <1>1, <2>1, <3>1 DEF Counter
    <3> QED BY <3>2, SlotAssumption
  <2>3. redis' = [redis EXCEPT ![k] = c]
    BY <1>3, <2>1 DEF Add
  <2>4. redis'[k] = c /\ \A j \in Keys \ {k} : redis'[j] = redis[j]
    BY <1>1, <2>3
  <2> QED BY <1>1, <2>2, <2>3, <2>4 DEF Value
<1> QED BY <1>2, <1>3

\* The counters of a request.
LEMMA KeysAre ==
  ASSUME NEW r \in Guarded
  PROVE  /\ Len(KeysOf[r]) \in Nat \ {0} /\ DOMAIN KeysOf[r] = 1 .. Len(KeysOf[r])
         /\ \A i \in 1 .. Len(KeysOf[r]) : KeysOf[r][i] \in Keys /\ KeysOf[r][i] \in Counts(r)
         /\ \A i, j \in 1 .. Len(KeysOf[r]) : KeysOf[r][i] = KeysOf[r][j] => i = j
<1>1. KeysOf[r] \in Seq(Keys) /\ KeysOf[r] # << >> /\ IsInjective(KeysOf[r])
  BY SlotAssumption
<1>2. PICK s : s = KeysOf[r]
  OBVIOUS
<1>3. /\ s \in Seq(Keys) /\ s # << >>
      /\ Len(s) \in Nat \ {0} /\ DOMAIN s = 1 .. Len(s)
      /\ \A i \in 1 .. Len(s) : s[i] \in Keys
  BY <1>1, <1>2
<1>4. \A i, j \in 1 .. Len(s) : s[i] = s[j] => i = j
  BY <1>1, <1>2, <1>3 DEF IsInjective
<1>5. \A i \in 1 .. Len(s) : s[i] \in Counts(r)
  BY <1>2, <1>3 DEF Counts, Range
<1> QED BY <1>2, <1>3, <1>4, <1>5

\* The last counter, or the next one.
LEMMA AfterCounterIs ==
  ASSUME SlotShape, NEW r \in Guarded, at[r] \in {"incr", "expire"}, AfterCounter(r),
         touched' = [touched EXCEPT ![r] = turn[r]],
         over' \in [Guarded -> BOOLEAN], \A q \in Guarded \ {r} : over'[q] = over[q]
  PROVE  /\ at' \in [Guarded -> Places] /\ turn' \in [Guarded -> Nat] /\ PlaceOf(r)'
         /\ \A q \in Guarded \ {r} : at'[q] = at[q] /\ turn'[q] = turn[q]
         /\ at'[r] \in Counting /\ From(r)' = 1
<1>1. /\ at \in [Guarded -> Places] /\ turn \in [Guarded -> Nat] /\ touched \in [Guarded -> Nat]
      /\ turn[r] \in 1 .. Len(KeysOf[r]) /\ Len(KeysOf[r]) \in Nat /\ touched'[r] = turn[r]
  BY KeysAre DEF SlotShape, PlaceOf, Counting
<1>2. CASE turn[r] < Len(KeysOf[r])
  <2>1. at' = [at EXCEPT ![r] = "incr"] /\ turn' = [turn EXCEPT ![r] = @ + 1]
    BY <1>2 DEF AfterCounter
  <2>2. at'[r] = "incr" /\ turn'[r] = turn[r] + 1
    BY <1>1, <2>1
  <2>3. at' \in [Guarded -> Places] /\ turn' \in [Guarded -> Nat]
    <3>1. turn[r] + 1 \in Nat
      BY <1>1
    <3>2. turn' \in [Guarded -> Nat]
      BY <1>1, <2>1, <3>1
    <3>3. "incr" \in Places
      BY DEF Places, Counting
    <3>4. at' \in [Guarded -> Places]
      BY <1>1, <2>1, <3>3
    <3> QED BY <3>2, <3>4
  <2>4. PlaceOf(r)'
    BY <1>1, <1>2, <2>1, <2>2 DEF PlaceOf, Counting, GivingBack
  <2>5. \A q \in Guarded \ {r} : at'[q] = at[q] /\ turn'[q] = turn[q]
    BY <1>1, <2>1
  <2>6. at'[r] \in Counting /\ From(r)' = 1
    BY <2>2 DEF From, Counting, GivingBack
  <2> QED BY <2>3, <2>4, <2>5, <2>6
<1>3. CASE ~(turn[r] < Len(KeysOf[r])) /\ over'[r]
  <2>1. at' = [at EXCEPT ![r] = "denied"] /\ turn' = [turn EXCEPT ![r] = 1]
    BY <1>1, <1>3 DEF AfterCounter, GiveBack
  <2>2. at'[r] = "denied" /\ turn'[r] = 1
    BY <1>1, <2>1
  <2>3. at' \in [Guarded -> Places] /\ turn' \in [Guarded -> Nat]
    BY <1>1, <2>1 DEF Places, Counting
  <2>4. PlaceOf(r)'
    BY <1>1, <1>3, <2>1, <2>2 DEF PlaceOf, Counting, GivingBack
  <2>5. \A q \in Guarded \ {r} : at'[q] = at[q] /\ turn'[q] = turn[q]
    BY <1>1, <2>1
  <2>6. at'[r] \in Counting /\ From(r)' = 1
    BY <2>2 DEF From, Counting, GivingBack
  <2> QED BY <2>3, <2>4, <2>5, <2>6
<1>4. CASE ~(turn[r] < Len(KeysOf[r])) /\ ~over'[r]
  <2>1. at' = [at EXCEPT ![r] = "held"] /\ turn' = turn
    BY <1>4 DEF AfterCounter
  <2>2. at'[r] = "held"
    BY <1>1, <2>1
  <2>3. at' \in [Guarded -> Places] /\ turn' \in [Guarded -> Nat]
    BY <1>1, <2>1 DEF Places, Counting
  <2>4. PlaceOf(r)'
    BY <1>1, <1>4, <2>1, <2>2 DEF PlaceOf, Counting, GivingBack
  <2>5. \A q \in Guarded \ {r} : at'[q] = at[q] /\ turn'[q] = turn[q]
    BY <1>1, <2>1
  <2>6. at'[r] \in Counting /\ From(r)' = 1
    BY <2>2 DEF From, Counting, GivingBack
  <2> QED BY <2>3, <2>4, <2>5, <2>6
<1> QED BY <1>2, <1>3, <1>4

LEMMA GiveBackIs ==
  ASSUME SlotShape, NEW r \in Guarded, at[r] \in {"incr", "expire"}, GiveBack(r, "failed"),
         touched' = touched, over' = over
  PROVE  /\ at' \in [Guarded -> Places] /\ turn' \in [Guarded -> Nat] /\ PlaceOf(r)'
         /\ \A q \in Guarded \ {r} : at'[q] = at[q] /\ turn'[q] = turn[q]
         /\ at'[r] \in {"failed", "memory"} /\ From(r)' = 1
<1>1. /\ at \in [Guarded -> Places] /\ turn \in [Guarded -> Nat] /\ touched[r] \in Nat
      /\ touched[r] <= Len(KeysOf[r]) /\ Len(KeysOf[r]) \in Nat \ {0}
  BY KeysAre DEF SlotShape, PlaceOf, Counting
<1>2. /\ at' = [at EXCEPT ![r] = IF touched[r] > 0 THEN "failed" ELSE "memory"]
      /\ turn' = [turn EXCEPT ![r] = 1]
  BY DEF GiveBack
<1>3. at'[r] = (IF touched[r] > 0 THEN "failed" ELSE "memory") /\ turn'[r] = 1
  BY <1>1, <1>2
<1>4. at' \in [Guarded -> Places] /\ turn' \in [Guarded -> Nat]
  BY <1>1, <1>2 DEF Places, Counting
<1>5. PlaceOf(r)'
  BY <1>1, <1>2, <1>3 DEF PlaceOf, Counting, GivingBack
<1>6. \A q \in Guarded \ {r} : at'[q] = at[q] /\ turn'[q] = turn[q]
  BY <1>1, <1>2
<1>7. at'[r] \in {"failed", "memory"} /\ From(r)' = 1
  BY <1>3 DEF From, GivingBack
<1> QED BY <1>4, <1>5, <1>6, <1>7

\* The others stay where they are.
LEMMA OthersPlaced ==
  ASSUME SlotShape, NEW r \in Guarded, Alone(r), PlaceOf(r)'
  PROVE  \A q \in Guarded : PlaceOf(q)'
BY DEF SlotShape, Alone, PlaceOf

\* Nothing of the memory.
LEMMA MemoryStays ==
  ASSUME SlotShape, MemoryIsExact, NEW r \in Guarded, Alone(r), memory' = memory,
         at[r] # "held in memory", at'[r] # "held in memory"
  PROVE  MemoryIsExact'
<1> SUFFICES ASSUME NEW k \in Keys PROVE MemoryHolders(k)' = MemoryHolders(k)
  BY DEF MemoryIsExact
<1> QED BY DEF Alone, MemoryHolders

LEMMA IncrementKeeps ==
  ASSUME SlotInv, NEW r \in Guarded, Increment(r)
  PROVE  SlotInv'
<1>1. /\ SlotShape /\ PlaceOf(r) /\ at[r] = "incr" /\ Key(r) \in Keys
      /\ turn[r] \in 1 .. Len(KeysOf[r]) /\ touched[r] = turn[r] - 1 /\ KeysOf[r][turn[r]] = Key(r)
      /\ Len(KeysOf[r]) \in Nat /\ turn[r] \in Nat /\ Key(r) \in Counts(r)
  BY KeysAre DEF SlotInv, SlotShape, PlaceOf, Increment, Counting, Key
<1>2. /\ memory' = memory /\ memory \in [Keys -> Nat]
      /\ redis' \in {redis, Add(Key(r), 1)} /\ ("expiry" \in mishaps => "expiry" \in mishaps')
  BY <1>1 DEF Increment, CallSucceeds, CallRaises, SlotShape
<1>3. PICK c \in Keys : c = Key(r)
  BY <1>1
<1>0. /\ redis' \in [Keys -> Counter \cup {Missing}]
      /\ \A j \in Keys \ {c} : Value(j)' = Value(j)
      /\ Value(c)' \in {Value(c), Value(c) + 1}
      /\ redis' = Add(c, 1) => Value(c)' = Value(c) + 1
  <2>1. PICK d : d = 1
    OBVIOUS
  <2>2. d \in {-1, 1} /\ redis' \in {redis, Add(c, d)}
    BY <1>2, <1>3, <2>1
  <2> QED BY <1>1, <2>1, <2>2, AddIs
<1>4. \A k \in Keys : Value(k) \in Int /\ Limit[k] \in Nat
  BY <1>1, ValueIsInt, SlotAssumption
<1>5. CASE CallSucceeds(Add(Key(r), 1))
           /\ over' = [over EXCEPT ![r] = @ \/ OverCeiling(r)]
           /\ touched' = [touched EXCEPT ![r] = @ + 1]
  <2>1. /\ over' \in [Guarded -> BOOLEAN] /\ (over'[r] <=> over[r] \/ OverCeiling(r))
        /\ \A q \in Guarded \ {r} : over'[q] = over[q]
        /\ touched' = [touched EXCEPT ![r] = turn[r]] /\ touched' \in [Guarded -> Nat]
        /\ touched'[r] = turn[r]
    <3>1. over \in [Guarded -> BOOLEAN] /\ touched \in [Guarded -> Nat] /\ OverCeiling(r) \in BOOLEAN
      BY <1>1 DEF SlotShape, OverCeiling
    <3>2. touched[r] + 1 = turn[r]
      BY <1>1
    <3>3. touched' = [touched EXCEPT ![r] = turn[r]]
      BY <1>5, <3>1, <3>2
    <3>4. touched' \in [Guarded -> Nat] /\ touched'[r] = turn[r]
      BY <1>1, <3>1, <3>3
    <3>5. PICK b : b = (over[r] \/ OverCeiling(r))
      OBVIOUS
    <3>6. over' = [over EXCEPT ![r] = b] /\ b \in BOOLEAN
      BY <1>5, <3>1, <3>5
    <3>7. over' \in [Guarded -> BOOLEAN] /\ over'[r] = b /\ \A q \in Guarded \ {r} : over'[q] = over[q]
      BY <3>1, <3>6
    <3> QED BY <3>3, <3>4, <3>5, <3>7
  <2>2. /\ at' \in [Guarded -> Places] /\ turn' \in [Guarded -> Nat] /\ PlaceOf(r)'
        /\ \A q \in Guarded \ {r} : at'[q] = at[q] /\ turn'[q] = turn[q]
        /\ at'[r] \in Counting /\ From(r)' = 1
    <3>1. CASE at' = [at EXCEPT ![r] = "expire"] /\ turn' = turn
      <4>1. at \in [Guarded -> Places] /\ turn \in [Guarded -> Nat] /\ "expire" \in Places
        BY <1>1 DEF SlotShape, Places, Counting
      <4>2. at' \in [Guarded -> Places] /\ turn' \in [Guarded -> Nat] /\ at'[r] = "expire"
        BY <3>1, <4>1
      <4>3. \A q \in Guarded \ {r} : at'[q] = at[q] /\ turn'[q] = turn[q]
        BY <3>1, <4>1
      <4>4. PlaceOf(r)'
        BY <1>1, <2>1, <3>1, <4>2 DEF PlaceOf, Counting, GivingBack
      <4> QED BY <4>2, <4>3, <4>4 DEF From, Counting, GivingBack
    <3>2. CASE AfterCounter(r)
      BY <1>1, <2>1, <3>2, AfterCounterIs
    <3>3. \/ at' = [at EXCEPT ![r] = "expire"] /\ turn' = turn
          \/ AfterCounter(r)
      <4>1. touched'[r] # touched[r]
        BY <1>1, <2>1
      <4> QED BY <4>1 DEF Increment
    <3> QED BY <3>1, <3>2, <3>3
  <2>3. Alone(r)
    BY <1>2, <2>1, <2>2 DEF Alone, SlotShape
  <2>4. SlotShape'
    BY <1>0, <1>1, <1>2, <2>1, <2>2, <2>3, OthersPlaced DEF SlotShape
  <2>5. ASSUME NEW k \in Keys PROVE Stays(r, k) \/ Leaves(r, k) \/ Joins(r, k)
    <3>1. CASE k = c
      <4>1. Value(k)' = Value(k) + 1
        BY <1>0, <1>3, <1>5, <3>1 DEF CallSucceeds
      <4>2. ~over'[r] => ~(Value(k) + 1 > Limit[k])
        BY <1>3, <2>1, <3>1 DEF OverCeiling
      <4> QED BY <1>4, <4>1, <4>2 DEF Joins
    <3>2. CASE k # c
      <4>1. IsCounted(r, k)' => IsCounted(r, k)
        <5> SUFFICES ASSUME IsCounted(r, k)' PROVE IsCounted(r, k)
          OBVIOUS
        <5>1. PICK i \in 1 .. turn[r] : KeysOf[r][i] = k
          BY <2>1, <2>2 DEF IsCounted
        <5>2. i \in 1 .. touched[r]
          BY <1>1, <1>3, <3>2, <5>1
        <5> QED BY <1>1, <5>1, <5>2 DEF IsCounted, From, Counting, GivingBack
      <4> QED BY <1>0, <1>4, <2>1, <3>2, <4>1 DEF Stays
    <3> QED BY <3>1, <3>2
  <2>6. CountsHold'
    BY <1>1, <2>3, <2>4, <2>5, StepCounts DEF SlotInv
  <2>7. MemoryIsExact'
    BY <1>1, <1>2, <2>2, <2>3, MemoryStays DEF SlotInv, Counting
  <2> QED BY <2>4, <2>6, <2>7 DEF SlotInv
<1>6. CASE GiveBack(r, "failed") /\ over' = over /\ touched' = touched
  <2>1. /\ at' \in [Guarded -> Places] /\ turn' \in [Guarded -> Nat] /\ PlaceOf(r)'
        /\ \A q \in Guarded \ {r} : at'[q] = at[q] /\ turn'[q] = turn[q]
        /\ at'[r] \in {"failed", "memory"} /\ From(r)' = 1
    BY <1>1, <1>6, GiveBackIs
  <2>2. Alone(r)
    BY <1>2, <1>6, <2>1 DEF Alone
  <2>3. SlotShape'
    BY <1>0, <1>1, <1>2, <1>6, <2>1, <2>2, OthersPlaced DEF SlotShape
  <2>4. ASSUME NEW k \in Keys PROVE Stays(r, k)
    <3>1. IsCounted(r, k)' => IsCounted(r, k)
      <4>1. From(r) = 1 /\ at[r] \in Counting /\ touched'[r] = touched[r]
        BY <1>1, <1>6 DEF From, Counting, GivingBack
      <4> SUFFICES ASSUME IsCounted(r, k)' PROVE IsCounted(r, k)
        OBVIOUS
      <4>2. PICK i \in 1 .. touched[r] : KeysOf[r][i] = k
        BY <2>1, <4>1 DEF IsCounted
      <4> QED BY <4>1, <4>2 DEF IsCounted
    <3> QED BY <1>0, <1>4, <1>6, <3>1 DEF Stays
  <2>5. CountsHold'
    BY <1>1, <2>2, <2>3, <2>4, StepCounts DEF SlotInv
  <2>6. MemoryIsExact'
    BY <1>1, <1>2, <2>1, <2>2, MemoryStays DEF SlotInv
  <2> QED BY <2>3, <2>5, <2>6 DEF SlotInv
<1> QED BY <1>1, <1>5, <1>6 DEF Increment

\* An expiry that is set counts nothing.
LEMMA ExpiryIs ==
  ASSUME SlotShape, NEW k \in Keys,
         redis' \in {redis, IF redis[k] = Missing THEN redis ELSE [redis EXCEPT ![k].expires = TRUE]}
  PROVE  redis' \in [Keys -> Counter \cup {Missing}] /\ \A j \in Keys : Value(j)' = Value(j)
<1>1. redis \in [Keys -> Counter \cup {Missing}]
  BY DEF SlotShape
<1>2. CASE redis' = redis
  BY <1>1, <1>2 DEF Value
<1>3. CASE redis[k] # Missing /\ redis' = [redis EXCEPT ![k].expires = TRUE]
  <2>1. PICK c : c = [redis[k] EXCEPT !.expires = TRUE]
    OBVIOUS
  <2>2. c \in Counter /\ c.value = redis[k].value
    BY <1>1, <1>3, <2>1 DEF Counter
  <2>3. c # Missing
    BY <2>2, SlotAssumption
  <2>4. redis' = [redis EXCEPT ![k] = c]
    BY <1>3, <2>1
  <2>5. redis'[k] = c /\ (\A j \in Keys \ {k} : redis'[j] = redis[j])
        /\ redis' \in [Keys -> Counter \cup {Missing}]
    BY <1>1, <2>2, <2>4
  <2> QED BY <1>3, <2>2, <2>3, <2>5 DEF Value
<1> QED BY <1>2, <1>3

\* A step that puts a request in no counter and takes it out of none.
LEMMA IdleCounts ==
  ASSUME SlotInv, NEW r \in Guarded, Alone(r), PlaceOf(r)',
         redis' \in [Keys -> Counter \cup {Missing}], \A k \in Keys : Value(k)' = Value(k),
         at' \in [Guarded -> Places], turn' \in [Guarded -> Nat], touched' = touched, over' = over,
         memory' \in [Keys -> Nat],
         at'[r] \in Counting => at[r] \in Counting /\ From(r)' = From(r)
  PROVE  SlotShape' /\ CountsHold'
<1>1. SlotShape'
  BY OthersPlaced DEF SlotInv, SlotShape
<1>2. ASSUME NEW k \in Keys PROVE Stays(r, k)
  <2>1. Value(k) \in Int
    BY ValueIsInt DEF SlotInv
  <2>2. IsCounted(r, k)' => IsCounted(r, k)
    <3> SUFFICES ASSUME IsCounted(r, k)' PROVE IsCounted(r, k)
      OBVIOUS
    <3>1. at'[r] \in Counting /\ at[r] \in Counting /\ From(r)' = From(r)
      BY DEF IsCounted
    <3>2. PICK i \in From(r) .. touched[r] : KeysOf[r][i] = k
      BY <3>1 DEF IsCounted
    <3> QED BY <3>1, <3>2 DEF IsCounted
  <2> QED BY <2>1, <2>2 DEF Stays
<1> QED BY <1>1, <1>2, StepCounts DEF SlotInv

LEMMA ExpireKeeps ==
  ASSUME SlotInv, NEW r \in Guarded, Expire(r)
  PROVE  SlotInv'
<1>1. /\ SlotShape /\ at[r] = "expire" /\ Key(r) \in Keys /\ touched[r] = turn[r]
      /\ touched \in [Guarded -> Nat] /\ over \in [Guarded -> BOOLEAN] /\ From(r) = 1
  BY KeysAre DEF SlotInv, SlotShape, PlaceOf, Expire, Counting, GivingBack, Key, From
<1>2. PICK c \in Keys : c = Key(r)
  BY <1>1
<1>3. /\ memory' = memory /\ over' = over /\ touched' = touched
      /\ redis' \in {redis, IF redis[c] = Missing THEN redis ELSE [redis EXCEPT ![c].expires = TRUE]}
      /\ "expiry" \in mishaps => "expiry" \in mishaps'
      /\ AfterCounter(r) \/ GiveBack(r, "failed")
  BY <1>2 DEF Expire, CallSucceeds, CallRaises
<1>4. redis' \in [Keys -> Counter \cup {Missing}] /\ \A j \in Keys : Value(j)' = Value(j)
  BY <1>1, <1>3, ExpiryIs
<1>5. /\ at' \in [Guarded -> Places] /\ turn' \in [Guarded -> Nat] /\ PlaceOf(r)'
      /\ \A q \in Guarded \ {r} : at'[q] = at[q] /\ turn'[q] = turn[q]
      /\ at'[r] \in Counting \cup {"memory"} /\ From(r)' = 1
  <2>1. CASE AfterCounter(r)
    <3>1. touched' = [touched EXCEPT ![r] = turn[r]]
      BY <1>1, <1>3
    <3> QED BY <1>1, <1>3, <2>1, <3>1, AfterCounterIs
  <2>2. CASE GiveBack(r, "failed")
    BY <1>1, <1>3, <2>2, GiveBackIs DEF Counting
  <2> QED BY <1>3, <2>1, <2>2
<1>6. Alone(r)
  BY <1>3, <1>5 DEF Alone
<1>7. SlotShape' /\ CountsHold'
  BY <1>1, <1>3, <1>4, <1>5, <1>6, IdleCounts DEF SlotInv, SlotShape, Counting
<1>8. MemoryIsExact'
  BY <1>1, <1>3, <1>5, <1>6, MemoryStays DEF SlotInv, Counting
<1> QED BY <1>7, <1>8 DEF SlotInv

LEMMA DecrementKeeps ==
  ASSUME SlotInv, NEW r \in Guarded, Decrement(r)
  PROVE  SlotInv'
<1>1. /\ SlotShape /\ at[r] \in GivingBack /\ at[r] \in Counting /\ Key(r) \in Keys
      /\ Key(r) = KeysOf[r][turn[r]] /\ turn[r] \in 1 .. touched[r] /\ turn[r] \in Nat
      /\ touched[r] \in Nat /\ touched[r] <= Len(KeysOf[r]) /\ Len(KeysOf[r]) \in Nat
      /\ at \in [Guarded -> Places] /\ turn \in [Guarded -> Nat] /\ From(r) = turn[r]
  BY KeysAre DEF SlotInv, SlotShape, PlaceOf, Decrement, Counting, GivingBack, Key, From
<1>2. PICK c \in Keys : c = Key(r)
  BY <1>1
<1>3. /\ memory' = memory /\ over' = over /\ touched' = touched
      /\ redis' \in {redis, Add(c, -1)} /\ ("expiry" \in mishaps => "expiry" \in mishaps')
  BY <1>2 DEF Decrement, CallSucceeds, CallRaises
<1>4. /\ redis' \in [Keys -> Counter \cup {Missing}]
      /\ \A j \in Keys \ {c} : Value(j)' = Value(j)
      /\ Value(c)' \in {Value(c), Value(c) - 1}
  <2>1. PICK d : d = -1
    OBVIOUS
  <2>2. d \in {-1, 1} /\ redis' \in {redis, Add(c, d)}
    BY <1>3, <2>1
  <2>3. Value(c)' \in {Value(c), Value(c) + d} /\ Value(c) \in Int
    BY <1>1, <2>2, AddIs, ValueIsInt
  <2> QED BY <1>1, <2>1, <2>2, <2>3, AddIs
<1>5. \/ turn[r] < touched[r] /\ turn' = [turn EXCEPT ![r] = turn[r] + 1] /\ at' = at
      \/ /\ ~(turn[r] < touched[r]) /\ turn' = turn
         /\ \E to \in {"memory", "done"} : at' = [at EXCEPT ![r] = to]
  BY <1>1 DEF Decrement, LastTouched
<1>6. /\ at' \in [Guarded -> Places] /\ turn' \in [Guarded -> Nat]
      /\ \A q \in Guarded \ {r} : at'[q] = at[q] /\ turn'[q] = turn[q]
      /\ at'[r] # "held in memory" /\ at[r] # "held in memory"
  <2>1. CASE turn[r] < touched[r] /\ turn' = [turn EXCEPT ![r] = turn[r] + 1] /\ at' = at
    <3>1. turn[r] + 1 \in Nat
      BY <1>1
    <3>2. turn' \in [Guarded -> Nat] /\ \A q \in Guarded \ {r} : turn'[q] = turn[q]
      BY <1>1, <2>1, <3>1
    <3> QED BY <1>1, <2>1, <3>2 DEF GivingBack
  <2>2. ASSUME turn' = turn, NEW to \in {"memory", "done"}, at' = [at EXCEPT ![r] = to]
        PROVE  /\ at' \in [Guarded -> Places] /\ at'[r] # "held in memory"
               /\ \A q \in Guarded \ {r} : at'[q] = at[q]
    <3>1. to \in Places
      BY DEF Places
    <3> QED BY <1>1, <2>2, <3>1
  <2> QED BY <1>1, <1>5, <2>1, <2>2 DEF GivingBack
<1>7. PlaceOf(r)' /\ (at'[r] \in Counting => From(r)' = turn[r] + 1)
  <2>1. CASE turn[r] < touched[r] /\ turn' = [turn EXCEPT ![r] = turn[r] + 1] /\ at' = at
    <3>1. turn'[r] = turn[r] + 1
      BY <1>1, <2>1
    <3> QED BY <1>1, <1>3, <2>1, <3>1 DEF SlotShape, PlaceOf, Counting, GivingBack, From
  <2>2. ASSUME NEW to \in {"memory", "done"}, at' = [at EXCEPT ![r] = to]
        PROVE  at'[r] \in {"memory", "done"}
    BY <1>1, <2>2
  <2> QED BY <1>5, <2>1, <2>2 DEF PlaceOf, Counting, GivingBack
<1>8. Alone(r)
  BY <1>3, <1>6 DEF Alone
<1>9. SlotShape'
  BY <1>1, <1>3, <1>4, <1>6, <1>7, <1>8, OthersPlaced DEF SlotShape
<1>10. ASSUME NEW k \in Keys PROVE Stays(r, k) \/ Leaves(r, k)
  <2>1. Value(k) \in Int
    BY <1>1, ValueIsInt
  <2>2. ASSUME IsCounted(r, k)' PROVE IsCounted(r, k) /\ k # c
    <3>1. at'[r] \in Counting /\ From(r)' = turn[r] + 1
      BY <1>7, <2>2 DEF IsCounted
    <3>2. PICK i \in turn[r] + 1 .. touched[r] : KeysOf[r][i] = k
      BY <1>3, <2>2, <3>1 DEF IsCounted
    <3>3. i \in turn[r] .. touched[r] /\ i # turn[r] /\ i \in 1 .. Len(KeysOf[r])
          /\ turn[r] \in 1 .. Len(KeysOf[r])
      BY <1>1
    <3>4. k # c
      BY <1>1, <1>2, <3>2, <3>3, KeysAre
    <3> QED BY <1>1, <3>2, <3>3, <3>4 DEF IsCounted
  <2>3. CASE k = c
    <3>1. IsCounted(r, k)
      <4>1. turn[r] \in From(r) .. touched[r] /\ KeysOf[r][turn[r]] = k
        BY <1>1, <1>2, <2>3
      <4> QED BY <1>1, <4>1 DEF IsCounted
    <3>2. Value(k)' >= Value(k) - 1
      BY <1>4, <2>1, <2>3
    <3> QED BY <2>2, <2>3, <3>1, <3>2 DEF Leaves
  <2>4. CASE k # c
    BY <1>3, <1>4, <2>1, <2>2, <2>4 DEF Stays
  <2> QED BY <2>3, <2>4
<1>11. CountsHold'
  BY <1>1, <1>8, <1>9, <1>10, StepCounts DEF SlotInv
<1>12. MemoryIsExact'
  BY <1>1, <1>3, <1>6, <1>8, MemoryStays DEF SlotInv
<1> QED BY <1>9, <1>11, <1>12 DEF SlotInv

-----------------------------------------------------------------------------
(* The requests, the memory and what happens around them                   *)

LEMMA ComesAndGoes ==
  ASSUME SlotInv, NEW r \in Guarded, Enter(r) \/ Release(r)
  PROVE  SlotInv'
<1>1. /\ SlotShape /\ at \in [Guarded -> Places] /\ turn \in [Guarded -> Nat] /\ PlaceOf(r)
      /\ Len(KeysOf[r]) \in Nat \ {0}
  BY KeysAre DEF SlotInv, SlotShape
<1>2. UNCHANGED <<redis, mishaps, memory, touched, over>>
  BY DEF Enter, Release
<1>3. \A k \in Keys : Value(k)' = Value(k)
  BY <1>2 DEF Value
<1>4. CASE Enter(r)
  <2>1. at[r] = "idle" /\ at' = [at EXCEPT ![r] = "incr"] /\ turn' = turn /\ "incr" \in Places
    BY <1>4 DEF Enter, Places, Counting
  <2>2. at' \in [Guarded -> Places] /\ at'[r] = "incr" /\ \A q \in Guarded \ {r} : at'[q] = at[q]
    BY <1>1, <2>1
  <2>3. PlaceOf(r)' /\ From(r)' = 1
    BY <1>1, <1>2, <2>1, <2>2 DEF PlaceOf, Counting, GivingBack, From
  <2>4. Alone(r)
    BY <1>2, <2>1, <2>2 DEF Alone
  <2>5. ASSUME NEW k \in Keys PROVE Stays(r, k)
    <3>1. touched'[r] = 0
      BY <1>1, <1>2, <2>1 DEF PlaceOf
    <3>2. ~IsCounted(r, k)'
      BY <2>3, <3>1 DEF IsCounted
    <3>3. Value(k) \in Int
      BY <1>1, ValueIsInt
    <3> QED BY <1>3, <3>2, <3>3 DEF Stays
  <2>6. SlotShape'
    BY <1>1, <1>2, <2>1, <2>2, <2>3, <2>4, OthersPlaced DEF SlotShape
  <2>7. CountsHold'
    BY <2>4, <2>5, <2>6, StepCounts DEF SlotInv
  <2>8. MemoryIsExact'
    BY <1>1, <1>2, <2>1, <2>2, <2>4, MemoryStays DEF SlotInv
  <2> QED BY <2>6, <2>7, <2>8 DEF SlotInv
<1>5. CASE Release(r)
  <2>1. /\ at[r] = "held" /\ at' = [at EXCEPT ![r] = "release"] /\ turn' = [turn EXCEPT ![r] = 1]
        /\ "release" \in Places /\ 1 \in Nat
    BY <1>5 DEF Release, Places, Counting
  <2>2. /\ at' \in [Guarded -> Places] /\ at'[r] = "release" /\ turn' \in [Guarded -> Nat] /\ turn'[r] = 1
        /\ \A q \in Guarded \ {r} : at'[q] = at[q] /\ turn'[q] = turn[q]
    BY <1>1, <2>1
  <2>3. PlaceOf(r)' /\ From(r)' = 1 /\ From(r) = 1 /\ at[r] \in Counting
    BY <1>1, <1>2, <2>1, <2>2 DEF PlaceOf, Counting, GivingBack, From
  <2>4. Alone(r)
    BY <1>2, <2>2 DEF Alone
  <2>5. SlotShape' /\ CountsHold'
    BY <1>1, <1>2, <1>3, <2>2, <2>3, <2>4, IdleCounts DEF SlotShape
  <2>6. MemoryIsExact'
    BY <1>1, <1>2, <2>1, <2>2, <2>4, MemoryStays DEF SlotInv
  <2> QED BY <2>5, <2>6 DEF SlotInv
<1> QED BY <1>4, <1>5

\* What a request takes in memory it gives back.
LEMMA MemoryKeeps ==
  ASSUME SlotInv, NEW r \in Guarded, MemoryAcquire(r) \/ MemoryRelease(r)
  PROVE  SlotInv'
<1>1. /\ SlotShape /\ at \in [Guarded -> Places] /\ turn \in [Guarded -> Nat]
      /\ memory \in [Keys -> Nat] /\ redis \in [Keys -> Counter \cup {Missing}]
      /\ \A k \in Keys : memory[k] = Cardinality(MemoryHolders(k)) /\ IsFiniteSet(MemoryHolders(k))
  BY SlotSetsAreFinite DEF SlotInv, SlotShape, MemoryIsExact
<1>2. UNCHANGED <<redis, mishaps, turn, touched, over>>
  BY DEF MemoryAcquire, MemoryRelease
<1>3. \A k \in Keys : Value(k)' = Value(k)
  BY <1>2 DEF Value
<1>4. ASSUME NEW to \in {"held in memory", "done"}, at' = [at EXCEPT ![r] = to],
             memory' \in [Keys -> Nat]
      PROVE  /\ SlotShape' /\ CountsHold' /\ at'[r] = to /\ Alone(r)
             /\ \A q \in Guarded \ {r} : at'[q] = at[q]
  <2>1. to \in Places /\ to \notin Counting /\ to # "idle"
    BY DEF Places, Counting
  <2>2. at' \in [Guarded -> Places] /\ at'[r] = to /\ \A q \in Guarded \ {r} : at'[q] = at[q]
    BY <1>1, <1>4, <2>1
  <2>3. PlaceOf(r)'
    BY <2>1, <2>2 DEF PlaceOf, Counting, GivingBack
  <2>4. Alone(r)
    BY <1>2, <2>2 DEF Alone
  <2>5. SlotShape' /\ CountsHold'
    BY <1>1, <1>2, <1>3, <1>4, <2>1, <2>2, <2>3, <2>4, IdleCounts
  <2> QED BY <2>2, <2>4, <2>5
<1>5. CASE /\ at[r] = "memory" /\ at' = [at EXCEPT ![r] = "held in memory"]
           /\ memory' = [k \in Keys |-> IF k \in Counts(r) THEN memory[k] + 1 ELSE memory[k]]
  <2>1. memory' \in [Keys -> Nat]
    <3>1. \A k \in Keys : memory[k] + 1 \in Nat
      BY <1>1
    <3> QED BY <1>1, <1>5, <3>1
  <2>2. PICK to : to = "held in memory"
    OBVIOUS
  <2>3. /\ SlotShape' /\ CountsHold' /\ at'[r] = "held in memory"
        /\ \A q \in Guarded \ {r} : at'[q] = at[q]
    BY <1>4, <1>5, <2>1, <2>2
  <2>4. ASSUME NEW k \in Keys PROVE memory'[k] = Cardinality(MemoryHolders(k)')
    <3>1. r \notin MemoryHolders(k)
      BY <1>5 DEF MemoryHolders
    <3>2. CASE k \in Counts(r)
      <4>1. MemoryHolders(k)' = MemoryHolders(k) \cup {r}
        BY <2>3, <3>2 DEF MemoryHolders
      <4>2. Cardinality(MemoryHolders(k) \cup {r}) = Cardinality(MemoryHolders(k)) + 1
        BY <1>1, <3>1, FS_AddElement
      <4> QED BY <1>1, <1>5, <3>2, <4>1, <4>2
    <3>3. CASE k \notin Counts(r)
      <4>1. MemoryHolders(k)' = MemoryHolders(k)
        BY <2>3, <3>1, <3>3 DEF MemoryHolders
      <4> QED BY <1>1, <1>5, <3>3, <4>1
    <3> QED BY <3>2, <3>3
  <2> QED BY <2>3, <2>4 DEF SlotInv, MemoryIsExact
<1>6. CASE at[r] = "memory" /\ at' = [at EXCEPT ![r] = "done"] /\ memory' = memory
  <2>1. PICK to : to = "done"
    OBVIOUS
  <2>2. SlotShape' /\ CountsHold' /\ at'[r] = "done" /\ Alone(r)
    BY <1>1, <1>4, <1>6, <2>1
  <2>3. MemoryIsExact'
    BY <1>1, <1>6, <2>2, MemoryStays DEF SlotInv
  <2> QED BY <2>2, <2>3 DEF SlotInv
<1>7. CASE /\ at[r] = "held in memory" /\ at' = [at EXCEPT ![r] = "done"]
           /\ memory' = [k \in Keys |-> IF k \in Counts(r) /\ memory[k] > 0
                                        THEN memory[k] - 1 ELSE memory[k]]
  <2>1. memory' \in [Keys -> Nat]
    <3>1. \A k \in Keys : memory[k] > 0 => memory[k] - 1 \in Nat
      BY <1>1
    <3> QED BY <1>1, <1>7, <3>1
  <2>2. PICK to : to = "done"
    OBVIOUS
  <2>3. /\ SlotShape' /\ CountsHold' /\ at'[r] = "done"
        /\ \A q \in Guarded \ {r} : at'[q] = at[q]
    BY <1>4, <1>7, <2>1, <2>2
  <2>4. ASSUME NEW k \in Keys PROVE memory'[k] = Cardinality(MemoryHolders(k)')
    <3>1. CASE k \in Counts(r)
      <4>1. r \in MemoryHolders(k) /\ MemoryHolders(k)' = MemoryHolders(k) \ {r}
        BY <1>7, <2>3, <3>1 DEF MemoryHolders
      <4>2. Cardinality(MemoryHolders(k) \ {r}) = Cardinality(MemoryHolders(k)) - 1
        BY <1>1, <4>1, FS_RemoveElement
      <4>3. Cardinality(MemoryHolders(k) \ {r}) \in Nat
        BY <1>1, FS_RemoveElement, FS_CardinalityType
      <4>4. memory[k] > 0
        BY <1>1, <4>2, <4>3
      <4> QED BY <1>1, <1>7, <3>1, <4>1, <4>2, <4>4
    <3>2. CASE k \notin Counts(r)
      <4>1. MemoryHolders(k)' = MemoryHolders(k)
        BY <2>3, <3>2 DEF MemoryHolders
      <4> QED BY <1>1, <1>7, <3>2, <4>1
    <3> QED BY <3>1, <3>2
  <2> QED BY <2>3, <2>4 DEF SlotInv, MemoryIsExact
<1>8. \/ at[r] = "memory" /\ MemoryAcquire(r)
      \/ at[r] = "held in memory" /\ MemoryRelease(r)
  BY DEF MemoryAcquire, MemoryRelease
<1> QED BY <1>5, <1>6, <1>7, <1>8 DEF MemoryAcquire, MemoryRelease

LEMMA ExpiryKeeps ==
  ASSUME SlotInv, NEW c \in Keys, KeyExpires(c)
  PROVE  SlotInv'
<1>1. /\ redis' = [redis EXCEPT ![c] = Missing] /\ UNCHANGED <<memory, at, turn, touched, over>>
      /\ SlotShape /\ redis \in [Keys -> Counter \cup {Missing}]
      /\ mishaps' = IF \E r \in Guarded : c \in Counts(r) /\ UsesRedis(r)
                    THEN mishaps \cup {"expiry"} ELSE mishaps
  BY DEF KeyExpires, SlotInv, SlotShape
<1>2. /\ redis' \in [Keys -> Counter \cup {Missing}] /\ redis'[c] = Missing
      /\ \A k \in Keys \ {c} : redis'[k] = redis[k]
  BY <1>1
<1>3. SlotShape'
  BY <1>1, <1>2 DEF SlotShape, PlaceOf
<1>4. \A k : Counted(k)' = Counted(k) /\ Cleared(k)' = Cleared(k) /\ MemoryHolders(k)' = MemoryHolders(k)
  BY <1>1 DEF Counted, Cleared, IsCounted, From, MemoryHolders
<1>5. MemoryIsExact'
  BY <1>1, <1>4 DEF SlotInv, MemoryIsExact
<1>6. CountsHold'
  <2> SUFFICES ASSUME "expiry" \notin mishaps', NEW k \in Keys PROVE KeyCounts(k)'
    BY DEF CountsHold
  <2>1. "expiry" \notin mishaps /\ ~\E r \in Guarded : c \in Counts(r) /\ UsesRedis(r)
    BY <1>1
  <2>2. KeyCounts(k)
    BY <2>1 DEF SlotInv, CountsHold
  <2>3. CASE k = c
    <3>1. Counted(k) = {}
      <4> SUFFICES ASSUME NEW r \in Guarded, IsCounted(r, k) PROVE FALSE
        BY DEF Counted
      <4>1. PICK i \in From(r) .. touched[r] : KeysOf[r][i] = k
        BY DEF IsCounted
      <4>2. i \in 1 .. Len(KeysOf[r])
        <5>1. at[r] \in Counting /\ PlaceOf(r) /\ turn[r] \in Nat /\ touched[r] \in Nat
          BY DEF IsCounted, SlotInv, SlotShape
        <5>2. From(r) \in Nat /\ From(r) >= 1 /\ touched[r] <= Len(KeysOf[r]) /\ Len(KeysOf[r]) \in Nat
          BY <5>1, KeysAre DEF PlaceOf, From
        <5> QED BY <4>1, <5>1, <5>2
      <4>3. k \in Counts(r)
        BY <4>1, <4>2, KeysAre
      <4>4. UsesRedis(r)
        BY DEF IsCounted, Counting, UsesRedis
      <4> QED BY <2>1, <2>3, <4>3, <4>4
    <3>2. Value(k)' = 0
      BY <1>2, <2>3 DEF Value
    <3>3. Cardinality(Counted(k)') = 0
      BY <1>4, <3>1, FS_EmptySet
    <3> QED BY <1>4, <2>2, <3>2, <3>3 DEF KeyCounts
  <2>4. CASE k # c
    <3>1. Value(k)' = Value(k)
      BY <1>2, <2>4 DEF Value
    <3> QED BY <1>4, <2>2, <3>1 DEF KeyCounts
  <2> QED BY <2>3, <2>4
<1> QED BY <1>3, <1>5, <1>6 DEF SlotInv

LEMMA CrashKeeps ==
  ASSUME SlotInv, Crash
  PROVE  SlotInv'
<1>1. /\ memory' = [k \in Keys |-> 0] /\ UNCHANGED <<redis, mishaps, turn, touched, over>>
      /\ at' = [r \in Guarded |-> IF at[r] = "idle" THEN "idle" ELSE "done"]
      /\ SlotShape
  BY DEF Crash, SlotInv
<1>2. \A r \in Guarded : at'[r] \in {"idle", "done"} /\ (at'[r] = "idle" => at[r] = "idle")
  BY <1>1
<1>3. at' \in [Guarded -> Places] /\ memory' \in [Keys -> Nat]
  BY <1>1 DEF Places
<1>4. SlotShape'
  BY <1>1, <1>2, <1>3 DEF SlotShape, PlaceOf, Counting, GivingBack
<1>5. \A k : Counted(k)' = {} /\ Cleared(k)' = {} /\ MemoryHolders(k)' = {}
  BY <1>2 DEF Counted, Cleared, IsCounted, Counting, MemoryHolders
<1>6. MemoryIsExact'
  BY <1>1, <1>5, FS_EmptySet DEF MemoryIsExact
<1>7. CountsHold'
  <2> SUFFICES ASSUME "expiry" \notin mishaps', NEW k \in Keys PROVE KeyCounts(k)'
    BY DEF CountsHold
  <2>1. KeyCounts(k) /\ Value(k)' = Value(k) /\ Value(k) \in Int /\ Limit[k] \in Nat
    BY <1>1, ValueIsInt, SlotAssumption DEF SlotInv, CountsHold, Value
  <2>2. Cardinality(Counted(k)) \in Nat
    BY SlotSetsAreFinite, FS_CardinalityType
  <2>3. Cardinality(Counted(k)') = 0 /\ Cardinality(Cleared(k)') = 0
    BY <1>5, FS_EmptySet
  <2> QED BY <2>1, <2>2, <2>3 DEF KeyCounts
<1> QED BY <1>4, <1>6, <1>7 DEF SlotInv

LEMMA SlotStep == SlotInv /\ [SlotNext]_slotVars => SlotInv'
<1> SUFFICES ASSUME SlotInv, [SlotNext]_slotVars PROVE SlotInv'
  OBVIOUS
<1>1. CASE UNCHANGED slotVars
  <2>1. UNCHANGED <<redis, memory, at, turn, touched, over, mishaps>>
    BY <1>1 DEF slotVars
  <2> QED BY <2>1 DEF SlotInv, SlotShape, PlaceOf, CountsHold, KeyCounts, Value, Counted, Cleared,
                      IsCounted, From, MemoryIsExact, MemoryHolders
<1>2. CASE SlotNext
  <2>1. ASSUME NEW r \in Guarded, Serve(r) PROVE SlotInv'
    BY <2>1, IncrementKeeps, ExpireKeeps, DecrementKeeps, ComesAndGoes, MemoryKeeps DEF Serve
  <2> QED BY <1>2, <2>1, ComesAndGoes, ExpiryKeeps, CrashKeeps DEF SlotNext
<1> QED BY <1>1, <1>2

LEMMA SlotStarts == SlotInit => SlotInv
<1> SUFFICES ASSUME SlotInit PROVE SlotInv
  OBVIOUS
<1>1. SlotShape
  BY DEF SlotInit, SlotShape, PlaceOf, Places, Counting, GivingBack
<1>2. \A k : Counted(k) = {} /\ Cleared(k) = {} /\ MemoryHolders(k) = {}
  BY DEF SlotInit, Counted, Cleared, IsCounted, Counting, MemoryHolders
<1>3. MemoryIsExact
  BY <1>2, FS_EmptySet DEF SlotInit, MemoryIsExact
<1>4. CountsHold
  <2> SUFFICES ASSUME NEW k \in Keys PROVE KeyCounts(k)
    BY DEF CountsHold
  <2>1. Value(k) = 0 /\ Limit[k] \in Nat
    BY SlotAssumption DEF SlotInit, Value
  <2>2. Cardinality(Counted(k)) = 0 /\ Cardinality(Cleared(k)) = 0
    BY <1>2, FS_EmptySet
  <2> QED BY <2>1, <2>2 DEF KeyCounts
<1> QED BY <1>1, <1>3, <1>4 DEF SlotInv

\* Those let in are in the counter, and none of them has seen it exceeded.
LEMMA SlotInvIsEnough == SlotInv => SlotsAreCounted
<1> SUFFICES ASSUME SlotInv PROVE CeilingHolds /\ CounterCoversHolders /\ MemoryIsExact
  BY DEF SlotsAreCounted
<1>1. ASSUME NEW k PROVE Holders(k) \subseteq Cleared(k) /\ Cleared(k) \subseteq Counted(k)
  <2>1. ASSUME NEW r \in Holders(k) PROVE r \in Cleared(k)
    <3>1. r \in Guarded /\ at[r] = "held" /\ k \in Counts(r) /\ PlaceOf(r)
      BY DEF Holders, SlotInv, SlotShape
    <3>2. ~over[r] /\ touched[r] = Len(KeysOf[r]) /\ From(r) = 1 /\ at[r] \in Counting
      BY <3>1 DEF PlaceOf, From, Counting, GivingBack
    <3>3. PICK i \in 1 .. Len(KeysOf[r]) : KeysOf[r][i] = k
      BY <3>1, KeysAre DEF Counts, Range
    <3> QED BY <3>1, <3>2, <3>3 DEF Cleared, IsCounted
  <2> QED BY <2>1 DEF Cleared, Counted
<1>2. ASSUME "expiry" \notin mishaps, NEW k \in Keys
      PROVE  Cardinality(Holders(k)) <= Limit[k] /\ Value(k) >= Cardinality(Holders(k))
  <2>1. KeyCounts(k) /\ Value(k) \in Int /\ Limit[k] \in Nat
    BY <1>2, ValueIsInt, SlotAssumption DEF SlotInv, CountsHold
  <2>2. Holders(k) \in SUBSET Cleared(k) /\ Cleared(k) \in SUBSET Counted(k)
    BY <1>1
  <2>3. /\ Cardinality(Holders(k)) <= Cardinality(Cleared(k))
        /\ Cardinality(Cleared(k)) <= Cardinality(Counted(k))
        /\ Cardinality(Holders(k)) \in Nat /\ Cardinality(Cleared(k)) \in Nat
        /\ Cardinality(Counted(k)) \in Nat
    BY <2>2, SlotSetsAreFinite, FS_Subset, FS_CardinalityType
  <2> QED BY <2>1, <2>3 DEF KeyCounts
<1> QED BY <1>2 DEF SlotInv, CeilingHolds, CounterCoversHolders

\* Whatever call fails, in whatever order the requests come and go, and whatever dies: no more are
\* let in than the ceiling, none is let in that is not counted, and those counted in memory are there.
THEOREM SlotsStayCounted == SlotSpec => []SlotsAreCounted
BY SlotStarts, SlotStep, SlotInvIsEnough, PTL DEF SlotSpec

-----------------------------------------------------------------------------
(* Starts under one key (Idempotency).  As long as nothing goes wrong with *)
(* Redis, who is between the lock and its release is the one in the lock,  *)
(* and the job is in the store unless that one is about to put it there.   *)
(* In memory, who has an answer has the entry.                             *)

RedisPlaces == {"idle", "get", "lock", "recheck", "create", "store", "release", "release reused",
                "status", "done"}
MemoryPlaces == {"idle", "memory", "memory create", "memory store", "status", "done", "error"}
StartPlaces == RedisPlaces \cup MemoryPlaces \cup
               {"fallback", "setnx", "reget", "forget lock", "forget entry"}
WithAnswer == {"store", "release", "release reused", "setnx", "reget", "memory store", "status",
               "forget lock", "forget entry", "done"}

StartShape ==
  /\ backend \in {"redis", "memory"} /\ created \in Nat /\ raised \in 0 .. MaxFailures
  /\ cached \in 1 .. created \cup {None} /\ entry \in 1 .. created \cup {None}
  /\ lock \in Starters \cup {None}
  /\ place \in [Starters -> StartPlaces]
  /\ polls \in [Starters -> 0 .. MaxPolls]
  /\ answer \in [Starters -> 1 .. created \cup {None}]
  /\ gone \subseteq 1 .. created
  /\ trouble \subseteq {"slow", "redis", "create", "vanish"}
  /\ \A r \in Starters : place[r] \in WithAnswer => answer[r] # None

LockIsHeld == lock # None => Locked(lock)

OneAtWork(r) ==
  /\ place[r] \in RedisPlaces
  /\ Locked(r) => lock = r
  /\ place[r] = "create" => created = 0
  /\ place[r] = "store" => cached = None

InRedis ==
  /\ gone = {} /\ created <= 1 /\ LockIsHeld
  /\ created = 1 => cached = 1 \/ (lock # None /\ place[lock] = "store")
  /\ \A r \in Starters : OneAtWork(r)

InMemory ==
  /\ gone = {}
  /\ \A r \in Starters :
       place[r] \in MemoryPlaces /\ (place[r] \in {"status", "done"} => answer[r] = entry)

StartInv ==
  /\ StartShape
  /\ backend = "redis" /\ trouble = {} => InRedis
  /\ backend = "memory" /\ trouble \subseteq {"create"} => InMemory

LEMMA StartTypeIsEnough == StartInv => StartTypeOK
BY DEF StartInv, StartShape, StartTypeOK, StartPlaces, RedisPlaces, MemoryPlaces

LEMMA StartBegins == StartInit => StartInv
BY StartAssumption DEF StartInit, StartInv, StartShape, InRedis, InMemory, OneAtWork, LockIsHeld, Locked,
   StartPlaces, RedisPlaces, MemoryPlaces, WithAnswer

LEMMA KeyIsHonouredByInv == StartInv => KeyIsHonoured
<1> SUFFICES ASSUME StartInv PROVE OneJobPerKey /\ AnswersAgree
  BY DEF KeyIsHonoured
<1>1. OneJobPerKey
  BY DEF OneJobPerKey, StartInv, InRedis
<1>2. ASSUME NEW r \in Answered, NEW s \in Answered,
             trouble \subseteq (IF backend = "redis" THEN {} ELSE {"create"})
      PROVE  answer[r] = answer[s]
  <2>1. /\ r \in Starters /\ s \in Starters /\ place[r] = "done" /\ place[s] = "done"
        /\ answer[r] \in 1 .. created /\ answer[s] \in 1 .. created /\ created \in Nat
    BY DEF Answered, StartInv, StartShape, WithAnswer
  <2>2. CASE backend = "redis"
    BY <1>2, <2>1, <2>2 DEF StartInv, InRedis
  <2>3. CASE backend = "memory"
    BY <1>2, <2>1, <2>3 DEF StartInv, InMemory
  <2> QED BY <2>2, <2>3 DEF StartInv, StartShape
<1> QED BY <1>1, <1>2 DEF AnswersAgree

LEMMA StartShapeGoto ==
  ASSUME StartShape, NEW r \in Starters, NEW step \in StartPlaces, Goto(r, step),
         step \in WithAnswer => answer'[r] # None,
         \A q \in Starters \ {r} : answer'[q] = answer[q]
  PROVE  /\ place' \in [Starters -> StartPlaces] /\ place'[r] = step
         /\ \A q \in Starters \ {r} : place'[q] = place[q]
         /\ \A q \in Starters : place'[q] \in WithAnswer => answer'[q] # None
<1>1. /\ place' \in [Starters -> StartPlaces] /\ place'[r] = step
      /\ \A q \in Starters \ {r} : place'[q] = place[q]
  BY DEF StartShape, Goto
<1> QED BY <1>1 DEF StartShape

\* A job that is created, and an answer that is taken.
LEMMA StartAnswer ==
  ASSUME StartShape, NEW r \in Starters, NEW job, Answer(r, job),
         created' \in Nat, created' >= created, job \in 1 .. created'
  PROVE  /\ answer' \in [Starters -> 1 .. created' \cup {None}] /\ answer'[r] = job /\ job # None
         /\ \A q \in Starters \ {r} : answer'[q] = answer[q]
<1>1. 1 .. created \subseteq 1 .. created' /\ job # None
  BY StartAssumption DEF StartShape
<1> QED BY <1>1 DEF StartShape, Answer

\* What a request does with its answer, when no job is created.
LEMMA StartShapeStays ==
  ASSUME StartShape, NEW r \in Starters, NEW step \in StartPlaces, Goto(r, step),
         \/ answer' = answer /\ (step \in WithAnswer => place[r] \in WithAnswer)
         \/ \E job \in 1 .. created : Answer(r, job),
         UNCHANGED <<backend, created, gone>>,
         cached' \in 1 .. created \cup {None}, entry' \in 1 .. created \cup {None},
         lock' \in Starters \cup {None}, polls' \in [Starters -> 0 .. MaxPolls],
         Succeeds \/ TimesOut \/ \E kind \in {"redis", "create"} : Raises(kind)
  PROVE  StartShape'
<1>1. raised' \in 0 .. MaxFailures /\ trouble' \subseteq {"slow", "redis", "create", "vanish"}
  <2>1. trouble' \subseteq {"slow", "redis", "create", "vanish"}
    BY DEF StartShape, Succeeds, Raises, TimesOut
  <2>2. raised' = raised \/ (raised < MaxFailures /\ raised' = raised + 1)
    BY DEF Succeeds, Raises, TimesOut
  <2> QED BY <2>1, <2>2, StartAssumption DEF StartShape
<1>2. CASE answer' = answer /\ (step \in WithAnswer => place[r] \in WithAnswer)
  <2>1. step \in WithAnswer => answer'[r] # None
    BY <1>2 DEF StartShape
  <2> QED BY <1>1, <1>2, <2>1, StartShapeGoto DEF StartShape
<1>3. CASE \E job \in 1 .. created : Answer(r, job)
  BY <1>1, <1>3, StartAnswer, StartShapeGoto DEF StartShape
<1> QED BY <1>2, <1>3

LEMMA StartShapeCreates ==
  ASSUME StartShape, NEW r \in Starters, NEW step \in StartPlaces, Goto(r, step), Create(r),
         UNCHANGED <<backend, gone, cached, entry, lock, polls, raised, trouble>>
  PROVE  StartShape'
<1>1. created' \in Nat /\ created' = created + 1 /\ 1 .. created \subseteq 1 .. created'
  BY DEF StartShape, Create
<1> QED BY <1>1, StartAnswer, StartShapeGoto DEF StartShape, Create

LEMMA StartPlacesAre ==
  \A r : FirstPlace(r) \in StartPlaces \ WithAnswer
BY DEF FirstPlace, StartPlaces, RedisPlaces, MemoryPlaces, WithAnswer

LEMMA StartShapeStep == StartShape /\ [StartNext]_startVars => StartShape'
<1> SUFFICES ASSUME StartShape, [StartNext]_startVars PROVE StartShape'
  OBVIOUS
<1> USE DEF Succeeds
<1>0. CASE UNCHANGED startVars
  BY <1>0 DEF startVars, StartShape
<1>1. CASE LockExpires
  BY <1>1 DEF LockExpires, TimesOut, StartShape
<1>2. ASSUME NEW job \in 1 .. created, Vanish(job) PROVE StartShape'
  BY <1>2 DEF Vanish, StartShape
<1>3. ASSUME NEW r \in Starters, Arrive(r) PROVE StartShape'
  BY <1>3, StartPlacesAre, StartShapeStays DEF Arrive, failing, StartShape
<1>4. ASSUME NEW r \in Starters, Get(r) PROVE StartShape'
  BY <1>4, StartShapeStays DEF Get, failing, StartShape, StartPlaces, RedisPlaces, WithAnswer
<1>5. ASSUME NEW r \in Starters, TakeLock(r) PROVE StartShape'
  <2>1. polls' \in [Starters -> 0 .. MaxPolls]
    <3>1. CASE polls' = polls
      BY <3>1 DEF StartShape
    <3>2. CASE polls[r] < MaxPolls /\ polls' = [polls EXCEPT ![r] = @ + 1]
      <4>1. polls[r] + 1 \in 0 .. MaxPolls
        BY <3>2, StartAssumption DEF StartShape
      <4> QED BY <3>2, <4>1 DEF StartShape
    <3> QED BY <1>5, <3>1, <3>2 DEF TakeLock
  <2>2. PICK step \in {"recheck", "get", "fallback"} : Goto(r, step)
    BY <1>5 DEF TakeLock
  <2>3. step \in StartPlaces \ WithAnswer
    BY DEF StartPlaces, RedisPlaces, WithAnswer
  <2> QED BY <1>5, <2>1, <2>2, <2>3, StartShapeStays DEF TakeLock, StartShape
<1>6. ASSUME NEW r \in Starters, Recheck(r) PROVE StartShape'
  BY <1>6, StartShapeStays DEF Recheck, failing, StartShape, StartPlaces, RedisPlaces, WithAnswer
<1>7. ASSUME NEW r \in Starters, CreateLocked(r) \/ CreateAfterWait(r) PROVE StartShape'
  BY <1>7, StartShapeCreates
  DEF CreateLocked, CreateAfterWait, failing, StartPlaces, RedisPlaces
<1>8. ASSUME NEW r \in Starters, Store(r) PROVE StartShape'
  BY <1>8, StartShapeStays DEF Store, failing, StartShape, StartPlaces, RedisPlaces, WithAnswer
<1>9. ASSUME NEW r \in Starters, ReleaseLock(r) PROVE StartShape'
  BY <1>9, StartShapeStays DEF ReleaseLock, TokenCleared, StartShape, StartPlaces, RedisPlaces, WithAnswer
<1>10. ASSUME NEW r \in Starters, SetIfAbsent(r) PROVE StartShape'
  BY <1>10, StartShapeStays DEF SetIfAbsent, failing, StartShape, StartPlaces, RedisPlaces, WithAnswer
<1>11. ASSUME NEW r \in Starters, GetAgain(r) PROVE StartShape'
  BY <1>11, StartShapeStays DEF GetAgain, failing, StartShape, StartPlaces, RedisPlaces, WithAnswer
<1>12. ASSUME NEW r \in Starters, RedisPathRaises(r) PROVE StartShape'
  BY <1>12, StartShapeStays
  DEF RedisPathRaises, TokenCleared, StartShape, StartPlaces, MemoryPlaces, WithAnswer
<1>13. ASSUME NEW r \in Starters, MemoryGet(r) PROVE StartShape'
  BY <1>13, StartShapeStays DEF MemoryGet, failing, StartShape, StartPlaces, MemoryPlaces, WithAnswer
<1>14. ASSUME NEW r \in Starters, MemoryCreate(r) PROVE StartShape'
  BY <1>14, StartShapeStays, StartShapeCreates
  DEF MemoryCreate, StartShape, StartPlaces, MemoryPlaces, WithAnswer
<1>15. ASSUME NEW r \in Starters, MemoryStore(r) PROVE StartShape'
  BY <1>15, StartShapeStays DEF MemoryStore, failing, StartShape, StartPlaces, MemoryPlaces, WithAnswer
<1>16. ASSUME NEW r \in Starters, CheckStatus(r) PROVE StartShape'
  BY <1>16, StartShapeStays
  DEF CheckStatus, StartShape, StartPlaces, RedisPlaces, WithAnswer
<1>17. ASSUME NEW r \in Starters, ForgetLock(r) PROVE StartShape'
  BY <1>17, StartShapeStays DEF ForgetLock, StartShape, StartPlaces, RedisPlaces, WithAnswer
<1>18. ASSUME NEW r \in Starters, ForgetEntry(r) PROVE StartShape'
  <2>1. 0 \in 0 .. MaxPolls
    BY StartAssumption
  <2>2. polls' \in [Starters -> 0 .. MaxPolls]
    BY <1>18, <2>1 DEF ForgetEntry, StartShape
  <2>3. PICK step \in StartPlaces \ WithAnswer : step = FirstPlace(r)
    BY StartPlacesAre
  <2> QED BY <1>18, <2>2, <2>3, StartShapeStays DEF ForgetEntry, failing, StartShape
<1> QED BY <1>0, <1>1, <1>2, <1>3, <1>4, <1>5, <1>6, <1>7, <1>8, <1>9, <1>10, <1>11, <1>12,
           <1>13, <1>14, <1>15, <1>16, <1>17, <1>18 DEF StartNext, Step

\* What goes wrong is not forgotten, and the store is the same throughout.
LEMMA TroubleStays ==
  ASSUME StartShape, [StartNext]_startVars
  PROVE  trouble \subseteq trouble' /\ backend' = backend
BY DEF StartNext, Step, startVars, LockExpires, Vanish, TimesOut, Arrive, Get, TakeLock, Recheck,
   CreateLocked, Store, ReleaseLock, CreateAfterWait, SetIfAbsent, GetAgain, RedisPathRaises,
   MemoryGet, MemoryCreate, MemoryStore, CheckStatus, ForgetLock, ForgetEntry, failing, Succeeds, Raises

\* In Redis, a request that is in none of the other places.
LEMMA InRedisPlaces ==
  ASSUME InRedis, NEW r \in Starters, place[r] \in {"fallback", "setnx", "reget", "memory",
         "memory create", "memory store", "forget lock", "forget entry"}
  PROVE  FALSE
BY DEF InRedis, OneAtWork, RedisPlaces

\* A step of one request, seen from the others.
Moved(r) ==
  /\ gone' = gone
  /\ \A q \in Starters \ {r} : place'[q] = place[q]

LEMMA GotoMoves ==
  ASSUME StartShape, NEW r \in Starters, NEW step \in StartPlaces, Goto(r, step), gone' = gone
  PROVE  Moved(r) /\ place'[r] = step
BY DEF StartShape, Goto, Moved

LEMMA InRedisStep ==
  ASSUME StartShape, StartShape', InRedis, backend = "redis", trouble' = {}, trouble = {},
         [StartNext]_startVars
  PROVE  InRedis'
<1> USE DEF Succeeds, Raises, failing
<1> DEFINE Others(r) == \A q \in Starters \ {r} :
                          place'[q] = place[q] /\ place[q] \in RedisPlaces
<1>0. CASE UNCHANGED startVars
  BY <1>0 DEF startVars, InRedis, LockIsHeld, OneAtWork, Locked
<1>1. ASSUME NEW r \in Starters, NEW step \in RedisPlaces, Goto(r, step), gone' = gone
      PROVE  Others(r) /\ place'[r] = step /\ gone' = {} /\ lock \in Starters \cup {None}
  BY <1>1, GotoMoves DEF Moved, InRedis, OneAtWork, StartPlaces, StartShape
<1>2. ASSUME NEW r \in Starters, Locked(r)
      PROVE  lock = r /\ \A q \in Starters \ {r} : ~Locked(q)
  BY <1>2 DEF InRedis, OneAtWork
<1>3. CASE LockExpires
  BY <1>3 DEF LockExpires, TimesOut, InRedis, LockIsHeld
<1>4. ASSUME NEW job \in 1 .. created, Vanish(job) PROVE InRedis'
  BY <1>4 DEF Vanish
<1>5. ASSUME NEW r \in Starters, Arrive(r) \/ Get(r) PROVE InRedis'
  <2>1. PICK step \in {"get", "status", "lock"} : Goto(r, step)
    BY <1>5 DEF Arrive, Get, FirstPlace
  <2>2. Others(r) /\ place'[r] = step /\ gone' = {}
    BY <1>1, <1>5, <2>1 DEF Arrive, Get, RedisPlaces
  <2>3. lock' = lock /\ created' = created /\ cached' = cached /\ ~Locked(r) /\ lock # r
    BY <1>5, <2>1, <2>2, StartAssumption DEF Arrive, Get, Locked, InRedis, LockIsHeld
  <2> QED BY <2>1, <2>2, <2>3 DEF InRedis, LockIsHeld, OneAtWork, Locked, RedisPlaces, StartShape
<1>6. ASSUME NEW r \in Starters, TakeLock(r) PROVE InRedis'
  <2>1. CASE lock = None /\ lock' = r /\ Goto(r, "recheck")
    <3>1. Others(r) /\ place'[r] = "recheck" /\ gone' = {} /\ created' = created /\ cached' = cached
      BY <1>1, <1>6, <2>1 DEF TakeLock, RedisPlaces
    <3>2. \A q \in Starters : ~Locked(q)
      BY <2>1, StartAssumption DEF InRedis, OneAtWork
    <3> QED BY <2>1, <3>1, <3>2 DEF InRedis, LockIsHeld, OneAtWork, Locked, RedisPlaces, StartShape
  <2>2. CASE lock # None /\ lock' = lock /\ Goto(r, "get")
    <3>1. /\ Others(r) /\ place'[r] = "get" /\ gone' = {} /\ created' = created /\ cached' = cached
          /\ place[r] = "lock"
      BY <1>1, <1>6, <2>2 DEF TakeLock, RedisPlaces
    <3>2. lock # r
      BY <2>2, <3>1 DEF InRedis, LockIsHeld, Locked
    <3> QED BY <2>2, <3>1, <3>2 DEF InRedis, LockIsHeld, OneAtWork, Locked, RedisPlaces, StartShape
  <2>3. ~(lock # None /\ TimesOut)
    BY DEF InRedis, LockIsHeld, TimesOut
  <2> QED BY <1>6, <2>1, <2>2, <2>3 DEF TakeLock
<1>7. ASSUME NEW r \in Starters, Recheck(r) PROVE InRedis'
  <2>1. PICK step \in {"release reused", "create"} :
          /\ Goto(r, step) /\ (step = "create" => cached = None) /\ place[r] = "recheck"
          /\ UNCHANGED <<lock, created, cached, gone>>
    BY <1>7 DEF Recheck
  <2>2. Others(r) /\ place'[r] = step /\ gone' = {}
    BY <1>1, <2>1 DEF RedisPlaces
  <2>3. Locked(r) /\ lock = r /\ \A q \in Starters \ {r} : ~Locked(q)
    BY <1>2, <2>1 DEF Locked
  <2>4. step = "create" => created = 0
    BY <2>1, <2>3, StartAssumption DEF InRedis, StartShape
  <2> QED BY <2>1, <2>2, <2>3, <2>4 DEF InRedis, LockIsHeld, OneAtWork, Locked, RedisPlaces, StartShape
<1>8. ASSUME NEW r \in Starters, CreateLocked(r) PROVE InRedis'
  <2>1. /\ Goto(r, "store") /\ place[r] = "create" /\ created' = created + 1
        /\ UNCHANGED <<lock, cached, gone>>
    BY <1>8 DEF CreateLocked, Create
  <2>2. Others(r) /\ place'[r] = "store" /\ gone' = {}
    BY <1>1, <2>1 DEF RedisPlaces
  <2>3. Locked(r) /\ lock = r /\ \A q \in Starters \ {r} : ~Locked(q)
    BY <1>2, <2>1 DEF Locked
  <2>4. created = 0 /\ cached = None
    BY <2>1, StartAssumption DEF InRedis, OneAtWork, StartShape
  <2>5. created' = 1
    BY <2>1, <2>4
  <2>6. \A q \in Starters : OneAtWork(q)'
    <3>1. OneAtWork(r)'
      BY <2>1, <2>2, <2>3, <2>4 DEF OneAtWork, RedisPlaces
    <3>2. ASSUME NEW q \in Starters \ {r} PROVE OneAtWork(q)'
      <4>1. place'[q] = place[q] /\ place[q] \in RedisPlaces /\ ~Locked(q)
        BY <2>2, <2>3
      <4> QED BY <4>1 DEF OneAtWork, Locked
    <3> QED BY <3>1, <3>2
  <2>7. LockIsHeld' /\ lock' # None /\ place'[lock'] = "store"
    BY <2>1, <2>2, <2>3, StartAssumption DEF LockIsHeld, Locked
  <2> QED BY <2>2, <2>5, <2>6, <2>7 DEF InRedis
<1>9. ASSUME NEW r \in Starters, Store(r) PROVE InRedis'
  <2>1. /\ Goto(r, "release") /\ place[r] = "store" /\ cached' = answer[r]
        /\ UNCHANGED <<lock, created, gone>>
    BY <1>9 DEF Store
  <2>2. Others(r) /\ place'[r] = "release" /\ gone' = {}
    BY <1>1, <2>1 DEF RedisPlaces
  <2>3. Locked(r) /\ lock = r /\ \A q \in Starters \ {r} : ~Locked(q)
    BY <1>2, <2>1 DEF Locked
  <2>4. answer[r] \in 1 .. created /\ created \in Nat /\ created <= 1
    BY <2>1 DEF StartShape, WithAnswer, InRedis
  <2>5. cached' = 1 /\ created' <= 1
    BY <2>1, <2>4
  <2>6. \A q \in Starters : OneAtWork(q)'
    <3>1. OneAtWork(r)'
      BY <2>1, <2>2, <2>3 DEF OneAtWork, RedisPlaces
    <3>2. ASSUME NEW q \in Starters \ {r} PROVE OneAtWork(q)'
      <4>1. place'[q] = place[q] /\ place[q] \in RedisPlaces /\ ~Locked(q)
        BY <2>2, <2>3
      <4> QED BY <4>1 DEF OneAtWork, Locked
    <3> QED BY <3>1, <3>2
  <2>7. LockIsHeld'
    BY <2>1, <2>2, <2>3 DEF LockIsHeld, Locked
  <2> QED BY <2>2, <2>5, <2>6, <2>7 DEF InRedis
<1>10. ASSUME NEW r \in Starters, ReleaseLock(r) PROVE InRedis'
  <2>1. PICK step \in {"done", "status"} : Goto(r, step)
    BY <1>10 DEF ReleaseLock
  <2>2. /\ place[r] \in {"release", "release reused"} /\ UNCHANGED <<cached, created, gone>>
        /\ lock' = TokenCleared(r)
    BY <1>10 DEF ReleaseLock
  <2>3. Others(r) /\ place'[r] = step /\ gone' = {}
    BY <1>1, <2>1, <2>2 DEF RedisPlaces
  <2>4. Locked(r) /\ lock = r /\ \A q \in Starters \ {r} : ~Locked(q)
    BY <1>2, <2>2 DEF Locked
  <2>5. lock' = None
    BY <2>2, <2>4 DEF TokenCleared
  <2> QED BY <2>1, <2>2, <2>3, <2>4, <2>5
          DEF InRedis, LockIsHeld, OneAtWork, Locked, RedisPlaces, StartShape
<1>11. ASSUME NEW r \in Starters, CheckStatus(r) PROVE InRedis'
  <2>1. /\ Goto(r, "done") /\ place[r] = "status" /\ UNCHANGED <<lock, cached, created, gone>>
    BY <1>11 DEF CheckStatus, InRedis
  <2>2. Others(r) /\ place'[r] = "done" /\ gone' = {}
    BY <1>1, <2>1 DEF RedisPlaces
  <2>3. lock # r
    BY <2>1, StartAssumption DEF InRedis, LockIsHeld, Locked
  <2> QED BY <2>1, <2>2, <2>3
          DEF InRedis, LockIsHeld, OneAtWork, Locked, RedisPlaces, StartShape
<1>12. ASSUME NEW r \in Starters,
              \/ CreateAfterWait(r) \/ SetIfAbsent(r) \/ GetAgain(r) \/ RedisPathRaises(r)
              \/ MemoryGet(r) \/ MemoryCreate(r) \/ MemoryStore(r) \/ ForgetLock(r) \/ ForgetEntry(r)
       PROVE  FALSE
  <2>1. place[r] \in RedisPlaces
    BY DEF InRedis, OneAtWork
  <2> QED BY <1>12, <2>1 DEF CreateAfterWait, SetIfAbsent, GetAgain, RedisPathRaises, MemoryGet,
          MemoryCreate, MemoryStore, ForgetLock, ForgetEntry, RedisPlaces
<1> QED BY <1>0, <1>3, <1>4, <1>5, <1>6, <1>7, <1>8, <1>9, <1>10, <1>11, <1>12 DEF StartNext, Step

LEMMA InMemoryStep ==
  ASSUME StartShape, InMemory, backend = "memory", trouble' \subseteq {"create"}, [StartNext]_startVars
  PROVE  InMemory'
<1> USE DEF Succeeds, failing
<1>0. CASE UNCHANGED startVars
  BY <1>0 DEF startVars, InMemory
<1>1. ASSUME NEW r \in Starters, NEW step \in MemoryPlaces, Goto(r, step), gone' = gone,
             \A q \in Starters \ {r} : answer'[q] = answer[q],
             \A q \in Starters : answer[q] # None => (answer[q] = entry => answer[q] = entry'),
             step \in {"status", "done"} => answer'[r] = entry'
      PROVE  InMemory'
  <2>1. Moved(r) /\ place'[r] = step
    BY <1>1, GotoMoves DEF StartPlaces
  <2> QED BY <1>1, <2>1 DEF Moved, InMemory, StartShape, WithAnswer
<1>2. CASE LockExpires
  BY <1>2 DEF LockExpires, InMemory
<1>3. ASSUME NEW job \in 1 .. created, Vanish(job) PROVE InMemory'
  BY <1>3 DEF Vanish
<1>4. ASSUME NEW r \in Starters, Arrive(r) PROVE InMemory'
  BY <1>1, <1>4 DEF Arrive, FirstPlace, MemoryPlaces
<1>5. ASSUME NEW r \in Starters, MemoryGet(r) PROVE InMemory'
  <2>1. \A q \in Starters \ {r} : answer'[q] = answer[q]
    BY <1>5 DEF MemoryGet, Answer, StartShape
  <2>2. entry # None => answer'[r] = entry
    BY <1>5 DEF MemoryGet, Answer, StartShape
  <2>3. PICK step \in {"status", "memory create"} : Goto(r, step) /\ (step = "status" => entry # None)
    BY <1>5 DEF MemoryGet
  <2> QED BY <1>1, <1>5, <2>1, <2>2, <2>3 DEF MemoryGet, MemoryPlaces
<1>6. ASSUME NEW r \in Starters, MemoryCreate(r) PROVE InMemory'
  <2>1. \A q \in Starters \ {r} : answer'[q] = answer[q]
    BY <1>6 DEF MemoryCreate, Create, Answer, StartShape
  <2>2. PICK step \in {"memory store", "error"} : Goto(r, step)
    BY <1>6 DEF MemoryCreate
  <2> QED BY <1>1, <1>6, <2>1, <2>2 DEF MemoryCreate, MemoryPlaces
<1>7. ASSUME NEW r \in Starters, MemoryStore(r) PROVE InMemory'
  <2>1. PICK step \in {"status", "done"} : Goto(r, step)
    BY <1>7 DEF MemoryStore
  <2>2. (\A q \in Starters \ {r} : answer'[q] = answer[q]) /\ answer'[r] = entry'
    BY <1>7 DEF MemoryStore, Answer, StartShape
  <2> QED BY <1>1, <1>7, <2>1, <2>2 DEF MemoryStore, MemoryPlaces
<1>8. ASSUME NEW r \in Starters, CheckStatus(r) PROVE InMemory'
  BY <1>1, <1>8 DEF CheckStatus, InMemory, MemoryPlaces
<1>9. ASSUME NEW r \in Starters,
             \/ Get(r) \/ TakeLock(r) \/ Recheck(r) \/ CreateLocked(r) \/ Store(r) \/ ReleaseLock(r)
             \/ CreateAfterWait(r) \/ SetIfAbsent(r) \/ GetAgain(r) \/ RedisPathRaises(r)
             \/ ForgetLock(r) \/ ForgetEntry(r)
      PROVE  FALSE
  <2>1. place[r] \in MemoryPlaces
    BY DEF InMemory
  <2> QED BY <1>9, <2>1 DEF Get, TakeLock, Recheck, CreateLocked, Store, ReleaseLock, CreateAfterWait,
          SetIfAbsent, GetAgain, RedisPathRaises, ForgetLock, ForgetEntry, MemoryPlaces
<1> QED BY <1>0, <1>2, <1>3, <1>4, <1>5, <1>6, <1>7, <1>8, <1>9 DEF StartNext, Step

\* One job for a key, and one answer, for any number of requests that wait and fail as often as they
\* may: with Redis while nothing goes wrong, in memory also when a creation raises.
THEOREM KeyStaysHonoured == StartSpec => []KeyIsHonoured
<1>1. StartInv /\ [StartNext]_startVars => StartInv'
  BY StartShapeStep, TroubleStays, InRedisStep, InMemoryStep DEF StartInv
<1> QED BY <1>1, StartBegins, KeyIsHonouredByInv, PTL DEF StartSpec
=============================================================================
