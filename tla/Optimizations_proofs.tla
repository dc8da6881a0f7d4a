-------------------------- MODULE Optimizations_proofs --------------------------
(***************************************************************************)
(* Proofs about optimizations, of any jobs, rows and batches: the store    *)
(* and the registry (OptimizationJobs), the work of one job                *)
(* (CombinationEvaluator), and the history that the browser keeps          *)
(* (OptimizationHistory).                                                  *)
(*                                                                         *)
(* Why the invariants are needed.  A result stays on disk only if nobody   *)
(* writes an end over it: RecordIsThere says that a job which is not over  *)
(* on disk has a thread that still finds its record, and EndsAsTold that   *)
(* one which a client was told is cancelled has no way to a result any     *)
(* more, though its row may read RUNNING once again.                       *)
(* No row of a job is left out, when threads begin again after a failed    *)
(* pool, because at every moment a row is to be submitted, under way or in *)
(* the results, and in exactly one of the three (PlacesAre); and the data  *)
(* are a job's own only if no other job has threads (GlobalsAreOwn).       *)
(* What a confirmed clear deletes was selected when the dialog opened,     *)
(* because no call that is still to end can add to the selection then:     *)
(* only a clear does, there is one at a time, and the panel knows it       *)
(* (ClearIsKnown).  The queue is of failed clears because every result is  *)
(* of the jobs that its call asked for (CallIsRight).                      *)
(*                                                                         *)
(* What the server answers and what is deduplicated are computed by        *)
(* recursion and by a choice: that there is such a list, and what it has,  *)
(* is proved from the least element of a set of numbers (LeastNat).        *)
(***************************************************************************)
EXTENDS OptimizationHistory, OptimizationJobs, CombinationEvaluator, TLAPS, FiniteSetTheorems, WellFoundedInduction

-----------------------------------------------------------------------------
(* OptimizationJobs: the invariant.                                        *)

\* What the disk has to say of a job, if it says anything.
OnDisk(j) == ~unsaved[j] /\ row[j] # NoRecord

\* A job that nobody has started.
NewIsBlank(j) ==
  pc[j] = "none" =>
    row[j] = NoRecord /\ jobs[j] = NoRecord /\ told[j] = {} /\ stage[j] = 0 /\ clear[j] = "none"

\* A process that is down has nothing but its store.
DownIsEmpty(j) ==
  ~up => /\ crashes > 0
         /\ jobs[j] = NoRecord /\ ~Working(j) /\ ~starting[j] /\ clear[j] = "none"

\* RecordIsStored, of one job.
StoredAs(j) ==
  jobs[j] # NoRecord /\ ~unsaved[j] =>
    /\ row[j] # NoRecord
    /\ row[j].status = jobs[j].status
    /\ row[j].cancelRequested = jobs[j].cancelRequested
    /\ row[j].rows = jobs[j].rows

\* A result is on disk when its job has committed it, and a client that was told of it can rely on that.
ResultIsStored(j) ==
  /\ OnDisk(j) /\ row[j].status = "completed" => row[j].rows /\ pc[j] \in {"finally", "done"}
  /\ "completed" \in told[j] /\ ~unsaved[j] => row[j] # NoRecord /\ row[j].status = "completed"

\* A thread that has not lost its record finds it, and a job that is not over has a thread that will find it.
RecordIsThere(j) ==
  /\ Working(j) /\ ~lost[j] => jobs[j] # NoRecord
  /\ OnDisk(j) /\ row[j].status \notin Finished /\ (crashes = 0 \/ ~lost[j]) =>
       jobs[j] # NoRecord /\ pc[j] \in {"check", "work", "commit", "cancel", "fail"}

\* The thread will not come to its result any more: it has passed the last check, or will find its
\* cancellation at the next.
Stopping(j) ==
  \/ pc[j] \in {"cancel", "fail", "resave", "finally", "done"}
  \/ row[j].cancelRequested /\ (pc[j] = "check" \/ (pc[j] = "work" /\ stage[j] = 0))

\* So it is for a job that ended without a result, and for one that a client was told so of, which may
\* be taken for RUNNING once more.  A job is PENDING only before its first piece of work.
EndsAsTold(j) ==
  OnDisk(j) /\ ~lost[j] =>
    /\ row[j].status = "pending" =>
         pc[j] = "cancel" \/ (pc[j] \in {"check", "work"} /\ stage[j] = 0)
    /\ row[j].status \in {"cancelled", "failed"} => Stopping(j)
    /\ told[j] \cap {"cancelled", "failed"} # {} => row[j].status # "completed" /\ Stopping(j)

\* The handler that clears a job has seen its row; a piece of work is left.
PlacesAreRight(j) ==
  /\ clear[j] = "update" => row[j] # NoRecord
  /\ pc[j] = "work" => stage[j] < LastStage


JobInv(j) ==
  /\ NewIsBlank(j) /\ DownIsEmpty(j) /\ StoredAs(j) /\ ResultIsStored(j)
  /\ RecordIsThere(j) /\ EndsAsTold(j) /\ PlacesAreRight(j)

JobsInv == TypeOK /\ \A j \in Jobs : JobInv(j)

-----------------------------------------------------------------------------
(* OptimizationJobs: the store and the registry.                           *)

\* What a save leaves of each job: those that are not saved, and those whose save fails, keep their row.
LEMMA PersistIs ==
  ASSUME TypeOK, NEW js, NEW J \in SUBSET Jobs, \A j \in J : js[j] \in Record, Persist(js, J)
  PROVE  /\ row' \in [Jobs -> Row \cup {NoRecord}]
         /\ unsaved' \in [Jobs -> BOOLEAN]
         /\ \A i \in Jobs \ J : row'[i] = row[i] /\ unsaved'[i] = unsaved[i]
         /\ \A i \in J :
              /\ unsaved[i] => unsaved'[i]
              /\ row[i] # NoRecord => row'[i] # NoRecord
              /\ ~unsaved'[i] =>
                   /\ row'[i] # NoRecord
                   /\ row'[i].status = js[i].status
                   /\ row'[i].cancelRequested = js[i].cancelRequested
                   /\ row'[i].rows = (js[i].rows \/ (row[i] # NoRecord /\ row[i].rows))
<1>1. PICK failed \in SUBSET J :
        /\ unsaved' = [j \in Jobs |-> unsaved[j] \/ j \in failed]
        /\ row' = [j \in Jobs |-> IF j \in J \ failed THEN Upsert(row[j], js[j]) ELSE row[j]]
  BY DEF Persist
<1>2. row \in [Jobs -> Row \cup {NoRecord}] /\ unsaved \in [Jobs -> BOOLEAN]
  BY DEF TypeOK
<1>3. ASSUME NEW i \in J
      PROVE  /\ Upsert(row[i], js[i]) \in Row /\ Upsert(row[i], js[i]) # NoRecord
             /\ Upsert(row[i], js[i]).status = js[i].status
             /\ Upsert(row[i], js[i]).cancelRequested = js[i].cancelRequested
             /\ Upsert(row[i], js[i]).rows = (js[i].rows \/ (row[i] # NoRecord /\ row[i].rows))
  <2>1. js[i] \in Record /\ row[i] \in Row \cup {NoRecord}
    BY <1>2
  <2>2. PICK kept \in BOOLEAN : kept = (js[i].rows \/ (row[i] # NoRecord /\ row[i].rows))
    OBVIOUS
  <2>3. Upsert(row[i], js[i])
          = [status |-> js[i].status, cancelRequested |-> js[i].cancelRequested, rows |-> kept,
             deleted |-> FALSE]
    BY <2>2 DEF Upsert
  <2>4. js[i].status \in Status /\ js[i].cancelRequested \in BOOLEAN
    BY <2>1 DEF Record
  <2>5. Upsert(row[i], js[i]) \in Row
    BY <2>2, <2>3, <2>4 DEF Row
  <2>6. Upsert(row[i], js[i]) # NoRecord
    BY <2>5, OptimizationAssumption
  <2>7. /\ Upsert(row[i], js[i]).status = js[i].status
        /\ Upsert(row[i], js[i]).cancelRequested = js[i].cancelRequested
        /\ Upsert(row[i], js[i]).rows = kept
    BY <2>3
  <2> QED BY <2>2, <2>5, <2>6, <2>7
<1>4. row' \in [Jobs -> Row \cup {NoRecord}] /\ unsaved' \in [Jobs -> BOOLEAN]
  <2>1. ASSUME NEW i \in Jobs PROVE row'[i] \in Row \cup {NoRecord}
    BY <1>1, <1>2, <1>3
  <2>2. row' = [i \in Jobs |-> row'[i]]
    BY <1>1
  <2>3. row' \in [Jobs -> Row \cup {NoRecord}]
    BY <2>1, <2>2
  <2>4. ASSUME NEW i \in Jobs PROVE (unsaved[i] \/ i \in failed) \in BOOLEAN
    OBVIOUS
  <2>5. unsaved' \in [Jobs -> BOOLEAN]
    BY <1>1, <2>4
  <2> QED BY <2>3, <2>5
<1>5. \A i \in Jobs \ J : row'[i] = row[i] /\ unsaved'[i] = unsaved[i]
  BY <1>1, <1>2
<1>6. ASSUME NEW i \in J
      PROVE  /\ unsaved'[i] = (unsaved[i] \/ i \in failed)
             /\ row'[i] = IF i \in failed THEN row[i] ELSE Upsert(row[i], js[i])
  BY <1>1
<1> QED BY <1>3, <1>4, <1>5, <1>6

\* PersistIs, of a save of one job.
LEMMA SaveIs ==
  ASSUME TypeOK, NEW js, NEW j \in Jobs, NEW r \in Record, js[j] = r, Persist(js, {j})
  PROVE  /\ row' \in [Jobs -> Row \cup {NoRecord}]
         /\ unsaved' \in [Jobs -> BOOLEAN]
         /\ \A i \in Jobs \ {j} : row'[i] = row[i] /\ unsaved'[i] = unsaved[i]
         /\ unsaved[j] => unsaved'[j]
         /\ row[j] # NoRecord => row'[j] # NoRecord
         /\ ~unsaved'[j] =>
              /\ row'[j] # NoRecord
              /\ row'[j].status = r.status
              /\ row'[j].cancelRequested = r.cancelRequested
              /\ row'[j].rows = (r.rows \/ (row[j] # NoRecord /\ row[j].rows))
<1>1. {j} \in SUBSET Jobs /\ \A k \in {j} : js[k] \in Record
  OBVIOUS
<1>2. PICK J : J = {j}
  OBVIOUS
<1>3. J \in SUBSET Jobs /\ (\A k \in J : js[k] \in Record) /\ Persist(js, J) /\ j \in J
  BY <1>1, <1>2
<1>4. /\ row' \in [Jobs -> Row \cup {NoRecord}]
      /\ unsaved' \in [Jobs -> BOOLEAN]
      /\ \A i \in Jobs \ J : row'[i] = row[i] /\ unsaved'[i] = unsaved[i]
  BY <1>3, PersistIs
<1>5. /\ unsaved[j] => unsaved'[j]
      /\ row[j] # NoRecord => row'[j] # NoRecord
      /\ ~unsaved'[j] =>
           /\ row'[j] # NoRecord
           /\ row'[j].status = js[j].status
           /\ row'[j].cancelRequested = js[j].cancelRequested
           /\ row'[j].rows = (js[j].rows \/ (row[j] # NoRecord /\ row[j].rows))
  BY <1>3, PersistIs
<1>6. /\ ~unsaved'[j] =>
           /\ row'[j] # NoRecord
           /\ row'[j].status = r.status
           /\ row'[j].cancelRequested = r.cancelRequested
           /\ row'[j].rows = (r.rows \/ (row[j] # NoRecord /\ row[j].rows))
  BY <1>5
<1> QED BY <1>2, <1>4, <1>5, <1>6

\* A cleanup loses a job its record only when it has ended.
LEMMA DropIs ==
  ASSUME TypeOK, NEW E \in SUBSET Jobs, DropResources(E)
  PROVE  /\ handle' \in [Jobs -> BOOLEAN] /\ lost' \in [Jobs -> BOOLEAN]
         /\ \A i \in Jobs : lost'[i] = (lost[i] \/ (i \in E /\ Working(i)))
<1>1. \A i \in Jobs : (handle[i] /\ i \notin E) \in BOOLEAN /\ (lost[i] \/ (i \in E /\ Working(i))) \in BOOLEAN
  OBVIOUS
<1> QED BY <1>1 DEF DropResources

\* What a handler finds of a job is what the disk has, unless a save of the job failed.
LEMMA FoundIs ==
  ASSUME TypeOK, NEW j \in Jobs, JobInv(j), NEW E \in SUBSET MayDrop,
         Found(Without(E), j) # NoRecord
  PROVE  /\ Found(Without(E), j) \in Record
         /\ pc[j] # "none"
         /\ ~unsaved[j] =>
              /\ row[j] # NoRecord
              /\ Found(Without(E), j).status = row[j].status
              /\ Found(Without(E), j).cancelRequested = row[j].cancelRequested
              /\ Found(Without(E), j).rows = row[j].rows
<1>1. Without(E)[j] = IF j \in E THEN NoRecord ELSE jobs[j]
  BY DEF Without
<1>2. row[j] \in Row \cup {NoRecord} /\ jobs[j] \in Record \cup {NoRecord}
  BY DEF TypeOK
<1>3. CASE Found(Without(E), j) = Loaded(j)
  <2>1. row[j] # NoRecord /\ row[j] \in Row
    BY <1>2, <1>3 DEF Loaded
  <2>2. Loaded(j) = [status |-> row[j].status, cancelRequested |-> row[j].cancelRequested,
                     rows |-> row[j].rows]
    BY <1>3 DEF Loaded
  <2>3. row[j].status \in Status /\ row[j].cancelRequested \in BOOLEAN /\ row[j].rows \in BOOLEAN
    BY <2>1 DEF Row
  <2>4. Loaded(j) \in Record
    BY <2>2, <2>3 DEF Record
  <2>5. pc[j] # "none"
    BY <2>1 DEF JobInv, NewIsBlank
  <2> QED BY <1>3, <2>1, <2>2, <2>4, <2>5
<1>4. CASE Found(Without(E), j) # Loaded(j)
  <2>1. Found(Without(E), j) = jobs[j] /\ jobs[j] # NoRecord
    BY <1>1, <1>4 DEF Found
  <2> QED BY <1>2, <2>1 DEF JobInv, NewIsBlank, StoredAs
<1> QED BY <1>3, <1>4

\* What the disk has, if it is asked.
LEMMA LoadedIs ==
  ASSUME TypeOK, NEW j \in Jobs, Loaded(j) # NoRecord
  PROVE  /\ row[j] # NoRecord /\ row[j] \in Row
         /\ Loaded(j) \in Record
         /\ Loaded(j).status = row[j].status
         /\ Loaded(j).cancelRequested = row[j].cancelRequested
         /\ Loaded(j).rows = row[j].rows
<1>1. row[j] # NoRecord /\ row[j] \in Row
  BY DEF Loaded, TypeOK
<1>2. Loaded(j) = [status |-> row[j].status, cancelRequested |-> row[j].cancelRequested,
                   rows |-> row[j].rows]
  BY DEF Loaded
<1>3. row[j].status \in Status /\ row[j].cancelRequested \in BOOLEAN /\ row[j].rows \in BOOLEAN
  BY <1>1 DEF Row
<1>4. Loaded(j) \in Record
  BY <1>2, <1>3 DEF Record
<1> QED BY <1>1, <1>2, <1>4

-----------------------------------------------------------------------------
(* The other jobs of a step, and the job of a handler.                     *)

\* A job whose thread and row stay, and whose record stays or is dropped because it has ended.
LEMMA OtherKeeps ==
  ASSUME TypeOK, NEW i \in Jobs, JobInv(i), UNCHANGED <<up, crashes>>,
         pc'[i] = pc[i], stage'[i] = stage[i], starting'[i] => starting[i], clear'[i] = clear[i],
         row'[i] = row[i], unsaved'[i] = unsaved[i], told'[i] = told[i],
         \/ jobs'[i] = jobs[i] /\ lost'[i] = lost[i]
         \/ IsFinished(jobs, i) /\ jobs'[i] = NoRecord /\ lost'[i] = (lost[i] \/ Working(i))
  PROVE  JobInv(i)'
<1>1. Working(i)' = Working(i) /\ (lost[i] => lost'[i])
  BY DEF Working
<1>2. NewIsBlank(i)'
  BY DEF JobInv, NewIsBlank
<1>3. DownIsEmpty(i)'
  BY <1>1 DEF JobInv, DownIsEmpty
<1>4. StoredAs(i)'
  BY DEF JobInv, StoredAs
<1>5. ResultIsStored(i)'
  BY DEF JobInv, ResultIsStored, OnDisk
<1>6. RecordIsThere(i)'
  <2>1. Working(i)' /\ ~lost'[i] => jobs'[i] # NoRecord
    BY <1>1 DEF JobInv, RecordIsThere
  <2>2. ASSUME OnDisk(i)', row'[i].status \notin Finished, crashes' = 0 \/ ~lost'[i]
        PROVE  jobs'[i] # NoRecord /\ pc'[i] \in {"check", "work", "commit", "cancel", "fail"}
    <3>1. OnDisk(i) /\ row[i].status \notin Finished /\ (crashes = 0 \/ ~lost[i])
      BY <1>1, <2>2 DEF OnDisk
    <3>2. jobs[i] # NoRecord /\ pc[i] \in {"check", "work", "commit", "cancel", "fail"}
      BY <3>1 DEF JobInv, RecordIsThere
    <3>3. ~IsFinished(jobs, i)
      BY <3>1 DEF IsFinished, JobInv, StoredAs, OnDisk
    <3> QED BY <3>2, <3>3
  <2> QED BY <2>1, <2>2 DEF RecordIsThere
<1>7. EndsAsTold(i)'
  BY <1>1 DEF JobInv, EndsAsTold, OnDisk, Stopping
<1>8. PlacesAreRight(i)'
  BY DEF JobInv, PlacesAreRight
<1> QED BY <1>2, <1>3, <1>4, <1>5, <1>6, <1>7, <1>8 DEF JobInv

\* A handler that reads a job, cancels it or finds it without its thread: what it leaves of the record
\* is what it leaves on disk, or a save has failed.
LEMMA HandlerKeeps ==
  ASSUME TypeOK, NEW j \in Jobs, JobInv(j), up, UNCHANGED <<up, crashes>>,
         pc[j] # "none", pc'[j] = pc[j], stage'[j] = stage[j], clear'[j] = clear[j],
         lost[j] => lost'[j], unsaved[j] => unsaved'[j],
         jobs'[j] # NoRecord,
         row[j] # NoRecord => row'[j] # NoRecord,
         ~unsaved'[j] =>
           /\ row[j] # NoRecord /\ row'[j] # NoRecord
           /\ row'[j].status = jobs'[j].status
           /\ row'[j].cancelRequested = jobs'[j].cancelRequested
           /\ row'[j].rows = jobs'[j].rows
           /\ row'[j].rows = row[j].rows
           /\ row[j].cancelRequested => row'[j].cancelRequested
           /\ \/ row'[j].status = row[j].status
              \/ row[j].status = "pending" /\ row'[j].status = "cancelled" /\ row'[j].cancelRequested
              \/ row[j].status = "running" /\ row'[j].status = "failed" /\ ~Working(j),
         \/ told'[j] = told[j]
         \/ jobs'[j].status \in Finished /\ told'[j] = told[j] \cup {jobs'[j].status}
  PROVE  JobInv(j)'
<1>1. NewIsBlank(j)' /\ DownIsEmpty(j)' /\ StoredAs(j)'
  BY DEF NewIsBlank, DownIsEmpty, StoredAs
<1>2. PlacesAreRight(j)'
  BY DEF JobInv, PlacesAreRight
<1>3. CASE unsaved'[j]
  <2>1. ResultIsStored(j)' /\ RecordIsThere(j)' /\ EndsAsTold(j)'
    BY <1>3 DEF ResultIsStored, RecordIsThere, EndsAsTold, OnDisk
  <2> QED BY <1>1, <1>2, <2>1 DEF JobInv
<1>4. CASE ~unsaved'[j]
  <2>1. OnDisk(j)
    BY <1>4 DEF OnDisk
  <2>2. ResultIsStored(j)'
    BY <1>4, <2>1 DEF JobInv, ResultIsStored, OnDisk, Finished
  <2>3. RecordIsThere(j)'
    BY <1>4, <2>1 DEF JobInv, RecordIsThere, OnDisk, Finished
  <2>4. Stopping(j) => Stopping(j)'
    BY <1>4 DEF Stopping
  <2>5. ASSUME ~lost'[j]
        PROVE  /\ row'[j].status = "pending" =>
                    pc'[j] = "cancel" \/ (pc'[j] \in {"check", "work"} /\ stage'[j] = 0)
               /\ row'[j].status \in {"cancelled", "failed"} => Stopping(j)'
               /\ told'[j] \cap {"cancelled", "failed"} # {} => row'[j].status # "completed" /\ Stopping(j)'
    <3>1. /\ row[j].status = "pending" =>
               pc[j] = "cancel" \/ (pc[j] \in {"check", "work"} /\ stage[j] = 0)
          /\ row[j].status \in {"cancelled", "failed"} => Stopping(j)
          /\ told[j] \cap {"cancelled", "failed"} # {} => row[j].status # "completed" /\ Stopping(j)
      BY <2>1, <2>5 DEF JobInv, EndsAsTold
    <3>2. row'[j].status = "pending" =>
            pc'[j] = "cancel" \/ (pc'[j] \in {"check", "work"} /\ stage'[j] = 0)
      BY <1>4, <3>1
    <3>3. row'[j].status \in {"cancelled", "failed"} => Stopping(j)'
      <4>1. CASE row'[j].status = row[j].status
        BY <2>4, <3>1, <4>1
      <4>2. CASE row[j].status = "pending" /\ row'[j].status = "cancelled" /\ row'[j].cancelRequested
        BY <3>1, <4>2 DEF Stopping
      <4>3. CASE ~Working(j)
        BY <4>3 DEF Working, Stopping
      <4> QED BY <1>4, <4>1, <4>2, <4>3
    <3>4. told[j] \cap {"cancelled", "failed"} # {} => row'[j].status # "completed" /\ Stopping(j)'
      BY <1>4, <2>4, <3>1
    <3>5. told'[j] \cap {"cancelled", "failed"} # {} => row'[j].status # "completed" /\ Stopping(j)'
      BY <1>4, <3>3, <3>4
    <3> QED BY <3>2, <3>3, <3>5
  <2>6. EndsAsTold(j)'
    BY <2>5 DEF EndsAsTold
  <2> QED BY <1>1, <1>2, <2>2, <2>3, <2>6 DEF JobInv
<1> QED BY <1>3, <1>4

\* What a client is told.
LEMMA TellIs ==
  ASSUME TypeOK, NEW j \in Jobs, NEW r, Tell(j, r)
  PROVE  /\ told' \in [Jobs -> SUBSET Finished]
         /\ \A i \in Jobs \ {j} : told'[i] = told[i]
         /\ \/ told'[j] = told[j]
            \/ r.status \in Finished /\ told'[j] = told[j] \cup {r.status}
<1>1. told \in [Jobs -> SUBSET Finished]
  BY DEF TypeOK
<1>2. CASE r.status \in Finished
  <2>1. told' = [told EXCEPT ![j] = @ \cup {r.status}]
    BY <1>2 DEF Tell
  <2>2. told[j] \cup {r.status} \in SUBSET Finished
    BY <1>1, <1>2
  <2> QED BY <1>1, <1>2, <2>1, <2>2
<1>3. CASE r.status \notin Finished
  BY <1>1, <1>3 DEF Tell
<1> QED BY <1>2, <1>3

\* What a cleanup leaves of a job.
LEMMA DroppedIs ==
  ASSUME TypeOK, NEW E \in SUBSET MayDrop, DropResources(E), NEW i \in Jobs,
         jobs'[i] = Without(E)[i]
  PROVE  \/ jobs'[i] = jobs[i] /\ lost'[i] = lost[i]
         \/ IsFinished(jobs, i) /\ jobs'[i] = NoRecord /\ lost'[i] = (lost[i] \/ Working(i))
<1>1. E \in SUBSET Jobs /\ \A k \in E : IsFinished(jobs, k)
  BY DEF MayDrop
<1>2. lost'[i] = (lost[i] \/ (i \in E /\ Working(i)))
  BY <1>1, DropIs
<1>3. jobs'[i] = IF i \in E THEN NoRecord ELSE jobs[i]
  BY DEF Without
<1>4. lost[i] \in BOOLEAN /\ lost'[i] \in BOOLEAN
  BY <1>1, DropIs DEF TypeOK
<1> QED BY <1>1, <1>2, <1>3, <1>4

\* A step of one job, with a cleanup or without.
LEMMA StepOfJob ==
  ASSUME JobsInv, NEW j \in Jobs, TypeOK', JobInv(j)', UNCHANGED <<up, crashes>>,
         \A i \in Jobs \ {j} :
           /\ pc'[i] = pc[i] /\ stage'[i] = stage[i] /\ (starting'[i] => starting[i])
           /\ clear'[i] = clear[i] /\ row'[i] = row[i] /\ unsaved'[i] = unsaved[i]
           /\ told'[i] = told[i]
           /\ \/ jobs'[i] = jobs[i] /\ lost'[i] = lost[i]
              \/ IsFinished(jobs, i) /\ jobs'[i] = NoRecord /\ lost'[i] = (lost[i] \/ Working(i))
  PROVE  JobsInv'
<1>1. ASSUME NEW i \in Jobs \ {j} PROVE JobInv(i)'
  BY <1>1, OtherKeeps DEF JobsInv
<1> QED BY <1>1 DEF JobsInv

\* The records after a cleanup, with one that is put in.
LEMMA WithoutIs ==
  ASSUME TypeOK, NEW E \in SUBSET MayDrop, NEW j \in Jobs, NEW r \in Record
  PROVE  /\ Without(E) \in [Jobs -> Record \cup {NoRecord}]
         /\ [Without(E) EXCEPT ![j] = r] \in [Jobs -> Record \cup {NoRecord}]
         /\ [Without(E) EXCEPT ![j] = r][j] = r
         /\ \A i \in Jobs \ {j} : [Without(E) EXCEPT ![j] = r][i] = Without(E)[i]
BY DEF Without, TypeOK

-----------------------------------------------------------------------------
(* The handlers.                                                           *)

\* A job is started, pending on disk unless its save failed.
LEMMA StartKeeps ==
  ASSUME JobsInv, NEW j \in Jobs, StartOptimizationJob(j)
  PROVE  JobsInv'
<1>1. PICK fresh : fresh = [status |-> "pending", cancelRequested |-> FALSE, rows |-> FALSE]
  OBVIOUS
<1>2. fresh \in Record /\ fresh.status = "pending" /\ ~fresh.cancelRequested /\ ~fresh.rows
  BY <1>1 DEF Record, Status
<1>3. PICK E \in SUBSET MayDrop : jobs' = [Without(E) EXCEPT ![j] = fresh] /\ DropResources(E)
  BY <1>1 DEF StartOptimizationJob
<1>4. /\ up /\ pc[j] = "none" /\ Persist(jobs', {j})
      /\ pc' = [pc EXCEPT ![j] = "check"]
      /\ starting' = [starting EXCEPT ![j] = TRUE]
      /\ UNCHANGED <<up, crashes, stage, clear, told, cleared>>
  BY DEF StartOptimizationJob, clients
<1>5. TypeOK /\ JobInv(j)
  BY DEF JobsInv
<1>6. /\ jobs' \in [Jobs -> Record \cup {NoRecord}] /\ jobs'[j] = fresh
      /\ \A i \in Jobs \ {j} : jobs'[i] = Without(E)[i]
  BY <1>2, <1>3, <1>5, WithoutIs
<1>7. /\ row' \in [Jobs -> Row \cup {NoRecord}] /\ unsaved' \in [Jobs -> BOOLEAN]
      /\ \A i \in Jobs \ {j} : row'[i] = row[i] /\ unsaved'[i] = unsaved[i]
      /\ ~unsaved'[j] =>
           /\ row'[j] # NoRecord
           /\ row'[j].status = fresh.status
           /\ row'[j].cancelRequested = fresh.cancelRequested
           /\ row'[j].rows = (fresh.rows \/ (row[j] # NoRecord /\ row[j].rows))
  BY <1>2, <1>4, <1>5, <1>6, SaveIs
<1>8. E \in SUBSET Jobs
  BY DEF MayDrop
<1>9. TypeOK'
  <2>1. handle' \in [Jobs -> BOOLEAN] /\ lost' \in [Jobs -> BOOLEAN]
    BY <1>3, <1>5, <1>8, DropIs
  <2> QED BY <1>4, <1>5, <1>6, <1>7, <2>1 DEF TypeOK
<1>10. row[j] = NoRecord /\ told[j] = {} /\ stage[j] = 0 /\ clear[j] = "none"
  BY <1>4, <1>5 DEF JobInv, NewIsBlank
<1>11. pc'[j] = "check" /\ jobs'[j] # NoRecord
  BY <1>2, <1>4, <1>5, <1>6, OptimizationAssumption DEF TypeOK
<1>12. JobInv(j)'
  <2>1. NewIsBlank(j)' /\ DownIsEmpty(j)' /\ PlacesAreRight(j)'
    BY <1>4, <1>10, <1>11 DEF NewIsBlank, DownIsEmpty, PlacesAreRight
  <2>2. StoredAs(j)'
    <3>1. ~unsaved'[j] => row'[j] # NoRecord /\ row'[j].status = jobs'[j].status
      BY <1>6, <1>7
    <3>2. ~unsaved'[j] => row'[j].cancelRequested = jobs'[j].cancelRequested
      BY <1>6, <1>7
    <3>3. ~unsaved'[j] => row'[j].rows = FALSE
      BY <1>2, <1>7, <1>10
    <3>4. jobs'[j].rows = FALSE
      BY <1>1, <1>6
    <3>5. ~unsaved'[j] => row'[j].rows = jobs'[j].rows
      BY <3>3, <3>4
    <3> QED BY <3>1, <3>2, <3>5 DEF StoredAs
  <2>3. ResultIsStored(j)' /\ RecordIsThere(j)'
    BY <1>2, <1>4, <1>6, <1>7, <1>10, <1>11 DEF ResultIsStored, RecordIsThere, OnDisk
  <2>4. EndsAsTold(j)'
    BY <1>2, <1>4, <1>7, <1>10, <1>11 DEF EndsAsTold, OnDisk
  <2> QED BY <2>1, <2>2, <2>3, <2>4 DEF JobInv
<1>13. ASSUME NEW i \in Jobs \ {j}
       PROVE  \/ jobs'[i] = jobs[i] /\ lost'[i] = lost[i]
              \/ IsFinished(jobs, i) /\ jobs'[i] = NoRecord /\ lost'[i] = (lost[i] \/ Working(i))
  BY <1>3, <1>5, <1>6, DroppedIs
<1>14. \A i \in Jobs \ {j} : pc'[i] = pc[i] /\ (starting'[i] => starting[i])
  BY <1>4, <1>5 DEF TypeOK
<1> QED BY <1>4, <1>7, <1>9, <1>12, <1>13, <1>14, StepOfJob

\* A handler that finds nothing of the job: only the cleanup is left.
LEMMA CleanupKeeps ==
  ASSUME JobsInv, NEW E \in SUBSET MayDrop, DropResources(E), jobs' = Without(E),
         UNCHANGED <<up, crashes, row, unsaved, pc, stage, starting, clear, told, cleared>>
  PROVE  JobsInv'
<1>1. TypeOK
  BY DEF JobsInv
<1>2. E \in SUBSET Jobs
  BY DEF MayDrop
<1>3. TypeOK'
  <2>1. handle' \in [Jobs -> BOOLEAN] /\ lost' \in [Jobs -> BOOLEAN]
    BY <1>1, <1>2, DropIs
  <2>2. jobs' \in [Jobs -> Record \cup {NoRecord}]
    BY <1>1 DEF Without, TypeOK
  <2> QED BY <1>1, <2>1, <2>2 DEF TypeOK
<1>4. ASSUME NEW i \in Jobs PROVE JobInv(i)'
  <2>1. \/ jobs'[i] = jobs[i] /\ lost'[i] = lost[i]
        \/ IsFinished(jobs, i) /\ jobs'[i] = NoRecord /\ lost'[i] = (lost[i] \/ Working(i))
    BY <1>1, DroppedIs
  <2> QED BY <1>1, <2>1, OtherKeeps DEF JobsInv
<1> QED BY <1>3, <1>4 DEF JobsInv

\* A handler that leaves a record of its job: see HandlerKeeps.
LEMMA HandlerStep ==
  ASSUME JobsInv, NEW j \in Jobs, NEW E \in SUBSET MayDrop, DropResources(E), NEW r \in Record,
         up, pc[j] # "none", jobs' = [Without(E) EXCEPT ![j] = r], Tell(j, r),
         UNCHANGED <<up, crashes, pc, stage, starting, clear, cleared>>,
         row' \in [Jobs -> Row \cup {NoRecord}], unsaved' \in [Jobs -> BOOLEAN],
         \A i \in Jobs \ {j} : row'[i] = row[i] /\ unsaved'[i] = unsaved[i],
         unsaved[j] => unsaved'[j],
         row[j] # NoRecord => row'[j] # NoRecord,
         ~unsaved'[j] =>
           /\ row[j] # NoRecord /\ row'[j] # NoRecord
           /\ row'[j].status = r.status
           /\ row'[j].cancelRequested = r.cancelRequested
           /\ row'[j].rows = r.rows
           /\ row'[j].rows = row[j].rows
           /\ row[j].cancelRequested => row'[j].cancelRequested
           /\ \/ row'[j].status = row[j].status
              \/ row[j].status = "pending" /\ row'[j].status = "cancelled" /\ row'[j].cancelRequested
              \/ row[j].status = "running" /\ row'[j].status = "failed" /\ ~Working(j)
  PROVE  JobsInv'
<1>1. TypeOK /\ JobInv(j)
  BY DEF JobsInv
<1>2. E \in SUBSET Jobs
  BY DEF MayDrop
<1>3. /\ jobs' \in [Jobs -> Record \cup {NoRecord}] /\ jobs'[j] = r
      /\ \A i \in Jobs \ {j} : jobs'[i] = Without(E)[i]
  BY <1>1, WithoutIs
<1>4. /\ handle' \in [Jobs -> BOOLEAN] /\ lost' \in [Jobs -> BOOLEAN]
      /\ \A i \in Jobs : lost'[i] = (lost[i] \/ (i \in E /\ Working(i)))
  BY <1>1, <1>2, DropIs
<1>5. /\ told' \in [Jobs -> SUBSET Finished]
      /\ \A i \in Jobs \ {j} : told'[i] = told[i]
      /\ \/ told'[j] = told[j]
         \/ r.status \in Finished /\ told'[j] = told[j] \cup {r.status}
  BY <1>1, TellIs
<1>6. TypeOK'
  BY <1>1, <1>3, <1>4, <1>5 DEF TypeOK
<1>7. jobs'[j] # NoRecord
  BY <1>3, OptimizationAssumption
<1>8. lost[j] => lost'[j]
  BY <1>4
<1>9. JobInv(j)'
  BY <1>1, <1>3, <1>5, <1>7, <1>8, HandlerKeeps
<1>10. ASSUME NEW i \in Jobs \ {j}
       PROVE  \/ jobs'[i] = jobs[i] /\ lost'[i] = lost[i]
              \/ IsFinished(jobs, i) /\ jobs'[i] = NoRecord /\ lost'[i] = (lost[i] \/ Working(i))
  BY <1>1, <1>3, DroppedIs
<1> QED BY <1>5, <1>6, <1>9, <1>10, StepOfJob

\* A poll: the record is that of memory or of the store, with the rows of the store, and a running one
\* whose thread is known to be dead has failed.
LEMMA StatusKeeps ==
  ASSUME JobsInv, NEW j \in Jobs, GetOptimizationStatus(j)
  PROVE  JobsInv'
<1>1. TypeOK /\ JobInv(j)
  BY DEF JobsInv
<1>2. up /\ UNCHANGED <<up, crashes, pc, stage, starting, clear, cleared>>
  BY DEF GetOptimizationStatus
<1>3. PICK E \in SUBSET MayDrop :
        /\ DropResources(E)
        /\ IF Found(Without(E), j) = NoRecord
           THEN jobs' = Without(E) /\ UNCHANGED <<store, told>>
           ELSE LET r == WithStoredRows(j, Refreshed(j, Found(Without(E), j)))
                IN  IF IsOrphan(j, r)
                    THEN /\ jobs' = [Without(E) EXCEPT ![j] = [r EXCEPT !.status = "failed"]]
                         /\ Persist(jobs', {j})
                         /\ Tell(j, jobs'[j])
                    ELSE /\ jobs' = [Without(E) EXCEPT ![j] = r]
                         /\ Tell(j, r)
                         /\ UNCHANGED store
  BY DEF GetOptimizationStatus
<1>4. CASE Found(Without(E), j) = NoRecord
  BY <1>2, <1>3, <1>4, CleanupKeeps DEF store
<1>5. CASE Found(Without(E), j) # NoRecord
  <2>1. PICK found : found = Found(Without(E), j)
    OBVIOUS
  <2>2. PICK current : current = Refreshed(j, found)
    OBVIOUS
  <2>3. PICK r : r = WithStoredRows(j, current)
    OBVIOUS
  <2>4. /\ found \in Record /\ pc[j] # "none"
        /\ ~unsaved[j] =>
             /\ row[j] # NoRecord
             /\ found.status = row[j].status
             /\ found.cancelRequested = row[j].cancelRequested
             /\ found.rows = row[j].rows
    BY <1>1, <1>5, <2>1, FoundIs
  <2>5. /\ current \in Record
        /\ ~unsaved[j] =>
             /\ current.status = row[j].status
             /\ current.cancelRequested = row[j].cancelRequested
             /\ current.rows = row[j].rows
    <3>1. CASE current = found
      BY <2>4, <3>1
    <3>2. CASE current = Loaded(j) /\ Loaded(j) # NoRecord
      BY <1>1, <3>2, LoadedIs
    <3> QED BY <2>2, <3>1, <3>2 DEF Refreshed
  <2>6. /\ r \in Record
        /\ ~unsaved[j] =>
             /\ r.status = row[j].status
             /\ r.cancelRequested = row[j].cancelRequested
             /\ r.rows = row[j].rows
    <3>1. CASE r = current
      BY <2>5, <3>1
    <3>2. CASE Loaded(j) # NoRecord /\ r = [current EXCEPT !.rows = @ \/ Loaded(j).rows]
      <4>1. Loaded(j) \in Record /\ Loaded(j).rows = row[j].rows
        BY <1>1, <3>2, LoadedIs
      <4>2. PICK rows \in BOOLEAN : rows = (current.rows \/ Loaded(j).rows)
        OBVIOUS
      <4>3. r = [current EXCEPT !.rows = rows]
        BY <3>2, <4>2
      <4>4. r \in Record /\ r.status = current.status /\ r.cancelRequested = current.cancelRequested
            /\ r.rows = rows
        BY <2>5, <4>3 DEF Record
      <4>5. ~unsaved[j] => rows = row[j].rows
        BY <2>5, <4>1, <4>2 DEF Record
      <4> QED BY <2>5, <4>4, <4>5
    <3> QED BY <2>3, <3>1, <3>2 DEF WithStoredRows
  <2>7. CASE IsOrphan(j, r)
    <3>1. PICK failed : failed = [r EXCEPT !.status = "failed"]
      OBVIOUS
    <3>2. failed \in Record /\ failed.status = "failed" /\ failed.cancelRequested = r.cancelRequested
          /\ failed.rows = r.rows
      BY <2>6, <3>1 DEF Record, Status, Finished
    <3>3. jobs' = [Without(E) EXCEPT ![j] = failed] /\ Persist(jobs', {j}) /\ Tell(j, jobs'[j])
      BY <1>3, <1>5, <2>1, <2>2, <2>3, <2>7, <3>1
    <3>4. jobs'[j] = failed
      BY <1>1, <3>2, <3>3, WithoutIs
    <3>5. /\ row' \in [Jobs -> Row \cup {NoRecord}] /\ unsaved' \in [Jobs -> BOOLEAN]
          /\ \A i \in Jobs \ {j} : row'[i] = row[i] /\ unsaved'[i] = unsaved[i]
          /\ unsaved[j] => unsaved'[j]
          /\ row[j] # NoRecord => row'[j] # NoRecord
          /\ ~unsaved'[j] =>
               /\ row'[j] # NoRecord
               /\ row'[j].status = failed.status
               /\ row'[j].cancelRequested = failed.cancelRequested
               /\ row'[j].rows = (failed.rows \/ (row[j] # NoRecord /\ row[j].rows))
      BY <1>1, <3>2, <3>3, <3>4, SaveIs
    <3>6. r.status = "running" /\ ~Working(j)
      BY <2>7 DEF IsOrphan
    <3>7. failed.rows \in BOOLEAN
      BY <3>2 DEF Record
    <3>8. ~unsaved'[j] =>
            /\ row[j] # NoRecord /\ row'[j] # NoRecord
            /\ row'[j].status = failed.status
            /\ row'[j].cancelRequested = failed.cancelRequested
            /\ row'[j].rows = failed.rows
            /\ row'[j].rows = row[j].rows
            /\ row[j].cancelRequested => row'[j].cancelRequested
            /\ row[j].status = "running" /\ row'[j].status = "failed" /\ ~Working(j)
      BY <2>4, <2>6, <3>2, <3>5, <3>6, <3>7
    <3> QED BY <1>2, <1>3, <2>4, <3>2, <3>3, <3>4, <3>5, <3>8, HandlerStep
  <2>8. CASE ~IsOrphan(j, r)
    <3>1. jobs' = [Without(E) EXCEPT ![j] = r] /\ Tell(j, r) /\ UNCHANGED <<row, unsaved>>
      BY <1>3, <1>5, <2>1, <2>2, <2>3, <2>8 DEF store
    <3>2. row \in [Jobs -> Row \cup {NoRecord}] /\ unsaved \in [Jobs -> BOOLEAN]
      BY <1>1 DEF TypeOK
    <3> QED BY <1>2, <1>3, <2>4, <2>6, <3>1, <3>2, HandlerStep
  <2> QED BY <2>7, <2>8
<1> QED BY <1>4, <1>5

\* What a cancellation makes of an unfinished record.
LEMMA CancelledIs ==
  ASSUME NEW r \in Record, r.status \notin Finished
  PROVE  /\ Cancelled(r) \in Record
         /\ Cancelled(r).cancelRequested = TRUE
         /\ Cancelled(r).rows = r.rows
         /\ \/ r.status = "pending" /\ Cancelled(r).status = "cancelled"
            \/ r.status = "running" /\ Cancelled(r).status = "running"
<1>1. PICK s \in Status : s = IF r.status = "pending" THEN "cancelled" ELSE r.status
  BY DEF Record, Status, Finished
<1>2. Cancelled(r) = [r EXCEPT !.cancelRequested = TRUE, !.status = s]
  BY <1>1 DEF Cancelled
<1>3. /\ Cancelled(r) \in Record /\ Cancelled(r).cancelRequested = TRUE
      /\ Cancelled(r).rows = r.rows /\ Cancelled(r).status = s
  BY <1>2 DEF Record
<1>4. r.status = "pending" \/ r.status = "running"
  BY DEF Record, Status
<1> QED BY <1>1, <1>3, <1>4

\* The flag alone, in the row.
LEMMA FlagIs ==
  ASSUME TypeOK, NEW j \in Jobs, FlagRow(j)
  PROVE  /\ row' \in [Jobs -> Row \cup {NoRecord}]
         /\ \A i \in Jobs \ {j} : row'[i] = row[i]
         /\ row[j] # NoRecord =>
              /\ row'[j] # NoRecord
              /\ row'[j].status = row[j].status
              /\ row'[j].cancelRequested = TRUE
              /\ row'[j].rows = row[j].rows
<1>1. row \in [Jobs -> Row \cup {NoRecord}]
  BY DEF TypeOK
<1>2. CASE row[j] = NoRecord
  BY <1>1, <1>2 DEF FlagRow
<1>3. CASE row[j] # NoRecord
  <2>1. PICK flagged : flagged = [row[j] EXCEPT !.cancelRequested = TRUE]
    OBVIOUS
  <2>2. row[j] \in Row
    BY <1>1, <1>3
  <2>3. /\ flagged \in Row /\ flagged.status = row[j].status /\ flagged.cancelRequested = TRUE
        /\ flagged.rows = row[j].rows
    BY <2>1, <2>2 DEF Row
  <2>4. row' = [row EXCEPT ![j] = flagged]
    BY <1>3, <2>1 DEF FlagRow
  <2>5. row'[j] = flagged /\ \A i \in Jobs \ {j} : row'[i] = row[i]
    BY <1>1, <2>4
  <2>6. row' \in [Jobs -> Row \cup {NoRecord}]
    BY <1>1, <2>3, <2>4
  <2>7. flagged # NoRecord
    BY <2>3, OptimizationAssumption
  <2> QED BY <2>3, <2>5, <2>6, <2>7
<1> QED BY <1>2, <1>3

\* A cancellation: the whole record is saved, or only the flag, and then the end of a pending job is not.
LEMMA CancelKeeps ==
  ASSUME JobsInv, NEW j \in Jobs, CancelOptimizationJob(j)
  PROVE  JobsInv'
<1>1. TypeOK /\ JobInv(j)
  BY DEF JobsInv
<1>2. up /\ UNCHANGED <<up, crashes, pc, stage, starting, clear, cleared>>
  BY DEF CancelOptimizationJob
<1>3. PICK E \in SUBSET MayDrop :
        /\ DropResources(E)
        /\ LET r == Found(Without(E), j) IN
           \/ r = NoRecord /\ jobs' = Without(E) /\ UNCHANGED <<store, told>>
           \/ /\ r # NoRecord /\ r.status \in Finished
              /\ jobs' = [Without(E) EXCEPT ![j] = r]
              /\ Tell(j, r)
              /\ UNCHANGED store
           \/ /\ r # NoRecord /\ r.status \notin Finished
              /\ jobs' = [Without(E) EXCEPT ![j] = Cancelled(r)]
              /\ Tell(j, jobs'[j])
              /\ \/ Persist(jobs', {j})
                 \/ FlagRow(j) /\ unsaved' = [unsaved EXCEPT ![j] = @ \/ r.status = "pending"]
  BY DEF CancelOptimizationJob
<1>4. row \in [Jobs -> Row \cup {NoRecord}] /\ unsaved \in [Jobs -> BOOLEAN]
  BY <1>1 DEF TypeOK
<1>5. PICK r : r = Found(Without(E), j)
  OBVIOUS
<1>6. CASE r = NoRecord
  BY <1>2, <1>3, <1>5, <1>6, CleanupKeeps DEF store
<1>7. CASE r # NoRecord
  <2>1. /\ r \in Record /\ pc[j] # "none"
        /\ ~unsaved[j] =>
             /\ row[j] # NoRecord
             /\ r.status = row[j].status
             /\ r.cancelRequested = row[j].cancelRequested
             /\ r.rows = row[j].rows
    BY <1>1, <1>5, <1>7, FoundIs
  <2>2. CASE r.status \in Finished
    <3>1. jobs' = [Without(E) EXCEPT ![j] = r] /\ Tell(j, r) /\ UNCHANGED <<row, unsaved>>
      BY <1>3, <1>5, <1>7, <2>2 DEF store
    <3> QED BY <1>2, <1>3, <1>4, <2>1, <3>1, HandlerStep
  <2>3. CASE r.status \notin Finished
    <3>1. PICK c : c = Cancelled(r)
      OBVIOUS
    <3>2. /\ c \in Record /\ c.cancelRequested = TRUE /\ c.rows = r.rows
          /\ \/ r.status = "pending" /\ c.status = "cancelled"
             \/ r.status = "running" /\ c.status = "running"
      BY <2>1, <2>3, <3>1, CancelledIs
    <3>3. /\ jobs' = [Without(E) EXCEPT ![j] = c] /\ Tell(j, jobs'[j])
          /\ \/ Persist(jobs', {j})
             \/ FlagRow(j) /\ unsaved' = [unsaved EXCEPT ![j] = @ \/ r.status = "pending"]
      BY <1>3, <1>5, <1>7, <2>3, <3>1
    <3>4. jobs'[j] = c
      BY <1>1, <3>2, <3>3, WithoutIs
    <3>5. CASE Persist(jobs', {j})
      <4>1. /\ row' \in [Jobs -> Row \cup {NoRecord}] /\ unsaved' \in [Jobs -> BOOLEAN]
            /\ \A i \in Jobs \ {j} : row'[i] = row[i] /\ unsaved'[i] = unsaved[i]
            /\ unsaved[j] => unsaved'[j]
            /\ row[j] # NoRecord => row'[j] # NoRecord
            /\ ~unsaved'[j] =>
                 /\ row'[j] # NoRecord
                 /\ row'[j].status = c.status
                 /\ row'[j].cancelRequested = c.cancelRequested
                 /\ row'[j].rows = (c.rows \/ (row[j] # NoRecord /\ row[j].rows))
        BY <1>1, <3>2, <3>4, <3>5, SaveIs
      <4>2. c.rows \in BOOLEAN
        BY <3>2 DEF Record
      <4>3. ASSUME ~unsaved'[j]
            PROVE  /\ row[j] # NoRecord /\ row'[j] # NoRecord
                   /\ row'[j].status = c.status
                   /\ row'[j].cancelRequested = c.cancelRequested
                   /\ row'[j].cancelRequested
                   /\ \/ row'[j].status = row[j].status
                      \/ row[j].status = "pending" /\ row'[j].status = "cancelled"
        BY <2>1, <3>2, <4>1, <4>3
      <4>4. ASSUME ~unsaved'[j]
            PROVE  row'[j].rows = c.rows /\ row'[j].rows = row[j].rows
        <5>1. c.rows = row[j].rows /\ row[j] # NoRecord
          BY <2>1, <3>2, <4>1, <4>4
        <5>2. row'[j].rows = (c.rows \/ c.rows)
          BY <4>1, <4>4, <5>1
        <5>3. row'[j].rows = c.rows
          BY <4>2, <5>2
        <5> QED BY <5>1, <5>3
      <4> QED BY <1>2, <1>3, <2>1, <3>2, <3>3, <3>4, <4>1, <4>3, <4>4, HandlerStep
    <3>6. CASE FlagRow(j) /\ unsaved' = [unsaved EXCEPT ![j] = @ \/ r.status = "pending"]
      <4>1. /\ row' \in [Jobs -> Row \cup {NoRecord}]
            /\ \A i \in Jobs \ {j} : row'[i] = row[i]
            /\ row[j] # NoRecord =>
                 /\ row'[j] # NoRecord
                 /\ row'[j].status = row[j].status
                 /\ row'[j].cancelRequested = TRUE
                 /\ row'[j].rows = row[j].rows
        BY <1>1, <3>6, FlagIs
      <4>2. PICK u \in BOOLEAN : u = (unsaved[j] \/ r.status = "pending")
        OBVIOUS
      <4>3. unsaved' = [unsaved EXCEPT ![j] = u]
        BY <3>6, <4>2
      <4>4. /\ unsaved' \in [Jobs -> BOOLEAN] /\ unsaved'[j] = u
            /\ \A i \in Jobs \ {j} : unsaved'[i] = unsaved[i]
        BY <1>4, <4>3
      <4>5. unsaved[j] => unsaved'[j]
        BY <4>2, <4>4
      <4>6. ASSUME ~unsaved'[j]
            PROVE  /\ row[j] # NoRecord /\ row'[j] # NoRecord
                   /\ row'[j].status = c.status
                   /\ row'[j].cancelRequested = c.cancelRequested
                   /\ row'[j].rows = c.rows
                   /\ row'[j].rows = row[j].rows
                   /\ row'[j].cancelRequested
                   /\ row'[j].status = row[j].status
        <5>1. ~unsaved[j] /\ r.status = "running" /\ c.status = "running"
          BY <3>2, <4>2, <4>4, <4>6
        <5>2. row[j] # NoRecord /\ row[j].status = "running" /\ row[j].rows = c.rows
          BY <2>1, <3>2, <5>1
        <5> QED BY <3>2, <4>1, <5>1, <5>2
      <4> QED BY <1>2, <1>3, <2>1, <3>2, <3>3, <3>4, <4>1, <4>4, <4>5, <4>6, HandlerStep
    <3> QED BY <3>3, <3>5, <3>6
  <2> QED BY <2>2, <2>3
<1> QED BY <1>6, <1>7

\* The starter's second critical section touches only the handle.
LEMMA RegisterKeeps ==
  ASSUME JobsInv, NEW j \in Jobs, Register(j)
  PROVE  JobsInv'
<1>1. TypeOK
  BY DEF JobsInv
<1>2. /\ starting' = [starting EXCEPT ![j] = FALSE] /\ handle' = [handle EXCEPT ![j] = TRUE]
      /\ UNCHANGED <<up, crashes, jobs, row, unsaved, pc, stage, clear, told, cleared, lost>>
  BY DEF Register, store, clients
<1>3. TypeOK'
  BY <1>1, <1>2 DEF TypeOK
<1>4. ASSUME NEW i \in Jobs PROVE JobInv(i)'
  <2>1. starting'[i] => starting[i]
    BY <1>1, <1>2 DEF TypeOK
  <2> QED BY <1>1, <1>2, <2>1, OtherKeeps DEF JobsInv
<1> QED BY <1>3, <1>4 DEF JobsInv

\* The read that decides what to answer.
LEMMA ClearReadKeeps ==
  ASSUME JobsInv, NEW j \in Jobs, ClearRead(j)
  PROVE  JobsInv'
<1>1. TypeOK /\ JobInv(j)
  BY DEF JobsInv
<1>2. /\ up /\ row[j] # NoRecord /\ clear' = [clear EXCEPT ![j] = "update"]
      /\ UNCHANGED <<up, crashes, jobs, row, unsaved, pc, stage, starting, handle, told, cleared, lost>>
  BY DEF ClearRead, store, threads
<1>3. TypeOK'
  BY <1>1, <1>2 DEF TypeOK
<1>4. /\ clear'[j] = "update" /\ \A i \in Jobs \ {j} : clear'[i] = clear[i]
  BY <1>1, <1>2 DEF TypeOK
<1>5. JobInv(j)'
  <2>1. NewIsBlank(j)' /\ DownIsEmpty(j)' /\ PlacesAreRight(j)'
    BY <1>1, <1>2, <1>4 DEF JobInv, NewIsBlank, DownIsEmpty, PlacesAreRight
  <2>2. StoredAs(j)' /\ ResultIsStored(j)'
    BY <1>1, <1>2 DEF JobInv, StoredAs, ResultIsStored, OnDisk
  <2>3. RecordIsThere(j)'
    BY <1>1, <1>2 DEF JobInv, RecordIsThere, OnDisk, Working
  <2>4. EndsAsTold(j)'
    BY <1>1, <1>2 DEF JobInv, EndsAsTold, OnDisk, Stopping
  <2> QED BY <2>1, <2>2, <2>3, <2>4 DEF JobInv
<1> QED BY <1>2, <1>3, <1>4, <1>5, StepOfJob

\* A row whose mark of deletion changes, and nothing else of it.
LEMMA MarkKeeps ==
  ASSUME JobsInv, NEW j \in Jobs, NEW d \in BOOLEAN, row[j] # NoRecord,
         row' = [row EXCEPT ![j].deleted = d],
         clear' \in [Jobs -> {"none", "update", "drop"}],
         \A i \in Jobs \ {j} : clear'[i] = clear[i],
         up \/ clear'[j] = "none",
         cleared' \in [Jobs -> BOOLEAN],
         UNCHANGED <<up, crashes, jobs, unsaved, pc, stage, starting, handle, told, lost>>
  PROVE  JobsInv'
<1>1. TypeOK /\ JobInv(j)
  BY DEF JobsInv
<1>2. row \in [Jobs -> Row \cup {NoRecord}] /\ row[j] \in Row
  BY <1>1 DEF TypeOK
<1>3. PICK marked : marked = [row[j] EXCEPT !.deleted = d]
  OBVIOUS
<1>4. /\ marked \in Row /\ marked.status = row[j].status
      /\ marked.cancelRequested = row[j].cancelRequested /\ marked.rows = row[j].rows
  BY <1>2, <1>3 DEF Row
<1>5. row' = [row EXCEPT ![j] = marked]
  BY <1>3
<1>6. /\ row' \in [Jobs -> Row \cup {NoRecord}] /\ row'[j] = marked
      /\ \A i \in Jobs \ {j} : row'[i] = row[i]
  BY <1>2, <1>4, <1>5
<1>7. row'[j] # NoRecord
  BY <1>4, <1>6, OptimizationAssumption
<1>8. TypeOK'
  BY <1>1, <1>6 DEF TypeOK
<1>9. JobInv(j)'
  <2>1. pc[j] # "none"
    BY <1>1 DEF JobInv, NewIsBlank
  <2>2. NewIsBlank(j)' /\ PlacesAreRight(j)'
    BY <1>1, <1>7, <2>1 DEF JobInv, NewIsBlank, PlacesAreRight
  <2>3. DownIsEmpty(j)'
    BY <1>1 DEF JobInv, DownIsEmpty, Working
  <2>4. StoredAs(j)' /\ ResultIsStored(j)'
    BY <1>1, <1>4, <1>6, <1>7 DEF JobInv, StoredAs, ResultIsStored, OnDisk
  <2>5. RecordIsThere(j)'
    BY <1>1, <1>4, <1>6, <1>7 DEF JobInv, RecordIsThere, OnDisk, Working
  <2>6. EndsAsTold(j)'
    BY <1>1, <1>4, <1>6, <1>7 DEF JobInv, EndsAsTold, OnDisk, Stopping
  <2> QED BY <2>2, <2>3, <2>4, <2>5, <2>6 DEF JobInv
<1> QED BY <1>6, <1>8, <1>9, StepOfJob

\* The mark is set only on a row that is finished by now, too.
LEMMA ClearUpdateKeeps ==
  ASSUME JobsInv, NEW j \in Jobs, ClearUpdate(j)
  PROVE  JobsInv'
<1>1. TypeOK /\ JobInv(j)
  BY DEF JobsInv
<1>2. /\ clear[j] = "update" /\ clear' = [clear EXCEPT ![j] = "drop"]
      /\ row' = IF row[j].status \in Finished THEN [row EXCEPT ![j].deleted = TRUE] ELSE row
      /\ UNCHANGED <<up, crashes, jobs, unsaved, pc, stage, starting, handle, told, cleared, lost>>
  BY DEF ClearUpdate, threads
<1>3. /\ clear' \in [Jobs -> {"none", "update", "drop"}] /\ clear'[j] = "drop"
      /\ \A i \in Jobs \ {j} : clear'[i] = clear[i]
  BY <1>1, <1>2 DEF TypeOK
<1>4. row[j] # NoRecord /\ up /\ pc[j] # "none"
  BY <1>1, <1>2 DEF JobInv, PlacesAreRight, DownIsEmpty, NewIsBlank, TypeOK
<1>5. CASE row[j].status \in Finished
  <2>1. cleared' \in [Jobs -> BOOLEAN]
    BY <1>1, <1>2 DEF TypeOK
  <2> QED BY <1>2, <1>3, <1>4, <1>5, <2>1, MarkKeeps
<1>6. CASE row[j].status \notin Finished
  <2>1. UNCHANGED row
    BY <1>2, <1>6
  <2>2. TypeOK'
    BY <1>1, <1>2, <1>3, <2>1 DEF TypeOK
  <2>3. JobInv(j)'
    <3>1. NewIsBlank(j)' /\ DownIsEmpty(j)' /\ PlacesAreRight(j)'
      BY <1>1, <1>2, <1>3, <1>4, <2>1 DEF JobInv, NewIsBlank, DownIsEmpty, PlacesAreRight
    <3>2. StoredAs(j)' /\ ResultIsStored(j)'
      BY <1>1, <1>2, <2>1 DEF JobInv, StoredAs, ResultIsStored, OnDisk
    <3>3. RecordIsThere(j)' /\ EndsAsTold(j)'
      BY <1>1, <1>2, <2>1 DEF JobInv, RecordIsThere, EndsAsTold, Stopping, OnDisk, Working
    <3> QED BY <3>1, <3>2, <3>3 DEF JobInv
  <2> QED BY <1>2, <1>3, <2>1, <2>2, <2>3, StepOfJob
<1> QED BY <1>5, <1>6

\* The record is forgotten if it is finished: a running job keeps it.
LEMMA ClearDropKeeps ==
  ASSUME JobsInv, NEW j \in Jobs, ClearDrop(j)
  PROVE  JobsInv'
<1>1. TypeOK /\ JobInv(j)
  BY DEF JobsInv
<1>2. /\ clear[j] = "drop" /\ clear' = [clear EXCEPT ![j] = "none"]
      /\ cleared' = [cleared EXCEPT ![j] = TRUE]
      /\ IF IsFinished(jobs, j)
         THEN jobs' = Without({j}) /\ DropResources({j})
         ELSE UNCHANGED <<jobs, handle, lost>>
      /\ UNCHANGED <<up, crashes, row, unsaved, pc, stage, starting, told>>
  BY DEF ClearDrop, store
<1>3. /\ clear' \in [Jobs -> {"none", "update", "drop"}] /\ clear'[j] = "none"
      /\ \A i \in Jobs \ {j} : clear'[i] = clear[i]
      /\ cleared' \in [Jobs -> BOOLEAN]
  BY <1>1, <1>2 DEF TypeOK
<1>4. /\ jobs' \in [Jobs -> Record \cup {NoRecord}]
      /\ handle' \in [Jobs -> BOOLEAN] /\ lost' \in [Jobs -> BOOLEAN]
      /\ \A i \in Jobs :
           \/ jobs'[i] = jobs[i] /\ lost'[i] = lost[i]
           \/ IsFinished(jobs, i) /\ jobs'[i] = NoRecord /\ lost'[i] = (lost[i] \/ Working(i))
  <2>1. CASE IsFinished(jobs, j)
    <3>1. PICK E \in SUBSET MayDrop : E = {j}
      BY <2>1 DEF MayDrop
    <3>2. E \in SUBSET Jobs /\ jobs' = Without(E) /\ DropResources(E)
      BY <1>2, <2>1, <3>1 DEF MayDrop
    <3>3. handle' \in [Jobs -> BOOLEAN] /\ lost' \in [Jobs -> BOOLEAN]
      BY <1>1, <3>2, DropIs
    <3>4. jobs' \in [Jobs -> Record \cup {NoRecord}]
      BY <1>1, <3>2 DEF Without, TypeOK
    <3> QED BY <1>1, <3>2, <3>3, <3>4, DroppedIs
  <2>2. CASE ~IsFinished(jobs, j)
    BY <1>1, <1>2, <2>2 DEF TypeOK
  <2> QED BY <2>1, <2>2
<1>5. TypeOK'
  BY <1>1, <1>2, <1>3, <1>4 DEF TypeOK
<1>6. JobInv(j)'
  <2>1. up
    BY <1>1, <1>2 DEF JobInv, DownIsEmpty, TypeOK
  <2>2. NewIsBlank(j)' /\ DownIsEmpty(j)' /\ PlacesAreRight(j)'
    BY <1>1, <1>2, <1>3, <1>4, <2>1 DEF JobInv, NewIsBlank, DownIsEmpty, PlacesAreRight
  <2>3. StoredAs(j)' /\ ResultIsStored(j)'
    BY <1>1, <1>2, <1>4 DEF JobInv, StoredAs, ResultIsStored, OnDisk
  <2>4. lost[j] => lost'[j]
    BY <1>4
  <2>5. RecordIsThere(j)'
    <3>1. ASSUME Working(j)', ~lost'[j] PROVE jobs'[j] # NoRecord
      BY <1>1, <1>2, <1>4, <2>4, <3>1 DEF JobInv, RecordIsThere, Working
    <3>2. ASSUME OnDisk(j)', row'[j].status \notin Finished, crashes' = 0 \/ ~lost'[j]
          PROVE  jobs'[j] # NoRecord /\ pc'[j] \in {"check", "work", "commit", "cancel", "fail"}
      <4>1. OnDisk(j) /\ row[j].status \notin Finished /\ (crashes = 0 \/ ~lost[j])
        BY <1>2, <2>4, <3>2 DEF OnDisk
      <4>2. jobs[j] # NoRecord /\ pc[j] \in {"check", "work", "commit", "cancel", "fail"}
        BY <1>1, <4>1 DEF JobInv, RecordIsThere
      <4>3. ~IsFinished(jobs, j)
        BY <1>1, <4>1 DEF IsFinished, JobInv, StoredAs, OnDisk
      <4> QED BY <1>2, <4>2, <4>3
    <3> QED BY <3>1, <3>2 DEF RecordIsThere
  <2>6. EndsAsTold(j)'
    BY <1>1, <1>2, <2>4 DEF JobInv, EndsAsTold, Stopping, OnDisk
  <2> QED BY <2>2, <2>3, <2>5, <2>6 DEF JobInv
<1> QED BY <1>2, <1>3, <1>4, <1>5, <1>6, StepOfJob

\* A job comes back to the list.
LEMMA RestoreKeeps ==
  ASSUME JobsInv, NEW j \in Jobs, Restore(j)
  PROVE  JobsInv'
<1>1. TypeOK /\ JobInv(j)
  BY DEF JobsInv
<1>2. /\ up /\ row[j] # NoRecord /\ row' = [row EXCEPT ![j].deleted = FALSE]
      /\ cleared' = [cleared EXCEPT ![j] = FALSE]
      /\ UNCHANGED <<up, crashes, jobs, pc, stage, starting, handle, clear, told, lost, unsaved>>
  BY DEF Restore, threads
<1>3. cleared' \in [Jobs -> BOOLEAN]
  BY <1>1, <1>2 DEF TypeOK
<1>4. clear' \in [Jobs -> {"none", "update", "drop"}] /\ \A i \in Jobs \ {j} : clear'[i] = clear[i]
  BY <1>1, <1>2 DEF TypeOK
<1> QED BY <1>2, <1>3, <1>4, MarkKeeps

-----------------------------------------------------------------------------
(* The thread of a job.                                                    *)

\* A step of the thread of one job.
LEMMA ThreadStep ==
  ASSUME JobsInv, NEW j \in Jobs, JobInv(j)',
         NEW p \in {"check", "work", "commit", "cancel", "fail", "resave", "finally", "done"},
         pc' = [pc EXCEPT ![j] = p],
         jobs' \in [Jobs -> Record \cup {NoRecord}], row' \in [Jobs -> Row \cup {NoRecord}],
         unsaved' \in [Jobs -> BOOLEAN], stage' \in [Jobs -> 0 .. LastStage],
         handle' \in [Jobs -> BOOLEAN],
         \A i \in Jobs \ {j} : jobs'[i] = jobs[i] /\ row'[i] = row[i] /\ unsaved'[i] = unsaved[i]
                               /\ stage'[i] = stage[i],
         UNCHANGED <<up, crashes, starting, clear, told, cleared, lost>>
  PROVE  JobsInv'
<1>1. TypeOK
  BY DEF JobsInv
<1>2. /\ pc' \in [Jobs -> {"none", "check", "work", "commit", "cancel", "fail", "resave",
                           "finally", "done"}]
      /\ \A i \in Jobs \ {j} : pc'[i] = pc[i]
  BY <1>1 DEF TypeOK
<1>3. TypeOK'
  BY <1>1, <1>2 DEF TypeOK
<1> QED BY <1>2, <1>3, StepOfJob

\* What an update makes of the record and of its row: nothing, if there is no record.
LEMMA UpdateIs ==
  ASSUME TypeOK, NEW j \in Jobs, NEW r, jobs[j] # NoRecord => r \in Record, UpdateJobMeta(j, r)
  PROVE  /\ jobs' \in [Jobs -> Record \cup {NoRecord}]
         /\ row' \in [Jobs -> Row \cup {NoRecord}]
         /\ unsaved' \in [Jobs -> BOOLEAN]
         /\ \A i \in Jobs \ {j} : jobs'[i] = jobs[i] /\ row'[i] = row[i] /\ unsaved'[i] = unsaved[i]
         /\ jobs[j] = NoRecord =>
              jobs'[j] = NoRecord /\ row'[j] = row[j] /\ unsaved'[j] = unsaved[j]
         /\ jobs[j] # NoRecord =>
              /\ jobs'[j] = r /\ jobs'[j] # NoRecord
              /\ unsaved[j] => unsaved'[j]
              /\ row[j] # NoRecord => row'[j] # NoRecord
              /\ ~unsaved'[j] =>
                   /\ row'[j] # NoRecord
                   /\ row'[j].status = r.status
                   /\ row'[j].cancelRequested = r.cancelRequested
                   /\ row'[j].rows = (r.rows \/ (row[j] # NoRecord /\ row[j].rows))
<1>1. CASE jobs[j] = NoRecord
  <2>1. UNCHANGED <<jobs, row, unsaved>>
    BY <1>1 DEF UpdateJobMeta, store
  <2> QED BY <1>1, <2>1 DEF TypeOK
<1>2. CASE jobs[j] # NoRecord
  <2>1. r \in Record /\ jobs' = [jobs EXCEPT ![j] = r] /\ Persist(jobs', {j})
    BY <1>2 DEF UpdateJobMeta
  <2>2. /\ jobs' \in [Jobs -> Record \cup {NoRecord}] /\ jobs'[j] = r
        /\ \A i \in Jobs \ {j} : jobs'[i] = jobs[i]
    BY <2>1 DEF TypeOK
  <2>3. r # NoRecord
    BY <2>1, OptimizationAssumption
  <2>4. /\ row' \in [Jobs -> Row \cup {NoRecord}]
        /\ unsaved' \in [Jobs -> BOOLEAN]
        /\ \A i \in Jobs \ {j} : row'[i] = row[i] /\ unsaved'[i] = unsaved[i]
        /\ unsaved[j] => unsaved'[j]
        /\ row[j] # NoRecord => row'[j] # NoRecord
        /\ ~unsaved'[j] =>
             /\ row'[j] # NoRecord
             /\ row'[j].status = r.status
             /\ row'[j].cancelRequested = r.cancelRequested
             /\ row'[j].rows = (r.rows \/ (row[j] # NoRecord /\ row[j].rows))
    BY <2>1, <2>2, SaveIs
  <2> QED BY <1>2, <2>2, <2>3, <2>4
<1> QED BY <1>1, <1>2

\* The thread of a job without a record has lost it, and nothing of the job that the invariant speaks of
\* changes when such a thread moves on.
LEMMA LostThread ==
  ASSUME TypeOK, NEW j \in Jobs, JobInv(j), Working(j), jobs[j] = NoRecord,
         pc[j] \notin {"finally", "done"}, pc'[j] # "none", pc'[j] = "work" => stage'[j] < LastStage,
         jobs'[j] = NoRecord, row'[j] = row[j], unsaved'[j] = unsaved[j],
         UNCHANGED <<up, crashes, starting, clear, told, lost>>
  PROVE  JobInv(j)'
<1>1. up /\ lost[j]
  BY DEF JobInv, DownIsEmpty, RecordIsThere, TypeOK
<1>2. NewIsBlank(j)' /\ DownIsEmpty(j)' /\ PlacesAreRight(j)'
  BY <1>1 DEF JobInv, NewIsBlank, DownIsEmpty, PlacesAreRight
<1>3. StoredAs(j)' /\ ResultIsStored(j)'
  BY DEF JobInv, StoredAs, ResultIsStored, OnDisk
<1>4. RecordIsThere(j)'
  BY <1>1 DEF JobInv, RecordIsThere, OnDisk
<1>5. EndsAsTold(j)'
  BY <1>1 DEF EndsAsTold
<1> QED BY <1>2, <1>3, <1>4, <1>5 DEF JobInv

\* What the invariant says of a job whose thread runs and whose record and saves are there.
LEMMA ThreadIs ==
  ASSUME TypeOK, NEW j \in Jobs, JobInv(j), Working(j), jobs[j] # NoRecord, ~unsaved[j]
  PROVE  /\ OnDisk(j) /\ row[j] \in Row /\ jobs[j] \in Record
         /\ row[j].status = jobs[j].status
         /\ row[j].cancelRequested = jobs[j].cancelRequested
         /\ row[j].rows = jobs[j].rows
         /\ row[j].status = "completed" => pc[j] = "finally"
         /\ "completed" \in told[j] => pc[j] = "finally"
         /\ (crashes = 0 \/ ~lost[j]) /\ row[j].status \notin Finished =>
              pc[j] \in {"check", "work", "commit", "cancel", "fail"}
<1>1. OnDisk(j) /\ row[j] \in Row /\ jobs[j] \in Record
  BY DEF JobInv, StoredAs, OnDisk, TypeOK
<1>2. row[j].status = jobs[j].status /\ row[j].cancelRequested = jobs[j].cancelRequested
      /\ row[j].rows = jobs[j].rows
  BY DEF JobInv, StoredAs
<1>3. row[j].status = "completed" => pc[j] = "finally"
  BY <1>1 DEF JobInv, ResultIsStored, Working
<1>4. "completed" \in told[j] => pc[j] = "finally"
  BY <1>3 DEF JobInv, ResultIsStored
<1>5. (crashes = 0 \/ ~lost[j]) /\ row[j].status \notin Finished =>
        pc[j] \in {"check", "work", "commit", "cancel", "fail"}
  BY <1>1 DEF JobInv, RecordIsThere
<1> QED BY <1>1, <1>2, <1>3, <1>4, <1>5

\* Two thirds of what a step of a thread with its record has to show are the same for all of them.
LEMMA ThreadKeeps ==
  ASSUME TypeOK, NEW j \in Jobs, JobInv(j), Working(j), jobs[j] # NoRecord,
         pc'[j] # "none", pc'[j] = "work" => stage'[j] < LastStage,
         jobs'[j] # NoRecord,
         row[j] # NoRecord => row'[j] # NoRecord,
         ~unsaved'[j] =>
           /\ row'[j] # NoRecord
           /\ row'[j].status = jobs'[j].status
           /\ row'[j].cancelRequested = jobs'[j].cancelRequested
           /\ row'[j].rows = jobs'[j].rows,
         ~unsaved'[j] => ResultIsStored(j)',
         ~unsaved'[j] /\ row'[j].status \notin Finished /\ (crashes = 0 \/ ~lost[j]) =>
           pc'[j] \in {"check", "work", "commit", "cancel", "fail"},
         ~unsaved'[j] => EndsAsTold(j)',
         UNCHANGED <<up, crashes, starting, clear, told, lost>>
  PROVE  JobInv(j)'
<1>1. up
  BY DEF JobInv, DownIsEmpty, TypeOK
<1>2. NewIsBlank(j)' /\ DownIsEmpty(j)' /\ PlacesAreRight(j)'
  BY <1>1 DEF JobInv, NewIsBlank, DownIsEmpty, PlacesAreRight
<1>3. StoredAs(j)'
  BY DEF StoredAs
<1>4. ResultIsStored(j)'
  BY DEF ResultIsStored, OnDisk
<1>5. RecordIsThere(j)'
  BY DEF RecordIsThere, OnDisk
<1>6. EndsAsTold(j)'
  BY DEF EndsAsTold, OnDisk
<1> QED BY <1>2, <1>3, <1>4, <1>5, <1>6 DEF JobInv

\* The check: a cancellation is found, and the other threads have a piece of work or the result ahead.
LEMMA RaiseIfCancelledKeeps ==
  ASSUME JobsInv, NEW j \in Jobs, RaiseIfCancelled(j)
  PROVE  JobsInv'
<1>1. TypeOK /\ JobInv(j)
  BY DEF JobsInv
<1>2. /\ pc[j] = "check"
      /\ UNCHANGED <<up, crashes, jobs, row, unsaved, stage, starting, handle, clear, told, cleared, lost>>
  BY DEF RaiseIfCancelled, store, clients
<1>3. PICK p \in {"cancel", "commit", "work"} :
        /\ pc' = [pc EXCEPT ![j] = p]
        /\ IsCancelRequested(j) => p = "cancel"
        /\ stage[j] = LastStage => p # "work"
        /\ stage[j] # LastStage => p # "commit"
  BY DEF RaiseIfCancelled
<1>4. pc'[j] = p /\ Working(j) /\ stage[j] \in 0 .. LastStage
  BY <1>1, <1>2, <1>3 DEF TypeOK, Working
<1>5. p = "work" => stage[j] < LastStage
  BY <1>3, <1>4, OptimizationAssumption
<1>6. JobInv(j)'
  <2>1. CASE jobs[j] = NoRecord
    BY <1>1, <1>2, <1>4, <1>5, <2>1, LostThread
  <2>2. CASE jobs[j] # NoRecord
    <3>1. ASSUME ~unsaved'[j]
          PROVE  /\ row'[j] # NoRecord
                 /\ row'[j].status = jobs'[j].status
                 /\ row'[j].cancelRequested = jobs'[j].cancelRequested
                 /\ row'[j].rows = jobs'[j].rows
                 /\ ResultIsStored(j)'
                 /\ EndsAsTold(j)'
      <4>1. /\ OnDisk(j) /\ row[j] \in Row /\ jobs[j] \in Record
            /\ row[j].status = jobs[j].status
            /\ row[j].cancelRequested = jobs[j].cancelRequested
            /\ row[j].rows = jobs[j].rows
            /\ row[j].status # "completed" /\ "completed" \notin told[j]
        BY <1>1, <1>2, <1>4, <2>2, <3>1, ThreadIs
      <4>2. ResultIsStored(j)'
        BY <1>2, <4>1 DEF ResultIsStored
      <4>3. row[j].cancelRequested => p = "cancel"
        BY <1>3, <2>2, <4>1 DEF IsCancelRequested
      <4>4. EndsAsTold(j)'
        <5>1. ASSUME ~lost[j]
              PROVE  /\ row[j].status = "pending" => stage[j] = 0
                     /\ row[j].status \in {"cancelled", "failed"} => row[j].cancelRequested
                     /\ told[j] \cap {"cancelled", "failed"} # {} => row[j].cancelRequested
          BY <1>1, <1>2, <4>1, <5>1 DEF JobInv, EndsAsTold, Stopping
        <5>2. ASSUME ~lost[j], row[j].status = "pending"
              PROVE  p = "cancel" \/ (p \in {"check", "work"} /\ stage[j] = 0)
          BY <1>3, <5>1, <5>2, OptimizationAssumption
        <5> QED BY <1>2, <1>4, <4>1, <4>3, <5>1, <5>2 DEF EndsAsTold, Stopping
      <4> QED BY <1>2, <4>1, <4>2, <4>4 DEF OnDisk
    <3> QED BY <1>1, <1>2, <1>4, <1>5, <2>2, <3>1, ThreadKeeps
  <2> QED BY <2>1, <2>2
<1>7. /\ jobs \in [Jobs -> Record \cup {NoRecord}] /\ row \in [Jobs -> Row \cup {NoRecord}]
      /\ unsaved \in [Jobs -> BOOLEAN] /\ stage \in [Jobs -> 0 .. LastStage]
      /\ handle \in [Jobs -> BOOLEAN]
  BY <1>1 DEF TypeOK
<1> QED BY <1>2, <1>3, <1>6, <1>7, ThreadStep

\* A piece of work: the first sets RUNNING, a later one leaves the record, or raises.
LEMMA WorkKeeps ==
  ASSUME JobsInv, NEW j \in Jobs, Work(j)
  PROVE  JobsInv'
<1>1. TypeOK /\ JobInv(j)
  BY DEF JobsInv
<1>2. /\ pc[j] = "work" /\ UNCHANGED <<up, crashes, starting, handle, clear, told, cleared, lost>>
  BY DEF Work, clients
<1>3. Working(j) /\ stage[j] \in 0 .. LastStage /\ stage[j] < LastStage
  BY <1>1, <1>2 DEF Working, TypeOK, JobInv, PlacesAreRight
<1>4. handle \in [Jobs -> BOOLEAN] /\ stage \in [Jobs -> 0 .. LastStage]
  BY <1>1 DEF TypeOK
<1>5. CASE /\ UpdateJobMeta(j, IF stage[j] = 0 THEN [jobs[j] EXCEPT !.status = "running"] ELSE jobs[j])
           /\ pc' = [pc EXCEPT ![j] = "check"]
           /\ stage' = [stage EXCEPT ![j] = @ + 1]
  <2>1. PICK r : r = IF stage[j] = 0 THEN [jobs[j] EXCEPT !.status = "running"] ELSE jobs[j]
    OBVIOUS
  <2>2. ASSUME jobs[j] # NoRecord
        PROVE  /\ r \in Record /\ r.cancelRequested = jobs[j].cancelRequested
               /\ r.rows = jobs[j].rows
               /\ IF stage[j] = 0 THEN r.status = "running" ELSE r.status = jobs[j].status
    <3>1. jobs[j] \in Record
      BY <1>1, <2>2 DEF TypeOK
    <3> QED BY <2>1, <3>1 DEF Record, Status
  <2>3. UpdateJobMeta(j, r)
    BY <1>5, <2>1
  <2>4. /\ jobs' \in [Jobs -> Record \cup {NoRecord}]
        /\ row' \in [Jobs -> Row \cup {NoRecord}]
        /\ unsaved' \in [Jobs -> BOOLEAN]
        /\ \A i \in Jobs \ {j} : jobs'[i] = jobs[i] /\ row'[i] = row[i] /\ unsaved'[i] = unsaved[i]
        /\ jobs[j] = NoRecord =>
             jobs'[j] = NoRecord /\ row'[j] = row[j] /\ unsaved'[j] = unsaved[j]
        /\ jobs[j] # NoRecord =>
             /\ jobs'[j] = r /\ jobs'[j] # NoRecord
             /\ unsaved[j] => unsaved'[j]
             /\ row[j] # NoRecord => row'[j] # NoRecord
             /\ ~unsaved'[j] =>
                  /\ row'[j] # NoRecord
                  /\ row'[j].status = r.status
                  /\ row'[j].cancelRequested = r.cancelRequested
                  /\ row'[j].rows = (r.rows \/ (row[j] # NoRecord /\ row[j].rows))
    BY <1>1, <2>2, <2>3, UpdateIs
  <2>5. PICK n \in 0 .. LastStage : n = stage[j] + 1
    BY <1>3, OptimizationAssumption
  <2>6. /\ stage' \in [Jobs -> 0 .. LastStage] /\ stage'[j] = n
        /\ \A i \in Jobs \ {j} : stage'[i] = stage[i]
    <3>1. stage' = [stage EXCEPT ![j] = n]
      BY <1>5, <2>5
    <3> QED BY <1>4, <2>5, <3>1
  <2>7. pc'[j] = "check"
    BY <1>1, <1>5 DEF TypeOK
  <2>8. JobInv(j)'
    <3>1. CASE jobs[j] = NoRecord
      BY <1>1, <1>2, <1>3, <2>4, <2>7, <3>1, LostThread
    <3>2. CASE jobs[j] # NoRecord
      <4>1. ASSUME ~unsaved'[j]
            PROVE  /\ row'[j] # NoRecord
                   /\ row'[j].status = jobs'[j].status
                   /\ row'[j].cancelRequested = jobs'[j].cancelRequested
                   /\ row'[j].rows = jobs'[j].rows
                   /\ ResultIsStored(j)'
                   /\ EndsAsTold(j)'
        <5>1. ~unsaved[j]
          BY <2>4, <3>2, <4>1
        <5>2. /\ OnDisk(j) /\ row[j] \in Row /\ jobs[j] \in Record
              /\ row[j].status = jobs[j].status
              /\ row[j].cancelRequested = jobs[j].cancelRequested
              /\ row[j].rows = jobs[j].rows
              /\ row[j].status # "completed" /\ "completed" \notin told[j]
          BY <1>1, <1>2, <1>3, <3>2, <5>1, ThreadIs
        <5>3. /\ jobs'[j] = r /\ row'[j] # NoRecord /\ row'[j].status = r.status
              /\ row'[j].cancelRequested = r.cancelRequested
              /\ row'[j].cancelRequested = row[j].cancelRequested
          BY <2>2, <2>4, <3>2, <4>1, <5>2
        <5>4. row'[j].rows = r.rows
          <6>1. r.rows = row[j].rows /\ r.rows \in BOOLEAN
            BY <2>2, <3>2, <5>2 DEF Record
          <6>2. row'[j].rows = (r.rows \/ (row[j] # NoRecord /\ row[j].rows))
            BY <2>4, <3>2, <4>1
          <6> QED BY <6>1, <6>2
        <5>5. r.status # "completed"
          BY <2>2, <3>2, <5>2
        <5>6. ResultIsStored(j)'
          BY <1>2, <5>2, <5>3, <5>5 DEF ResultIsStored
        <5>7. EndsAsTold(j)'
          <6>1. ASSUME ~lost[j]
                PROVE  /\ row[j].status = "pending" => stage[j] = 0
                       /\ row[j].status \in {"cancelled", "failed"} =>
                            row[j].cancelRequested /\ stage[j] = 0
                       /\ told[j] \cap {"cancelled", "failed"} # {} => row[j].cancelRequested
            BY <1>1, <1>2, <5>2, <6>1 DEF JobInv, EndsAsTold, Stopping
          <6>2. ASSUME ~lost[j]
                PROVE  r.status # "pending" /\ r.status \notin {"cancelled", "failed"}
            BY <2>2, <3>2, <5>2, <6>1, <6>2
          <6> QED BY <1>2, <2>7, <5>3, <5>5, <6>1, <6>2 DEF EndsAsTold, Stopping
        <5> QED BY <5>3, <5>4, <5>6, <5>7
      <4> QED BY <1>1, <1>2, <1>3, <2>4, <2>7, <3>2, <4>1, ThreadKeeps
    <3> QED BY <3>1, <3>2
  <2> QED BY <1>2, <1>4, <1>5, <2>4, <2>6, <2>8, ThreadStep
<1>6. CASE /\ stage[j] > 0
           /\ pc' = [pc EXCEPT ![j] = "fail"]
           /\ UNCHANGED <<jobs, store, stage>>
  <2>1. pc'[j] = "fail" /\ UNCHANGED <<jobs, row, unsaved, stage>> /\ stage[j] # 0
    BY <1>1, <1>3, <1>6 DEF TypeOK, store
  <2>2. JobInv(j)'
    <3>1. CASE jobs[j] = NoRecord
      BY <1>1, <1>2, <1>3, <2>1, <3>1, LostThread
    <3>2. CASE jobs[j] # NoRecord
      <4>1. ASSUME ~unsaved'[j]
            PROVE  /\ row'[j] # NoRecord
                   /\ row'[j].status = jobs'[j].status
                   /\ row'[j].cancelRequested = jobs'[j].cancelRequested
                   /\ row'[j].rows = jobs'[j].rows
                   /\ ResultIsStored(j)'
                   /\ EndsAsTold(j)'
        <5>1. ~unsaved[j]
          BY <2>1, <4>1
        <5>2. /\ OnDisk(j) /\ row[j] \in Row /\ jobs[j] \in Record
              /\ row[j].status = jobs[j].status
              /\ row[j].cancelRequested = jobs[j].cancelRequested
              /\ row[j].rows = jobs[j].rows
              /\ row[j].status # "completed" /\ "completed" \notin told[j]
          BY <1>1, <1>2, <1>3, <3>2, <5>1, ThreadIs
        <5>3. ResultIsStored(j)'
          BY <1>2, <2>1, <5>2 DEF ResultIsStored
        <5>4. ~lost[j] => row[j].status # "pending"
          BY <1>1, <1>2, <2>1, <5>2 DEF JobInv, EndsAsTold
        <5>5. EndsAsTold(j)'
          BY <1>2, <2>1, <5>2, <5>4 DEF EndsAsTold, Stopping
        <5> QED BY <2>1, <5>2, <5>3, <5>5 DEF OnDisk
      <4> QED BY <1>1, <1>2, <1>3, <2>1, <3>2, <4>1, ThreadKeeps
    <3> QED BY <3>1, <3>2
  <2>3. jobs' \in [Jobs -> Record \cup {NoRecord}] /\ row' \in [Jobs -> Row \cup {NoRecord}]
        /\ unsaved' \in [Jobs -> BOOLEAN] /\ stage' \in [Jobs -> 0 .. LastStage]
    BY <1>1, <2>1 DEF TypeOK
  <2> QED BY <1>2, <1>4, <1>6, <2>1, <2>2, <2>3, ThreadStep
<1> QED BY <1>5, <1>6 DEF Work

\* The result: the rows and COMPLETED are saved together.
LEMMA CommitKeeps ==
  ASSUME JobsInv, NEW j \in Jobs, Commit(j)
  PROVE  JobsInv'
<1>1. TypeOK /\ JobInv(j)
  BY DEF JobsInv
<1>2. /\ pc[j] = "commit"
      /\ UNCHANGED <<up, crashes, stage, starting, handle, clear, told, cleared, lost>>
  BY DEF Commit, clients
<1>3. Working(j)
  BY <1>2 DEF Working
<1>4. handle \in [Jobs -> BOOLEAN] /\ stage \in [Jobs -> 0 .. LastStage]
  BY <1>1 DEF TypeOK
<1>5. CASE jobs[j] = NoRecord
  <2>1. pc' = [pc EXCEPT ![j] = "fail"] /\ UNCHANGED <<jobs, row, unsaved>>
    BY <1>5 DEF Commit, store
  <2>2. pc'[j] = "fail"
    BY <1>1, <2>1 DEF TypeOK
  <2>3. JobInv(j)'
    BY <1>1, <1>2, <1>3, <1>5, <2>1, <2>2, LostThread
  <2>4. jobs' \in [Jobs -> Record \cup {NoRecord}] /\ row' \in [Jobs -> Row \cup {NoRecord}]
        /\ unsaved' \in [Jobs -> BOOLEAN]
    BY <1>1, <2>1 DEF TypeOK
  <2> QED BY <1>2, <1>4, <2>1, <2>3, <2>4, ThreadStep
<1>6. CASE jobs[j] # NoRecord
  <2>1. PICK r : r = [jobs[j] EXCEPT !.status = "completed", !.rows = TRUE]
    OBVIOUS
  <2>2. /\ r \in Record /\ r.status = "completed" /\ r.rows = TRUE
        /\ r.cancelRequested = jobs[j].cancelRequested
    <3>1. jobs[j] \in Record
      BY <1>1, <1>6 DEF TypeOK
    <3> QED BY <2>1, <3>1 DEF Record, Status, Finished
  <2>3. /\ jobs' = [jobs EXCEPT ![j] = r] /\ Persist(jobs', {j})
        /\ pc' = [pc EXCEPT ![j] = "finally"]
    BY <1>6, <2>1 DEF Commit
  <2>4. UpdateJobMeta(j, r)
    BY <1>6, <2>3 DEF UpdateJobMeta
  <2>5. /\ jobs' \in [Jobs -> Record \cup {NoRecord}]
        /\ row' \in [Jobs -> Row \cup {NoRecord}]
        /\ unsaved' \in [Jobs -> BOOLEAN]
        /\ \A i \in Jobs \ {j} : jobs'[i] = jobs[i] /\ row'[i] = row[i] /\ unsaved'[i] = unsaved[i]
        /\ jobs'[j] = r /\ jobs'[j] # NoRecord
        /\ unsaved[j] => unsaved'[j]
        /\ row[j] # NoRecord => row'[j] # NoRecord
        /\ ~unsaved'[j] =>
             /\ row'[j] # NoRecord
             /\ row'[j].status = r.status
             /\ row'[j].cancelRequested = r.cancelRequested
             /\ row'[j].rows = (r.rows \/ (row[j] # NoRecord /\ row[j].rows))
    BY <1>1, <1>6, <2>2, <2>4, UpdateIs
  <2>6. pc'[j] = "finally"
    BY <1>1, <2>3 DEF TypeOK
  <2>7. ASSUME ~unsaved'[j]
        PROVE  /\ row'[j] # NoRecord
               /\ row'[j].status = jobs'[j].status
               /\ row'[j].cancelRequested = jobs'[j].cancelRequested
               /\ row'[j].rows = jobs'[j].rows
               /\ row'[j].status = "completed"
               /\ ResultIsStored(j)'
               /\ EndsAsTold(j)'
    <3>1. ~unsaved[j]
      BY <2>5, <2>7
    <3>2. OnDisk(j) /\ row[j].status # "completed"
      BY <1>1, <1>2, <1>3, <1>6, <3>1, ThreadIs
    <3>3. ~lost[j] => told[j] \cap {"cancelled", "failed"} = {}
      BY <1>1, <1>2, <3>2 DEF JobInv, EndsAsTold, Stopping
    <3>4. row'[j] # NoRecord /\ row'[j].status = "completed" /\ row'[j].cancelRequested = jobs'[j].cancelRequested
      BY <2>2, <2>5, <2>7
    <3>5. row'[j].rows = TRUE
      <4>1. row'[j].rows = (r.rows \/ (row[j] # NoRecord /\ row[j].rows))
        BY <2>5, <2>7
      <4> QED BY <2>2, <4>1
    <3>6. ResultIsStored(j)'
      BY <2>6, <3>4, <3>5 DEF ResultIsStored
    <3>7. EndsAsTold(j)'
      BY <1>2, <3>3, <3>4 DEF EndsAsTold
    <3> QED BY <2>2, <2>5, <3>4, <3>5, <3>6, <3>7
  <2>8. JobInv(j)'
    BY <1>1, <1>2, <1>3, <1>6, <2>5, <2>6, <2>7, ThreadKeeps DEF Finished
  <2> QED BY <1>2, <1>4, <2>3, <2>5, <2>8, ThreadStep
<1> QED BY <1>5, <1>6

\* An end without a result.
LEMMA EndWithoutKeeps ==
  ASSUME JobsInv, NEW j \in Jobs, EndWithout(j)
  PROVE  JobsInv'
<1>1. TypeOK /\ JobInv(j)
  BY DEF JobsInv
<1>2. PICK s \in {"cancelled", "failed"} :
        pc[j] \in {"cancel", "fail"} /\ UpdateJobMeta(j, [jobs[j] EXCEPT !.status = s])
  BY DEF EndWithout
<1>3. /\ pc' = [pc EXCEPT ![j] = "resave"]
      /\ UNCHANGED <<up, crashes, stage, starting, handle, clear, told, cleared, lost>>
  BY DEF EndWithout, clients
<1>4. Working(j) /\ pc'[j] = "resave"
  BY <1>1, <1>2, <1>3 DEF Working, TypeOK
<1>5. PICK r : r = [jobs[j] EXCEPT !.status = s]
  OBVIOUS
<1>6. ASSUME jobs[j] # NoRecord
      PROVE  /\ r \in Record /\ r.status = s /\ r.cancelRequested = jobs[j].cancelRequested
             /\ r.rows = jobs[j].rows
  <2>1. jobs[j] \in Record
    BY <1>1, <1>6 DEF TypeOK
  <2> QED BY <1>5, <2>1 DEF Record, Status, Finished
<1>7. /\ jobs' \in [Jobs -> Record \cup {NoRecord}]
      /\ row' \in [Jobs -> Row \cup {NoRecord}]
      /\ unsaved' \in [Jobs -> BOOLEAN]
      /\ \A i \in Jobs \ {j} : jobs'[i] = jobs[i] /\ row'[i] = row[i] /\ unsaved'[i] = unsaved[i]
      /\ jobs[j] = NoRecord =>
           jobs'[j] = NoRecord /\ row'[j] = row[j] /\ unsaved'[j] = unsaved[j]
      /\ jobs[j] # NoRecord =>
           /\ jobs'[j] = r /\ jobs'[j] # NoRecord
           /\ unsaved[j] => unsaved'[j]
           /\ row[j] # NoRecord => row'[j] # NoRecord
           /\ ~unsaved'[j] =>
                /\ row'[j] # NoRecord
                /\ row'[j].status = r.status
                /\ row'[j].cancelRequested = r.cancelRequested
                /\ row'[j].rows = (r.rows \/ (row[j] # NoRecord /\ row[j].rows))
  <2>1. UpdateJobMeta(j, r)
    BY <1>2, <1>5
  <2> QED BY <1>1, <1>6, <2>1, UpdateIs
<1>8. JobInv(j)'
  <2>1. CASE jobs[j] = NoRecord
    BY <1>1, <1>2, <1>3, <1>4, <1>7, <2>1, LostThread
  <2>2. CASE jobs[j] # NoRecord
    <3>1. ASSUME ~unsaved'[j]
          PROVE  /\ row'[j] # NoRecord
                 /\ row'[j].status = jobs'[j].status
                 /\ row'[j].cancelRequested = jobs'[j].cancelRequested
                 /\ row'[j].rows = jobs'[j].rows
                 /\ row'[j].status \in {"cancelled", "failed"}
                 /\ ResultIsStored(j)'
                 /\ EndsAsTold(j)'
      <4>1. ~unsaved[j]
        BY <1>7, <2>2, <3>1
      <4>2. /\ OnDisk(j) /\ jobs[j] \in Record /\ row[j].rows = jobs[j].rows
            /\ "completed" \notin told[j]
        BY <1>1, <1>2, <1>4, <2>2, <4>1, ThreadIs
      <4>3. /\ row'[j] # NoRecord /\ row'[j].status = jobs'[j].status /\ row'[j].status = s
            /\ row'[j].cancelRequested = jobs'[j].cancelRequested
        BY <1>6, <1>7, <2>2, <3>1
      <4>4. row'[j].rows = jobs'[j].rows
        <5>1. r.rows = row[j].rows /\ r.rows \in BOOLEAN /\ jobs'[j] = r
          BY <1>6, <1>7, <2>2, <4>2 DEF Record
        <5>2. row'[j].rows = (r.rows \/ (row[j] # NoRecord /\ row[j].rows))
          BY <1>7, <2>2, <3>1
        <5>3. row'[j].rows = r.rows
          BY <5>1, <5>2
        <5> QED BY <5>1, <5>3
      <4>5. ResultIsStored(j)'
        BY <1>3, <4>2, <4>3 DEF ResultIsStored
      <4>6. EndsAsTold(j)'
        BY <1>4, <4>3 DEF EndsAsTold, Stopping
      <4> QED BY <4>3, <4>4, <4>5, <4>6
    <3> QED BY <1>1, <1>3, <1>4, <1>7, <2>2, <3>1, ThreadKeeps DEF Finished
  <2> QED BY <2>1, <2>2
<1>9. handle \in [Jobs -> BOOLEAN] /\ stage \in [Jobs -> 0 .. LastStage]
  BY <1>1 DEF TypeOK
<1> QED BY <1>3, <1>7, <1>8, <1>9, ThreadStep

\* The second save, of the same record.
LEMMA ResaveKeeps ==
  ASSUME JobsInv, NEW j \in Jobs, Resave(j)
  PROVE  JobsInv'
<1>1. TypeOK /\ JobInv(j)
  BY DEF JobsInv
<1>2. /\ pc[j] = "resave" /\ pc' = [pc EXCEPT ![j] = "finally"]
      /\ UNCHANGED <<up, crashes, jobs, stage, starting, handle, clear, told, cleared, lost>>
  BY DEF Resave, clients
<1>3. Working(j) /\ pc'[j] = "finally"
  BY <1>1, <1>2 DEF Working, TypeOK
<1>4. /\ handle \in [Jobs -> BOOLEAN] /\ stage \in [Jobs -> 0 .. LastStage]
      /\ jobs \in [Jobs -> Record \cup {NoRecord}]
  BY <1>1 DEF TypeOK
<1>5. CASE jobs[j] = NoRecord
  <2>1. UNCHANGED <<row, unsaved>>
    BY <1>5 DEF Resave, store
  <2>2. JobInv(j)'
    BY <1>1, <1>2, <1>3, <1>5, <2>1, LostThread
  <2>3. row' \in [Jobs -> Row \cup {NoRecord}] /\ unsaved' \in [Jobs -> BOOLEAN]
    BY <1>1, <2>1 DEF TypeOK
  <2> QED BY <1>2, <1>4, <2>1, <2>2, <2>3, ThreadStep
<1>6. CASE jobs[j] # NoRecord
  <2>1. PICK r \in Record : r = jobs[j]
    BY <1>4, <1>6
  <2>2. Persist(jobs, {j})
    BY <1>6 DEF Resave
  <2>3. /\ row' \in [Jobs -> Row \cup {NoRecord}]
        /\ unsaved' \in [Jobs -> BOOLEAN]
        /\ \A i \in Jobs \ {j} : row'[i] = row[i] /\ unsaved'[i] = unsaved[i]
        /\ unsaved[j] => unsaved'[j]
        /\ row[j] # NoRecord => row'[j] # NoRecord
        /\ ~unsaved'[j] =>
             /\ row'[j] # NoRecord
             /\ row'[j].status = r.status
             /\ row'[j].cancelRequested = r.cancelRequested
             /\ row'[j].rows = (r.rows \/ (row[j] # NoRecord /\ row[j].rows))
    BY <1>1, <2>1, <2>2, SaveIs
  <2>4. ASSUME ~unsaved'[j]
        PROVE  /\ row'[j] # NoRecord
               /\ row'[j].status = jobs'[j].status
               /\ row'[j].cancelRequested = jobs'[j].cancelRequested
               /\ row'[j].rows = jobs'[j].rows
               /\ ResultIsStored(j)'
               /\ (crashes = 0 \/ ~lost[j]) => row'[j].status \in Finished
               /\ EndsAsTold(j)'
    <3>1. ~unsaved[j]
      BY <2>3, <2>4
    <3>2. /\ OnDisk(j) /\ jobs[j] \in Record
          /\ row[j].status = jobs[j].status
          /\ row[j].rows = jobs[j].rows
          /\ row[j].status # "completed" /\ "completed" \notin told[j]
          /\ (crashes = 0 \/ ~lost[j]) => row[j].status \in Finished
      BY <1>1, <1>2, <1>3, <1>6, <3>1, ThreadIs
    <3>3. /\ row'[j] # NoRecord /\ row'[j].status = jobs'[j].status
          /\ row'[j].status = row[j].status
          /\ row'[j].cancelRequested = jobs'[j].cancelRequested
      BY <1>2, <2>1, <2>3, <2>4, <3>2
    <3>4. row'[j].rows = jobs'[j].rows
      <4>1. r.rows = row[j].rows /\ r.rows \in BOOLEAN /\ jobs'[j] = r
        BY <1>2, <2>1, <3>2 DEF Record
      <4>2. row'[j].rows = (r.rows \/ (row[j] # NoRecord /\ row[j].rows))
        BY <2>3, <2>4
      <4>3. row'[j].rows = r.rows
        BY <4>1, <4>2
      <4> QED BY <4>1, <4>3
    <3>5. ResultIsStored(j)'
      BY <1>2, <3>2, <3>3 DEF ResultIsStored
    <3>6. EndsAsTold(j)'
      BY <1>1, <1>2, <1>3, <3>2, <3>3 DEF JobInv, EndsAsTold, Stopping, Finished
    <3> QED BY <3>2, <3>3, <3>4, <3>5, <3>6
  <2>5. JobInv(j)'
    BY <1>1, <1>2, <1>3, <1>6, <2>3, <2>4, ThreadKeeps
  <2> QED BY <1>2, <1>4, <2>3, <2>5, ThreadStep
<1> QED BY <1>5, <1>6

\* The thread ends.
LEMMA FinallyKeeps ==
  ASSUME JobsInv, NEW j \in Jobs, Finally(j)
  PROVE  JobsInv'
<1>1. TypeOK /\ JobInv(j)
  BY DEF JobsInv
<1>2. /\ pc[j] = "finally" /\ handle' = [handle EXCEPT ![j] = FALSE]
      /\ pc' = [pc EXCEPT ![j] = "done"]
      /\ UNCHANGED <<up, crashes, jobs, row, unsaved, stage, starting, clear, told, cleared, lost>>
  BY DEF Finally, store, clients
<1>3. Working(j) /\ pc'[j] = "done"
  BY <1>1, <1>2 DEF Working, TypeOK
<1>4. /\ handle' \in [Jobs -> BOOLEAN] /\ stage \in [Jobs -> 0 .. LastStage]
      /\ jobs \in [Jobs -> Record \cup {NoRecord}] /\ row \in [Jobs -> Row \cup {NoRecord}]
      /\ unsaved \in [Jobs -> BOOLEAN]
  BY <1>1, <1>2 DEF TypeOK
<1>5. JobInv(j)'
  <2>1. NewIsBlank(j)' /\ DownIsEmpty(j)' /\ PlacesAreRight(j)'
    BY <1>1, <1>2, <1>3 DEF JobInv, NewIsBlank, DownIsEmpty, PlacesAreRight, Working
  <2>2. StoredAs(j)' /\ ResultIsStored(j)'
    BY <1>1, <1>2, <1>3 DEF JobInv, StoredAs, ResultIsStored, OnDisk
  <2>3. RecordIsThere(j)'
    BY <1>1, <1>2, <1>3 DEF JobInv, RecordIsThere, OnDisk, Working
  <2>4. EndsAsTold(j)'
    BY <1>1, <1>2, <1>3 DEF JobInv, EndsAsTold, Stopping, OnDisk
  <2> QED BY <2>1, <2>2, <2>3, <2>4 DEF JobInv
<1> QED BY <1>2, <1>4, <1>5, ThreadStep

-----------------------------------------------------------------------------
(* The process dies and recovers.                                          *)

\* The store is what is left; a job whose thread ran has lost its process.
LEMMA CrashKeeps ==
  ASSUME JobsInv, Crash
  PROVE  JobsInv'
<1>1. TypeOK
  BY DEF JobsInv
<1>2. /\ up' = FALSE /\ crashes' = crashes + 1 /\ crashes < MaxCrashes
      /\ jobs' = [j \in Jobs |-> NoRecord]
      /\ pc' = [j \in Jobs |-> IF pc[j] = "none" THEN "none" ELSE "done"]
      /\ starting' = [j \in Jobs |-> FALSE]
      /\ handle' = [j \in Jobs |-> FALSE]
      /\ clear' = [j \in Jobs |-> "none"]
      /\ lost' = [j \in Jobs |-> lost[j] \/ Working(j)]
      /\ UNCHANGED <<row, unsaved, stage, told, cleared>>
  BY DEF Crash, store
<1>3. crashes' \in 0 .. MaxCrashes /\ crashes' > 0
  BY <1>1, <1>2, OptimizationAssumption DEF TypeOK
<1>4. TypeOK'
  <2>1. lost' \in [Jobs -> BOOLEAN]
    <3>1. \A j \in Jobs : (lost[j] \/ Working(j)) \in BOOLEAN
      OBVIOUS
    <3> QED BY <1>2, <3>1
  <2>2. /\ jobs' \in [Jobs -> Record \cup {NoRecord}]
        /\ pc' \in [Jobs -> {"none", "check", "work", "commit", "cancel", "fail", "resave",
                             "finally", "done"}]
        /\ starting' \in [Jobs -> BOOLEAN] /\ handle' \in [Jobs -> BOOLEAN]
        /\ clear' \in [Jobs -> {"none", "update", "drop"}]
    BY <1>2
  <2> QED BY <1>1, <1>2, <1>3, <2>1, <2>2 DEF TypeOK
<1>5. ASSUME NEW j \in Jobs PROVE JobInv(j)'
  <2>1. JobInv(j)
    BY DEF JobsInv
  <2>2. /\ jobs'[j] = NoRecord /\ pc'[j] = IF pc[j] = "none" THEN "none" ELSE "done"
        /\ ~starting'[j] /\ clear'[j] = "none"
        /\ row'[j] = row[j] /\ unsaved'[j] = unsaved[j] /\ told'[j] = told[j] /\ stage'[j] = stage[j]
    BY <1>2
  <2>3. ~Working(j)' /\ (~lost'[j] => ~lost[j] /\ ~Working(j))
    BY <1>2, <2>2 DEF Working
  <2>4. row[j] # NoRecord => pc'[j] = "done"
    BY <2>1, <2>2 DEF JobInv, NewIsBlank
  <2>5. NewIsBlank(j)' /\ DownIsEmpty(j)' /\ StoredAs(j)' /\ PlacesAreRight(j)'
    BY <1>3, <2>1, <2>2, <2>3 DEF JobInv, NewIsBlank, DownIsEmpty, StoredAs, PlacesAreRight
  <2>6. ResultIsStored(j)'
    BY <2>1, <2>2, <2>4 DEF JobInv, ResultIsStored, OnDisk
  <2>7. RecordIsThere(j)'
    <3>1. ASSUME OnDisk(j)', row'[j].status \notin Finished, crashes' = 0 \/ ~lost'[j] PROVE FALSE
      <4>1. ~lost[j] /\ ~Working(j)
        BY <1>3, <2>3, <3>1
      <4>2. OnDisk(j) /\ row[j].status \notin Finished
        BY <2>2, <3>1 DEF OnDisk
      <4> QED BY <2>1, <4>1, <4>2 DEF JobInv, RecordIsThere, Working
    <3> QED BY <2>3, <3>1 DEF RecordIsThere
  <2>8. EndsAsTold(j)'
    <3>1. ASSUME OnDisk(j)', ~lost'[j] PROVE row[j].status # "pending" /\ Stopping(j)' /\ OnDisk(j) /\ ~lost[j]
      <4>1. OnDisk(j) /\ ~lost[j] /\ ~Working(j)
        BY <2>2, <2>3, <3>1 DEF OnDisk
      <4>2. row[j].status # "pending"
        BY <2>1, <4>1 DEF JobInv, EndsAsTold, Working
      <4>3. pc'[j] = "done"
        BY <2>4, <4>1 DEF OnDisk
      <4> QED BY <4>1, <4>2, <4>3 DEF Stopping
    <3> QED BY <2>1, <2>2, <3>1 DEF JobInv, EndsAsTold
  <2> QED BY <2>5, <2>6, <2>7, <2>8 DEF JobInv
<1> QED BY <1>4, <1>5 DEF JobsInv

\* A job that is stored as unfinished when the process is down has lost it, or a save of it had failed.
LEMMA RecoverableIs ==
  ASSUME TypeOK, ~up, NEW j \in Jobs, JobInv(j), j \in Recoverable
  PROVE  /\ row[j] # NoRecord /\ row[j] \in Row
         /\ row[j].status \in {"pending", "running"}
         /\ Loaded(j) \in Record
         /\ Loaded(j).status = row[j].status
         /\ Loaded(j).cancelRequested = row[j].cancelRequested
         /\ Loaded(j).rows = row[j].rows
         /\ pc[j] = "done"
         /\ unsaved[j] \/ lost[j]
         /\ ~unsaved[j] => "completed" \notin told[j]
<1>1. Loaded(j) # NoRecord /\ Loaded(j).status \notin Finished
  BY DEF Recoverable
<1>2. /\ row[j] # NoRecord /\ row[j] \in Row
      /\ Loaded(j) \in Record
      /\ Loaded(j).status = row[j].status
      /\ Loaded(j).cancelRequested = row[j].cancelRequested
      /\ Loaded(j).rows = row[j].rows
  BY <1>1, LoadedIs
<1>3. row[j].status \in {"pending", "running"}
  BY <1>1, <1>2 DEF Row, Status
<1>4. jobs[j] = NoRecord /\ ~Working(j) /\ pc[j] # "none"
  BY <1>2 DEF JobInv, DownIsEmpty, NewIsBlank
<1>5. pc[j] = "done"
  BY <1>4 DEF Working
<1>6. unsaved[j] \/ lost[j]
  BY <1>1, <1>2, <1>4 DEF JobInv, RecordIsThere, OnDisk
<1>7. ~unsaved[j] => "completed" \notin told[j]
  BY <1>1, <1>2 DEF JobInv, ResultIsStored, Finished
<1> QED BY <1>2, <1>3, <1>5, <1>6, <1>7

\* The next process fails some of the recoverable jobs, starts others again and leaves the rest.
LEMMA RecoverKeeps ==
  ASSUME JobsInv, Recover
  PROVE  JobsInv'
<1>1. TypeOK /\ ~up /\ up' = TRUE /\ UNCHANGED <<crashes, handle, clear, told, cleared, lost>>
  BY DEF JobsInv, Recover, clients
<1>2. PICK F \in SUBSET (Recoverable \cap Broken), S \in SUBSET Recoverable :
        /\ S \cap F = {}
        /\ jobs' = [j \in Jobs |-> IF j \in F THEN [Loaded(j) EXCEPT !.status = "failed"]
                                 ELSE IF j \in S THEN Restarted(Loaded(j)) ELSE NoRecord]
        /\ Persist(jobs', F \cup S)
        /\ pc' = [j \in Jobs |-> IF j \in S THEN "check" ELSE pc[j]]
        /\ stage' = [j \in Jobs |-> IF j \in S THEN 0 ELSE stage[j]]
        /\ starting' = [j \in Jobs |-> j \in S]
  BY DEF Recover
<1>3. F \cup S \in SUBSET Jobs /\ F \cup S \subseteq Recoverable
  BY DEF Recoverable
<1>4. ASSUME NEW j \in F \cup S
      PROVE  /\ jobs'[j] \in Record
             /\ jobs'[j].rows = row[j].rows
             /\ j \in F => jobs'[j].status = "failed"
             /\ j \in S => jobs'[j].status = "pending"
    <2>1. j \in Jobs /\ JobInv(j) /\ j \in Recoverable
      BY <1>3 DEF JobsInv
    <2>2. Loaded(j) \in Record /\ Loaded(j).rows = row[j].rows
      BY <1>1, <2>1, RecoverableIs
    <2>3. CASE j \in F
      <3>1. jobs'[j] = [Loaded(j) EXCEPT !.status = "failed"]
        BY <1>2, <2>1, <2>3
      <3>2. j \notin S
        BY <1>2, <2>3
      <3>3. PICK r : r = Loaded(j)
        OBVIOUS
      <3> QED BY <2>2, <3>1, <3>2, <3>3 DEF Record, Status, Finished
    <2>4. CASE j \in S
      <3>1. j \notin F
        BY <1>2, <2>4
      <3>2. jobs'[j] = [Loaded(j) EXCEPT !.status = "pending", !.cancelRequested = FALSE]
        BY <1>2, <2>1, <2>4, <3>1 DEF Restarted
      <3> QED BY <2>2, <3>1, <3>2 DEF Record, Status
    <2> QED BY <2>3, <2>4
<1>5. ASSUME NEW j \in Jobs \ (F \cup S) PROVE jobs'[j] = NoRecord
  BY <1>2
<1>6. /\ row' \in [Jobs -> Row \cup {NoRecord}]
      /\ unsaved' \in [Jobs -> BOOLEAN]
      /\ \A i \in Jobs \ (F \cup S) : row'[i] = row[i] /\ unsaved'[i] = unsaved[i]
      /\ \A i \in F \cup S :
           /\ unsaved[i] => unsaved'[i]
           /\ row[i] # NoRecord => row'[i] # NoRecord
           /\ ~unsaved'[i] =>
                /\ row'[i] # NoRecord
                /\ row'[i].status = jobs'[i].status
                /\ row'[i].cancelRequested = jobs'[i].cancelRequested
                /\ row'[i].rows = (jobs'[i].rows \/ (row[i] # NoRecord /\ row[i].rows))
  <2>1. PICK J : J = F \cup S
    OBVIOUS
  <2>2. J \in SUBSET Jobs /\ (\A i \in J : jobs'[i] \in Record) /\ Persist(jobs', J)
    BY <1>2, <1>3, <1>4, <2>1
  <2>3. /\ row' \in [Jobs -> Row \cup {NoRecord}]
        /\ unsaved' \in [Jobs -> BOOLEAN]
        /\ \A i \in Jobs \ J : row'[i] = row[i] /\ unsaved'[i] = unsaved[i]
        /\ \A i \in J :
             /\ unsaved[i] => unsaved'[i]
             /\ row[i] # NoRecord => row'[i] # NoRecord
             /\ ~unsaved'[i] =>
                  /\ row'[i] # NoRecord
                  /\ row'[i].status = jobs'[i].status
                  /\ row'[i].cancelRequested = jobs'[i].cancelRequested
                  /\ row'[i].rows = (jobs'[i].rows \/ (row[i] # NoRecord /\ row[i].rows))
    BY <1>1, <2>2, PersistIs
  <2> QED BY <2>1, <2>3
<1>7. TypeOK'
  <2>1. jobs' \in [Jobs -> Record \cup {NoRecord}]
    <3>1. \A j \in Jobs : jobs'[j] \in Record \cup {NoRecord}
      BY <1>4, <1>5
    <3>2. jobs' = [j \in Jobs |-> jobs'[j]]
      BY <1>2
    <3> QED BY <3>1, <3>2
  <2>2. /\ pc' \in [Jobs -> {"none", "check", "work", "commit", "cancel", "fail", "resave",
                             "finally", "done"}]
        /\ stage' \in [Jobs -> 0 .. LastStage] /\ starting' \in [Jobs -> BOOLEAN]
    BY <1>1, <1>2, OptimizationAssumption DEF TypeOK
  <2> QED BY <1>1, <1>6, <2>1, <2>2 DEF TypeOK
<1>8. ASSUME NEW j \in F \cup S PROVE JobInv(j)'
  <2>1. j \in Jobs /\ JobInv(j) /\ j \in Recoverable
    BY <1>3 DEF JobsInv
  <2>2. /\ row[j] # NoRecord /\ row[j] \in Row
        /\ row[j].status \in {"pending", "running"}
        /\ pc[j] = "done"
        /\ unsaved[j] \/ lost[j]
        /\ ~unsaved[j] => "completed" \notin told[j]
    BY <1>1, <2>1, RecoverableIs
  <2>3. jobs'[j] # NoRecord
    BY <1>4, OptimizationAssumption
  <2>4. /\ unsaved[j] => unsaved'[j]
        /\ row'[j] # NoRecord
        /\ ~unsaved'[j] =>
             /\ row'[j].status = jobs'[j].status
             /\ row'[j].cancelRequested = jobs'[j].cancelRequested
    BY <1>6, <2>2
  <2>5. ~unsaved'[j] => row'[j].rows = jobs'[j].rows
    <3>1. ~unsaved'[j] => row'[j].rows = (jobs'[j].rows \/ (row[j] # NoRecord /\ row[j].rows))
      BY <1>6
    <3>2. jobs'[j].rows = row[j].rows /\ jobs'[j].rows \in BOOLEAN
      BY <1>4 DEF Record
    <3> QED BY <3>1, <3>2
  <2>6. /\ pc'[j] = IF j \in S THEN "check" ELSE "done"
        /\ clear'[j] = "none" /\ told'[j] = told[j] /\ lost'[j] = lost[j]
    BY <1>1, <1>2, <2>1, <2>2 DEF JobInv, DownIsEmpty
  <2>7. NewIsBlank(j)' /\ DownIsEmpty(j)' /\ PlacesAreRight(j)'
    BY <1>1, <2>4, <2>6 DEF NewIsBlank, DownIsEmpty, PlacesAreRight
  <2>8. StoredAs(j)'
    BY <2>4, <2>5 DEF StoredAs
  <2>9. jobs'[j].status = IF j \in S THEN "pending" ELSE "failed"
    BY <1>4
  <2>10. ResultIsStored(j)'
    BY <2>2, <2>4, <2>6, <2>9 DEF ResultIsStored, OnDisk
  <2>11. RecordIsThere(j)'
    BY <2>3, <2>4, <2>6, <2>9 DEF RecordIsThere, OnDisk, Finished
  <2>12. EndsAsTold(j)'
    BY <2>2, <2>4, <2>6 DEF EndsAsTold, OnDisk
  <2> QED BY <2>7, <2>8, <2>10, <2>11, <2>12 DEF JobInv
<1>9. ASSUME NEW j \in Jobs \ (F \cup S) PROVE JobInv(j)'
  <2>1. JobInv(j) /\ jobs[j] = NoRecord /\ ~Working(j) /\ clear[j] = "none"
    BY <1>1 DEF JobsInv, JobInv, DownIsEmpty
  <2>2. /\ jobs'[j] = NoRecord /\ row'[j] = row[j] /\ unsaved'[j] = unsaved[j]
        /\ pc'[j] = pc[j] /\ stage'[j] = stage[j] /\ clear'[j] = "none"
        /\ told'[j] = told[j] /\ lost'[j] = lost[j]
    BY <1>1, <1>2, <1>5, <1>6, <2>1
  <2>3. NewIsBlank(j)' /\ DownIsEmpty(j)' /\ StoredAs(j)' /\ PlacesAreRight(j)'
    BY <1>1, <2>1, <2>2 DEF JobInv, NewIsBlank, DownIsEmpty, StoredAs, PlacesAreRight
  <2>4. ResultIsStored(j)'
    BY <2>1, <2>2 DEF JobInv, ResultIsStored, OnDisk
  <2>5. RecordIsThere(j)'
    BY <1>1, <2>1, <2>2 DEF JobInv, RecordIsThere, OnDisk, Working
  <2>6. EndsAsTold(j)'
    BY <2>1, <2>2 DEF JobInv, EndsAsTold, OnDisk, Stopping
  <2> QED BY <2>3, <2>4, <2>5, <2>6 DEF JobInv
<1> QED BY <1>7, <1>8, <1>9 DEF JobsInv

-----------------------------------------------------------------------------
(* OptimizationJobs: the specification.                                    *)

\* No job is known at first.
LEMMA JobsInit == Init => JobsInv
<1> SUFFICES ASSUME Init PROVE JobsInv
  OBVIOUS
<1>1. TypeOK
  BY OptimizationAssumption DEF Init, TypeOK
<1>2. ASSUME NEW j \in Jobs PROVE JobInv(j)
  BY DEF Init, JobInv, NewIsBlank, DownIsEmpty, StoredAs, ResultIsStored, RecordIsThere, EndsAsTold,
         PlacesAreRight, OnDisk, Working
<1> QED BY <1>1, <1>2 DEF JobsInv

\* Every step keeps the invariant.
LEMMA JobsStep == JobsInv /\ [Next]_vars => JobsInv'
<1> SUFFICES ASSUME JobsInv, [Next]_vars PROVE JobsInv'
  OBVIOUS
<1>1. CASE Crash
  BY <1>1, CrashKeeps
<1>2. CASE Recover
  BY <1>2, RecoverKeeps
<1>3. ASSUME NEW j \in Jobs, Client(j) PROVE JobsInv'
  BY <1>3, StartKeeps, StatusKeeps, CancelKeeps, ClearReadKeeps, RestoreKeeps DEF Client
<1>4. ASSUME NEW j \in Jobs, Handler(j) PROVE JobsInv'
  BY <1>4, RegisterKeeps, ClearUpdateKeeps, ClearDropKeeps DEF Handler
<1>5. ASSUME NEW j \in Jobs, Worker(j) PROVE JobsInv'
  BY <1>5, RaiseIfCancelledKeeps, WorkKeeps, CommitKeeps, EndWithoutKeeps, ResaveKeeps, FinallyKeeps
     DEF Worker
<1>6. CASE UNCHANGED vars
  <2>1. UNCHANGED <<up, crashes, jobs, row, pc, stage, starting, handle, clear, told, cleared, lost,
                    unsaved>>
    BY <1>6 DEF vars
  <2>2. TypeOK'
    BY <2>1 DEF JobsInv, TypeOK
  <2>3. ASSUME NEW j \in Jobs PROVE JobInv(j)'
    BY <2>1, OtherKeeps DEF JobsInv
  <2> QED BY <2>2, <2>3 DEF JobsInv
<1> QED BY <1>1, <1>2, <1>3, <1>4, <1>5, <1>6 DEF Next

\* The invariant has the properties: a client that was told COMPLETED and something else besides, of a job
\* with its record and its saves, would have been told of a job that was to end without a result.
LEMMA JobsInvSuffices == JobsInv => JobsAreDurable
<1> SUFFICES ASSUME JobsInv PROVE JobsAreDurable
  OBVIOUS
<1>1. TypeOK
  BY DEF JobsInv
<1>2. RecordIsStored
  BY DEF JobsInv, JobInv, StoredAs, RecordIsStored
<1>3. CompletedIsDurable
  BY DEF JobsInv, JobInv, ResultIsStored, OnDisk, CompletedIsDurable
<1>4. OneAnswerUnlessLost
  <2> SUFFICES ASSUME NEW j \in Jobs, "completed" \in told[j], ~lost[j], ~unsaved[j]
               PROVE  told[j] = {"completed"}
    BY DEF OneAnswerUnlessLost
  <2>1. JobInv(j) /\ told[j] \in SUBSET {"completed", "failed", "cancelled"}
    BY <1>1 DEF JobsInv, TypeOK, Finished
  <2>2. OnDisk(j) /\ row[j].status = "completed"
    BY <2>1 DEF JobInv, ResultIsStored, OnDisk
  <2>3. told[j] \cap {"cancelled", "failed"} = {}
    BY <2>1, <2>2 DEF JobInv, EndsAsTold
  <2> QED BY <2>1, <2>3
<1>5. UnfinishedHasThread
  <2> SUFFICES ASSUME NEW j \in Jobs, crashes = 0, ~unsaved[j], jobs[j] # NoRecord,
                      jobs[j].status \notin Finished
               PROVE  Working(j)
    BY DEF UnfinishedHasThread
  <2>1. JobInv(j)
    BY DEF JobsInv
  <2>2. OnDisk(j) /\ row[j].status \notin Finished
    BY <2>1 DEF JobInv, StoredAs, OnDisk
  <2> QED BY <2>1, <2>2 DEF JobInv, RecordIsThere, Working
<1> QED BY <1>1, <1>2, <1>3, <1>4, <1>5 DEF JobsAreDurable

\* Whatever dies, fails to save, is cleared, restored, cancelled or polled, for any number of jobs, pieces of
\* work and crashes: what the registry knows is on disk, a result that a client was told of stays there and is
\* never run again, a job has one answer, and an unfinished record has its thread - each with the exceptions the
\* properties name.
THEOREM JobsDurable == Spec => []JobsAreDurable
<1>1. Init => JobsInv
  BY JobsInit
<1>2. JobsInv /\ [Next]_vars => JobsInv'
  BY JobsStep
<1>3. JobsInv => JobsAreDurable
  BY JobsInvSuffices
<1> QED BY <1>1, <1>2, <1>3, PTL DEF Spec

-----------------------------------------------------------------------------
(* CombinationEvaluator: the invariant.                                    *)

State == {"none", "queued", "computing", "ready", "emitted", "lost"}

\* The types the proof needs.
Shaped ==
  /\ mode \in [Runs -> {"new", "pool", "executor"} \cup Ended]
  /\ todo \in [Runs -> SUBSET Rows]
  /\ task \in [Runs -> [Rows -> State]]
  /\ basis \in [Runs -> [Rows -> SUBSET (Runs \cup {Nobody})]]
  /\ results \in [Runs -> Seq(Rows)]
  /\ noticed \in [Runs -> Int]
  /\ globals \in Runs \cup {Nobody}

\* While a job runs, and when it has returned, each row has one place.
PlacesAre(j) ==
  /\ mode[j] = "new" => todo[j] = Rows
  /\ mode[j] \in {"new", "pool", "executor", "returned"} =>
       \A r \in Rows : /\ task[j][r] = "none" <=> r \in todo[j]
                       /\ task[j][r] = "emitted" <=> r \in Seen(j)

ReturnedIsDone(j) == mode[j] = "returned" => \A r \in Rows : task[j][r] = "emitted"

NoRowTwice(j) == \A a, b \in 1..Len(results[j]) : results[j][a] = results[j][b] => a = b

\* A job that alone has threads finds the globals its own.
GlobalsAreOwn(j) ==
  mode[j] = "executor" /\ j \notin overlap =>
    globals = j /\ \A i \in Runs \ {j} : mode[i] # "executor"

BasisIsOwn(j) ==
  j \notin overlap =>
    \A r \in Rows : r \in Seen(j) \/ (mode[j] \notin Ended /\ task[j][r] \in {"computing", "ready"})
                      => basis[j][r] = {j}

\* Once the hook has raised, the pool is gone, and the next result ends the threads.
NoticedStops(j) ==
  noticed[j] # -1 =>
    \/ mode[j] = "executor" /\ j \in cancelled /\ Len(results[j]) <= noticed[j]
    \/ mode[j] \in Ended /\ Len(results[j]) <= noticed[j] + 1

Inv(j) ==
  /\ PlacesAre(j) /\ ReturnedIsDone(j) /\ NoRowTwice(j)
  /\ GlobalsAreOwn(j) /\ BasisIsOwn(j) /\ NoticedStops(j)

IInv == Shaped /\ \A j \in Runs : Inv(j)

-----------------------------------------------------------------------------
(* Sequences and the operators                                             *)

\* A sequence that has every element of a set, and none twice, is as long as the set is large.
LEMMA EachOnce ==
  ASSUME NEW S, NEW s \in Seq(S), S \subseteq Range(s),
         \A a, b \in 1..Len(s) : s[a] = s[b] => a = b
  PROVE  Range(s) = S /\ Len(s) = Cardinality(S)
<1>1. s \in [1..Len(s) -> S] /\ DOMAIN s = 1..Len(s) /\ Len(s) \in Nat
  OBVIOUS
<1>2. Range(s) = S
  BY <1>1 DEF Range
<1>3. s \in Bijection(1..Len(s), S)
  BY <1>1, <1>2 DEF Bijection, Injection, Surjection, IsInjective, Range
<1>4. IsFiniteSet(1..Len(s)) /\ Cardinality(1..Len(s)) = Len(s)
  <2> DEFINE n == Len(s)
  <2>1. PICK one \in Int : one = 1
    OBVIOUS
  <2>2. n \in Int /\ n >= 0
    BY <1>1
  <2> HIDE DEF n
  <2>3. IsFiniteSet(one..n) /\ Cardinality(one..n) = IF one > n THEN 0 ELSE n - one + 1
    BY <2>2, FS_Interval
  <2>4. IsFiniteSet(1..n) /\ Cardinality(1..n) = n
    BY <2>1, <2>2, <2>3
  <2> QED
    BY <2>4 DEF n
<1>5. ExistsBijection(1..Len(s), S)
  BY <1>3 DEF ExistsBijection
<1>6. Cardinality(S) = Cardinality(1..Len(s))
  BY <1>4, <1>5, FS_Bijection
<1> QED
  BY <1>2, <1>4, <1>6

\* A row that was not there before is appended.
LEMMA OneMore ==
  ASSUME NEW s \in Seq(Rows), NEW r \in Rows, r \notin Range(s),
         \A a, b \in 1..Len(s) : s[a] = s[b] => a = b
  PROVE  LET t == Append(s, r) IN
         /\ t \in Seq(Rows) /\ Len(t) = Len(s) + 1 /\ Range(t) = Range(s) \cup {r}
         /\ \A a, b \in 1..Len(t) : t[a] = t[b] => a = b
<1> DEFINE t == Append(s, r)
<1>1. /\ t \in Seq(Rows) /\ Len(t) = Len(s) + 1 /\ Len(s) \in Nat /\ t[Len(s) + 1] = r
      /\ \A a \in 1..Len(s) : t[a] = s[a]
      /\ DOMAIN t = 1..(Len(s) + 1) /\ DOMAIN s = 1..Len(s)
  OBVIOUS
<1> HIDE DEF t
<1>2. Range(t) = Range(s) \cup {r}
  BY <1>1 DEF Range
<1>3. \A a \in 1..Len(s) : s[a] \in Range(s)
  BY <1>1 DEF Range
<1>4. \A a, b \in 1..Len(t) : t[a] = t[b] => a = b
  BY <1>1, <1>3
<1> QED
  BY <1>1, <1>2, <1>4 DEF t

-----------------------------------------------------------------------------
(* A step of one job, and the others                                       *)

\* What a step of a job leaves of the others.
Others(j) ==
  \A i \in Runs \ {j} :
    /\ mode'[i] = mode[i] /\ todo'[i] = todo[i] /\ task'[i] = task[i] /\ basis'[i] = basis[i]
    /\ results'[i] = results[i] /\ noticed'[i] = noticed[i]

\* Threads that begin are counted; without them the globals stay.
Threads(j) ==
  \/ UNCHANGED <<globals, overlap>> /\ (mode'[j] = "executor" => mode[j] = "executor")
  \/ mode'[j] = "executor" /\ InitThreads(j)

\* The others keep what they have.
LEMMA OthersKeep ==
  ASSUME IInv, NEW j \in Runs, Others(j), Threads(j), cancelled \subseteq cancelled',
         NEW i \in Runs \ {j}
  PROVE  Inv(i)'
<1>1. Inv(i)
  BY DEF IInv
<1>2. overlap \subseteq overlap'
  BY DEF Threads, InitThreads
<1>3. PlacesAre(i)' /\ ReturnedIsDone(i)' /\ NoRowTwice(i)' /\ BasisIsOwn(i)' /\ NoticedStops(i)'
  BY <1>1, <1>2 DEF Inv, Others, PlacesAre, ReturnedIsDone, NoRowTwice, BasisIsOwn, NoticedStops, Seen
<1>4. GlobalsAreOwn(i)'
  <2> SUFFICES ASSUME mode[i] = "executor", i \notin overlap'
               PROVE  globals' = i /\ \A k \in Runs \ {i} : mode'[k] # "executor"
    BY DEF Others, GlobalsAreOwn
  <2>1. globals = i /\ \A k \in Runs \ {i} : mode[k] # "executor"
    BY <1>1, <1>2 DEF Inv, GlobalsAreOwn
  <2>2. ~InitThreads(j)
    BY DEF InitThreads
  <2> QED
    BY <2>1, <2>2 DEF Threads, Others
<1> QED
  BY <1>3, <1>4 DEF Inv

\* A step of a job that keeps the types and what is known of the job.
LEMMA JobStep ==
  ASSUME IInv, NEW j \in Runs, Shaped', Inv(j)', Others(j), Threads(j), cancelled \subseteq cancelled'
  PROVE  IInv'
BY OthersKeep DEF IInv

\* Threads that begin while no other job has any find their own globals.
LEMMA ThreadsOwn ==
  ASSUME IInv, NEW j \in Runs, Others(j), mode'[j] = "executor", InitThreads(j)
  PROVE  GlobalsAreOwn(j)'
<1>1. j \notin overlap' => \A i \in Runs \ {j} : mode[i] # "executor"
  BY DEF InitThreads
<1> QED
  BY <1>1 DEF GlobalsAreOwn, InitThreads, GlobalsFor, Others

-----------------------------------------------------------------------------
(* The actions                                                             *)

\* A job begins, with a pool or with threads.
LEMMA EnterStep ==
  ASSUME IInv, NEW j \in Runs, EnterPool(j) \/ EnterThreads(j)
  PROVE  IInv'
<1>1. PICK next \in {"pool", "executor"} :
        /\ mode[j] = "new" /\ mode' = [mode EXCEPT ![j] = next]
        /\ UNCHANGED <<todo, task, basis, results, cancelled, noticed>>
        /\ \/ next = "executor" /\ InitThreads(j)
           \/ next = "pool" /\ UNCHANGED <<globals, overlap>>
  BY DEF EnterPool, EnterThreads
<1>2. mode'[j] = next /\ globals' \in Runs \cup {Nobody}
  BY <1>1 DEF IInv, Shaped, InitThreads, GlobalsFor
<1>3. Shaped' /\ Others(j) /\ Threads(j)
  BY <1>1, <1>2 DEF IInv, Shaped, Others, Threads
<1>4. Inv(j) /\ overlap \subseteq overlap'
  BY <1>1 DEF IInv, InitThreads
<1>5. PlacesAre(j)' /\ ReturnedIsDone(j)' /\ NoRowTwice(j)' /\ NoticedStops(j)'
  BY <1>1, <1>2, <1>4 DEF Inv, PlacesAre, ReturnedIsDone, NoRowTwice, NoticedStops, Seen, Ended
<1>6. BasisIsOwn(j)'
  BY <1>1, <1>2, <1>4 DEF Inv, BasisIsOwn, Seen, Ended
<1>7. GlobalsAreOwn(j)'
  BY <1>1, <1>2, <1>3, ThreadsOwn DEF GlobalsAreOwn
<1> QED
  BY <1>1, <1>3, <1>5, <1>6, <1>7, JobStep DEF Inv

\* A batch is submitted.
LEMMA SubmitStep ==
  ASSUME IInv, NEW j \in Runs, Submit(j)
  PROVE  IInv'
<1>1. /\ mode[j] \in {"pool", "executor"}
      /\ task' = [task EXCEPT ![j] = [r \in Rows |-> IF r \in Batch(j) THEN "queued" ELSE @[r]]]
      /\ todo' = [todo EXCEPT ![j] = @ \ Batch(j)]
      /\ UNCHANGED <<mode, basis, results, cancelled, globals, noticed, overlap>>
  BY DEF Submit
<1>2. Batch(j) \subseteq todo[j] /\ todo[j] \subseteq Rows
  BY DEF Batch, IInv, Shaped
<1>3. /\ \A r \in Rows : task'[j][r] = IF r \in Batch(j) THEN "queued" ELSE task[j][r]
      /\ todo'[j] = todo[j] \ Batch(j)
  BY <1>1 DEF IInv, Shaped
<1>4. Shaped' /\ Others(j) /\ Threads(j)
  BY <1>1 DEF IInv, Shaped, Others, Threads, State
<1>5. Inv(j)
  BY DEF IInv
<1>6. PlacesAre(j)'
  BY <1>1, <1>2, <1>3, <1>5 DEF Inv, PlacesAre, Seen
<1>7. BasisIsOwn(j)'
  BY <1>1, <1>3, <1>5 DEF Inv, BasisIsOwn, Seen
<1>8. ReturnedIsDone(j)' /\ NoRowTwice(j)' /\ GlobalsAreOwn(j)' /\ NoticedStops(j)'
  BY <1>1, <1>5 DEF Inv, ReturnedIsDone, NoRowTwice, GlobalsAreOwn, NoticedStops
<1> QED
  BY <1>1, <1>4, <1>6, <1>7, <1>8, JobStep DEF Inv

\* A row goes on in its worker, or is lost with it.
LEMMA WorkStep ==
  ASSUME IInv, NEW j \in Runs, NEW r \in Rows, Begin(j, r) \/ Score(j, r) \/ WorkerDies(j, r)
  PROVE  IInv'
<1>1. PICK next \in {"computing", "ready", "lost"} :
        /\ mode[j] \notin Ended /\ task[j][r] \in {"queued", "computing"}
        /\ task' = [task EXCEPT ![j][r] = next]
        /\ UNCHANGED <<mode, todo, results, cancelled, globals, noticed, overlap>>
  BY DEF Begin, Score, WorkerDies, Ended
<1>2. PICK own \in {{j}, {globals}} :
        /\ own = IF mode[j] = "pool" THEN {j} ELSE {globals}
        /\ \/ basis' = [basis EXCEPT ![j][r] = own]
           \/ task[j][r] = "computing" /\ basis' = [basis EXCEPT ![j][r] = @ \cup own]
           \/ task'[j][r] = "lost" /\ basis' = basis
  BY DEF Begin, Score, WorkerDies, IInv, Shaped
<1>3. Inv(j) /\ mode[j] \in {"new", "pool", "executor"}
  BY <1>1 DEF IInv, Shaped
<1>4. /\ \A s \in Rows : task'[j][s] = IF s = r THEN next ELSE task[j][s]
      /\ \A s \in Rows \ {r} : basis'[j][s] = basis[j][s]
  BY <1>1, <1>2 DEF IInv, Shaped
<1>5. Shaped' /\ Others(j) /\ Threads(j)
  <2>1. task' \in [Runs -> [Rows -> State]]
    BY <1>1 DEF IInv, Shaped, State
  <2>2. own \in SUBSET (Runs \cup {Nobody})
    BY <1>2 DEF IInv, Shaped
  <2>3. basis' \in [Runs -> [Rows -> SUBSET (Runs \cup {Nobody})]]
    <3>1. basis \in [Runs -> [Rows -> SUBSET (Runs \cup {Nobody})]]
      BY DEF IInv, Shaped
    <3>2. basis[j][r] \cup own \in SUBSET (Runs \cup {Nobody})
      BY <2>2, <3>1
    <3> QED
      BY <1>2, <2>2, <3>1, <3>2
  <2>4. Others(j) /\ Threads(j)
    BY <1>1, <1>2 DEF IInv, Shaped, Others, Threads
  <2> QED
    BY <1>1, <2>1, <2>3, <2>4 DEF IInv, Shaped
<1>6. PlacesAre(j)'
  BY <1>1, <1>3, <1>4 DEF Inv, PlacesAre, Seen
<1>7. BasisIsOwn(j)'
  <2> SUFFICES ASSUME j \notin overlap, NEW s \in Rows,
                      s \in Seen(j) \/ task'[j][s] \in {"computing", "ready"}
               PROVE  basis'[j][s] = {j}
    BY <1>1 DEF BasisIsOwn, Seen
  <2>1. s \in Seen(j) \/ task[j][s] \in {"computing", "ready"} => basis[j][s] = {j}
    BY <1>1, <1>3 DEF Inv, BasisIsOwn
  <2>2. CASE s # r
    BY <1>4, <2>1, <2>2
  <2>3. CASE s = r
    <3>1. r \notin Seen(j)
      BY <1>1, <1>3 DEF Inv, PlacesAre
    <3>2. own = {j}
      <4>1. mode[j] = "executor" => globals = j
        BY <1>3 DEF Inv, GlobalsAreOwn
      <4>2. mode[j] # "new"
        BY <1>1, <1>3 DEF Inv, PlacesAre
      <4> QED
        BY <1>2, <1>3, <4>1, <4>2
    <3>3. task'[j][r] # "lost"
      BY <2>3, <3>1
    <3>4. \/ basis'[j][r] = own
          \/ task[j][r] = "computing" /\ basis'[j][r] = basis[j][r] \cup own
      <4>1. basis \in [Runs -> [Rows -> SUBSET (Runs \cup {Nobody})]]
        BY DEF IInv, Shaped
      <4>2. CASE basis' = [basis EXCEPT ![j][r] = own]
        BY <4>1, <4>2
      <4>3. CASE task[j][r] = "computing" /\ basis' = [basis EXCEPT ![j][r] = @ \cup own]
        BY <4>1, <4>3
      <4> QED
        BY <1>2, <3>3, <4>2, <4>3
    <3> QED
      BY <2>1, <2>3, <3>2, <3>4
  <2> QED
    BY <2>2, <2>3
<1>8. ReturnedIsDone(j)' /\ NoRowTwice(j)' /\ GlobalsAreOwn(j)' /\ NoticedStops(j)'
  BY <1>1, <1>3 DEF Inv, ReturnedIsDone, NoRowTwice, GlobalsAreOwn, NoticedStops
<1> QED
  BY <1>1, <1>5, <1>6, <1>7, <1>8, JobStep DEF Inv

\* The pool has failed: with its results, the threads begin, or the job ends.
LEMMA FailStep ==
  ASSUME IInv, NEW j \in Runs, mode[j] = "pool", UNCHANGED <<basis, cancelled>>,
         results' \in [Runs -> Seq(Rows)], noticed' \in [Runs -> Int],
         \A i \in Runs \ {j} : results'[i] = results[i] /\ noticed'[i] = noticed[i],
         Failed(j, Seen(j)'), NoRowTwice(j)',
         j \notin overlap => \A r \in Seen(j)' : basis[j][r] = {j},
         noticed'[j] = -1 \/ (j \in cancelled /\ Len(results'[j]) <= noticed'[j])
  PROVE  IInv'
<1>1. \/ /\ mode' = [mode EXCEPT ![j] = "executor"] /\ InitThreads(j)
         /\ todo' = [todo EXCEPT ![j] = Rows \ Seen(j)']
         /\ task' = [task EXCEPT ![j] = [r \in Rows |-> IF r \in Seen(j)' THEN "emitted" ELSE "none"]]
      \/ mode' = [mode EXCEPT ![j] = "failed"] /\ UNCHANGED <<todo, task, globals, overlap>>
  BY DEF Failed, Pending
<1>2. Shaped' /\ Others(j) /\ Threads(j)
  <2>1. CASE mode' = [mode EXCEPT ![j] = "failed"] /\ UNCHANGED <<todo, task, globals, overlap>>
    BY <2>1 DEF IInv, Shaped, Others, Threads, Ended
  <2>2. CASE ~(mode' = [mode EXCEPT ![j] = "failed"] /\ UNCHANGED <<todo, task, globals, overlap>>)
    <3>1. /\ mode' \in [Runs -> {"new", "pool", "executor"} \cup Ended] /\ mode'[j] = "executor"
          /\ todo' \in [Runs -> SUBSET Rows] /\ task' \in [Runs -> [Rows -> State]]
          /\ InitThreads(j)
      <4>1. /\ mode' = [mode EXCEPT ![j] = "executor"] /\ InitThreads(j)
            /\ todo' = [todo EXCEPT ![j] = Rows \ Seen(j)']
            /\ task' = [task EXCEPT ![j] = [r \in Rows |->
                                             IF r \in Seen(j)' THEN "emitted" ELSE "none"]]
        BY <1>1, <2>2
      <4>2. [r \in Rows |-> IF r \in Seen(j)' THEN "emitted" ELSE "none"] \in [Rows -> State]
        BY DEF State
      <4>3. task' \in [Runs -> [Rows -> State]]
        BY <4>1, <4>2 DEF IInv, Shaped
      <4>4. mode \in [Runs -> {"new", "pool", "executor"} \cup Ended] /\ todo \in [Runs -> SUBSET Rows]
        BY DEF IInv, Shaped
      <4> QED
        BY <4>1, <4>3, <4>4
    <3>2. globals' = j
      BY <3>1 DEF InitThreads, GlobalsFor
    <3>3. Others(j)
      BY <1>1, <2>2 DEF IInv, Shaped, Others
    <3> QED
      BY <3>1, <3>2, <3>3 DEF IInv, Shaped, Threads
  <2> QED
    BY <2>1, <2>2
<1>3. overlap \subseteq overlap' /\ mode'[j] \in {"executor", "failed"}
  BY <1>1 DEF InitThreads, IInv, Shaped
<1>4. PlacesAre(j)' /\ ReturnedIsDone(j)'
  BY <1>1, <1>3 DEF PlacesAre, ReturnedIsDone, IInv, Shaped
<1>5. BasisIsOwn(j)'
  BY <1>1, <1>3 DEF BasisIsOwn, IInv, Shaped, Ended
<1>6. GlobalsAreOwn(j)'
  BY <1>1, <1>2, <1>3, ThreadsOwn DEF GlobalsAreOwn, IInv, Shaped
<1>7. NoticedStops(j)'
  <2>1. Len(results'[j]) \in Nat /\ noticed'[j] \in Int
    OBVIOUS
  <2> QED
    BY <1>3, <2>1 DEF NoticedStops, Ended
<1> QED
  BY <1>2, <1>4, <1>5, <1>6, <1>7, JobStep DEF Inv

\* The pool raises on its own.
LEMMA PoolStep ==
  ASSUME IInv, NEW j \in Runs, PoolRaises(j)
  PROVE  IInv'
<1>1. mode[j] = "pool" /\ Failed(j, Seen(j)) /\ UNCHANGED <<basis, results, cancelled, noticed>>
  BY DEF PoolRaises
<1>2. Seen(j)' = Seen(j)
  BY <1>1 DEF Seen
<1>3. Inv(j) /\ Shaped /\ Seen(j) \subseteq Rows
  BY DEF IInv, Seen, Range, Shaped
<1>4. NoRowTwice(j)' /\ (j \notin overlap => \A r \in Seen(j)' : basis[j][r] = {j})
  BY <1>1, <1>2, <1>3 DEF Inv, NoRowTwice, BasisIsOwn
<1>5. noticed'[j] = -1
  BY <1>1, <1>3 DEF Inv, NoticedStops, Ended
<1>6. Failed(j, Seen(j)')
  BY <1>1, <1>2
<1> QED
  BY <1>1, <1>3, <1>4, <1>5, <1>6, FailStep DEF Shaped

\* A result comes, and the hook may raise.
LEMMA EmitStep ==
  ASSUME IInv, NEW j \in Runs, NEW r \in Rows, Emit(j, r)
  PROVE  IInv'
<1>1. /\ mode[j] \in {"pool", "executor"} /\ task[j][r] = "ready" /\ UNCHANGED <<basis, cancelled>>
      /\ results' = [results EXCEPT ![j] = IF r \in Seen(j) THEN @ ELSE Append(@, r)]
  BY DEF Emit, IsNext
<1>2. Inv(j) /\ Shaped /\ Seen(j) \subseteq Rows
  BY DEF IInv, Seen, Range, Shaped
<1>3. r \notin Seen(j)
  BY <1>1, <1>2 DEF Inv, PlacesAre
<1>4. results'[j] = Append(results[j], r) /\ \A i \in Runs \ {j} : results'[i] = results[i]
  BY <1>1, <1>2, <1>3 DEF Shaped
<1>5. /\ results'[j] \in Seq(Rows) /\ Len(results'[j]) = Len(results[j]) + 1
      /\ Seen(j)' = Seen(j) \cup {r} /\ NoRowTwice(j)'
  <2>1. results[j] \in Seq(Rows) /\ r \notin Range(results[j])
    BY <1>2, <1>3 DEF Seen, Shaped
  <2>2. \A a, b \in 1..Len(results[j]) : results[j][a] = results[j][b] => a = b
    BY <1>2 DEF Inv, NoRowTwice
  <2>3. PICK new : new = Append(results[j], r)
    OBVIOUS
  <2>4. /\ new \in Seq(Rows) /\ Len(new) = Len(results[j]) + 1
        /\ Range(new) = Range(results[j]) \cup {r}
        /\ \A a, b \in 1..Len(new) : new[a] = new[b] => a = b
    BY <2>1, <2>2, <2>3, OneMore
  <2>5. results'[j] = new
    BY <1>4, <2>3
  <2> QED
    BY <2>4, <2>5 DEF NoRowTwice, Seen
<1>6. results' \in [Runs -> Seq(Rows)]
  BY <1>1, <1>2, <1>4, <1>5 DEF Shaped
<1>7. j \notin overlap => \A s \in Seen(j)' : basis[j][s] = {j}
  BY <1>1, <1>2, <1>5 DEF Inv, BasisIsOwn, Ended
<1>8. Len(results[j]) \in Nat
  BY <1>2 DEF Shaped
<1>9. CASE j \in cancelled
  <2>1. /\ noticed' = [noticed EXCEPT ![j] = IF @ = -1 THEN Len(results[j]) + 1 ELSE @]
        /\ \/ mode[j] = "pool" /\ Failed(j, Seen(j) \cup {r})
           \/ /\ mode[j] = "executor" /\ mode' = [mode EXCEPT ![j] = "cancelled"]
              /\ UNCHANGED <<todo, task, globals, overlap>>
    BY <1>1, <1>9 DEF Emit, HookRaises
  <2>2. /\ noticed' \in [Runs -> Int] /\ \A i \in Runs \ {j} : noticed'[i] = noticed[i]
        /\ noticed'[j] = IF noticed[j] = -1 THEN Len(results[j]) + 1 ELSE noticed[j]
    BY <1>2, <1>8, <2>1 DEF Shaped
  <2>3. CASE mode[j] = "pool"
    <3>1. noticed[j] = -1
      BY <1>2, <2>3 DEF Inv, NoticedStops, Ended
    <3>2. Len(results'[j]) <= noticed'[j]
      BY <1>5, <1>8, <2>2, <3>1
    <3>3. Failed(j, Seen(j)')
      BY <1>5, <2>1, <2>3
    <3> QED
      BY <1>1, <1>4, <1>5, <1>6, <1>7, <1>9, <2>2, <2>3, <3>2, <3>3, FailStep
  <2>4. CASE mode[j] = "executor"
    <3>1. mode' = [mode EXCEPT ![j] = "cancelled"] /\ UNCHANGED <<todo, task, globals, overlap>>
      BY <2>1, <2>4
    <3>2. Shaped' /\ Others(j) /\ Threads(j) /\ mode'[j] = "cancelled"
      BY <1>1, <1>2, <1>4, <1>6, <2>2, <3>1 DEF Shaped, Others, Threads, Ended
    <3>3. PlacesAre(j)' /\ ReturnedIsDone(j)' /\ GlobalsAreOwn(j)'
      BY <3>2 DEF PlacesAre, ReturnedIsDone, GlobalsAreOwn
    <3>4. BasisIsOwn(j)'
      BY <1>1, <1>7, <3>1, <3>2 DEF BasisIsOwn, Ended
    <3>5. NoticedStops(j)'
      <4>1. noticed[j] # -1 => Len(results[j]) <= noticed[j]
        BY <1>2, <2>4 DEF Inv, NoticedStops, Ended
      <4>2. noticed[j] \in Int
        BY <1>2 DEF Shaped
      <4> QED
        BY <1>5, <1>8, <2>2, <3>2, <4>1, <4>2 DEF NoticedStops, Ended
    <3> QED
      BY <1>1, <1>5, <3>2, <3>3, <3>4, <3>5, JobStep DEF Inv
  <2> QED
    BY <1>1, <2>3, <2>4
<1>10. CASE j \notin cancelled
  <2>1. task' = [task EXCEPT ![j][r] = "emitted"] /\ UNCHANGED <<mode, todo, globals, noticed, overlap>>
    BY <1>10 DEF Emit, HookRaises
  <2>2. \A s \in Rows : task'[j][s] = IF s = r THEN "emitted" ELSE task[j][s]
    BY <1>2, <2>1 DEF Shaped
  <2>3. Shaped' /\ Others(j) /\ Threads(j)
    BY <1>1, <1>2, <1>4, <1>6, <2>1 DEF Shaped, Others, Threads, State
  <2>4. PlacesAre(j)' /\ ReturnedIsDone(j)'
    BY <1>1, <1>2, <1>5, <2>1, <2>2 DEF Inv, PlacesAre, ReturnedIsDone
  <2>5. BasisIsOwn(j)'
    BY <1>1, <1>2, <1>7, <2>1, <2>2 DEF Inv, BasisIsOwn
  <2>6. GlobalsAreOwn(j)' /\ NoticedStops(j)'
    BY <1>1, <1>2, <1>10, <2>1 DEF Inv, GlobalsAreOwn, NoticedStops, Ended
  <2> QED
    BY <1>1, <1>5, <2>3, <2>4, <2>5, <2>6, JobStep DEF Inv
<1> QED
  BY <1>9, <1>10

\* A run returns when all its rows are in the results.
LEMMA ReturnStep ==
  ASSUME IInv, NEW j \in Runs, Return(j)
  PROVE  IInv'
<1>1. /\ mode[j] \in {"pool", "executor"} /\ todo[j] = {} /\ mode' = [mode EXCEPT ![j] = "returned"]
      /\ UNCHANGED <<todo, task, basis, results, cancelled, globals, noticed, overlap>>
      /\ \A r \in Rows : task[j][r] \notin {"queued", "computing", "ready", "lost"}
  BY DEF Return, InState
<1>2. Inv(j) /\ Shaped
  BY DEF IInv
<1>3. Shaped' /\ Others(j) /\ Threads(j) /\ mode'[j] = "returned"
  BY <1>1, <1>2 DEF Shaped, Others, Threads, Ended
<1>4. PlacesAre(j)' /\ NoRowTwice(j)' /\ GlobalsAreOwn(j)'
  BY <1>1, <1>2, <1>3 DEF Inv, PlacesAre, NoRowTwice, GlobalsAreOwn, Seen
<1>5. ReturnedIsDone(j)'
  BY <1>1, <1>2 DEF Inv, PlacesAre, ReturnedIsDone, Shaped, State
<1>6. BasisIsOwn(j)'
  BY <1>1, <1>2, <1>3 DEF Inv, BasisIsOwn, Seen, Ended
<1>7. NoticedStops(j)'
  <2>1. Len(results[j]) \in Nat /\ noticed[j] \in Int
    BY <1>2 DEF Shaped
  <2> QED
    BY <1>1, <1>2, <1>3, <2>1 DEF Inv, NoticedStops, Ended
<1> QED
  BY <1>1, <1>3, <1>4, <1>5, <1>6, <1>7, JobStep DEF Inv

\* A client cancels.
LEMMA CancelStep ==
  ASSUME IInv, NEW j \in Runs, Cancel(j)
  PROVE  IInv'
<1>1. /\ cancelled \subseteq cancelled'
      /\ UNCHANGED <<mode, todo, task, basis, results, globals, noticed, overlap>>
  BY DEF Cancel
<1>2. Shaped' /\ Others(j) /\ Threads(j) /\ Inv(j)
  BY <1>1 DEF IInv, Shaped, Others, Threads
<1>3. Inv(j)'
  BY <1>1, <1>2 DEF Inv, PlacesAre, ReturnedIsDone, NoRowTwice, GlobalsAreOwn, BasisIsOwn,
                    NoticedStops, Seen
<1> QED
  BY <1>1, <1>2, <1>3, JobStep

-----------------------------------------------------------------------------
(* The invariant                                                           *)

\* Nothing has begun.
LEMMA InitIInv == RunInit => IInv
<1> SUFFICES ASSUME RunInit PROVE IInv
  OBVIOUS
<1>1. Shaped
  BY DEF RunInit, Shaped, State
<1>2. ASSUME NEW j \in Runs PROVE Inv(j)
  <2>1. /\ mode[j] = "new" /\ todo[j] = Rows /\ results[j] = << >> /\ noticed[j] = -1
        /\ \A r \in Rows : task[j][r] = "none"
    BY DEF RunInit
  <2>2. Seen(j) = {} /\ Len(results[j]) = 0
    BY <2>1 DEF Seen, Range
  <2> QED
    BY <2>1, <2>2 DEF Inv, PlacesAre, ReturnedIsDone, NoRowTwice, GlobalsAreOwn, BasisIsOwn,
                      NoticedStops
<1> QED
  BY <1>1, <1>2 DEF IInv

\* One lemma an action.
LEMMA StepIInv == IInv /\ [RunNext]_runVars => IInv'
<1> SUFFICES ASSUME IInv, [RunNext]_runVars PROVE IInv'
  OBVIOUS
<1>1. CASE UNCHANGED runVars
  BY <1>1 DEF runVars, IInv, Shaped, Inv, PlacesAre, ReturnedIsDone, NoRowTwice, GlobalsAreOwn,
              BasisIsOwn, NoticedStops, Seen
<1>2. ASSUME NEW j \in Runs, EnterPool(j) \/ EnterThreads(j) \/ Submit(j) \/ Return(j)
                             \/ PoolRaises(j) \/ Cancel(j)
      PROVE  IInv'
  BY <1>2, EnterStep, SubmitStep, ReturnStep, PoolStep, CancelStep
<1>3. ASSUME NEW j \in Runs, NEW r \in Rows,
             Begin(j, r) \/ Score(j, r) \/ Emit(j, r) \/ WorkerDies(j, r)
      PROVE  IInv'
  BY <1>3, WorkStep, EmitStep
<1> QED
  BY <1>1, <1>2, <1>3 DEF RunNext, Step, AllEnded

\* What a run returns has every row once, computed with the job's own data unless two jobs had
\* threads at once, and at most one result comes after a cancellation was noticed.
THEOREM RowsComplete == RunSpec => []RowsAreComplete
<1>1. IInv => RowsAreComplete
  <2> SUFFICES ASSUME IInv PROVE RowsAreComplete
    OBVIOUS
  <2>1. ExactlyOnce
    <3> SUFFICES ASSUME NEW j \in Runs, mode[j] = "returned"
                 PROVE  Seen(j) = Rows /\ Len(results[j]) = Cardinality(Rows)
      BY DEF ExactlyOnce
    <3>1. Rows \subseteq Seen(j)
      BY DEF IInv, Inv, ReturnedIsDone, PlacesAre
    <3>2. results[j] \in Seq(Rows) /\ NoRowTwice(j)
      BY DEF IInv, Inv, Shaped
    <3> QED
      BY <3>1, <3>2, EachOnce DEF Seen, NoRowTwice
  <2>2. OwnData
    <3>1. \A j \in Runs : Seen(j) \subseteq Rows
      BY DEF Seen, Range, IInv, Shaped
    <3> QED
      BY <3>1 DEF OwnData, IInv, Inv, BasisIsOwn
  <2>3. StopsSoon
    <3>1. \A j \in Runs : Len(results[j]) \in Nat /\ noticed[j] \in Int
      BY DEF IInv, Shaped
    <3> QED
      BY <3>1 DEF StopsSoon, IInv, Inv, NoticedStops
  <2> QED
    BY <2>1, <2>2, <2>3 DEF RowsAreComplete
<1>2. RunSpec => []IInv
  BY InitIInv, StepIInv, PTL DEF RunSpec
<1> QED
  BY <1>1, <1>2, PTL

-----------------------------------------------------------------------------
(* Induction, as the least element of a set of numbers.                    *)

\* A set of numbers that is not empty has a least one.
LEMMA LeastNat ==
  ASSUME NEW T \in SUBSET Nat, T # {}
  PROVE  \E m \in T : \A k \in T : m <= k
<1>1. PICK R : R = {ss \in Nat \X Nat : ss[1] < ss[2]}
  OBVIOUS
<1>2. IsWellFoundedOn(R, Nat)
  BY <1>1, NatLessThanWellFounded DEF OpToRel
<1>3. PICK m \in T : \A y \in T : ~(<<y, m>> \in R)
  BY <1>2, WFMin
<1>4. ASSUME NEW k \in T PROVE m <= k
  <2>1. ~(<<k, m>> \in R)
    BY <1>3
  <2>2. ~(k < m)
    BY <1>1, <2>1
  <2> QED BY <2>2
<1> QED BY <1>4

\* What holds of 0, and of a number if of the one before, holds of all numbers up to n.
LEMMA UpTo ==
  ASSUME NEW n \in Nat, NEW T, 0 \in T, \A i \in 0 .. n : i # 0 /\ i - 1 \in T => i \in T
  PROVE  0 .. n \subseteq T
<1> SUFFICES ASSUME ~(0 .. n \subseteq T) PROVE FALSE
  OBVIOUS
<1>1. PICK U : U = {i \in 0 .. n : i \notin T}
  OBVIOUS
<1>2. U \in SUBSET Nat /\ U # {}
  BY <1>1
<1>3. PICK m \in U : \A k \in U : m <= k
  BY <1>2, LeastNat
<1>4. m \in 0 .. n /\ m \notin T /\ m # 0
  BY <1>1
<1>5. m - 1 \in 0 .. n /\ m - 1 \notin U
  BY <1>3, <1>4
<1>6. m - 1 \in T
  BY <1>1, <1>5
<1> QED BY <1>4, <1>6

StaysIn(S, n, step) == \A i \in 1 .. n : \A x \in S : step[<<i, x>>] \in S
Iterations(S, first, n, step) ==
  {f \in [0 .. n -> S] : f[0] = first /\ \A i \in 1 .. n : f[i] = step[<<i, f[i - 1]>>]}

\* What n steps make of a first value, each of the one before: such values there are.
LEMMA Iterated ==
  ASSUME NEW S, NEW first \in S, NEW n \in Nat, NEW step, StaysIn(S, n, step)
  PROVE  Iterations(S, first, n, step) # {}
<1>0. \A i \in 1 .. n : \A x \in S : step[<<i, x>>] \in S
  BY DEF StaysIn
<1> DEFINE Till(m) == \E f \in [0 .. m -> S] :
                        f[0] = first /\ \A i \in 1 .. m : f[i] = step[<<i, f[i - 1]>>]
<1>1. PICK T : T = {m \in 0 .. n : Till(m)}
  OBVIOUS
<1>2. Till(0)
  <2>1. PICK f : f = [i \in 0 .. 0 |-> first]
    OBVIOUS
  <2>2. f \in [0 .. 0 -> S] /\ f[0] = first /\ \A i \in 1 .. 0 : f[i] = step[<<i, f[i - 1]>>]
    BY <2>1
  <2> QED BY <2>2
<1>3. ASSUME NEW m \in 0 .. n, m # 0, m - 1 \in T PROVE m \in T
  <2>1. PICK f \in [0 .. m - 1 -> S] :
          f[0] = first /\ \A i \in 1 .. m - 1 : f[i] = step[<<i, f[i - 1]>>]
    BY <1>1, <1>3
  <2>2. m \in 1 .. n /\ f[m - 1] \in S
    BY <1>3, <2>1
  <2>3. PICK x \in S : x = step[<<m, f[m - 1]>>]
    BY <1>0, <2>2
  <2>4. PICK g : g = [i \in 0 .. m |-> IF i = m THEN x ELSE f[i]]
    OBVIOUS
  <2>5. g \in [0 .. m -> S]
    <3>1. ASSUME NEW i \in 0 .. m PROVE (IF i = m THEN x ELSE f[i]) \in S
      <4>1. i = m \/ i \in 0 .. m - 1
        BY <1>3
      <4> QED BY <2>1, <2>3, <4>1
    <3> QED BY <2>4, <3>1
  <2>6. g[0] = first
    BY <1>3, <2>1, <2>4
  <2>7. ASSUME NEW i \in 1 .. m PROVE g[i] = step[<<i, g[i - 1]>>]
    <3>1. CASE i = m
      <4>1. g[m] = x /\ g[m - 1] = f[m - 1]
        BY <1>3, <2>4
      <4> QED BY <2>3, <3>1, <4>1
    <3>2. CASE i # m
      <4>1. i \in 1 .. m - 1 /\ i - 1 \in 0 .. m /\ i - 1 # m /\ i \in 0 .. m
        BY <1>3, <3>2
      <4>2. g[i] = f[i] /\ g[i - 1] = f[i - 1]
        BY <2>4, <3>2, <4>1
      <4> QED BY <2>1, <4>1, <4>2
    <3> QED BY <3>1, <3>2
  <2>8. Till(m)
    BY <2>5, <2>6, <2>7
  <2> QED BY <1>1, <2>8
<1>4. 0 \in T
  BY <1>1, <1>2
<1> HIDE DEF Till
<1>5. n \in T
  BY <1>3, <1>4, UpTo
<1>6. Till(n)
  BY <1>1, <1>5
<1> QED BY <1>6 DEF Till, Iterations

-----------------------------------------------------------------------------
(* OptimizationHistory: lists.                                             *)

NoneTwice(s) == \A i, k \in DOMAIN s : s[i] = s[k] => i = k

\* The jobs of a set in the order of the list.
LEMMA NewestIs ==
  ASSUME NEW S \in SUBSET Nat, IsFiniteSet(S)
  PROVE  /\ Newest(S) \in Seq(S) /\ NoneTwice(Newest(S))
<1> DEFINE Falls(s, n) == \A i, k \in 1 .. n : i < k => s[i] > s[k]
           Bad(n) == \E U \in SUBSET Nat :
                       /\ IsFiniteSet(U) /\ Cardinality(U) = n
                       /\ ~ \E s \in [1 .. n -> U] : Falls(s, n)
<1>1. PICK T : T = {n \in Nat : Bad(n)}
  OBVIOUS
<1>2. T = {}
  <2> SUFFICES ASSUME T # {} PROVE FALSE
    OBVIOUS
  <2>1. PICK n \in T : \A m \in T : n <= m
    <3>1. T \in SUBSET Nat
      BY <1>1
    <3> QED BY <3>1, LeastNat
  <2>2. n \in Nat /\ Bad(n)
    BY <1>1
  <2>3. PICK U \in SUBSET Nat : /\ IsFiniteSet(U) /\ Cardinality(U) = n
                                /\ ~ \E s \in [1 .. n -> U] : Falls(s, n)
    BY <2>2
  <2>4. CASE n = 0
    <3>1. PICK s : s = [i \in 1 .. 0 |-> 0]
      OBVIOUS
    <3>2. s \in [1 .. 0 -> U] /\ Falls(s, 0)
      BY <3>1
    <3> QED BY <2>3, <2>4, <3>2
  <2>5. CASE n # 0
    <3>1. U # {}
      BY <2>3, <2>5, FS_EmptySet
    <3>2. PICK u \in U : \A v \in U : u <= v
      BY <3>1, LeastNat
    <3>3. PICK W : W = U \ {u}
      OBVIOUS
    <3>4. PICK p : p = n - 1
      OBVIOUS
    <3>5. p \in Nat /\ p < n /\ n = p + 1
      BY <2>2, <2>5, <3>4
    <3>6. W \in SUBSET Nat /\ IsFiniteSet(W) /\ Cardinality(W) = p
      <4>1. IsFiniteSet(U \ {u}) /\ Cardinality(U \ {u}) = Cardinality(U) - 1
        BY <2>3, FS_RemoveElement
      <4> QED BY <2>3, <3>3, <3>4, <4>1
    <3>7. p \notin T
      BY <2>1, <2>2, <3>5
    <3>8. PICK s \in [1 .. p -> W] : Falls(s, p)
      BY <1>1, <3>5, <3>6, <3>7
    <3>9. PICK t : t = [i \in 1 .. n |-> IF i = n THEN u ELSE s[i]]
      OBVIOUS
    <3>10. ASSUME NEW i \in 1 .. n PROVE t[i] \in U /\ (i # n => i \in 1 .. p /\ t[i] = s[i] /\ t[i] > u)
      <4>1. CASE i = n
        BY <3>9, <4>1
      <4>2. CASE i # n
        <5>1. i \in 1 .. p /\ t[i] = s[i]
          BY <3>5, <3>9, <4>2
        <5>2. s[i] \in W
          BY <3>8, <5>1
        <5>3. s[i] \in U /\ s[i] # u /\ u <= s[i]
          BY <3>2, <3>3, <5>2
        <5>4. s[i] \in Nat /\ u \in Nat
          BY <5>3
        <5> QED BY <5>1, <5>3, <5>4
      <4> QED BY <4>1, <4>2
    <3>11. t \in [1 .. n -> U]
      BY <3>9, <3>10
    <3>12. ASSUME NEW i \in 1 .. n, NEW k \in 1 .. n, i < k PROVE t[i] > t[k]
      <4>1. i # n
        BY <2>2, <3>12
      <4>2. CASE k = n
        BY <3>9, <3>10, <4>1, <4>2
      <4>3. CASE k # n
        <5>1. i \in 1 .. p /\ k \in 1 .. p /\ t[i] = s[i] /\ t[k] = s[k]
          BY <3>10, <4>1, <4>3
        <5> QED BY <3>8, <3>12, <5>1
      <4> QED BY <4>2, <4>3
    <3> QED BY <2>3, <3>11, <3>12
  <2> QED BY <2>4, <2>5
<1>3. PICK n \in Nat : n = Cardinality(S)
  BY FS_CardinalityType
<1>4. \E s \in [1 .. n -> S] : Falls(s, n)
  BY <1>1, <1>2, <1>3
<1>5. PICK s : s = Newest(S)
  OBVIOUS
<1>6. s \in [1 .. n -> S] /\ \A i, k \in 1 .. n : i < k => s[i] > s[k]
  BY <1>3, <1>4, <1>5 DEF Newest
<1>7. s \in Seq(S) /\ DOMAIN s = 1 .. n
  BY <1>6
<1>8. ASSUME NEW i \in 1 .. n, NEW k \in 1 .. n, s[i] = s[k] PROVE i = k
  <2>1. s[i] \in Nat /\ s[k] \in Nat
    BY <1>6
  <2>2. ~(i < k) /\ ~(k < i)
    BY <1>6, <1>8, <2>1
  <2> QED BY <2>2
<1> QED BY <1>5, <1>7, <1>8 DEF NoneTwice

\* A list without what it has already.
LEMMA DedupedIs ==
  ASSUME NEW J, NEW s \in Seq(J)
  PROVE  Deduped(s) \in Seq(J) /\ NoneTwice(Deduped(s))
<1>1. PICK S : S = {t \in Seq(J) : NoneTwice(t)}
  OBVIOUS
<1>2. PICK n \in Nat : n = Len(s)
  OBVIOUS
<1> DEFINE Has(t, x) == \E i \in DOMAIN t : t[i] = x
           Kept(t, x) == IF Has(t, x) THEN t ELSE Append(t, x)
           Recursive(f) == f = [m \in 0 .. n |-> IF m = 0 THEN <<>>
                                                ELSE IF \E i \in DOMAIN f[m - 1] : f[m - 1][i] = s[m]
                                                     THEN f[m - 1] ELSE Append(f[m - 1], s[m])]
<1>3. <<>> \in S
  BY <1>1 DEF NoneTwice
<1>4. ASSUME NEW t \in S, NEW x \in J PROVE Kept(t, x) \in S
  <2>1. t \in Seq(J) /\ NoneTwice(t)
    BY <1>1
  <2>2. CASE Has(t, x)
    BY <2>2
  <2>3. CASE ~Has(t, x)
    <3>1. PICK u : u = Append(t, x)
      OBVIOUS
    <3>2. /\ u \in Seq(J) /\ DOMAIN u = 1 .. (Len(t) + 1) /\ DOMAIN t = 1 .. Len(t) /\ Len(t) \in Nat
          /\ u[Len(t) + 1] = x /\ \A i \in 1 .. Len(t) : u[i] = t[i]
      BY <2>1, <3>1
    <3>3. ASSUME NEW i \in DOMAIN u, NEW k \in DOMAIN u, u[i] = u[k] PROVE i = k
      <4>1. CASE i \in 1 .. Len(t) /\ k \in 1 .. Len(t)
        BY <2>1, <3>2, <3>3, <4>1 DEF NoneTwice
      <4>2. CASE i \in 1 .. Len(t) /\ k = Len(t) + 1
        BY <2>3, <3>2, <3>3, <4>2
      <4>3. CASE i = Len(t) + 1 /\ k \in 1 .. Len(t)
        BY <2>3, <3>2, <3>3, <4>3
      <4>4. CASE i = Len(t) + 1 /\ k = Len(t) + 1
        BY <4>4
      <4> QED BY <3>2, <4>1, <4>2, <4>3, <4>4
    <3>4. u \in S
      BY <1>1, <3>2, <3>3 DEF NoneTwice
    <3> QED BY <2>3, <3>1, <3>4
  <2> QED BY <2>2, <2>3
<1>5. PICK step : step = [p \in (1 .. n) \X S |-> Kept(p[2], s[p[1]])]
  OBVIOUS
<1> HIDE DEF Kept
<1>6. ASSUME NEW i \in 1 .. n, NEW t \in S PROVE step[<<i, t>>] = Kept(t, s[i]) /\ step[<<i, t>>] \in S
  <2>1. s[i] \in J
    BY <1>2
  <2>2. step[<<i, t>>] = Kept(t, s[i])
    BY <1>5
  <2> QED BY <1>4, <2>1, <2>2
<1>7. PICK f \in [0 .. n -> S] : f[0] = <<>> /\ \A i \in 1 .. n : f[i] = step[<<i, f[i - 1]>>]
  <2>1. PICK empty : empty = <<>>
    OBVIOUS
  <2>2. empty \in S /\ StaysIn(S, n, step)
    BY <1>3, <1>6, <2>1 DEF StaysIn
  <2>3. Iterations(S, empty, n, step) # {}
    BY <2>2, Iterated
  <2> QED BY <2>1, <2>3 DEF Iterations
<1>8. Recursive(f)
  <2>1. ASSUME NEW m \in 0 .. n
        PROVE  f[m] = IF m = 0 THEN <<>>
                      ELSE IF \E i \in DOMAIN f[m - 1] : f[m - 1][i] = s[m]
                           THEN f[m - 1] ELSE Append(f[m - 1], s[m])
    <3>1. CASE m = 0
      BY <1>7, <3>1
    <3>2. CASE m # 0
      <4>1. m \in 1 .. n /\ f[m - 1] \in S
        BY <1>7, <3>2
      <4>2. f[m] = Kept(f[m - 1], s[m])
        BY <1>6, <1>7, <4>1
      <4> QED BY <3>2, <4>2 DEF Kept
    <3> QED BY <3>1, <3>2
  <2>2. f = [m \in 0 .. n |-> f[m]]
    BY <1>7
  <2> QED BY <2>1, <2>2
<1>9. PICK g : g = CHOOSE h : Recursive(h)
  OBVIOUS
<1>10. Recursive(g)
  BY <1>8, <1>9
<1>11. Deduped(s) = g[n]
  BY <1>2, <1>9 DEF Deduped
<1>12. PICK T : T = {m \in 0 .. n : g[m] \in S}
  OBVIOUS
<1>13. 0 \in T
  BY <1>3, <1>10, <1>12
<1>14. ASSUME NEW m \in 0 .. n, m # 0, m - 1 \in T PROVE m \in T
  <2>1. g[m] = Kept(g[m - 1], s[m])
    BY <1>10, <1>14 DEF Kept
  <2>2. g[m - 1] \in S /\ s[m] \in J
    BY <1>2, <1>12, <1>14
  <2> QED BY <1>4, <1>12, <2>1, <2>2
<1>15. n \in T
  <2>1. \A i \in 0 .. n : i # 0 /\ i - 1 \in T => i \in T
    BY <1>14
  <2>2. 0 .. n \subseteq T
    BY <1>13, <2>1, UpTo
  <2> QED BY <2>2
<1> QED BY <1>1, <1>11, <1>12, <1>15

-----------------------------------------------------------------------------
(* OptimizationHistory: the invariant.                                     *)

Answers == Page \cup Result \cup {None}

CallsAre ==
  calls \subseteq
    [id : Nat, op : {"refresh", "more", "clear", "retry", "restore"},
     stage : {"before", "act", "list"}, ids : SUBSET HistoryJobs, from : HistoryJobs \cup {None},
     selection : SUBSET HistoryJobs, before : Maybe(SUBSET HistoryJobs),
     result : Result \cup {None}, answer : Answers, tries : 0 .. 1, live : BOOLEAN]

HistoryTyped ==
  /\ unfinished \subseteq HistoryJobs /\ deleted \subseteq HistoryJobs /\ asked \subseteq HistoryJobs
  /\ items \in Seq(HistoryJobs) /\ cursor \in HistoryJobs \cup {None}
  /\ view \in View /\ log \in Seq(LogEntry)
  /\ last \in [HistoryJobs -> {"cleared", "failed", None}]
  /\ CallsAre

\* A result is of the jobs that the call asked for.
IsResultOf(r, ids) == r \in Result /\ JobsOf(r.failed) \subseteq ids

\* What a call carries: the answer that its stage asks for, and the result from then on.
CallIsRight(c) ==
  /\ c.stage = "before" => c.op = "retry"
  /\ c.op \in {"refresh", "more"} => c.stage = "list" /\ c.result = None
  /\ c.answer # None =>
       IF c.stage = "act" THEN IsResultOf(c.answer, c.ids)
       ELSE c.answer \in Page /\ NoneTwice(c.answer.jobs)
  /\ c.op \in {"clear", "retry", "restore"} /\ c.stage = "list" => IsResultOf(c.result, c.ids)

CallsDiffer == \A c, d \in calls : c.id = d.id => c = d

\* One clear at a time belongs to the panel, which knows it, and it is none while the dialog is open.
ClearIsKnown ==
  /\ \A c \in calls : c.op = "clear" /\ c.live => view.clearing
  /\ \A c, d \in calls : c.op = "clear" /\ c.live /\ d.op = "clear" /\ d.live => c = d
DialogIsAsked == view.confirm => ~view.clearing /\ view.selected \subseteq asked

HistoryInv ==
  /\ HistoryTyped /\ (\A c \in calls : CallIsRight(c)) /\ CallsDiffer
  /\ ClearIsKnown /\ DialogIsAsked /\ NoneTwice(items) /\ QueueIsOfFailedClears

-----------------------------------------------------------------------------
(* OptimizationHistory: what the server answers.                           *)

\* A page has each of its jobs once.
LEMMA PageIs ==
  ASSUME HistoryTyped, NEW from
  PROVE  PageAfter(from) \in Page /\ NoneTwice(PageAfter(from).jobs)
<1>1. PICK S : S = {j \in HistoryJobs \ deleted : from = None \/ j < from}
  OBVIOUS
<1>2. S \in SUBSET HistoryJobs /\ S \in SUBSET Nat /\ IsFiniteSet(S)
  <2>1. S \in SUBSET HistoryJobs
    BY <1>1
  <2> QED BY <2>1, HistoryAssumption, FS_Subset
<1>3. PICK rest : rest = Newest(S)
  OBVIOUS
<1>4. rest \in Seq(S) /\ NoneTwice(rest)
  BY <1>2, <1>3, NewestIs
<1>5. rest \in Seq(HistoryJobs) /\ Len(rest) \in Nat /\ DOMAIN rest = 1 .. Len(rest)
  <2>1. PICK n \in Nat : rest \in [1 .. n -> S]
    BY <1>4
  <2>2. rest \in [1 .. n -> HistoryJobs]
    BY <1>2, <2>1
  <2> QED BY <2>2
<1>6. PageSize \in Nat /\ PageSize > 0
  BY HistoryAssumption
<1>7. CASE Len(rest) <= PageSize
  <2>1. PageAfter(from) = [jobs |-> rest, next |-> None]
    BY <1>1, <1>3, <1>7 DEF PageAfter
  <2> QED BY <1>4, <1>5, <2>1 DEF Page
<1>8. CASE ~(Len(rest) <= PageSize)
  <2>1. PICK page : page = SubSeq(rest, 1, PageSize)
    OBVIOUS
  <2>2. PageAfter(from) = [jobs |-> page, next |-> page[PageSize]]
    BY <1>1, <1>3, <1>8, <2>1 DEF PageAfter
  <2>3. /\ page \in Seq(HistoryJobs) /\ DOMAIN page = 1 .. PageSize
        /\ \A i \in 1 .. PageSize : page[i] = rest[i]
    BY <1>5, <1>6, <1>8, <2>1
  <2>4. \A i \in 1 .. PageSize : i \in DOMAIN rest
    BY <1>5, <1>6, <1>8
  <2>5. NoneTwice(page)
    BY <1>4, <2>3, <2>4 DEF NoneTwice
  <2>6. page[PageSize] \in HistoryJobs
    BY <1>6, <2>3
  <2> QED BY <2>2, <2>3, <2>5, <2>6 DEF Page
<1> QED BY <1>7, <1>8

\* Every answer to a clear or a restore is of the jobs asked for, the one that never comes, too.
LEMMA ResultsAre ==
  ASSUME HistoryTyped, NEW ids \in SUBSET HistoryJobs
  PROVE  IsResultOf(Cleared(ids), ids) /\ IsResultOf(Restored(ids), ids) /\ IsResultOf(Lost(ids), ids)
<1>1. IsResultOf(Cleared(ids), ids)
  <2>1. PICK f : f = {[job |-> j, reason |-> "NOT_FOUND_OR_ALREADY_DELETED"] : j \in ids \cap deleted}
              \cup {[job |-> j, reason |-> "JOB_NOT_FINISHED"] : j \in (ids \cap unfinished) \ deleted}
    OBVIOUS
  <2>2. f \in SUBSET Failure /\ \A x \in f : x.job \in ids
    BY <2>1 DEF Failure, Reasons
  <2>3. Cleared(ids) = [done |-> ids \ (unfinished \cup deleted), failed |-> f]
    BY <2>1 DEF Cleared
  <2> QED BY <2>2, <2>3 DEF IsResultOf, Result, JobsOf
<1>2. IsResultOf(Restored(ids), ids)
  <2>1. PICK f : f = {[job |-> j, reason |-> "NOT_FOUND_OR_NOT_DELETED"] : j \in ids \ deleted}
    OBVIOUS
  <2>2. f \in SUBSET Failure /\ \A x \in f : x.job \in ids
    BY <2>1 DEF Failure, Reasons
  <2>3. Restored(ids) = [done |-> ids \cap deleted, failed |-> f]
    BY <2>1 DEF Restored
  <2> QED BY <2>2, <2>3 DEF IsResultOf, Result, JobsOf
<1>3. IsResultOf(Lost(ids), ids)
  <2>1. PICK f : f = {[job |-> j, reason |-> "REQUEST_FAILED"] : j \in ids}
    OBVIOUS
  <2>2. f \in SUBSET Failure /\ \A x \in f : x.job \in ids
    BY <2>1 DEF Failure, Reasons
  <2>3. Lost(ids) = [done |-> {}, failed |-> f]
    BY <2>1 DEF Lost
  <2> QED BY <2>2, <2>3 DEF IsResultOf, Result, JobsOf
<1> QED BY <1>1, <1>2, <1>3

\* Jobs of failures.
LEMMA JobsOfIs ==
  ASSUME NEW Q \in SUBSET Failure
  PROVE  JobsOf(Q) \in SUBSET HistoryJobs
BY DEF JobsOf, Failure

\* What is kept of something, or of nothing.
LEMMA MaybeIs ==
  ASSUME NEW M \in Maybe(SUBSET HistoryJobs), NEW ids
  PROVE  /\ {s \cap ids : s \in M} \in Maybe(SUBSET HistoryJobs)
         /\ {s \ ids : s \in M} \in Maybe(SUBSET HistoryJobs)
<1>1. CASE M = {}
  BY <1>1 DEF Maybe
<1>2. CASE M # {}
  <2>1. PICK x \in SUBSET HistoryJobs : M = {x}
    BY <1>2 DEF Maybe
  <2>2. {s \cap ids : s \in M} = {x \cap ids} /\ {s \ ids : s \in M} = {x \ ids}
    BY <2>1
  <2> QED BY <2>2 DEF Maybe
<1> QED BY <1>1, <1>2

\* Something.
LEMMA OneIs == ASSUME NEW x \in SUBSET HistoryJobs PROVE {x} \in Maybe(SUBSET HistoryJobs)
BY DEF Maybe

-----------------------------------------------------------------------------
(* OptimizationHistory: the calls.                                         *)

\* What a call is begun with.
Fits(op, phase, ids, from) ==
  /\ op \in {"refresh", "more", "clear", "retry", "restore"} /\ phase \in {"before", "act", "list"}
  /\ ids \in SUBSET HistoryJobs /\ from \in HistoryJobs \cup {None}
  /\ phase = "before" => op = "retry"
  /\ op \in {"refresh", "more"} <=> phase = "list"

\* A new call.
LEMMA BeginIs ==
  ASSUME HistoryInv, NEW op, NEW phase, NEW ids, NEW from, Fits(op, phase, ids, from),
         BeginCall(NewCall(op, phase, ids, from))
  PROVE  \E c : /\ calls' = calls \cup {c} /\ c \notin calls
                /\ c.op = op /\ c.ids = ids /\ c.live
                /\ CallsAre' /\ CallsDiffer' /\ (\A d \in calls' : CallIsRight(d))
<1>1. PICK i \in 1 .. MaxCalls : /\ \A d \in calls : d.id # i
                                 /\ calls' = calls \cup {[NewCall(op, phase, ids, from) EXCEPT !.id = i]}
  BY DEF BeginCall
<1>2. PICK c : c = [NewCall(op, phase, ids, from) EXCEPT !.id = i]
  OBVIOUS
<1>3. c = [id |-> i, op |-> op, stage |-> phase, ids |-> ids, from |-> from,
           selection |-> view.selected, before |-> view.feedback, result |-> None, answer |-> None,
           tries |-> 1, live |-> TRUE]
  BY <1>2 DEF NewCall
<1>4. view.selected \in SUBSET HistoryJobs /\ view.feedback \in Maybe(SUBSET HistoryJobs)
  BY DEF HistoryInv, HistoryTyped, View
<1>5. /\ c.id = i /\ c.op = op /\ c.stage = phase /\ c.ids = ids /\ c.live /\ c.result = None /\ c.answer = None
  BY <1>3
<1>6. calls' = calls \cup {c} /\ c \notin calls
  BY <1>1, <1>2, <1>5
<1>7. CallsAre'
  <2>1. i \in Nat
    BY <1>1
  <2>2. c \in [id : Nat, op : {"refresh", "more", "clear", "retry", "restore"},
               stage : {"before", "act", "list"}, ids : SUBSET HistoryJobs,
               from : HistoryJobs \cup {None},
               selection : SUBSET HistoryJobs, before : Maybe(SUBSET HistoryJobs),
               result : Result \cup {None}, answer : Answers, tries : 0 .. 1, live : BOOLEAN]
    BY <1>3, <1>4, <2>1 DEF Answers, Fits
  <2> QED BY <1>6, <2>2 DEF HistoryInv, HistoryTyped, CallsAre
<1>8. CallIsRight(c)
  BY <1>5 DEF CallIsRight, Fits
<1>9. CallsDiffer'
  BY <1>1, <1>5, <1>6 DEF CallsDiffer, HistoryInv
<1>10. \A d \in calls' : CallIsRight(d)
  BY <1>6, <1>8 DEF HistoryInv
<1> QED BY <1>5, <1>6, <1>7, <1>9, <1>10

\* A call goes on: it is the same call, for the same jobs, of the same panel.
LEMMA GoesOn ==
  ASSUME HistoryInv, NEW c \in calls, NEW d,
         d \in [id : Nat, op : {"refresh", "more", "clear", "retry", "restore"},
                stage : {"before", "act", "list"}, ids : SUBSET HistoryJobs,
                from : HistoryJobs \cup {None},
                selection : SUBSET HistoryJobs, before : Maybe(SUBSET HistoryJobs),
                result : Result \cup {None}, answer : Answers, tries : 0 .. 1, live : BOOLEAN],
         d.id = c.id, d.op = c.op, d.live = c.live, CallIsRight(d),
         calls' = (calls \ {c}) \cup {d}
  PROVE  /\ CallsAre' /\ CallsDiffer' /\ (\A e \in calls' : CallIsRight(e))
         /\ \A e \in calls' : \E b \in calls : b.id = e.id
         /\ view'.clearing = view.clearing => ClearIsKnown'
<1>1. CallsAre'
  BY DEF HistoryInv, HistoryTyped, CallsAre
<1>2. CallsDiffer'
  BY DEF HistoryInv, CallsDiffer
<1>3. \A e \in calls' : CallIsRight(e)
  BY DEF HistoryInv
<1>4. \A e \in calls' : \E b \in calls : b.id = e.id
  OBVIOUS
<1>5. ASSUME view'.clearing = view.clearing PROVE ClearIsKnown'
  BY <1>5 DEF HistoryInv, ClearIsKnown
<1> QED BY <1>1, <1>2, <1>3, <1>4, <1>5

-----------------------------------------------------------------------------
(* OptimizationHistory: the user.                                          *)

\* What ConfirmedIsAsked says of a step.
ConfirmedStep ==
  \A c \in calls' : c.op = "clear" /\ (\A d \in calls : d.id # c.id) => c.ids \subseteq asked

\* The panel changes, and no call.
LEMMA PanelKeeps ==
  ASSUME HistoryInv, view' \in View, view'.clearing = view.clearing, view'.queue = view.queue,
         view'.confirm => ~view'.clearing /\ view'.selected \subseteq asked',
         asked' \subseteq HistoryJobs, log' \in Seq(LogEntry), unfinished' \subseteq HistoryJobs,
         UNCHANGED <<deleted, items, cursor, calls, last>>
  PROVE  HistoryInv' /\ ConfirmedStep
<1>1. HistoryTyped'
  BY DEF HistoryInv, HistoryTyped, CallsAre
<1>2. (\A c \in calls' : CallIsRight(c)) /\ CallsDiffer' /\ ClearIsKnown'
  BY DEF HistoryInv, CallsDiffer, ClearIsKnown
<1>3. DialogIsAsked' /\ NoneTwice(items') /\ QueueIsOfFailedClears'
  BY DEF HistoryInv, DialogIsAsked, QueueIsOfFailedClears
<1>4. ConfirmedStep
  BY DEF ConfirmedStep
<1> QED BY <1>1, <1>2, <1>3, <1>4 DEF HistoryInv

\* What the user sees is of the jobs, and so is what is chosen of it.
LEMMA VisibleIs ==
  ASSUME HistoryTyped
  PROVE  Visible \in SUBSET HistoryJobs /\ Chosen \in SUBSET HistoryJobs /\ Chosen \subseteq view.selected
<1>1. \A i \in DOMAIN items : items[i] \in HistoryJobs
  BY DEF HistoryTyped
<1> QED BY <1>1 DEF Visible, Chosen

\* A selection, whatever it is.
LEMMA SelectionKeeps ==
  ASSUME HistoryInv, NEW S \in SUBSET HistoryJobs, NEW U \in Maybe(SUBSET HistoryJobs), NEW b \in BOOLEAN,
         Change([view EXCEPT !.selected = S, !.undo = U, !.details = b])
  PROVE  HistoryInv' /\ ConfirmedStep
<1>1. PICK v : v = [view EXCEPT !.selected = S, !.undo = U, !.details = b]
  OBVIOUS
<1>2. view \in View
  BY DEF HistoryInv, HistoryTyped
<1>3. v \in View /\ v.clearing = view.clearing /\ v.queue = view.queue /\ v.confirm = view.confirm
  BY <1>1, <1>2 DEF View
<1>4. /\ view' = v /\ ~view.confirm
      /\ UNCHANGED <<unfinished, deleted, items, cursor, calls, last, asked, log>>
  BY <1>1 DEF Change, User, server, pages
<1>5. asked' \subseteq HistoryJobs /\ log' \in Seq(LogEntry) /\ unfinished' \subseteq HistoryJobs
  BY <1>4 DEF HistoryInv, HistoryTyped
<1> QED BY <1>3, <1>4, <1>5, PanelKeeps

\* The selection, in its five ways, and the list of failures.
LEMMA SelectingKeeps ==
  ASSUME HistoryInv,
         ToggleSelectJob \/ ToggleSelectAll \/ UndoLastSelection \/ FocusHistoryRows \/ ToggleDetails
  PROVE  HistoryInv' /\ ConfirmedStep
<1>1. /\ view \in View /\ view.selected \in SUBSET HistoryJobs
      /\ view.undo \in Maybe(SUBSET HistoryJobs) /\ view.details \in BOOLEAN
      /\ Visible \in SUBSET HistoryJobs
  BY VisibleIs DEF HistoryInv, HistoryTyped, View
<1>2. ASSUME NEW S \in SUBSET HistoryJobs
      PROVE  /\ [view EXCEPT !.selected = S]
                  = [view EXCEPT !.selected = S, !.undo = view.undo, !.details = view.details]
             /\ [view EXCEPT !.selected = S, !.undo = {}]
                  = [view EXCEPT !.selected = S, !.undo = {}, !.details = view.details]
             /\ [view EXCEPT !.details = ~view.details]
                  = [view EXCEPT !.selected = view.selected, !.undo = view.undo, !.details = ~view.details]
  BY <1>1 DEF View
<1>3. ASSUME NEW S \in SUBSET HistoryJobs, Change([view EXCEPT !.selected = S])
      PROVE  HistoryInv' /\ ConfirmedStep
  <2>1. Change([view EXCEPT !.selected = S, !.undo = view.undo, !.details = view.details])
    BY <1>2, <1>3
  <2> QED BY <1>1, <2>1, SelectionKeeps
<1>4. CASE ToggleSelectJob
  <2>1. PICK j \in Visible :
          Change([view EXCEPT !.selected = IF j \in @ THEN @ \ {j} ELSE @ \cup {j}])
    BY <1>4 DEF ToggleSelectJob
  <2>2. PICK S : S = IF j \in view.selected THEN view.selected \ {j} ELSE view.selected \cup {j}
    OBVIOUS
  <2>3. S \in SUBSET HistoryJobs /\ Change([view EXCEPT !.selected = S])
    BY <1>1, <2>1, <2>2
  <2> QED BY <1>3, <2>3
<1>5. CASE ToggleSelectAll
  <2>1. Change([view EXCEPT !.selected = IF Visible \subseteq @ THEN @ \ Visible ELSE @ \cup Visible])
    BY <1>5 DEF ToggleSelectAll
  <2>2. PICK S : S = IF Visible \subseteq view.selected THEN view.selected \ Visible
                     ELSE view.selected \cup Visible
    OBVIOUS
  <2>3. S \in SUBSET HistoryJobs /\ Change([view EXCEPT !.selected = S])
    BY <1>1, <2>1, <2>2
  <2> QED BY <1>3, <2>3
<1>6. CASE UndoLastSelection
  <2>1. PICK snapshot \in view.undo :
          Change([view EXCEPT !.selected = snapshot \cap Visible, !.undo = {}])
    BY <1>6 DEF UndoLastSelection
  <2>2. PICK S \in SUBSET HistoryJobs : S = snapshot \cap Visible
    BY <1>1
  <2>3. Change([view EXCEPT !.selected = S, !.undo = {}, !.details = view.details])
    BY <1>2, <2>1, <2>2
  <2>4. PICK U \in Maybe(SUBSET HistoryJobs) : U = {}
    BY DEF Maybe
  <2> QED BY <1>1, <2>3, <2>4, SelectionKeeps
<1>7. CASE FocusHistoryRows
  <2>1. PICK ids : Change([view EXCEPT !.selected = ids \cap Visible])
    BY <1>7 DEF FocusHistoryRows
  <2>2. PICK S \in SUBSET HistoryJobs : S = ids \cap Visible
    BY <1>1
  <2> QED BY <1>3, <2>1, <2>2
<1>8. CASE ToggleDetails
  <2>1. Change([view EXCEPT !.details = ~view.details])
    BY <1>8 DEF ToggleDetails
  <2>2. Change([view EXCEPT !.selected = view.selected, !.undo = view.undo, !.details = ~view.details])
    BY <1>1, <1>2, <2>1
  <2>3. PICK b \in BOOLEAN : b = ~view.details
    BY <1>1
  <2> QED BY <1>1, <2>2, <2>3, SelectionKeeps
<1> QED BY <1>4, <1>5, <1>6, <1>7, <1>8

\* The dialog opens on the selection, and is cancelled.
LEMMA DialogKeeps ==
  ASSUME HistoryInv, RequestClearHistory \/ CancelClear
  PROVE  HistoryInv' /\ ConfirmedStep
<1>1. /\ view \in View /\ view.selected \in SUBSET HistoryJobs
      /\ asked \subseteq HistoryJobs /\ log \in Seq(LogEntry) /\ unfinished \subseteq HistoryJobs
  BY DEF HistoryInv, HistoryTyped, View
<1>2. PICK b \in BOOLEAN : view' = [view EXCEPT !.confirm = b] /\ (b => RequestClearHistory)
  BY DEF RequestClearHistory, CancelClear
<1>3. /\ view' \in View /\ view'.clearing = view.clearing /\ view'.queue = view.queue
      /\ view'.confirm = b /\ view'.selected = view.selected
  BY <1>1, <1>2 DEF View
<1>4. /\ UNCHANGED <<unfinished, deleted, items, cursor, calls, last, log>>
      /\ b => asked' = view.selected /\ ~view.clearing
      /\ asked' \subseteq HistoryJobs
  BY <1>1, <1>2 DEF RequestClearHistory, CancelClear, User, server, pages
<1>5. view'.confirm => ~view'.clearing /\ view'.selected \subseteq asked'
  BY <1>3, <1>4
<1> QED BY <1>1, <1>3, <1>4, <1>5, PanelKeeps

\* The log is emptied, and a job ends.
LEMMA OutsideKeeps ==
  ASSUME HistoryInv, ClearLog \/ JobEnds
  PROVE  HistoryInv' /\ ConfirmedStep
<1>1. /\ UNCHANGED <<deleted, items, cursor, view, calls, last, asked>>
      /\ unfinished' \subseteq unfinished /\ (log' = log \/ log' = <<>>)
  BY DEF ClearLog, JobEnds, User, server, pages
<1>2. /\ view' \in View /\ asked' \subseteq HistoryJobs
      /\ unfinished' \subseteq HistoryJobs
  BY <1>1 DEF HistoryInv, HistoryTyped
<1>4. log' \in Seq(LogEntry)
  <2>1. log \in Seq(LogEntry)
    BY DEF HistoryInv, HistoryTyped
  <2>2. CASE log' = log
    BY <2>1, <2>2
  <2>3. CASE log' = <<>>
    BY <2>3
  <2> QED BY <1>1, <2>2, <2>3
<1>3. view'.confirm => ~view'.clearing /\ view'.selected \subseteq asked'
  BY <1>1 DEF HistoryInv, DialogIsAsked
<1> QED BY <1>1, <1>2, <1>3, <1>4, PanelKeeps

\* A call begins, and no dialog is open: a clear, of what was asked, only while there is no other.
LEMMA BeginKeeps ==
  ASSUME HistoryInv, NEW op, NEW phase, NEW ids, NEW from, Fits(op, phase, ids, from),
         BeginCall(NewCall(op, phase, ids, from)),
         view' \in View, ~view'.confirm, view'.queue = view.queue,
         IF op = "clear" THEN ~view.clearing /\ view'.clearing /\ ids \subseteq asked
         ELSE view'.clearing = view.clearing,
         UNCHANGED <<unfinished, deleted, last>>
  PROVE  HistoryInv' /\ ConfirmedStep
<1>1. PICK c : /\ calls' = calls \cup {c} /\ c \notin calls
               /\ c.op = op /\ c.ids = ids /\ c.live
               /\ CallsAre' /\ CallsDiffer' /\ (\A d \in calls' : CallIsRight(d))
  BY BeginIs
<1>2. UNCHANGED <<items, cursor, log, asked>>
  BY DEF BeginCall
<1>3. HistoryTyped'
  BY <1>1, <1>2 DEF HistoryInv, HistoryTyped
<1>4. ClearIsKnown'
  BY <1>1 DEF HistoryInv, ClearIsKnown
<1>5. DialogIsAsked' /\ NoneTwice(items') /\ QueueIsOfFailedClears'
  BY <1>2 DEF HistoryInv, DialogIsAsked, QueueIsOfFailedClears
<1>6. ConfirmedStep
  BY <1>1 DEF ConfirmedStep
<1> QED BY <1>1, <1>3, <1>4, <1>5, <1>6 DEF HistoryInv

\* The confirmed clear.
LEMMA ClearKeeps ==
  ASSUME HistoryInv, ClearHistory
  PROVE  HistoryInv' /\ ConfirmedStep
<1>1. /\ view.confirm /\ ~view.clearing
      /\ view' = [view EXCEPT !.confirm = FALSE, !.clearing = TRUE]
      /\ BeginCall(NewCall("clear", "act", Chosen, None))
      /\ UNCHANGED <<unfinished, deleted, last>>
  BY DEF ClearHistory, server
<1>2. view \in View /\ Chosen \in SUBSET HistoryJobs /\ Chosen \subseteq view.selected
  BY VisibleIs DEF HistoryInv, HistoryTyped
<1>3. view' \in View /\ ~view'.confirm /\ view'.queue = view.queue /\ view'.clearing
  BY <1>1, <1>2 DEF View
<1>4. Chosen \subseteq asked
  BY <1>1, <1>2 DEF HistoryInv, DialogIsAsked
<1>5. PICK op : op = "clear"
  OBVIOUS
<1>6. PICK phase : phase = "act"
  OBVIOUS
<1>7. PICK from : from = None
  OBVIOUS
<1>8. PICK ids : ids = Chosen
  OBVIOUS
<1>9. BeginCall(NewCall(op, phase, ids, from)) /\ Fits(op, phase, ids, from) /\ ids \subseteq asked
  BY <1>1, <1>2, <1>4, <1>5, <1>6, <1>7, <1>8 DEF Fits
<1> QED BY <1>1, <1>3, <1>5, <1>9, BeginKeeps

\* A call that is not a clear.
LEMMA OtherCallKeeps ==
  ASSUME HistoryInv, NEW op, NEW phase, NEW ids, NEW from, Fits(op, phase, ids, from), op # "clear",
         BeginCall(NewCall(op, phase, ids, from)), User,
         NEW r \in BOOLEAN, NEW s \in BOOLEAN, view' = [view EXCEPT !.retrying = r, !.restoring = s]
  PROVE  HistoryInv' /\ ConfirmedStep
<1>1. view \in View
  BY DEF HistoryInv, HistoryTyped
<1>2. /\ view' \in View /\ view'.confirm = view.confirm /\ view'.queue = view.queue
      /\ view'.clearing = view.clearing
  BY <1>1 DEF View
<1>3. ~view.confirm /\ UNCHANGED <<unfinished, deleted, last>>
  BY DEF User, server
<1> QED BY <1>2, <1>3, BeginKeeps

\* A retry, of any failures.
LEMMA RetryKeeps ==
  ASSUME HistoryInv, NEW ids \in SUBSET HistoryJobs, NEW before, RetryFailedClear(ids, before)
  PROVE  HistoryInv' /\ ConfirmedStep
<1>1. PICK phase \in {"before", "act"} : BeginCall(NewCall("retry", phase, ids, None))
  BY DEF RetryFailedClear
<1>2. User /\ view' = [view EXCEPT !.retrying = TRUE]
  BY DEF RetryFailedClear
<1>3. view \in View /\ view.restoring \in BOOLEAN
  BY DEF HistoryInv, HistoryTyped, View
<1>4. PICK s \in BOOLEAN : s = view.restoring
  BY <1>3
<1>5. PICK r \in BOOLEAN : r = TRUE
  OBVIOUS
<1>6. view' = [view EXCEPT !.retrying = r, !.restoring = s]
  BY <1>2, <1>3, <1>4, <1>5 DEF View
<1>7. PICK op : op = "retry"
  OBVIOUS
<1>8. PICK from \in HistoryJobs \cup {None} : from = None
  OBVIOUS
<1>9. BeginCall(NewCall(op, phase, ids, from)) /\ Fits(op, phase, ids, from) /\ op # "clear"
  BY <1>1, <1>7, <1>8 DEF Fits
<1> QED BY <1>2, <1>6, <1>9, OtherCallKeeps

\* A restore, of what a clear deleted.
LEMMA RestoreCallKeeps ==
  ASSUME HistoryInv, NEW ids \in SUBSET HistoryJobs, RestoreDeletedJobs(ids)
  PROVE  HistoryInv' /\ ConfirmedStep
<1>1. BeginCall(NewCall("restore", "act", ids, None))
  BY DEF RestoreDeletedJobs
<1>2. User /\ view' = [view EXCEPT !.restoring = TRUE]
  BY DEF RestoreDeletedJobs
<1>3. view \in View /\ view.retrying \in BOOLEAN
  BY DEF HistoryInv, HistoryTyped, View
<1>4. PICK r \in BOOLEAN : r = view.retrying
  BY <1>3
<1>5. PICK s \in BOOLEAN : s = TRUE
  OBVIOUS
<1>6. view' = [view EXCEPT !.retrying = r, !.restoring = s]
  BY <1>2, <1>3, <1>4, <1>5 DEF View
<1>7. PICK op : op = "restore"
  OBVIOUS
<1>8. PICK phase : phase = "act"
  OBVIOUS
<1>9. PICK from \in HistoryJobs \cup {None} : from = None
  OBVIOUS
<1>10. BeginCall(NewCall(op, phase, ids, from)) /\ Fits(op, phase, ids, from) /\ op # "clear"
  BY <1>1, <1>7, <1>8, <1>9 DEF Fits
<1> QED BY <1>2, <1>6, <1>10, OtherCallKeeps

\* The list is asked for, from its start or from where it ended.
LEMMA ListCallKeeps ==
  ASSUME HistoryInv, RefreshOptimizationHistory \/ LoadMoreOptimizationHistory
  PROVE  HistoryInv' /\ ConfirmedStep
<1>1. PICK op \in {"refresh", "more"}, from \in HistoryJobs \cup {None} :
        User /\ BeginCall(NewCall(op, "list", {}, from)) /\ view' = view
  BY DEF RefreshOptimizationHistory, LoadMoreOptimizationHistory, HistoryInv, HistoryTyped
<1>2. view \in View /\ view.retrying \in BOOLEAN /\ view.restoring \in BOOLEAN
  BY DEF HistoryInv, HistoryTyped, View
<1>3. PICK r \in BOOLEAN, s \in BOOLEAN : r = view.retrying /\ s = view.restoring
  BY <1>2
<1>4. view' = [view EXCEPT !.retrying = r, !.restoring = s]
  BY <1>1, <1>2, <1>3 DEF View
<1>5. PICK phase : phase = "list"
  OBVIOUS
<1>6. PICK ids \in SUBSET HistoryJobs : ids = {}
  OBVIOUS
<1>7. BeginCall(NewCall(op, phase, ids, from)) /\ Fits(op, phase, ids, from) /\ op # "clear"
  BY <1>1, <1>5, <1>6 DEF Fits
<1> QED BY <1>1, <1>4, <1>7, OtherCallKeeps

\* The calls of the panel.
LEMMA CallingKeeps ==
  ASSUME HistoryInv,
         RetryFilteredFailures \/ RetryFastFailures \/ RetryRefreshFailures \/ UndoFeedback \/ UndoLogEntry
  PROVE  HistoryInv' /\ ConfirmedStep
<1>1. /\ view.queue \in SUBSET Failure /\ log \in Seq(LogEntry)
      /\ view.feedback \in Maybe(SUBSET HistoryJobs)
  BY DEF HistoryInv, HistoryTyped, View
<1>2. CASE RetryFilteredFailures
  <2>1. PICK part \in SUBSET view.queue : RetryFailedClear(JobsOf(part), FALSE)
    BY <1>2 DEF RetryFilteredFailures
  <2>2. PICK ids \in SUBSET HistoryJobs : ids = JobsOf(part)
    BY <1>1, JobsOfIs
  <2> QED BY <2>1, <2>2, RetryKeeps
<1>3. CASE RetryFastFailures
  <2>1. PICK part \in SUBSET view.queue : RetryFailedClear(JobsOf(part), FALSE)
    BY <1>3 DEF RetryFastFailures
  <2>2. PICK ids \in SUBSET HistoryJobs : ids = JobsOf(part)
    BY <1>1, JobsOfIs
  <2> QED BY <2>1, <2>2, RetryKeeps
<1>4. CASE RetryRefreshFailures
  <2>1. PICK r \in Reasons : RetryFailedClear(JobsOf({f \in view.queue : f.reason = r}), r \in Refreshing)
    BY <1>4 DEF RetryRefreshFailures
  <2>2. PICK part : part = {f \in view.queue : f.reason = r}
    OBVIOUS
  <2>3. PICK ids \in SUBSET HistoryJobs : ids = JobsOf(part)
    BY <1>1, <2>2, JobsOfIs
  <2>4. PICK before : before = (r \in Refreshing)
    OBVIOUS
  <2>5. RetryFailedClear(ids, before)
    BY <2>1, <2>2, <2>3, <2>4
  <2> QED BY <2>5, RetryKeeps
<1>5. CASE UndoFeedback
  <2>1. PICK ids \in view.feedback : RestoreDeletedJobs(ids)
    BY <1>5 DEF UndoFeedback
  <2>2. ids \in SUBSET HistoryJobs
    BY <1>1, <2>1 DEF Maybe
  <2> QED BY <2>1, <2>2, RestoreCallKeeps
<1>6. CASE UndoLogEntry
  <2>1. PICK i \in DOMAIN log : RestoreDeletedJobs(log[i].jobs)
    BY <1>6 DEF UndoLogEntry
  <2>2. log[i] \in LogEntry
    BY <1>1
  <2>3. PICK ids \in SUBSET HistoryJobs : ids = log[i].jobs
    BY <2>2 DEF LogEntry
  <2> QED BY <2>1, <2>3, RestoreCallKeeps
<1> QED BY <1>2, <1>3, <1>4, <1>5, <1>6

\* Away and back: the calls under way belong to no panel, and the new one has nothing.
LEMMA LeavingKeeps ==
  ASSUME HistoryInv, LeaveAndReturn
  PROVE  HistoryInv' /\ ConfirmedStep
<1>1. /\ view' = FreshView /\ calls' = {[c EXCEPT !.live = FALSE] : c \in calls}
      /\ UNCHANGED <<unfinished, deleted, items, cursor, log, asked, last>>
  BY DEF LeaveAndReturn, User, server, pages
<1>2. ASSUME NEW c \in calls
      PROVE  LET d == [c EXCEPT !.live = FALSE] IN
             /\ d \in [id : Nat, op : {"refresh", "more", "clear", "retry", "restore"},
                       stage : {"before", "act", "list"}, ids : SUBSET HistoryJobs,
                       from : HistoryJobs \cup {None},
                       selection : SUBSET HistoryJobs, before : Maybe(SUBSET HistoryJobs),
                       result : Result \cup {None}, answer : Answers, tries : 0 .. 1, live : BOOLEAN]
             /\ d.id = c.id /\ ~d.live /\ CallIsRight(d)
  <2>1. c \in [id : Nat, op : {"refresh", "more", "clear", "retry", "restore"},
               stage : {"before", "act", "list"}, ids : SUBSET HistoryJobs,
               from : HistoryJobs \cup {None},
               selection : SUBSET HistoryJobs, before : Maybe(SUBSET HistoryJobs),
               result : Result \cup {None}, answer : Answers, tries : 0 .. 1, live : BOOLEAN]
        /\ CallIsRight(c)
    BY DEF HistoryInv, HistoryTyped, CallsAre
  <2>2. PICK d : d = [c EXCEPT !.live = FALSE]
    OBVIOUS
  <2>3. /\ d \in [id : Nat, op : {"refresh", "more", "clear", "retry", "restore"},
                  stage : {"before", "act", "list"}, ids : SUBSET HistoryJobs,
                  from : HistoryJobs \cup {None},
                  selection : SUBSET HistoryJobs, before : Maybe(SUBSET HistoryJobs),
                  result : Result \cup {None}, answer : Answers, tries : 0 .. 1, live : BOOLEAN]
        /\ d.id = c.id /\ ~d.live /\ d.op = c.op /\ d.stage = c.stage /\ d.ids = c.ids
        /\ d.result = c.result /\ d.answer = c.answer
    BY <2>1, <2>2
  <2>4. CallIsRight(d)
    BY <2>1, <2>3 DEF CallIsRight
  <2> QED BY <2>2, <2>3, <2>4
<1>3. CallsAre' /\ (\A c \in calls' : CallIsRight(c) /\ ~c.live)
  BY <1>1, <1>2 DEF CallsAre
<1>4. CallsDiffer'
  <2>1. ASSUME NEW c \in calls', NEW d \in calls', c.id = d.id PROVE c = d
    <3>1. PICK a \in calls : c = [a EXCEPT !.live = FALSE]
      BY <1>1
    <3>2. PICK b \in calls : d = [b EXCEPT !.live = FALSE]
      BY <1>1
    <3>3. a.id = b.id
      BY <1>2, <2>1, <3>1, <3>2
    <3>4. a = b
      BY <3>3 DEF HistoryInv, CallsDiffer
    <3> QED BY <3>1, <3>2, <3>4
  <2> QED BY <2>1 DEF CallsDiffer
<1>5. view' \in View /\ ~view'.confirm /\ view'.queue = {}
  BY <1>1 DEF FreshView, View, Maybe
<1>6. HistoryTyped'
  BY <1>1, <1>3, <1>5 DEF HistoryInv, HistoryTyped
<1>7. ClearIsKnown' /\ DialogIsAsked' /\ NoneTwice(items') /\ QueueIsOfFailedClears'
  BY <1>1, <1>3, <1>5 DEF HistoryInv, ClearIsKnown, DialogIsAsked, QueueIsOfFailedClears
<1>8. ConfirmedStep
  <2>1. \A c \in calls' : \E d \in calls : d.id = c.id
    BY <1>1, <1>2
  <2> QED BY <2>1 DEF ConfirmedStep
<1> QED BY <1>3, <1>4, <1>6, <1>7, <1>8 DEF HistoryInv

-----------------------------------------------------------------------------
(* OptimizationHistory: the answers.                                       *)

\* A call as the invariant has it.
Typed(d) ==
  d \in [id : Nat, op : {"refresh", "more", "clear", "retry", "restore"},
         stage : {"before", "act", "list"}, ids : SUBSET HistoryJobs,
         from : HistoryJobs \cup {None},
         selection : SUBSET HistoryJobs, before : Maybe(SUBSET HistoryJobs),
         result : Result \cup {None}, answer : Answers, tries : 0 .. 1, live : BOOLEAN]

\* The same call, further on.
Continues(d, c) == d.id = c.id /\ d.op = c.op /\ d.ids = c.ids /\ d.live = c.live

\* A call under way.
LEMMA CallIs ==
  ASSUME HistoryInv, NEW c \in calls
  PROVE  Typed(c) /\ CallIsRight(c)
BY DEF HistoryInv, HistoryTyped, CallsAre, Typed

\* A call with another stage, another answer, another number of tries.
Changed(c, phase, result, answer, tries) ==
  [c EXCEPT !.stage = phase, !.result = result, !.answer = answer, !.tries = tries]
CanBe(phase, result, answer, tries) ==
  /\ phase \in {"before", "act", "list"} /\ result \in Result \cup {None}
  /\ answer \in Answers /\ tries \in 0 .. 1

\* It is the same call, for the same jobs.
LEMMA ChangedIs ==
  ASSUME NEW c, Typed(c), NEW phase, NEW result, NEW answer, NEW tries,
         CanBe(phase, result, answer, tries), NEW d, d = Changed(c, phase, result, answer, tries)
  PROVE  /\ Typed(d) /\ Continues(d, c)
         /\ d.stage = phase /\ d.result = result /\ d.answer = answer
BY DEF Typed, Continues, Changed, CanBe

\* A call that goes on disturbs nothing but the list and the selection.
LEMMA GoingKeeps ==
  ASSUME HistoryInv, NEW c \in calls, NEW d, Typed(d), Continues(d, c), CallIsRight(d),
         calls' = (calls \ {c}) \cup {d},
         view' \in View, view'.clearing = view.clearing, view'.queue = view.queue,
         view'.confirm = view.confirm, view'.selected \subseteq view.selected,
         items' \in Seq(HistoryJobs), NoneTwice(items'), cursor' \in HistoryJobs \cup {None},
         deleted' \subseteq HistoryJobs, unfinished' = unfinished, asked' = asked, log' = log, last' = last
  PROVE  HistoryInv' /\ ConfirmedStep
<1>1. /\ CallsAre' /\ CallsDiffer' /\ (\A e \in calls' : CallIsRight(e)) /\ ClearIsKnown'
      /\ \A e \in calls' : \E b \in calls : b.id = e.id
  BY GoesOn DEF Typed, Continues
<1>2. HistoryTyped'
  BY <1>1 DEF HistoryInv, HistoryTyped
<1>3. DialogIsAsked' /\ QueueIsOfFailedClears'
  BY DEF HistoryInv, DialogIsAsked, QueueIsOfFailedClears
<1>4. ConfirmedStep
  BY <1>1 DEF ConfirmedStep
<1> QED BY <1>1, <1>2, <1>3, <1>4 DEF HistoryInv

\* The server answers.
LEMMA ServerAnswersKeeps ==
  ASSUME HistoryInv, NEW c \in calls, ServerAnswers(c)
  PROVE  HistoryInv' /\ ConfirmedStep
<1>1. HistoryTyped /\ Typed(c) /\ CallIsRight(c)
  BY CallIs DEF HistoryInv
<1>2. PICK a : /\ calls' = (calls \ {c}) \cup {[c EXCEPT !.answer = a]}
               /\ IF c.stage = "act" THEN IsResultOf(a, c.ids) ELSE a \in Page /\ NoneTwice(a.jobs)
  <2>1. CASE c.stage # "act"
    <3>1. PICK from : from = c.from
      OBVIOUS
    <3>2. PageAfter(from) \in Page /\ NoneTwice(PageAfter(from).jobs)
      BY <1>1, PageIs
    <3>3. calls' = (calls \ {c}) \cup {[c EXCEPT !.answer = PageAfter(from)]}
      BY <2>1, <3>1 DEF ServerAnswers
    <3> QED BY <2>1, <3>2, <3>3
  <2>2. c.ids \in SUBSET HistoryJobs
    BY <1>1 DEF Typed
  <2>3. CASE c.stage = "act" /\ c.op = "restore"
    BY <1>1, <2>2, <2>3, ResultsAre DEF ServerAnswers
  <2>4. CASE c.stage = "act" /\ c.op # "restore"
    BY <1>1, <2>2, <2>4, ResultsAre DEF ServerAnswers
  <2> QED BY <2>1, <2>3, <2>4
<1>3. a \in Answers
  BY <1>2 DEF Answers, IsResultOf
<1>4. PICK d : d = [c EXCEPT !.answer = a]
  OBVIOUS
<1>5. Typed(d) /\ Continues(d, c) /\ d.stage = c.stage /\ d.result = c.result /\ d.answer = a
  <2>1. PICK phase, result, tries : phase = c.stage /\ result = c.result /\ tries = c.tries
    OBVIOUS
  <2>3. CanBe(phase, result, a, tries)
    BY <1>1, <1>3, <2>1 DEF Typed, CanBe
  <2>2. d = Changed(c, phase, result, a, tries)
    BY <1>1, <1>4, <2>1 DEF Typed, Changed
  <2> QED BY <1>1, <2>1, <2>2, <2>3, ChangedIs
<1>6. CallIsRight(d)
  BY <1>1, <1>2, <1>5 DEF CallIsRight, Continues
<1>7. /\ calls' = (calls \ {c}) \cup {d}
      /\ UNCHANGED <<unfinished, items, cursor, view, log, asked, last>>
  BY <1>2, <1>4 DEF ServerAnswers, pages
<1>8. deleted' \subseteq HistoryJobs
  <2>1. c.ids \in SUBSET HistoryJobs /\ deleted \subseteq HistoryJobs
    BY <1>1 DEF Typed, HistoryTyped
  <2>2. deleted' = deleted \/ deleted' = deleted \ c.ids \/ deleted' = deleted \cup (c.ids \ unfinished)
    BY DEF ServerAnswers
  <2> QED BY <2>1, <2>2
<1>9. /\ view' \in View /\ view'.clearing = view.clearing /\ view'.queue = view.queue
      /\ view'.confirm = view.confirm /\ view'.selected \subseteq view.selected
      /\ items' \in Seq(HistoryJobs) /\ NoneTwice(items') /\ cursor' \in HistoryJobs \cup {None}
  BY <1>1, <1>7 DEF HistoryTyped, HistoryInv
<1>10. unfinished' = unfinished /\ asked' = asked /\ log' = log /\ last' = last
  BY <1>7
<1> QED BY <1>5, <1>6, <1>7, <1>8, <1>9, <1>10, GoingKeeps

\* The effect of the panel on a new list.
LEMMA PrunedIs ==
  ASSUME NEW v \in View, NEW list
  PROVE  /\ Pruned(v, list) \in View /\ Pruned(v, list).clearing = v.clearing
         /\ Pruned(v, list).queue = v.queue /\ Pruned(v, list).confirm = v.confirm
         /\ Pruned(v, list).selected \subseteq v.selected
<1>1. PICK ids : ids = {list[i] : i \in DOMAIN list}
  OBVIOUS
<1>2. PICK S, U : S = v.selected \cap ids /\ U = {snapshot \cap ids : snapshot \in v.undo}
  OBVIOUS
<1>3. v.selected \in SUBSET HistoryJobs /\ v.undo \in Maybe(SUBSET HistoryJobs)
  BY DEF View
<1>4. S \in SUBSET HistoryJobs /\ U \in Maybe(SUBSET HistoryJobs)
  BY <1>2, <1>3, MaybeIs
<1>5. Pruned(v, list) = [v EXCEPT !.selected = S, !.undo = U]
  BY <1>1, <1>2 DEF Pruned
<1> QED BY <1>2, <1>4, <1>5 DEF View

\* What the call does to the panel.
LEMMA AfterCallIs ==
  ASSUME NEW c, Typed(c), NEW r, IsResultOf(r, c.ids), view \in View
  PROVE  /\ AfterCall(c, r) \in View /\ AfterCall(c, r).confirm = view.confirm
         /\ c.op = "clear" => AfterCall(c, r).queue = r.failed /\ ~AfterCall(c, r).clearing
         /\ c.op # "clear" => AfterCall(c, r).clearing = view.clearing
         /\ c.op = "retry" => /\ AfterCall(c, r).selected = {}
                              /\ AfterCall(c, r).queue = Merged(view.queue, c.ids, r.failed)
         /\ c.op \notin {"clear", "retry"} => /\ AfterCall(c, r).selected = view.selected
                                             /\ AfterCall(c, r).queue = view.queue
<1>1. /\ r.done \in SUBSET HistoryJobs /\ r.failed \in SUBSET Failure
      /\ JobsOf(r.failed) \in SUBSET HistoryJobs
  BY JobsOfIs DEF IsResultOf, Result
<1>2. /\ c.selection \in SUBSET HistoryJobs /\ c.before \in Maybe(SUBSET HistoryJobs)
      /\ view.feedback \in Maybe(SUBSET HistoryJobs) /\ view.queue \in SUBSET Failure
  BY DEF Typed, View
<1>3. {r.done} \in Maybe(SUBSET HistoryJobs) /\ {c.selection} \in Maybe(SUBSET HistoryJobs)
  <2>1. PICK x \in SUBSET HistoryJobs : x = r.done
    BY <1>1
  <2>2. PICK y \in SUBSET HistoryJobs : y = c.selection
    BY <1>2
  <2> QED BY <2>1, <2>2, OneIs
<1>4. CASE c.op = "clear"
  <2>1. PICK D, U, S, Q : D = {r.done} /\ U = {c.selection} /\ S = JobsOf(r.failed) /\ Q = r.failed
    OBVIOUS
  <2>2. PICK b \in BOOLEAN : b = (r.failed # {})
    OBVIOUS
  <2>3. AfterCall(c, r) = [view EXCEPT !.clearing = FALSE, !.undo = U, !.selected = S,
                                       !.feedback = D, !.queue = Q, !.details = b]
    BY <1>4, <2>1, <2>2 DEF AfterCall, AfterClear
  <2>4. /\ D \in Maybe(SUBSET HistoryJobs) /\ U \in Maybe(SUBSET HistoryJobs)
        /\ S \in SUBSET HistoryJobs /\ Q \in SUBSET Failure
    BY <1>1, <1>3, <2>1
  <2> QED BY <1>4, <2>1, <2>3, <2>4 DEF View
<1>5. CASE c.op = "retry"
  <2>1. PICK D, Q : D = {r.done} /\ Q = Merged(view.queue, c.ids, r.failed)
    OBVIOUS
  <2>2. AfterCall(c, r) = [view EXCEPT !.retrying = FALSE, !.selected = {}, !.feedback = D,
                                       !.queue = Q, !.details = FALSE]
    BY <1>5, <2>1 DEF AfterCall, AfterRetry
  <2>3. D \in Maybe(SUBSET HistoryJobs) /\ Q \in SUBSET Failure
    BY <1>1, <1>2, <1>3, <2>1 DEF Merged
  <2> QED BY <1>5, <2>1, <2>2, <2>3 DEF View
<1>6. CASE c.op = "restore"
  <2>1. PICK D : D = IF c.before \in {{}, {{}}} \/ r.done = {} \/ view.feedback = {}
                     THEN view.feedback ELSE {ids \ r.done : ids \in c.before}
    OBVIOUS
  <2>2. AfterCall(c, r) = [view EXCEPT !.restoring = FALSE, !.feedback = D]
    BY <1>6, <2>1 DEF AfterCall, AfterRestore
  <2>3. D \in Maybe(SUBSET HistoryJobs)
    <3>1. PICK M \in Maybe(SUBSET HistoryJobs) : M = c.before
      BY <1>2
    <3>2. PICK x : x = r.done
      OBVIOUS
    <3>3. {ids \ x : ids \in M} \in Maybe(SUBSET HistoryJobs)
      BY MaybeIs
    <3> QED BY <1>2, <2>1, <3>1, <3>2, <3>3
  <2> QED BY <1>6, <2>2, <2>3 DEF View
<1>7. CASE c.op \notin {"clear", "retry", "restore"}
  BY <1>7 DEF AfterCall
<1> QED BY <1>4, <1>5, <1>6, <1>7

\* What a call may end with.
EndsWith(c, r) ==
  /\ c.op \in {"clear", "retry", "restore"} => IsResultOf(r, c.ids)
  /\ c.op \in {"refresh", "more"} => r = None
Narrowed(v, w) ==
  /\ v \in View /\ v.clearing = w.clearing /\ v.queue = w.queue /\ v.confirm = w.confirm
  /\ v.selected \subseteq w.selected

\* The log with one more entry.
LEMMA LoggedIs ==
  ASSUME log \in Seq(LogEntry), NEW action \in {"clear", "restore"}, NEW r \in Result
  PROVE  Logged(action, r) \in Seq(LogEntry)
<1>1. PICK e : e = [action |-> action, jobs |-> r.done]
  OBVIOUS
<1>2. e \in LogEntry
  BY <1>1 DEF LogEntry, Result
<1>3. PICK s : s = <<e>> \o log
  OBVIOUS
<1>4. s \in Seq(LogEntry) /\ Len(s) = Len(log) + 1 /\ Len(log) \in Nat
  BY <1>2, <1>3
<1>5. PICK m : m = IF Len(log) < LogMax THEN Len(log) + 1 ELSE LogMax
  OBVIOUS
<1>6. m \in Nat /\ m <= Len(s) /\ m >= 1
  BY <1>4, <1>5, HistoryAssumption
<1>7. Logged(action, r) = SubSeq(s, 1, m)
  BY <1>1, <1>3, <1>5 DEF Logged
<1> QED BY <1>4, <1>6, <1>7

\* The end of a call.
LEMMA EndsKeeps ==
  ASSUME HistoryInv, NEW c \in calls, NEW r, Ends(c, r), EndsWith(c, r), Narrowed(view', View2(c, r)),
         items' \in Seq(HistoryJobs), NoneTwice(items'), cursor' \in HistoryJobs \cup {None},
         UNCHANGED <<unfinished, deleted, asked>>
  PROVE  HistoryInv' /\ ConfirmedStep
<1>1. Typed(c) /\ CallIsRight(c) /\ view \in View /\ log \in Seq(LogEntry)
  BY CallIs DEF HistoryInv, HistoryTyped
<1>2. c.op \in {"refresh", "more", "clear", "retry", "restore"} /\ c.ids \in SUBSET HistoryJobs
      /\ c.live \in BOOLEAN
  BY <1>1 DEF Typed
<1>3. /\ calls' = calls \ {c} /\ deleted' = deleted /\ unfinished' = unfinished /\ asked' = asked
      /\ last' = [j \in HistoryJobs |-> IF c.live /\ c.op \in {"clear", "retry"} /\ j \in c.ids
                             THEN IF j \in JobsOf(r.failed) THEN "failed" ELSE "cleared"
                             ELSE last[j]]
  BY DEF Ends
<1>4. PICK w : w = View2(c, r)
  OBVIOUS
<1>5. CASE c.live /\ c.op \in {"clear", "retry", "restore"}
  <2>1. IsResultOf(r, c.ids) /\ r \in Result
    BY <1>5 DEF EndsWith, IsResultOf
  <2>2. w = AfterCall(c, r)
    BY <1>4, <1>5 DEF View2
  <2>3. /\ w \in View /\ w.confirm = view.confirm
        /\ c.op = "clear" => w.queue = r.failed /\ ~w.clearing
        /\ c.op # "clear" => w.clearing = view.clearing
        /\ c.op = "retry" => w.selected = {} /\ w.queue = Merged(view.queue, c.ids, r.failed)
        /\ c.op = "restore" => w.selected = view.selected /\ w.queue = view.queue
    BY <1>1, <2>1, <2>2, AfterCallIs
  <2>4. log' \in Seq(LogEntry)
    <3>1. PICK action \in {"clear", "restore"} : log' = log \/ log' = Logged(action, r)
      BY DEF Ends
    <3> QED BY <1>1, <2>1, <3>1, LoggedIs
  <2>5. HistoryTyped'
    <3>1. last' \in [HistoryJobs -> {"cleared", "failed", None}]
      BY <1>3 DEF HistoryInv, HistoryTyped
    <3>2. CallsAre'
      BY <1>3 DEF HistoryInv, HistoryTyped, CallsAre
    <3> QED BY <1>3, <2>4, <3>1, <3>2 DEF HistoryInv, HistoryTyped, Narrowed
  <2>6. (\A d \in calls' : CallIsRight(d)) /\ CallsDiffer'
    BY <1>3 DEF HistoryInv, CallsDiffer
  <2>7. ClearIsKnown'
    <3>1. ASSUME NEW d \in calls', d.op = "clear", d.live PROVE view'.clearing
      <4>1. d \in calls /\ d # c /\ view.clearing
        BY <1>3, <3>1 DEF HistoryInv, ClearIsKnown
      <4>2. c.op # "clear"
        BY <1>5, <3>1, <4>1 DEF HistoryInv, ClearIsKnown
      <4> QED BY <1>4, <2>3, <4>1, <4>2 DEF Narrowed
    <3>2. \A d, e \in calls' : d.op = "clear" /\ d.live /\ e.op = "clear" /\ e.live => d = e
      BY <1>3 DEF HistoryInv, ClearIsKnown
    <3> QED BY <3>1, <3>2 DEF ClearIsKnown
  <2>8. DialogIsAsked'
    <3>1. ASSUME view'.confirm PROVE ~view'.clearing /\ view'.selected \subseteq asked'
      <4>1. view.confirm /\ ~view.clearing /\ view.selected \subseteq asked
        BY <1>4, <2>3, <3>1 DEF Narrowed, HistoryInv, DialogIsAsked
      <4>2. c.op # "clear"
        BY <1>5, <4>1 DEF HistoryInv, ClearIsKnown
      <4>3. ~w.clearing /\ w.selected \subseteq asked
        BY <1>5, <2>3, <4>1, <4>2
      <4> QED BY <1>3, <1>4, <4>3 DEF Narrowed
    <3> QED BY <3>1 DEF DialogIsAsked
  <2>9. QueueIsOfFailedClears'
    <3>1. ASSUME NEW f \in view'.queue PROVE last'[f.job] = "failed"
      <4>1. f \in w.queue /\ f.job \in HistoryJobs
        BY <1>4, <3>1 DEF Narrowed, View, Failure
      <4>2. ASSUME f \in r.failed, c.op \in {"clear", "retry"} PROVE last'[f.job] = "failed"
        <5>1. f.job \in JobsOf(r.failed) /\ f.job \in c.ids
          BY <2>1, <4>2 DEF JobsOf, IsResultOf
        <5> QED BY <1>3, <1>5, <4>1, <4>2, <5>1
      <4>3. ASSUME f \in view.queue, c.op = "restore" \/ f.job \notin c.ids PROVE last'[f.job] = "failed"
        <5>1. last[f.job] = "failed"
          BY <4>3 DEF HistoryInv, QueueIsOfFailedClears
        <5> QED BY <1>3, <4>1, <4>3, <5>1
      <4>4. CASE c.op = "clear"
        BY <2>3, <4>1, <4>2, <4>4
      <4>5. CASE c.op = "retry"
        <5>1. f \in r.failed \/ (f \in view.queue /\ f.job \notin c.ids)
          BY <2>3, <4>1, <4>5 DEF Merged
        <5> QED BY <4>2, <4>3, <4>5, <5>1
      <4>6. CASE c.op = "restore"
        BY <2>3, <4>1, <4>3, <4>6
      <4> QED BY <1>5, <4>4, <4>5, <4>6
    <3> QED BY <3>1 DEF QueueIsOfFailedClears
  <2>10. ConfirmedStep
    BY <1>3 DEF ConfirmedStep
  <2> QED BY <2>5, <2>6, <2>7, <2>8, <2>9, <2>10 DEF HistoryInv
<1>6. CASE ~(c.live /\ c.op \in {"clear", "retry", "restore"})
  <2>1. w = view /\ log' = log
    <3>1. CASE ~c.live
      BY <1>4, <3>1 DEF View2, Ends
    <3>2. CASE c.op \in {"refresh", "more"}
      BY <1>4, <3>2 DEF View2, Ends, EndsWith, AfterCall
    <3> QED BY <1>2, <1>6, <3>1, <3>2
  <2>2. last' = last
    <3>1. last' = [j \in HistoryJobs |-> last[j]]
      BY <1>3, <1>6
    <3> QED BY <3>1 DEF HistoryInv, HistoryTyped
  <2>3. Narrowed(view', view)
    BY <1>4, <2>1
  <2>4. HistoryTyped'
    BY <1>3, <2>1, <2>2, <2>3 DEF HistoryInv, HistoryTyped, CallsAre, Narrowed
  <2>5. (\A d \in calls' : CallIsRight(d)) /\ CallsDiffer' /\ ClearIsKnown'
    BY <1>3, <2>3 DEF HistoryInv, CallsDiffer, ClearIsKnown, Narrowed
  <2>6. DialogIsAsked' /\ QueueIsOfFailedClears'
    BY <1>3, <2>2, <2>3 DEF HistoryInv, DialogIsAsked, QueueIsOfFailedClears, Narrowed
  <2>7. ConfirmedStep
    BY <1>3 DEF ConfirmedStep
  <2> QED BY <2>4, <2>5, <2>6, <2>7 DEF HistoryInv
<1> QED BY <1>5, <1>6

\* The part of an arrival, or a failure, after which a clear is sent.
LEMMA ActsIs ==
  ASSUME HistoryInv, NEW c \in calls, c.stage = "before", Acts(c)
  PROVE  \E d : /\ Typed(d) /\ Continues(d, c) /\ CallIsRight(d)
                /\ calls' = (calls \ {c}) \cup {d} /\ log' = log /\ last' = last
<1>1. Typed(c) /\ CallIsRight(c)
  BY CallIs
<1>2. PICK d : d = [c EXCEPT !.stage = "act", !.answer = None, !.tries = 1]
  OBVIOUS
<1>3. PICK phase, result, answer, tries : phase = "act" /\ result = c.result /\ answer = None /\ tries = 1
  OBVIOUS
<1>4. CanBe(phase, result, answer, tries)
  BY <1>1, <1>3 DEF Typed, CanBe, Answers
<1>5. d = Changed(c, phase, result, answer, tries)
  BY <1>1, <1>2, <1>3 DEF Typed, Changed
<1>6. Typed(d) /\ Continues(d, c) /\ d.stage = "act" /\ d.result = c.result /\ d.answer = None
  BY <1>1, <1>3, <1>4, <1>5, ChangedIs
<1>7. CallIsRight(d)
  BY <1>1, <1>6 DEF CallIsRight, Continues
<1> QED BY <1>2, <1>6, <1>7 DEF Acts

\* A list arrives.
LEMMA ListArrivesKeeps ==
  ASSUME HistoryInv, NEW c \in calls, ListArrives(c), UNCHANGED <<unfinished, deleted, asked>>
  PROVE  HistoryInv' /\ ConfirmedStep
<1>1. Typed(c) /\ CallIsRight(c) /\ view \in View /\ items \in Seq(HistoryJobs)
  BY CallIs DEF HistoryInv, HistoryTyped
<1>2. c.answer \in Page /\ NoneTwice(c.answer.jobs)
  BY <1>1 DEF ListArrives, CallIsRight
<1>3. c.answer.jobs \in Seq(HistoryJobs) /\ cursor' \in HistoryJobs \cup {None}
  BY <1>2 DEF ListArrives, Page
<1>4. items' \in Seq(HistoryJobs) /\ NoneTwice(items')
  <2>1. PICK s : s = items \o c.answer.jobs
    OBVIOUS
  <2>2. s \in Seq(HistoryJobs)
    BY <1>1, <1>3, <2>1
  <2>3. Deduped(s) \in Seq(HistoryJobs) /\ NoneTwice(Deduped(s))
    BY <2>2, DedupedIs
  <2>4. items' = Deduped(s) \/ items' = c.answer.jobs
    BY <2>1 DEF ListArrives
  <2> QED BY <1>2, <1>3, <2>3, <2>4
<1>5. CASE c.stage = "before"
  <2>1. PICK d : /\ Typed(d) /\ Continues(d, c) /\ CallIsRight(d)
                 /\ calls' = (calls \ {c}) \cup {d} /\ log' = log /\ last' = last
    BY <1>5, ActsIs DEF ListArrives
  <2>2. view' = Pruned(view, items')
    BY <1>5 DEF ListArrives
  <2>3. /\ view' \in View /\ view'.clearing = view.clearing /\ view'.queue = view.queue
        /\ view'.confirm = view.confirm /\ view'.selected \subseteq view.selected
    BY <1>1, <2>2, PrunedIs
  <2>4. deleted' \subseteq HistoryJobs /\ unfinished' = unfinished /\ asked' = asked
    BY DEF HistoryInv, HistoryTyped
  <2> QED BY <1>3, <1>4, <2>1, <2>3, <2>4, GoingKeeps
<1>6. CASE c.stage # "before"
  <2>1. PICK r : r = c.result
    OBVIOUS
  <2>2. PICK w : w = View2(c, r)
    OBVIOUS
  <2>3. c.stage = "list" /\ Ends(c, r) /\ view' = Pruned(w, items')
    BY <1>1, <1>6, <2>1, <2>2 DEF ListArrives, Typed
  <2>4. EndsWith(c, r)
    BY <1>1, <2>1, <2>3 DEF EndsWith, CallIsRight
  <2>5. w \in View
    <3>1. CASE c.live /\ c.op \in {"clear", "retry", "restore"}
      BY <1>1, <2>2, <2>4, <3>1, AfterCallIs DEF EndsWith, View2
    <3>2. CASE ~(c.live /\ c.op \in {"clear", "retry", "restore"})
      BY <1>1, <2>2, <3>2 DEF View2, AfterCall
    <3> QED BY <3>1, <3>2
  <2>6. Narrowed(view', View2(c, r))
    BY <2>2, <2>3, <2>5, PrunedIs DEF Narrowed
  <2> QED BY <1>3, <1>4, <2>3, <2>4, <2>6, EndsKeeps
<1> QED BY <1>5, <1>6

\* A result arrives, and the list is asked for.
LEMMA ResultArrivesKeeps ==
  ASSUME HistoryInv, NEW c \in calls, ResultArrives(c), UNCHANGED <<unfinished, deleted, asked>>
  PROVE  HistoryInv' /\ ConfirmedStep
<1>1. Typed(c) /\ CallIsRight(c) /\ c.stage = "act" /\ c.answer # None
  BY CallIs DEF ResultArrives
<1>2. IsResultOf(c.answer, c.ids) /\ c.answer \in Result
  BY <1>1 DEF CallIsRight, IsResultOf
<1>3. PICK d : d = [c EXCEPT !.stage = "list", !.result = c.answer, !.answer = None, !.tries = 1]
  OBVIOUS
<1>4. PICK phase, result, answer, tries : phase = "list" /\ result = c.answer /\ answer = None /\ tries = 1
  OBVIOUS
<1>5. CanBe(phase, result, answer, tries)
  BY <1>2, <1>4 DEF CanBe, Answers
<1>6. d = Changed(c, phase, result, answer, tries)
  BY <1>1, <1>3, <1>4 DEF Typed, Changed
<1>7. Typed(d) /\ Continues(d, c) /\ d.stage = "list" /\ d.result = c.answer /\ d.answer = None
  BY <1>1, <1>4, <1>5, <1>6, ChangedIs
<1>8. CallIsRight(d)
  BY <1>1, <1>2, <1>7 DEF CallIsRight, Continues
<1>9. calls' = (calls \ {c}) \cup {d}
  BY <1>3 DEF ResultArrives
<1>10. /\ view' \in View /\ view'.clearing = view.clearing /\ view'.queue = view.queue
       /\ view'.confirm = view.confirm /\ view'.selected \subseteq view.selected
       /\ items' \in Seq(HistoryJobs) /\ NoneTwice(items') /\ cursor' \in HistoryJobs \cup {None}
       /\ deleted' \subseteq HistoryJobs
       /\ unfinished' = unfinished /\ asked' = asked /\ log' = log /\ last' = last
  BY DEF ResultArrives, HistoryInv, HistoryTyped
<1> QED BY <1>7, <1>8, <1>9, <1>10, GoingKeeps

\* A request fails.
LEMMA FailsKeeps ==
  ASSUME HistoryInv, NEW c \in calls, Fails(c)
  PROVE  HistoryInv' /\ ConfirmedStep
<1>1. Typed(c) /\ CallIsRight(c) /\ view \in View /\ HistoryTyped
  BY CallIs DEF HistoryInv, HistoryTyped
<1>2. /\ items' \in Seq(HistoryJobs) /\ NoneTwice(items') /\ cursor' \in HistoryJobs \cup {None}
      /\ deleted' \subseteq HistoryJobs /\ deleted' = deleted /\ unfinished' = unfinished /\ asked' = asked
  BY DEF Fails, server, HistoryInv, HistoryTyped
<1>3. Narrowed(view, view)
  BY <1>1 DEF Narrowed
<1>4. CASE c.tries > 0
  <2>1. PICK d : d = [c EXCEPT !.answer = None, !.tries = 0]
    OBVIOUS
  <2>2. PICK phase, result, answer, tries :
          phase = c.stage /\ result = c.result /\ answer = None /\ tries = 0
    OBVIOUS
  <2>3. CanBe(phase, result, answer, tries)
    BY <1>1, <2>2 DEF Typed, CanBe, Answers
  <2>4. d = Changed(c, phase, result, answer, tries)
    BY <1>1, <2>1, <2>2 DEF Typed, Changed
  <2>5. Typed(d) /\ Continues(d, c) /\ d.stage = c.stage /\ d.result = c.result /\ d.answer = None
    BY <1>1, <2>2, <2>3, <2>4, ChangedIs
  <2>6. CallIsRight(d)
    BY <1>1, <2>5 DEF CallIsRight, Continues
  <2>7. calls' = (calls \ {c}) \cup {d} /\ view' = view /\ log' = log /\ last' = last
    BY <1>4, <2>1 DEF Fails
  <2> QED BY <1>1, <1>2, <2>5, <2>6, <2>7, GoingKeeps
<1>5. CASE ~(c.tries > 0) /\ c.stage = "before"
  <2>1. Acts(c) /\ view' = view
    BY <1>5 DEF Fails
  <2>2. PICK d : /\ Typed(d) /\ Continues(d, c) /\ CallIsRight(d)
                 /\ calls' = (calls \ {c}) \cup {d} /\ log' = log /\ last' = last
    BY <1>5, <2>1, ActsIs
  <2> QED BY <1>1, <1>2, <2>1, <2>2, GoingKeeps
<1>6. ASSUME NEW r, EndsWith(c, r), Ends(c, r), view' = View2(c, r)
      PROVE  HistoryInv' /\ ConfirmedStep
  <2>1. View2(c, r) \in View
    <3>1. CASE c.live /\ c.op \in {"clear", "retry", "restore"}
      BY <1>1, <1>6, <3>1, AfterCallIs DEF EndsWith, View2
    <3>2. CASE ~(c.live /\ c.op \in {"clear", "retry", "restore"})
      BY <1>1, <3>2 DEF View2, AfterCall
    <3> QED BY <3>1, <3>2
  <2>2. Narrowed(view', View2(c, r))
    BY <1>6, <2>1 DEF Narrowed
  <2> QED BY <1>2, <1>6, <2>2, EndsKeeps
<1>7. CASE ~(c.tries > 0) /\ c.stage = "act"
  <2>1. PICK r : r = Lost(c.ids)
    OBVIOUS
  <2>2. c.ids \in SUBSET HistoryJobs /\ c.op \notin {"refresh", "more"}
    BY <1>1, <1>7 DEF Typed, CallIsRight
  <2>3. IsResultOf(r, c.ids)
    BY <1>1, <2>1, <2>2, ResultsAre
  <2>4. EndsWith(c, r) /\ Ends(c, r) /\ view' = View2(c, r)
    BY <1>7, <2>1, <2>2, <2>3 DEF Fails, EndsWith
  <2> QED BY <1>6, <2>4
<1>8. CASE ~(c.tries > 0) /\ c.stage \notin {"before", "act"}
  <2>1. PICK r : r = c.result
    OBVIOUS
  <2>2. c.stage = "list" /\ Ends(c, r) /\ view' = View2(c, r)
    BY <1>1, <1>8, <2>1 DEF Fails, Typed
  <2>3. EndsWith(c, r)
    BY <1>1, <2>1, <2>2 DEF EndsWith, CallIsRight
  <2> QED BY <1>6, <2>2, <2>3
<1> QED BY <1>4, <1>5, <1>7, <1>8

-----------------------------------------------------------------------------
(* OptimizationHistory: the theorems.                                      *)

\* The page is loaded, and the list is asked for.
LEMMA HistoryBegins == ASSUME HistoryInit PROVE HistoryInv
<1>1. PICK c : c = NewCall("refresh", "list", {}, None)
  OBVIOUS
<1>2. /\ view = FreshView /\ calls = {c} /\ items = <<>> /\ log = <<>> /\ asked = {} /\ deleted = {}
      /\ unfinished \in SUBSET HistoryJobs /\ cursor \in HistoryJobs \cup {None}
      /\ last = [j \in HistoryJobs |-> None]
  BY <1>1 DEF HistoryInit
<1>3. view \in View /\ ~view.confirm /\ view.queue = {} /\ view.selected = {} /\ view.feedback = {}
  BY <1>2 DEF FreshView, View, Maybe
<1>4. c = [id |-> 1, op |-> "refresh", stage |-> "list", ids |-> {}, from |-> None,
           selection |-> view.selected, before |-> view.feedback, result |-> None, answer |-> None,
           tries |-> 1, live |-> TRUE]
  BY <1>1 DEF NewCall
<1>5. Typed(c)
  BY <1>3, <1>4 DEF Typed, Answers, Maybe
<1>6. CallIsRight(c) /\ c.op # "clear"
  BY <1>4 DEF CallIsRight
<1>7. HistoryTyped
  <2>1. CallsAre
    BY <1>2, <1>5 DEF CallsAre, Typed
  <2>2. items \in Seq(HistoryJobs) /\ log \in Seq(LogEntry)
    BY <1>2
  <2> QED BY <1>2, <1>3, <2>1, <2>2 DEF HistoryTyped
<1>8. CallsDiffer /\ ClearIsKnown
  BY <1>2, <1>6 DEF CallsDiffer, ClearIsKnown
<1>9. DialogIsAsked /\ NoneTwice(items) /\ QueueIsOfFailedClears
  BY <1>2, <1>3 DEF DialogIsAsked, NoneTwice, QueueIsOfFailedClears
<1> QED BY <1>2, <1>6, <1>7, <1>8, <1>9 DEF HistoryInv

\* Every step keeps it.
LEMMA HistoryKeeps ==
  ASSUME HistoryInv, [HistoryNext]_historyVars
  PROVE  HistoryInv' /\ (UNCHANGED historyVars \/ ConfirmedStep)
<1>1. CASE UNCHANGED historyVars
  <2>1. UNCHANGED <<unfinished, deleted, asked, items, cursor, view, log, calls, last>>
    BY <1>1 DEF historyVars, server, pages
  <2>2. HistoryTyped'
    BY <2>1 DEF HistoryInv, HistoryTyped, CallsAre
  <2>3. (\A c \in calls' : CallIsRight(c)) /\ CallsDiffer' /\ ClearIsKnown'
    BY <2>1 DEF HistoryInv, CallsDiffer, ClearIsKnown
  <2>4. DialogIsAsked' /\ NoneTwice(items') /\ QueueIsOfFailedClears'
    BY <2>1 DEF HistoryInv, DialogIsAsked, QueueIsOfFailedClears
  <2> QED BY <1>1, <2>2, <2>3, <2>4 DEF HistoryInv
<1>2. ASSUME NEW c \in calls, ServerAnswers(c) \/ Arrives(c) \/ Fails(c)
      PROVE  HistoryInv' /\ ConfirmedStep
  <2>1. CASE ServerAnswers(c)
    BY <2>1, ServerAnswersKeeps
  <2>2. CASE Fails(c)
    BY <2>2, FailsKeeps
  <2>3. CASE Arrives(c)
    <3>1. UNCHANGED <<unfinished, deleted, asked>> /\ (ListArrives(c) \/ ResultArrives(c))
      BY <2>3 DEF Arrives, server
    <3>2. CASE ListArrives(c)
      BY <3>1, <3>2, ListArrivesKeeps
    <3>3. CASE ResultArrives(c)
      BY <3>1, <3>3, ResultArrivesKeeps
    <3> QED BY <3>1, <3>2, <3>3
  <2> QED BY <1>2, <2>1, <2>2, <2>3
<1>3. CASE JobEnds \/ ClearLog
  BY <1>3, OutsideKeeps
<1>4. CASE ToggleSelectJob \/ ToggleSelectAll \/ UndoLastSelection \/ FocusHistoryRows \/ ToggleDetails
  BY <1>4, SelectingKeeps
<1>5. CASE RequestClearHistory \/ CancelClear
  BY <1>5, DialogKeeps
<1>6. CASE ClearHistory
  BY <1>6, ClearKeeps
<1>7. CASE RetryFilteredFailures \/ RetryFastFailures \/ RetryRefreshFailures \/ UndoFeedback \/ UndoLogEntry
  BY <1>7, CallingKeeps
<1>8. CASE RefreshOptimizationHistory \/ LoadMoreOptimizationHistory
  BY <1>8, ListCallKeeps
<1>9. CASE LeaveAndReturn
  BY <1>9, LeavingKeeps
<1> QED BY <1>1, <1>2, <1>3, <1>4, <1>5, <1>6, <1>7, <1>8, <1>9 DEF HistoryNext

\* The list of optimizations has every job once, and the queue shows only jobs whose last clear
\* failed (mergeFailureQueue, dedupeById).
THEOREM ListsSound == HistorySpec => []ListsAreSound
<1>1. HistoryInit => HistoryInv
  BY HistoryBegins
<1>2. HistoryInv /\ [HistoryNext]_historyVars => HistoryInv'
  BY HistoryKeeps
<1>3. HistoryInv => ListsAreSound
  BY DEF HistoryInv, ListsAreSound, EachJobOnce, NoneTwice
<1> QED BY <1>1, <1>2, <1>3, PTL DEF HistorySpec

\* What a confirmed clear deletes was selected when the dialog opened, whatever answers have come
\* since (requestClearHistory, handleConfirmClear).
THEOREM ConfirmedSound == HistorySpec => ConfirmedIsAsked
<1>1. HistoryInit => HistoryInv
  BY HistoryBegins
<1>2. HistoryInv /\ [HistoryNext]_historyVars => HistoryInv'
  BY HistoryKeeps
<1>3. HistoryInv /\ [HistoryNext]_historyVars
      => [\A c \in calls' : c.op = "clear" /\ (\A d \in calls : d.id # c.id) => c.ids \subseteq asked]_historyVars
  BY HistoryKeeps DEF ConfirmedStep
<1> QED BY <1>1, <1>2, <1>3, PTL DEF HistorySpec, ConfirmedIsAsked
================================================================================
