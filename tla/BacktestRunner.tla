---------------------------- MODULE BacktestRunner ----------------------------
(***************************************************************************)
(* The runner of backtests (frontend/src/hooks/useBacktestRunner.ts): it   *)
(* starts a job, follows it over the transport of JobStream, shows its     *)
(* result, and finds it again after a reload of the page, from the session *)
(* storage.  The form's button is disabled while a backtest loads; the     *)
(* handler the controller hands to the live panel                          *)
(* (hooks/app/useLiveWorkspaceController.ts) is not, so that a run may     *)
(* start while an older job is still followed.  The panel of today has no  *)
(* button for it, App.liveLayout.test.tsx runs it.  The controller keeps   *)
(* the request of a run (useExecutionWorkspaceController.ts), for the file *)
(* the user exports the result to and for the comparison of the live       *)
(* panel.                                                                  *)
(*                                                                         *)
(* A step is what runs between two awaits, with the effects its state      *)
(* changes cause.  A result is the job it is of, a request the number of   *)
(* its edit; messages and notices are left out.  The server is external:   *)
(* it starts jobs in order, runs them, cancels them on request and         *)
(* remembers them.                                                         *)
(***************************************************************************)
EXTENDS JobStream, FiniteSets

CONSTANTS
  MaxRuns,       \* bound on the runs a user starts, for TLC
  MaxDetours,    \* bound on resets, reloads, edits of the request and refused runs, for TLC
  MaxRequests,   \* bound on the requests under way, for TLC
  MaxFailures    \* bound on the requests that fail after their retries, for TLC

ASSUME BacktestBounds == {MaxRuns, MaxDetours, MaxRequests, MaxFailures} \subseteq Nat

VARIABLES
  server,      \* the status of the jobs the server has started, in order
  jobId,       \* 0: none
  loading,
  result,      \* the job whose result is shown, 0: none
  nonce,       \* runNonceRef
  persisted,   \* the session storage
  transport,   \* of the effect that follows jobId
  requests,    \* the requests under way
  request,     \* what the form holds, and the local storage
  baselineRequest,  \* the request of the last run of this page, 0: none
  jobOf,       \* history: the request of each job of the server
  unmatched,   \* history: jobs that were followed when another run took the baseline, or that a
               \* refused run has taken it from
  runs, detours, failures

ui == <<jobId, loading, result, nonce, persisted, transport>>
form == <<request, baselineRequest, jobOf, unmatched>>
bounds == <<runs, detours, failures>>
vars == <<server, ui, requests, form, bounds>>

Jobs == 1..MaxRuns
Ids == 1..(MaxRequests + 1)   \* the first poll of an effect needs no room
Answers == Status \cup {"none"}
Edits == 1..(MaxDetours + 1)
Aligned == MaxDetours + 2      \* the request the live panel runs, aligned with the robot

\* job: cancelled or polled, or the one a start has created; live: the effect that polls it
\* still runs; nonce, of: of the run that cancels and starts.
Request == [id : Ids, kind : {"cancel", "start", "poll"}, job : Jobs \cup {0},
            nonce : Nat, of : Edits \cup {0, Aligned}, answer : Answers, live : BOOLEAN]

TypeOK ==
  /\ DOMAIN server \subseteq Jobs /\ \A j \in DOMAIN server : server[j] \in Status
  /\ jobId \in Jobs \cup {0} /\ result \in Jobs \cup {0} /\ persisted \in Jobs \cup {0}
  /\ loading \in BOOLEAN /\ nonce \in 0..(MaxRuns + MaxDetours)
  /\ transport \in Transport /\ requests \subseteq Request
  /\ request \in Edits /\ baselineRequest \in Edits \cup {0, Aligned}
  /\ DOMAIN jobOf = DOMAIN server /\ unmatched \subseteq Jobs

-----------------------------------------------------------------------------
NewId(rs) == CHOOSE i \in Ids : \A rq \in rs : rq.id # i
Room == Cardinality(requests) < MaxRequests
Sent(rs, kind, job, n, of) ==
  rs \cup {[id |-> NewId(rs), kind |-> kind, job |-> job, nonce |-> n, of |-> of, answer |-> "none",
            live |-> TRUE]}
SendPoll(rs, job) == Sent(rs, "poll", job, 0, 0)

\* The effect that follows a job depends on jobId and loading; a change of either ends it.
Follow(job, busy, rs) ==
  /\ jobId' = job /\ loading' = busy
  /\ IF job = jobId /\ busy = loading
     THEN transport' = transport /\ requests' = rs
     ELSE LET disowned == {[rq EXCEPT !.live = rq.live /\ rq.kind # "poll"] : rq \in rs} IN
          /\ transport' \in IF job # 0 /\ busy THEN Started ELSE {Idle}
          /\ requests' = IF transport'.polling THEN SendPoll(disowned, job) ELSE disowned

\* Mutated form: the session storage keeps the job.
ApplyStatus_KeepsStored(job, status, rs) ==
  IF status \in Finished
  THEN /\ result' = IF status = "completed" THEN job ELSE result
       /\ UNCHANGED persisted
       /\ Follow(0, FALSE, rs)
  ELSE /\ transport' = IF transport.polling THEN Scheduled(transport) ELSE transport
       /\ requests' = rs
       /\ UNCHANGED <<jobId, loading, result, persisted>>

\* Mutated form: a poll that finds the job running is the last one.
ApplyStatus_PollsOnce(job, status, rs) ==
  IF status \in Finished
  THEN /\ result' = IF status = "completed" THEN job ELSE result
       /\ persisted' = 0
       /\ Follow(0, FALSE, rs)
  ELSE requests' = rs /\ UNCHANGED <<transport, jobId, loading, result, persisted>>

\* applyBacktestStatus: a final status ends the tracking, a completed one shows its result.
ApplyStatus(job, status, rs) ==
  IF status \in Finished
  THEN /\ result' = IF status = "completed" THEN job ELSE result
       /\ persisted' = 0
       /\ Follow(0, FALSE, rs)
  ELSE /\ transport' = IF transport.polling THEN Scheduled(transport) ELSE transport
       /\ requests' = rs
       /\ UNCHANGED <<jobId, loading, result, persisted>>

-----------------------------------------------------------------------------
(* The user                                                                *)

\* Mutated form: the result of the run before stays.
ResultOfNewRun_Kept == result

\* setResult(null) of runBacktest.
ResultOfNewRun == 0

\* handleRunBacktest: by the button of the form when nothing loads, or by handleRunLiveBacktest, with
\* the request of the form if there is no snapshot to align it with.
RunBacktest(of) ==
  /\ runs < MaxRuns /\ Room
  /\ runs' = runs + 1
  /\ nonce' = nonce + 1
  /\ result' = ResultOfNewRun
  /\ baselineRequest' = of /\ unmatched' = {jobId} \ {0}
  /\ IF jobId # 0 THEN Follow(jobId, TRUE, Sent(requests, "cancel", jobId, nonce + 1, of))
     ELSE Follow(0, TRUE, Sent(requests, "start", 0, nonce + 1, of))
  /\ UNCHANGED <<server, request, jobOf, persisted, detours, failures>>

Detour == detours < MaxDetours /\ detours' = detours + 1

\* handleRunLiveBacktest, while the precheck of the form has errors: only its request is kept.
RunRefused(of) ==
  /\ Detour
  /\ baselineRequest' = of /\ unmatched' = Jobs
  /\ UNCHANGED <<server, ui, requests, request, jobOf, runs, failures>>

Edit ==
  /\ Detour
  /\ request' = request + 1
  /\ UNCHANGED <<server, ui, requests, baselineRequest, jobOf, unmatched, runs, failures>>

\* The cancellation of the job of a reset is sent and forgotten.
Reset ==
  /\ Detour
  /\ nonce' = nonce + 1
  /\ result' = 0 /\ persisted' = 0
  /\ server' = IF jobId # 0 /\ server[jobId] \notin Finished
               THEN [server EXCEPT ![jobId] = "cancelled"] ELSE server
  /\ Follow(0, FALSE, requests)
  /\ UNCHANGED <<form, runs, failures>>

\* A reload forgets all but what is stored: the job, from which the first effect resumes, and the
\* request, as it is by now.
Reload ==
  /\ Detour
  /\ nonce' = 0 /\ result' = 0
  /\ jobId' = persisted /\ loading' = (persisted # 0)
  /\ transport' \in IF persisted # 0 THEN Started ELSE {Idle}
  /\ requests' = IF transport'.polling THEN SendPoll({}, persisted) ELSE {}
  /\ baselineRequest' = 0 /\ unmatched' = {}
  /\ UNCHANGED <<server, request, jobOf, persisted, runs, failures>>

-----------------------------------------------------------------------------
(* The server                                                              *)

ServerRuns(j) ==
  /\ j \in DOMAIN server
  /\ \/ server[j] = "pending" /\ server' = [server EXCEPT ![j] = "running"]
     \/ /\ server[j] = "running"
        /\ \E s \in {"completed", "failed"} : server' = [server EXCEPT ![j] = s]
  /\ UNCHANGED <<ui, requests, form, bounds>>

ServerAnswers(i) ==
  /\ \E rq \in requests :
       /\ rq.id = i /\ rq.answer = "none"
       /\ \/ /\ rq.kind = "start"
             /\ server' = [j \in 1..(Cardinality(DOMAIN server) + 1) |->
                             IF j \in DOMAIN server THEN server[j] ELSE "pending"]
             /\ requests' = (requests \ {rq}) \cup
                  {[rq EXCEPT !.job = Cardinality(DOMAIN server) + 1, !.answer = "pending"]}
             /\ jobOf' = [j \in DOMAIN server' |-> IF j \in DOMAIN server THEN jobOf[j] ELSE rq.of]
          \/ /\ rq.kind = "cancel"
             /\ server' = IF server[rq.job] \in Finished THEN server
                          ELSE [server EXCEPT ![rq.job] = "cancelled"]
             /\ requests' = (requests \ {rq}) \cup {[rq EXCEPT !.answer = "cancelled"]}
             /\ UNCHANGED jobOf
          \/ /\ rq.kind = "poll"
             /\ requests' = (requests \ {rq}) \cup {[rq EXCEPT !.answer = server[rq.job]]}
             /\ UNCHANGED <<server, jobOf>>
  /\ UNCHANGED <<ui, request, baselineRequest, unmatched, bounds>>

-----------------------------------------------------------------------------
(* Answers                                                                 *)

\* Cancelled or not, the old job makes way for the start of the new one.
CancelReturns(rq) ==
  /\ rq.kind = "cancel"
  /\ requests' = Sent(requests \ {rq}, "start", 0, rq.nonce, rq.of)
  /\ UNCHANGED <<jobId, loading, result, persisted, transport>>

\* The answer to a start another run or a reset has overtaken is dropped, its job with it.
StartReturns(rq) ==
  /\ rq.kind = "start"
  /\ IF rq.nonce = nonce
     THEN persisted' = rq.job /\ Follow(rq.job, loading, requests \ {rq})
     ELSE requests' = requests \ {rq} /\ UNCHANGED <<jobId, loading, persisted, transport>>
  /\ UNCHANGED result

\* Mutated form: the answer of a poll counts though its effect has ended.
PollReturns_Late(rq) == rq.kind = "poll" /\ ApplyStatus(rq.job, rq.answer, requests \ {rq})

PollReturns(rq) ==
  /\ rq.kind = "poll"
  /\ IF rq.live THEN ApplyStatus(rq.job, rq.answer, requests \ {rq})
     ELSE requests' = requests \ {rq} /\ UNCHANGED <<jobId, loading, result, persisted, transport>>

AnswerArrives(i) ==
  /\ \E rq \in requests :
       /\ rq.id = i /\ rq.answer # "none"
       /\ CancelReturns(rq) \/ StartReturns(rq) \/ PollReturns(rq)
  /\ UNCHANGED <<server, nonce, form, bounds>>

\* A failed start of the current run ends the loading; a failed poll polls again.
StartFails(rq) ==
  /\ rq.kind = "start"
  /\ Follow(jobId, loading /\ rq.nonce # nonce, requests \ {rq})

RequestFails(i) ==
  /\ failures < MaxFailures
  /\ failures' = failures + 1
  /\ \E rq \in requests :
       /\ rq.id = i
       /\ \/ CancelReturns(rq)
          \/ StartFails(rq) /\ UNCHANGED <<result, persisted>>
          \/ /\ rq.kind = "poll"
             /\ requests' = requests \ {rq}
             /\ transport' = IF rq.live THEN Scheduled(transport) ELSE transport
             /\ UNCHANGED <<jobId, loading, result, persisted>>
  /\ UNCHANGED <<server, nonce, form, runs, detours>>

-----------------------------------------------------------------------------
(* The transport                                                           *)

Poll(t) ==
  /\ Room
  /\ transport' = t
  /\ requests' = SendPoll(requests, jobId)
  /\ UNCHANGED <<server, jobId, loading, result, nonce, persisted, form, bounds>>

PollTimerFires == transport.pollTimer /\ Poll(Unscheduled(transport))
Resume == transport.polling /\ ~transport.ended /\ Poll(Unscheduled(transport))
ConnectTimeout == ConnectTimerFires(transport) /\ MayFallBack(transport) /\ Poll(FallenBack(transport))
StreamBreaks == MayBreak(transport) /\ Poll(FallenBack(transport))

StreamOpens ==
  /\ MayOpen(transport)
  /\ transport' = Opened(transport, FALSE)
  /\ UNCHANGED <<server, jobId, loading, result, nonce, persisted, requests, form, bounds>>

\* The server's stream tells every status, the last one at the latest.
StreamUpdates ==
  /\ MayUpdate(transport)
  /\ ApplyStatus(jobId, server[jobId], requests)
  /\ UNCHANGED <<server, nonce, form, bounds>>

Init ==
  /\ server = <<>>
  /\ jobId = 0 /\ loading = FALSE /\ result = 0 /\ nonce = 0 /\ persisted = 0
  /\ transport = Idle /\ requests = {}
  /\ request = 1 /\ baselineRequest = 0 /\ jobOf = <<>> /\ unmatched = {}
  /\ runs = 0 /\ detours = 0 /\ failures = 0

Next ==
  \/ \E of \in {request, Aligned} : RunBacktest(of) \/ RunRefused(of)
  \/ Edit \/ Reset \/ Reload
  \/ \E j \in Jobs : ServerRuns(j)
  \/ \E i \in Ids : ServerAnswers(i) \/ AnswerArrives(i) \/ RequestFails(i)
  \/ PollTimerFires \/ Resume \/ ConnectTimeout \/ StreamOpens \/ StreamBreaks \/ StreamUpdates

\* An open stream delivers or breaks; what the user does is up to him.
Fairness ==
  /\ \A j \in Jobs : WF_vars(ServerRuns(j))
  /\ \A i \in Ids : WF_vars(ServerAnswers(i)) /\ WF_vars(AnswerArrives(i))
  /\ WF_vars(PollTimerFires) /\ WF_vars(ConnectTimeout) /\ WF_vars(StreamUpdates)

Spec == Init /\ [][Next]_vars
FairSpec == Spec /\ Fairness

-----------------------------------------------------------------------------
\* The request that is exported, and compared with, beside a result.
ExportedRequest == IF baselineRequest # 0 THEN baselineRequest ELSE request

\* What a reload resumes is the job the page follows: never a job that was reset, replaced, or whose
\* outcome has been shown.
ResumesTheJobFollowed == persisted = jobId

\* The file with a result names the request it was computed for, whatever is edited or run since;
\* except that a refused run leaves its request beside the old result, that a job which ends while
\* the next run waits for its cancellation is shown beside the request of that run, and that a page
\* loaded anew names what the form holds by then.
ExportIsOfItsRequest ==
  result # 0 /\ result \notin unmatched /\ baselineRequest # 0 => ExportedRequest = jobOf[result]

\* The page and what is kept of it, in the session and for the file, are of one run.
PageIsOfItsRun == ResumesTheJobFollowed /\ ExportIsOfItsRequest

\* A result that appears is that of the job the page has, though requests about earlier jobs are
\* still answered.
ResultIsOfTheJob == [][result' \in {result, 0, jobId}]_vars

\* The newest run waits for the cancellation before its start, or for its start.
StartAwaited == \E rq \in requests : rq.kind \in {"cancel", "start"} /\ rq.nonce = nonce

\* The page lets go of a job only at its end, or when it cancels it.
KeepsToTheEnd == jobId # 0 /\ jobId' = 0 => server'[jobId] \in Finished

\* What may become of a run begun over a job that is still followed: that job's end ends the loading
\* before the new job has started, which then nobody follows until the page is loaded anew; or the
\* start is refused, and the old job is not followed on.
Overtaken == ~loading /\ unmatched # {} /\ (StartAwaited \/ jobId \in unmatched)

\* A page that loads comes to have neither a job nor a start to wait for: the run's job has ended, its
\* start was refused, or it was reset.
LoadingEnds == loading ~> ((~loading /\ jobId = 0 /\ ~StartAwaited) \/ Overtaken)

\* A run settles: its job is followed to its end or its start is refused, whatever becomes of the
\* stream, unless the job before was still followed, and its end overtakes the start.
RunSettles == [][KeepsToTheEnd]_vars /\ LoadingEnds
=============================================================================
