------------------------- MODULE OptimizationTracker -------------------------
(***************************************************************************)
(* The tracker of an optimization job                                      *)
(* (frontend/src/hooks/useOptimizationPolling.ts, with the requests of     *)
(* hooks/optimization/useOptimizationResultData.ts that write the same     *)
(* state): the effect that follows the job, which a change of the shown    *)
(* page ends and starts anew, and its requests, whose answers arrive in    *)
(* any order, also after the effect has ended.                             *)
(*                                                                         *)
(* A step is what runs between two awaits, with the effects its state      *)
(* changes cause.  A page stands for page, size, order and result tab;     *)
(* a result is whether its rows are there; the chart payloads, the time    *)
(* estimate and the messages of errors are left out.  The server's job is  *)
(* external: it moves forward and has rows once it has completed.          *)
(***************************************************************************)
EXTENDS JobStream, FiniteSets

CONSTANTS
  Pages,         \* what a user may look at
  None,          \* no page, no status, no answer
  LastStep,      \* the steps of the job
  MaxRequests,   \* bound on the requests under way, for TLC
  MaxFailures,   \* bound on the requests that fail after their retries, for TLC
  MaxChanges     \* bound on the changes of the page, for TLC

ASSUME BoundsAssumption == {LastStep, MaxRequests, MaxFailures, MaxChanges} \subseteq Nat

VARIABLES
  job,        \* the job on the server
  page,       \* optimizationPage
  transport,  \* the transport of the effect that runs
  shown,      \* optimizationStatus
  ticked,     \* tick > 0: a payload has arrived at this effect
  fetching,   \* statusFetchInFlight
  refetched,  \* refetchedRowsForJobRef is this job
  requests,   \* the requests under way
  notified,   \* notifiedTerminalRef: the status the user was notified of
  notices,    \* history: how often the user was notified
  failures, changes,
  stilled     \* history: a resume took the timer of this effect's polls after they had seen the end

vars == <<job, page, transport, shown, ticked, fetching, refetched, requests, notified, notices,
          failures, changes, stilled>>

Meta == [status : Status, step : 0..LastStep]
Shown == [meta : Meta \cup {None}, rows : Pages \cup {None}]
Answer == [meta : Meta, rows : Pages \cup {None}]

Ids == 1..(MaxRequests + 1)   \* the refetch, sent once, needs no room

\* live: the effect that sent it still runs (~cancelled); asked: for the progress, or for
\* the rows of a page; ended: the payload that made the chain fetch the status was terminal.
Request == [id : Ids, kind : {"poll", "probe", "update", "rows", "refetch"},
            asked : {"progress", "status", "history"}, page : Pages, ended : BOOLEAN,
            answer : Answer \cup {None}, live : BOOLEAN]

TypeOK ==
  /\ job \in Meta /\ page \in Pages /\ transport \in Transport /\ shown \in Shown
  /\ {ticked, fetching, refetched, stilled} \subseteq BOOLEAN
  /\ requests \subseteq Request
  /\ notified \in Finished \cup {None} /\ notices \in Nat
  /\ failures \in 0..MaxFailures /\ changes \in 0..MaxChanges

ASSUME NoneAssumption == None \notin Pages \cup Finished \cup Meta \cup Answer

-----------------------------------------------------------------------------
(* The server: the job moves forward, and answers with what it is now.     *)

Later(m) ==
  {n \in Meta : \/ m.status = "pending" /\ n.status = "running" /\ n.step = m.step
                \/ m.status = "running" /\ n.status = "running" /\ n.step = m.step + 1
                \/ m.status \notin Finished /\ n.status \in Finished /\ n.step = m.step}

ServerAdvances ==
  /\ job' \in Later(job)
  /\ UNCHANGED <<page, transport, shown, ticked, fetching, refetched, requests, notified,
                 notices, failures, changes, stilled>>

AnswerNow(rq) ==
  [meta |-> job,
   rows |-> IF rq.asked = "status" /\ job.status = "completed" THEN rq.page ELSE None]

-----------------------------------------------------------------------------
(* mergeOptimizationJobMeta and the shells around it                       *)

\* Mutated form: without the guard that a final status stays.
Merged_NoTerminal(old, new) ==
  IF old = None \/ new.status \in Finished \/ new.step >= old.step THEN new
  ELSE [status |-> IF old.status = "running" THEN "running" ELSE new.status, step |-> old.step]

Merged(old, new) ==
  IF old = None \/ new.status \in Finished THEN new
  ELSE IF old.status \in Finished THEN old
  ELSE IF new.step > old.step THEN new
  ELSE [status |-> IF old.status = "running" THEN "running" ELSE new.status, step |-> old.step]

\* mergeOptimizationProgressStatus keeps the rows; a status or rows payload brings its own.
WithProgress(s, a) == [s EXCEPT !.meta = Merged(s.meta, a.meta)]
WithRows(s, a) == [meta |-> Merged(s.meta, a.meta), rows |-> a.rows]

NewId(rs) == CHOOSE i \in Ids : \A rq \in rs : rq.id # i
Room(n) == Cardinality(requests) + n <= MaxRequests
Send(rs, kind, asked, p) ==
  rs \cup {[id |-> NewId(rs), kind |-> kind, asked |-> asked, page |-> p, ended |-> FALSE,
            answer |-> None, live |-> TRUE]}

Disowned(rs, kinds) ==
  {[rq EXCEPT !.live = rq.live /\ rq.kind \notin kinds] : rq \in rs}

\* setOptimizationStatus: a new object ends a refetch under way, and the effect of
\* useOptimizationResultData sends one the first time a finished job is shown without rows.
Refetches(s) == s.meta # None /\ s.meta.status \in Finished /\ s.rows = None /\ ~refetched
Show(s, rs) ==
  /\ shown' = s
  /\ refetched' = (refetched \/ Refetches(s))
  /\ requests' = IF Refetches(s) THEN Send(Disowned(rs, {"refetch"}), "refetch", "status", page)
                 ELSE Disowned(rs, {"refetch"})

\* Mutated form: without the marker of what the user was notified of.
Notify_NoMarker(status) == notified' = status /\ notices' = notices + 1

Notify(status) ==
  /\ notified' = status
  /\ notices' = IF notified = status THEN notices ELSE notices + 1

-----------------------------------------------------------------------------
(* Requests and their answers                                              *)

\* A payload's status is fetched when it is the first, when it is terminal, and every
\* fourth (or eighth, in the background) time.
Due(ended, due) == (ended \/ ~ticked) => due

\* Mutated form: the polling stops with the poll that saw the end.
Finish_AtEnd(rq, ended, t) ==
  CASE rq.kind = "poll" /\ rq.live -> IF ended THEN [t EXCEPT !.ended = TRUE] ELSE Scheduled(t)
    [] rq.kind = "probe" /\ ended -> IF rq.live THEN StoppedAtEnd(t) ELSE [t EXCEPT !.mode = "idle"]
    [] OTHER -> t

\* What a chain does after its status fetch, or without one: pollOnce asks for the next
\* poll whatever it saw, a probe that saw the end stops the stream.  A chain whose effect
\* has ended changes nothing but the mode.
Finish(rq, ended, t) ==
  CASE rq.kind = "poll" /\ rq.live -> Scheduled([t EXCEPT !.ended = t.ended \/ ended])
    [] rq.kind = "probe" /\ ended -> IF rq.live THEN StoppedAtEnd(t) ELSE [t EXCEPT !.mode = "idle"]
    [] OTHER -> t

\* The first step of a chain: the progress is applied, then the status is fetched unless a
\* fetch of it is under way.
ApplyProgress(rq) ==
  LET ended == rq.answer.meta.status \in Finished IN
  /\ rq.asked = "progress" /\ rq.live
  /\ rq.kind = "probe" => MayFallBack(transport)
  /\ ticked' = TRUE
  /\ \E due \in BOOLEAN :
       /\ Due(ended, due)
       /\ fetching' = (fetching \/ due)
       /\ IF due /\ ~fetching
          THEN /\ Show(WithProgress(shown, rq.answer),
                       (requests \ {rq}) \cup {[rq EXCEPT !.asked = "status", !.ended = ended,
                                                         !.answer = None]})
               /\ UNCHANGED transport
          ELSE /\ Show(WithProgress(shown, rq.answer), requests \ {rq})
               /\ transport' = Finish(rq, ended, transport)
  /\ UNCHANGED <<notified, notices>>

\* fetchStatusSnapshot after its answer: the end is notified once, and refreshes the history.
ApplyStatus(rq) ==
  /\ rq.asked = "status" /\ rq.live /\ rq.kind \in {"poll", "probe", "update"}
  /\ IF rq.ended
     THEN /\ Show(WithRows(shown, rq.answer),
                  (requests \ {rq}) \cup {[rq EXCEPT !.asked = "history", !.answer = None]})
          /\ Notify(rq.answer.meta.status)
          /\ transport' = [transport EXCEPT !.mode = "idle"]
          /\ UNCHANGED fetching
     ELSE /\ Show(WithRows(shown, rq.answer), requests \ {rq})
          /\ transport' = Finish(rq, FALSE, transport)
          /\ fetching' = FALSE
          /\ UNCHANGED <<notified, notices>>
  /\ UNCHANGED ticked

\* Mutated form: without the cleanup that cancels the effects.
ApplyRows_Late(rq) ==
  /\ rq.kind \in {"rows", "refetch"}
  /\ Show(IF rq.kind = "rows" THEN WithRows(shown, rq.answer)
          ELSE [meta |-> rq.answer.meta, rows |-> rq.answer.rows],
          requests \ {rq})
  /\ UNCHANGED <<transport, ticked, fetching, notified, notices>>

\* The two effects of useOptimizationResultData; the second replaces what is shown.
ApplyRows(rq) ==
  /\ rq.kind \in {"rows", "refetch"} /\ rq.live
  /\ Show(IF rq.kind = "rows" THEN WithRows(shown, rq.answer)
          ELSE [meta |-> rq.answer.meta, rows |-> rq.answer.rows],
          requests \ {rq})
  /\ UNCHANGED <<transport, ticked, fetching, notified, notices>>

\* An answer that changes nothing shown: it came too late, or only ends the chain.
Discard(rq) ==
  /\ \/ ~rq.live
     \/ rq.asked = "history"
     \/ rq.asked = "progress" /\ rq.kind = "probe" /\ ~MayFallBack(transport)
  /\ requests' = requests \ {rq}
  /\ transport' = Finish(rq, rq.ended, transport)
  /\ fetching' = (fetching /\ ~(rq.asked = "history" /\ rq.live))
  /\ UNCHANGED <<shown, ticked, refetched, notified, notices>>

Apply(rq) == ApplyProgress(rq) \/ ApplyStatus(rq) \/ ApplyRows(rq) \/ Discard(rq)

ServerAnswers(i) ==
  /\ \E rq \in requests :
       /\ rq.id = i /\ rq.answer = None
       /\ requests' = (requests \ {rq}) \cup {[rq EXCEPT !.answer = AnswerNow(rq)]}
  /\ UNCHANGED <<job, page, transport, shown, ticked, fetching, refetched, notified, notices,
                 failures, changes, stilled>>

AnswerArrives(i) ==
  /\ \E rq \in requests : rq.id = i /\ rq.answer # None /\ Apply(rq)
  /\ UNCHANGED <<job, page, failures, changes, stilled>>

\* A request fails for good: pollOnce keeps polling, a status fetch counts as none, a
\* failing refresh of the history is swallowed.
RequestFails(i) ==
  /\ failures < MaxFailures
  /\ failures' = failures + 1
  /\ \E rq \in requests :
       /\ rq.id = i
       /\ requests' = requests \ {rq}
       /\ transport' = Finish(rq, rq.ended, transport)
       /\ fetching' = (fetching /\ ~(rq.live /\ rq.asked # "progress"
                                     /\ rq.kind \in {"poll", "probe", "update"}))
  /\ UNCHANGED <<job, page, shown, ticked, refetched, notified, notices, changes, stilled>>

-----------------------------------------------------------------------------
(* Timers, the stream and the user                                         *)

Poll(t) ==
  /\ Room(1)
  /\ transport' = t
  /\ requests' = Send(requests, "poll", "progress", page)

Probe ==
  /\ Room(1) /\ MayFallBack(transport)
  /\ requests' = Send(requests, "probe", "progress", page)

PollTimerFires ==
  /\ transport.pollTimer
  /\ Poll(Unscheduled(transport))
  /\ UNCHANGED <<job, page, shown, ticked, fetching, refetched, notified, notices, failures,
                 changes, stilled>>

ProbeTimerFires ==
  /\ transport.probeTimer
  /\ Probe
  /\ UNCHANGED <<job, page, transport, shown, ticked, fetching, refetched, notified, notices,
                 failures, changes, stilled>>

PollUnderWay == \E rq \in requests : rq.kind = "poll" /\ rq.live

\* The page becomes visible or gets the focus: the timer of the polls is cleared, and the job asked
\* about at once; but once the end was seen nothing is asked, and the timer is gone for good.
Resume ==
  /\ \/ transport.polling /\ ~transport.ended /\ Poll(Unscheduled(transport))
     \/ ~transport.polling /\ Probe /\ transport' = Unscheduled(transport)
     \/ transport.ended /\ transport' = Unscheduled(transport) /\ UNCHANGED requests
  /\ stilled' = (stilled \/ (transport.polling /\ transport.ended /\ ~PollUnderWay))
  /\ UNCHANGED <<job, page, shown, ticked, fetching, refetched, notified, notices, failures,
                 changes>>

ConnectTimeout ==
  /\ ConnectTimerFires(transport) /\ MayFallBack(transport)
  /\ Poll(FallenBack(transport))
  /\ UNCHANGED <<job, page, shown, ticked, fetching, refetched, notified, notices, failures,
                 changes, stilled>>

StreamOpens ==
  /\ MayOpen(transport)
  /\ transport' = Opened(transport, TRUE)
  /\ UNCHANGED <<job, page, shown, ticked, fetching, refetched, requests, notified, notices,
                 failures, changes, stilled>>

StreamBreaks ==
  /\ MayBreak(transport)
  /\ Poll(FallenBack(transport))
  /\ UNCHANGED <<job, page, shown, ticked, fetching, refetched, notified, notices, failures,
                 changes, stilled>>

\* An "update" event: the frame of a moment ago is not told from the frame of now.
StreamUpdates ==
  LET a == AnswerNow([asked |-> "progress"])
      ended == job.status \in Finished IN
  /\ MayUpdate(transport)
  /\ Room(1)
  /\ ticked' = TRUE
  /\ \E due \in BOOLEAN :
       /\ Due(ended, due)
       /\ fetching' = (fetching \/ due)
       /\ LET sent == Send(requests, "update", "status", page) IN
          Show(WithProgress(shown, a),
               IF due /\ ~fetching
               THEN {IF rq \in requests THEN rq ELSE [rq EXCEPT !.ended = ended] : rq \in sent}
               ELSE requests)
  /\ transport' = IF ended THEN StoppedAtEnd(transport) ELSE transport
  /\ UNCHANGED <<job, page, notified, notices, failures, changes, stilled>>

\* Another page ends the effects and starts them again: the tracker, the rows of the page.
ChangePage ==
  /\ changes < MaxChanges
  /\ changes' = changes + 1
  /\ page' \in Pages \ {page}
  /\ ticked' = FALSE /\ fetching' = FALSE /\ stilled' = FALSE
  /\ transport' \in Started
  /\ Room(IF transport'.polling THEN 2 ELSE 1)
  /\ LET disowned == {[rq EXCEPT !.live = FALSE] : rq \in requests}
         rows == Send(disowned, "rows", "status", page') IN
     requests' = IF transport'.polling THEN Send(rows, "poll", "progress", page') ELSE rows
  /\ UNCHANGED <<job, shown, refetched, notified, notices, failures>>

Init ==
  /\ job = [status |-> "pending", step |-> 0]
  /\ page \in Pages
  /\ transport \in Started
  /\ shown = [meta |-> None, rows |-> None]
  /\ ticked = FALSE /\ fetching = FALSE /\ refetched = FALSE
  /\ LET rows == Send({}, "rows", "status", page) IN
     requests = IF transport.polling THEN Send(rows, "poll", "progress", page) ELSE rows
  /\ notified = None /\ notices = 0 /\ failures = 0 /\ changes = 0
  /\ stilled = FALSE

Next ==
  \/ ServerAdvances
  \/ \E i \in Ids : ServerAnswers(i) \/ AnswerArrives(i) \/ RequestFails(i)
  \/ PollTimerFires \/ ProbeTimerFires \/ Resume
  \/ ConnectTimeout \/ StreamOpens \/ StreamBreaks \/ StreamUpdates
  \/ ChangePage

\* The server runs the job and answers, timers fire; a stream owes nothing.
Fairness ==
  /\ WF_vars(ServerAdvances)
  /\ \A i \in Ids : WF_vars(ServerAnswers(i)) /\ WF_vars(AnswerArrives(i))
  /\ WF_vars(PollTimerFires) /\ WF_vars(ProbeTimerFires) /\ WF_vars(ConnectTimeout)

Spec == Init /\ [][Next]_vars
FairSpec == Spec /\ Fairness

-----------------------------------------------------------------------------
Ended(s) == s.meta # None /\ s.meta.status \in Finished

(* A final status, once shown, stays: no late answer, whichever request of *)
(* whichever effect it belongs to, brings back another status.             *)
FinalStatusStays == Ended(shown) => shown'.meta = shown.meta

(* Rows that arrive are those of the page the user looks at, however often *)
(* he has turned pages since a request was sent.                           *)
RowsAreOfThePage == shown'.rows \in {shown.rows, None, page}

(* No late answer spoils what is shown.                                    *)
ShownIsSound == [][FinalStatusStays /\ RowsAreOfThePage]_vars

(* The user is notified of the end of a job at most once.                  *)
NotifiedOnce == notices <= 1

(* The end of the job is shown, whichever transport works: the stream may  *)
(* hang before it opens, stay silent once open, or break at any time.      *)
StatusArrives == (job.status \in Finished) ~> Ended(shown)

(* A tracker that polls gets the rows of a completed job and notifies the  *)
(* user, though the fetch of the final status may fail, or be skipped      *)
(* because an earlier fetch is under way; unless the page was left and     *)
(* came back after the end had been seen, with no poll under way: the      *)
(* retry is then lost.                                                     *)
PolledResultArrives ==
  (transport.polling /\ job.status = "completed")
     ~> (~transport.polling \/ (shown.rows = page /\ notices > 0) \/ stilled)

(* The end of a job is shown, and with it, to who polls, its rows.         *)
EndIsShown == StatusArrives /\ PolledResultArrives
=============================================================================
