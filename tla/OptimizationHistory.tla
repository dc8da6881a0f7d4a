------------------------- MODULE OptimizationHistory -------------------------
(***************************************************************************)
(* The history of optimizations in the browser: the list and its requests  *)
(* (frontend/src/hooks/optimization/useOptimizationHistoryState.ts), and   *)
(* the panel that selects, clears, retries and restores                    *)
(* (useOptimizationHistoryViewModel.ts and the sections that draw it).     *)
(*                                                                         *)
(* A call of the panel is several requests in a row, and what it does in   *)
(* the end is decided from the state it began with; calls overlap.  Jobs   *)
(* are numbered in the order of the list, the newest first.  Notices, the  *)
(* filter, the keyword and the batch size (any batch of the queue may be   *)
(* retried), and the counts of a result are left out.  The server is       *)
(* external: backend/app/optimizer/optimizer.py clears and restores.       *)
(***************************************************************************)
EXTENDS Naturals, FiniteSets, Sequences

CONSTANTS
  HistoryJobs,  \* a set of numbers
  PageSize,     \* HISTORY_PAGE_SIZE
  LogMax,       \* OPERATION_LOG_MAX_ITEMS
  None,
  MaxActions,   \* bound on what the user does, for TLC
  MaxCalls,     \* bound on the calls under way, for TLC
  MaxFailures   \* bound on the answers that are lost, for TLC

ASSUME HistoryAssumption ==
  /\ HistoryJobs \subseteq Nat /\ IsFiniteSet(HistoryJobs) /\ None \notin HistoryJobs
  /\ PageSize \in Nat \ {0} /\ LogMax \in Nat \ {0}

VARIABLES
  unfinished,   \* the server: jobs that still run
  deleted,      \* the server: jobs that are soft-deleted
  items,        \* optimizationHistory
  cursor,       \* optimizationHistoryCursor, also in the session storage
  hasMore, loading,
  view,         \* the state of the panel
  log,          \* operationLog, also in the local storage
  calls,        \* the calls under way
  asked,        \* history: the selection when the dialog was opened
  last,         \* history: of every job, how the last clear of it came out
  actions, failures

server == <<unfinished, deleted>>
pages == <<items, cursor, hasMore, loading>>
historyVars == <<server, pages, view, log, calls, asked, last, actions, failures>>

Reasons == {"JOB_NOT_FINISHED", "NOT_FOUND_OR_ALREADY_DELETED", "NOT_FOUND_OR_NOT_DELETED",
            "REQUEST_FAILED"}
Fast == {"REQUEST_FAILED"}                    \* FAST_RETRY_REASON_CODES
Refreshing == {"JOB_NOT_FINISHED"}            \* REFRESH_RETRY_REASON_CODES
NotRetryable == {"NOT_FOUND_OR_ALREADY_DELETED", "NOT_FOUND_OR_NOT_DELETED"}
Failure == [job : HistoryJobs, reason : Reasons]
Result == [done : SUBSET HistoryJobs, failed : SUBSET Failure]
Page == [jobs : Seq(HistoryJobs), next : HistoryJobs \cup {None}]

Maybe(S) == {{}} \cup {{x} : x \in S}           \* something of S, or null

View == [selected : SUBSET HistoryJobs,
         undo : Maybe(SUBSET HistoryJobs),        \* undoSelectionSnapshot
         clearing : BOOLEAN, retrying : BOOLEAN, restoring : BOOLEAN,
         confirm : BOOLEAN,                       \* confirmClearOpen
         feedback : Maybe(SUBSET HistoryJobs),    \* clearFeedback: its deletedJobIds
         queue : SUBSET Failure, details : BOOLEAN]
FreshView == [selected |-> {}, undo |-> {}, clearing |-> FALSE, retrying |-> FALSE,
              restoring |-> FALSE, confirm |-> FALSE, feedback |-> {}, queue |-> {},
              details |-> TRUE]

LogEntry == [action : {"clear", "restore"}, jobs : SUBSET HistoryJobs]

\* stage: the request under way; tries: whether it may still be sent again; live: the panel
\* that made the call is still there; before: clearFeedback when the call was made.
Call == [id : 1..MaxCalls, op : {"refresh", "more", "clear", "retry", "restore"},
         stage : {"before", "act", "list"}, ids : SUBSET HistoryJobs, from : HistoryJobs \cup {None},
         selection : SUBSET HistoryJobs, before : Maybe(SUBSET HistoryJobs),
         result : Result \cup {None}, answer : Page \cup Result \cup {None}, tries : 0..1,
         live : BOOLEAN]

HistoryTypeOK ==
  /\ {unfinished, deleted, asked} \subseteq SUBSET HistoryJobs
  /\ items \in Seq(HistoryJobs) /\ cursor \in HistoryJobs \cup {None} /\ {hasMore, loading} \subseteq BOOLEAN
  /\ view \in View /\ log \in Seq(LogEntry) /\ Len(log) <= LogMax
  /\ \A c \in calls :
       /\ DOMAIN c = {"id", "op", "stage", "ids", "from", "selection", "before", "result",
                      "answer", "tries", "live"}
       /\ c.stage = "act" => c.answer \in Result \cup {None}
       /\ c.stage # "act" => c.answer \in Page \cup {None}
       /\ c.op \in {"refresh", "more"} => c.stage = "list"
       /\ c.op \in {"clear", "retry", "restore"} /\ c.stage = "list" => c.result \in Result
  /\ last \in [HistoryJobs -> {"cleared", "failed", None}]

-----------------------------------------------------------------------------
(* The server                                                              *)

\* The jobs of S in the order of the list.
Newest(S) ==
  CHOOSE s \in [1 .. Cardinality(S) -> S] : \A i, k \in 1 .. Cardinality(S) : i < k => s[i] > s[k]

PageAfter(from) ==
  LET rest == Newest({j \in HistoryJobs \ deleted : from = None \/ j < from})
      page == SubSeq(rest, 1, PageSize) IN
  IF Len(rest) <= PageSize THEN [jobs |-> rest, next |-> None]
  ELSE [jobs |-> page, next |-> page[PageSize]]

Cleared(ids) ==
  [done |-> ids \ (unfinished \cup deleted),
   failed |-> {[job |-> j, reason |-> "NOT_FOUND_OR_ALREADY_DELETED"] : j \in ids \cap deleted}
              \cup {[job |-> j, reason |-> "JOB_NOT_FINISHED"] : j \in (ids \cap unfinished) \ deleted}]
Restored(ids) ==
  [done |-> ids \cap deleted,
   failed |-> {[job |-> j, reason |-> "NOT_FOUND_OR_NOT_DELETED"] : j \in ids \ deleted}]
Lost(ids) ==   \* what the client makes of a request without an answer
  [done |-> {}, failed |-> {[job |-> j, reason |-> "REQUEST_FAILED"] : j \in ids}]

JobEnds ==
  /\ \E j \in unfinished : unfinished' = unfinished \ {j}
  /\ UNCHANGED <<deleted, pages, view, log, calls, asked, last, actions, failures>>

ServerAnswers(c) ==
  /\ c.answer = None
  /\ CASE c.stage # "act" ->
            /\ calls' = (calls \ {c}) \cup {[c EXCEPT !.answer = PageAfter(c.from)]}
            /\ UNCHANGED deleted
       [] c.stage = "act" /\ c.op = "restore" ->
            /\ calls' = (calls \ {c}) \cup {[c EXCEPT !.answer = Restored(c.ids)]}
            /\ deleted' = deleted \ c.ids
       [] OTHER ->
            /\ calls' = (calls \ {c}) \cup {[c EXCEPT !.answer = Cleared(c.ids)]}
            /\ deleted' = deleted \cup (c.ids \ unfinished)
  /\ UNCHANGED <<unfinished, pages, view, log, asked, last, actions, failures>>

-----------------------------------------------------------------------------
(* The user                                                                *)

JobsOf(failed) == {f.job : f \in failed}
Visible == {items[i] : i \in DOMAIN items}
Chosen == Visible \cap view.selected          \* what selectedCount counts

\* The dialog is modal: while it is open the user confirms or cancels.
User ==
  /\ actions < MaxActions
  /\ actions' = actions + 1
  /\ ~view.confirm
  /\ UNCHANGED <<server, failures, last>>

Change(v) == User /\ view' = v /\ UNCHANGED <<pages, log, calls, asked>>

ToggleSelectJob ==
  \E j \in Visible :
    Change([view EXCEPT !.selected = IF j \in @ THEN @ \ {j} ELSE @ \cup {j}])
ToggleSelectAll ==
  /\ Visible # {}
  /\ Change([view EXCEPT !.selected = IF Visible \subseteq @ THEN @ \ Visible ELSE @ \cup Visible])
UndoLastSelection ==
  /\ ~view.clearing
  /\ \E snapshot \in view.undo :
       Change([view EXCEPT !.selected = snapshot \cap Visible, !.undo = {}])
FocusHistoryRows ==   \* the queue, or the part of one reason
  \E ids \in {JobsOf(view.queue)} \cup {JobsOf({f \in view.queue : f.reason = r}) : r \in Reasons} :
    /\ view.details /\ ids \cap Visible # {}
    /\ Change([view EXCEPT !.selected = ids \cap Visible])
ToggleDetails == view.queue # {} /\ Change([view EXCEPT !.details = ~@])

RequestClearHistory ==
  /\ Chosen # {} /\ ~view.clearing
  /\ User
  /\ view' = [view EXCEPT !.confirm = TRUE]
  /\ asked' = view.selected
  /\ UNCHANGED <<pages, log, calls>>
CancelClear ==
  /\ view.confirm /\ ~view.clearing
  /\ view' = [view EXCEPT !.confirm = FALSE]
  /\ UNCHANGED <<server, pages, log, calls, asked, last, actions, failures>>

NewCall(op, stage, ids, from) ==
  [id |-> 1, op |-> op, stage |-> stage, ids |-> ids, from |-> from, selection |-> view.selected,
   before |-> view.feedback, result |-> None, answer |-> None, tries |-> 1, live |-> TRUE]
BeginCall(c) ==
  /\ Cardinality(calls) < MaxCalls
  /\ \E i \in 1..MaxCalls :
       /\ \A d \in calls : d.id # i
       /\ \A k \in 1..(i - 1) : \E d \in calls : d.id = k
       /\ calls' = calls \cup {[c EXCEPT !.id = i]}
  /\ loading' = TRUE
  /\ UNCHANGED <<items, cursor, hasMore, log, asked>>

ClearHistory ==
  /\ view.confirm /\ Chosen # {} /\ ~view.clearing
  /\ view' = [view EXCEPT !.confirm = FALSE, !.clearing = TRUE]
  /\ BeginCall(NewCall("clear", "act", Chosen, None))
  /\ UNCHANGED <<server, last, actions, failures>>

RetryFailedClear(ids, refreshBefore) ==
  /\ ids # {} /\ ~view.retrying /\ ~view.clearing
  /\ User
  /\ view' = [view EXCEPT !.retrying = TRUE]
  /\ BeginCall(NewCall("retry", IF refreshBefore THEN "before" ELSE "act", ids, None))
RetryFilteredFailures ==   \* the filter picks any part of the queue
  view.details /\ \E part \in SUBSET view.queue : RetryFailedClear(JobsOf(part), FALSE)
RetryFastFailures ==
  view.details /\ RetryFailedClear(JobsOf({f \in view.queue : f.reason \in Fast}), FALSE)
RetryRefreshFailures ==   \* with retryFailuresByReason: a group of one reason
  \E r \in Reasons \ NotRetryable :
    view.details /\ RetryFailedClear(JobsOf({f \in view.queue : f.reason = r}), r \in Refreshing)

RestoreDeletedJobs(ids) ==
  /\ ids # {} /\ ~view.restoring
  /\ User
  /\ view' = [view EXCEPT !.restoring = TRUE]
  /\ BeginCall(NewCall("restore", "act", ids, None))
UndoFeedback ==
  ~view.clearing /\ \E ids \in view.feedback : RestoreDeletedJobs(ids)
UndoLogEntry ==
  \E i \in DOMAIN log : log[i].action = "clear" /\ RestoreDeletedJobs(log[i].jobs)
ClearLog ==
  /\ log # <<>> /\ ~view.restoring
  /\ User /\ log' = <<>>
  /\ UNCHANGED <<pages, view, calls, asked>>

\* A refresh also comes from the trackers and the actions on jobs, whatever is under way.
RefreshOptimizationHistory ==
  User /\ BeginCall(NewCall("refresh", "list", {}, None)) /\ UNCHANGED view
LoadMoreOptimizationHistory ==
  /\ hasMore /\ cursor # None /\ ~loading
  /\ User /\ BeginCall(NewCall("more", "list", {}, cursor)) /\ UNCHANGED view

\* Another workspace tab and back: the panel is a new one, its log is the stored one.
LeaveAndReturn ==
  /\ User
  /\ view' = FreshView
  /\ calls' = {[c EXCEPT !.live = FALSE] : c \in calls}
  /\ UNCHANGED <<pages, log, asked>>

-----------------------------------------------------------------------------
(* Answers                                                                 *)

\* What is kept of the first n of a list, of which some may be there twice.
Deduped_Appends(jobs) == jobs
Deduped(jobs) ==
  LET kept[n \in 0 .. Len(jobs)] ==
        IF n = 0 THEN <<>>
        ELSE IF \E i \in DOMAIN kept[n - 1] : kept[n - 1][i] = jobs[n] THEN kept[n - 1]
        ELSE Append(kept[n - 1], jobs[n])
  IN  kept[Len(jobs)]

\* The effect of the panel on a new list: what is selected is in it.
Pruned(v, list) ==
  LET ids == {list[i] : i \in DOMAIN list} IN
  [v EXCEPT !.selected = @ \cap ids, !.undo = {snapshot \cap ids : snapshot \in @}]

Logged(action, r) == SubSeq(<<[action |-> action, jobs |-> r.done]>> \o log, 1,
                            IF Len(log) < LogMax THEN Len(log) + 1 ELSE LogMax)

\* mergeFailureQueue
Merged_KeepsRetried(queue, retried, failed) ==
  {f \in queue : f.job \notin JobsOf(failed)} \cup failed
Merged(queue, retried, failed) == {f \in queue : f.job \notin retried /\ f.job \notin JobsOf(failed)}
                                  \cup failed

\* What the call does to the panel in the end.  After a retry the code means to select what
\* is left of the queue, but reads it before React has computed it, and finds nothing.
AfterClear(c, r) ==
  [view EXCEPT !.clearing = FALSE, !.undo = {c.selection}, !.selected = JobsOf(r.failed),
               !.feedback = {r.done}, !.queue = r.failed, !.details = r.failed # {}]
AfterRetry_Focuses(c, r) ==
  [view EXCEPT !.retrying = FALSE, !.feedback = {r.done},
               !.queue = Merged(view.queue, c.ids, r.failed), !.details = TRUE,
               !.selected = JobsOf(Merged(view.queue, c.ids, r.failed))]
AfterRetry(c, r) ==
  [view EXCEPT !.retrying = FALSE, !.selected = {}, !.feedback = {r.done},
               !.queue = Merged(view.queue, c.ids, r.failed), !.details = FALSE]
AfterRestore(c, r) ==
  [view EXCEPT !.restoring = FALSE,
               !.feedback = IF c.before \in {{}, {{}}} \/ r.done = {} \/ view.feedback = {}
                            THEN view.feedback ELSE {ids \ r.done : ids \in c.before}]

AfterCall(c, r) ==
  CASE c.op = "clear" -> AfterClear(c, r)
    [] c.op = "retry" -> AfterRetry(c, r)
    [] c.op = "restore" -> AfterRestore(c, r)
    [] OTHER -> view

\* A call ends with its result; the panel it belongs to may be gone.
Ends(c, r) ==
  /\ calls' = calls \ {c}
  /\ loading' = FALSE
  /\ log' = IF c.live /\ r # None THEN Logged(IF c.op = "restore" THEN "restore" ELSE "clear", r)
            ELSE log
  /\ last' = [j \in HistoryJobs |-> IF c.live /\ c.op \in {"clear", "retry"} /\ j \in c.ids
                             THEN IF j \in JobsOf(r.failed) THEN "failed" ELSE "cleared"
                             ELSE last[j]]
View2(c, r) == IF c.live THEN AfterCall(c, r) ELSE view

\* refreshBefore is over, well or not: the jobs are cleared.
Acts(c) ==
  /\ calls' = (calls \ {c}) \cup {[c EXCEPT !.stage = "act", !.answer = None, !.tries = 1]}
  /\ loading' = TRUE
  /\ UNCHANGED <<log, last>>

ListArrives(c) ==
  /\ c.stage # "act" /\ c.answer # None
  /\ items' = IF c.op = "more" THEN Deduped(items \o c.answer.jobs) ELSE c.answer.jobs
  /\ cursor' = c.answer.next
  /\ hasMore' = (c.answer.next # None)
  /\ IF c.stage = "before"
     THEN Acts(c) /\ view' = Pruned(view, items')
     ELSE Ends(c, c.result) /\ view' = Pruned(View2(c, c.result), items')

ResultArrives(c) ==   \* the list is refreshed before the result is shown
  /\ c.stage = "act" /\ c.answer # None
  /\ calls' = (calls \ {c}) \cup {[c EXCEPT !.stage = "list", !.result = c.answer,
                                            !.answer = None, !.tries = 1]}
  /\ loading' = TRUE
  /\ UNCHANGED <<items, cursor, hasMore, view, log, last>>

Arrives(c) ==
  /\ ListArrives(c) \/ ResultArrives(c)
  /\ UNCHANGED <<server, asked, actions, failures>>

\* The request fails, or its answer is lost, the server having done what it says: it is
\* sent again once; then the list stays as it is, and a clear or a restore has failed.
Fails(c) ==
  /\ failures < MaxFailures
  /\ failures' = failures + 1
  /\ IF c.tries > 0
     THEN /\ calls' = (calls \ {c}) \cup {[c EXCEPT !.answer = None, !.tries = 0]}
          /\ UNCHANGED <<loading, view, log, last>>
     ELSE CASE c.stage = "before" -> Acts(c) /\ UNCHANGED view
            [] c.stage = "act" -> Ends(c, Lost(c.ids)) /\ view' = View2(c, Lost(c.ids))
            [] OTHER -> Ends(c, c.result) /\ view' = View2(c, c.result)
  /\ UNCHANGED <<server, items, cursor, hasMore, asked, actions>>

HistoryInit ==
  /\ unfinished \in SUBSET HistoryJobs /\ deleted = {}
  /\ items = <<>> /\ cursor \in HistoryJobs \cup {None} /\ hasMore = FALSE /\ loading = TRUE
  /\ view = FreshView /\ log = <<>> /\ asked = {}
  /\ calls = {NewCall("refresh", "list", {}, None)}
  /\ last = [j \in HistoryJobs |-> None] /\ actions = 0 /\ failures = 0

HistoryNext ==
  \/ JobEnds
  \/ \E c \in calls : ServerAnswers(c) \/ Arrives(c) \/ Fails(c)
  \/ ToggleSelectJob \/ ToggleSelectAll \/ UndoLastSelection \/ FocusHistoryRows \/ ToggleDetails
  \/ RequestClearHistory \/ CancelClear \/ ClearHistory
  \/ RetryFastFailures \/ RetryFilteredFailures \/ RetryRefreshFailures
  \/ UndoFeedback \/ UndoLogEntry \/ ClearLog
  \/ RefreshOptimizationHistory \/ LoadMoreOptimizationHistory \/ LeaveAndReturn

HistorySpec == HistoryInit /\ [][HistoryNext]_historyVars

-----------------------------------------------------------------------------
(* The list has every job once, however refreshes and further pages that   *)
(* overlap are answered.                                                   *)
EachJobOnce == \A i, k \in DOMAIN items : items[i] = items[k] => i = k

(* What a confirmation clears was selected when the dialog opened: no      *)
(* answer that arrives while it is open adds to it.                        *)
ConfirmedIsAsked ==
  [][\A c \in calls' : c.op = "clear" /\ (\A d \in calls : d.id # c.id) => c.ids \subseteq asked]_historyVars

(* A job of the failure queue is one whose last clear failed: an earlier   *)
(* failure does not outlive a retry, whatever the order of the answers.    *)
QueueIsOfFailedClears == \A f \in view.queue : last[f.job] = "failed"

(* What the list and the queue show is so. *)
ListsAreSound == EachJobOnce /\ QueueIsOfFailedClears
=============================================================================
