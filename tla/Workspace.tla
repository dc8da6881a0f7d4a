------------------------------ MODULE Workspace ------------------------------
(***************************************************************************)
(* The workspace of the front end: its modes and tabs                      *)
(* (frontend/src/hooks/app/useMobileWorkspaceState.ts,                     *)
(* useExecutionWorkspaceController.ts, useWorkspaceViewModel.ts) and what  *)
(* users do with optimization jobs                                         *)
(* (hooks/useOptimizationRunner.ts, hooks/optimization/                    *)
(* useOptimizationJobActions.ts): start, cancel, load, restart, and to     *)
(* resume the job followed when the page is loaded anew.                   *)
(*                                                                         *)
(* A step is what runs between two awaits, with the effect that stores the *)
(* job followed.  The requests that follow a job are those of              *)
(* OptimizationTracker; here they are one action.  A status is the job it  *)
(* is of and whether that has ended.  The server is external.  Which page  *)
(* of the results there is, what the form contains and how the backtest    *)
(* and the live monitor get on is left open.                               *)
(***************************************************************************)
EXTENDS Sequences, Naturals, FiniteSets

CONSTANTS
  None,
  MaxJobs,      \* bound on the jobs, for TLC
  MaxPage,      \* bound on the pages of results, for TLC
  MaxCalls,     \* bound on the calls under way, for TLC
  MaxActions,   \* bound on the actions of the user, for TLC
  MaxFailures   \* bound on the calls that fail, for TLC

VARIABLES
  workspaceMode, parameterMode,
  phone,      \* mobileShellEnabled, and the minimal layout with it
  tab,        \* mobilePrimaryTab
  job,        \* optimizationJobId
  shown,      \* optimizationStatus
  page,       \* optimizationPage
  starting,   \* optimizationStarting
  calls,      \* the calls under way
  persisted,  \* the stored context of the job followed
  jobs,       \* the jobs of the server: whether each has ended
  actions, failures

modes == <<workspaceMode, parameterMode, phone, tab>>
followed == <<job, shown, page>>
server == <<jobs>>
bounds == <<actions, failures>>
vars == <<modes, followed, starting, calls, persisted, jobs, actions, failures>>

Modes == {"backtest", "optimize"}
Tabs == {"params", "backtest", "optimize", "live"}
JobId == 1..MaxJobs
Pages == 1..MaxPage
Status == [job : JobId, ended : BOOLEAN]

\* A call waits for: the start of a job; the history's refresh after one; the cancellation;
\* the status after it; the status to load; the restart; the refresh after that.
Call == [id : 1..MaxCalls, job : JobId \cup {None},
         kind : {"start", "started", "cancel", "cancelled", "load", "restart", "restarted"}]

TypeOK ==
  /\ workspaceMode \in Modes \cup {"live"} /\ parameterMode \in Modes
  /\ phone \in BOOLEAN /\ tab \in Tabs
  /\ job \in JobId \cup {None} /\ shown \in Status \cup {None} /\ page \in Pages
  /\ starting \in BOOLEAN /\ calls \subseteq Call
  /\ persisted \in [job : JobId, page : Pages] \cup {None}
  /\ \E n \in 0..MaxJobs : jobs \in [1..n -> BOOLEAN]

Ended == shown # None /\ shown.ended

\* optimizationRunning, which disables the button that starts an optimization.
Running_OnlyFollowed == job # None /\ ~Ended
Running == starting \/ (job # None /\ ~Ended)

-----------------------------------------------------------------------------
(* Modes and tabs                                                          *)

Act == actions < MaxActions /\ actions' = actions + 1

\* handleWorkspaceModeChange; the tabs for it are in the top bar of a wide screen.
ChangeWorkspace ==
  /\ Act /\ ~phone
  /\ \E mode \in Modes \cup {"live"} :
       /\ workspaceMode' = mode
       /\ parameterMode' = IF mode = "live" THEN "backtest" ELSE mode
  /\ UNCHANGED <<phone, tab, followed, starting, calls, jobs, failures>>

\* handleParameterModeChange, on the parameter page of a phone: the workspace stays.
ChangeParameters ==
  /\ Act /\ phone /\ tab = "params"
  /\ parameterMode' \in Modes
  /\ UNCHANGED <<workspaceMode, phone, tab, followed, starting, calls, jobs, failures>>

\* handleMobilePrimaryTabChange
TabMode_ParametersStay(t) == parameterMode
TabMode(t) == IF t = "live" THEN "backtest" ELSE t
ChangeTab ==
  /\ Act /\ phone
  /\ tab' \in Tabs
  /\ IF tab' = "params" THEN UNCHANGED <<workspaceMode, parameterMode>>
     ELSE workspaceMode' = tab' /\ parameterMode' = TabMode(tab')
  /\ UNCHANGED <<phone, followed, starting, calls, jobs, failures>>

Resize ==
  /\ Act /\ phone' = ~phone
  /\ UNCHANGED <<workspaceMode, parameterMode, tab, followed, starting, calls, jobs, failures>>

Enter(mode) ==
  /\ workspaceMode' = mode /\ parameterMode' = mode
  /\ tab' = IF phone THEN mode ELSE tab
  /\ UNCHANGED phone

\* handleRunBacktest, from the form or from the live panel.
RunBacktest ==
  /\ Act
  /\ Enter("backtest")
  /\ UNCHANGED <<followed, starting, calls, jobs, failures>>

\* The panels that fill the form: a row of the results, or what is monitored.
ApplyRow ==
  /\ Act /\ Ended
  /\ workspaceMode' = "backtest" /\ parameterMode' = "backtest"
  /\ UNCHANGED <<phone, tab, followed, starting, calls, jobs, failures>>
ApplyLive ==
  /\ Act /\ (IF phone THEN tab ELSE workspaceMode) = "live"
  /\ parameterMode' = "backtest"
  /\ UNCHANGED <<workspaceMode, phone, tab, followed, starting, calls, jobs, failures>>

-----------------------------------------------------------------------------
(* Jobs                                                                    *)

NewId == CHOOSE i \in 1..MaxCalls : \A c \in calls : c.id # i
Called(kind, j) ==
  /\ Cardinality(calls) < MaxCalls
  /\ calls' = calls \cup {[id |-> NewId, kind |-> kind, job |-> j]}
Goes(c, kind, j) == calls' = (calls \ {c}) \cup {[c EXCEPT !.kind = kind, !.job = j]}
Follows(j, s, p) == job' = j /\ shown' = s /\ page' = p
StatusNow(j) == [job |-> j, ended |-> jobs[j]]
Creates == Len(jobs) < MaxJobs /\ jobs' = Append(jobs, FALSE)

\* handleParameterRun and startOptimizationRun: the button is enabled unless it runs.
Start ==
  /\ Act /\ workspaceMode # "live" /\ parameterMode = "optimize" /\ ~Running
  /\ phone => tab = "params"
  /\ Enter("optimize") /\ starting' = TRUE /\ Called("start", None)
  /\ UNCHANGED <<followed, jobs, failures>>
Started ==
  /\ \E c \in calls : c.kind = "start" /\ Goes(c, "started", Len(jobs) + 1)
  /\ Creates
  /\ Follows(Len(jobs'), [job |-> Len(jobs'), ended |-> FALSE], 1)
  /\ UNCHANGED <<modes, starting, bounds>>

\* The refresh of the history does not fail.  A user who went elsewhere is taken back.
StartDone ==
  /\ \E c \in calls : c.kind = "started" /\ calls' = calls \ {c}
  /\ Enter("optimize") /\ starting' = FALSE
  /\ UNCHANGED <<followed, jobs, bounds>>

Cancel ==
  /\ Act /\ Running /\ job # None /\ Called("cancel", job)
  /\ UNCHANGED <<modes, followed, starting, jobs, failures>>
\* The server ends the job, at once or when its worker next looks.
Cancelled ==
  /\ \E c \in calls :
       /\ c.kind = "cancel" /\ Goes(c, "cancelled", c.job)
       /\ \E now \in BOOLEAN : jobs' = [jobs EXCEPT ![c.job] = jobs[c.job] \/ now]
  /\ UNCHANGED <<modes, followed, starting, bounds>>
\* The status is set whichever job is followed by now.
CancelShown ==
  /\ \E c \in calls :
       /\ c.kind = "cancelled" /\ calls' = calls \ {c}
       /\ Follows(job, StatusNow(c.job), page)
  /\ UNCHANGED <<modes, starting, jobs, bounds>>

Load ==
  /\ Act /\ \E j \in DOMAIN jobs : Called("load", j)
  /\ UNCHANGED <<modes, followed, starting, jobs, failures>>
Loaded_OnlyStatus(c) == Follows(job, StatusNow(c.job), page)
Loaded(c) == Follows(c.job, StatusNow(c.job), page)
LoadDone ==
  /\ \E c \in calls : c.kind = "load" /\ calls' = calls \ {c} /\ Loaded(c)
  /\ Enter("optimize")
  /\ UNCHANGED <<starting, jobs, bounds>>

Restart ==
  /\ Act /\ \E j \in DOMAIN jobs : Called("restart", j)
  /\ UNCHANGED <<modes, followed, starting, jobs, failures>>
Restarted ==
  /\ \E c \in calls : c.kind = "restart" /\ Goes(c, "restarted", Len(jobs) + 1)
  /\ Creates
  /\ Follows(Len(jobs'), None, 1)
  /\ UNCHANGED <<modes, starting, bounds>>
RestartDone ==
  /\ \E c \in calls : c.kind = "restarted" /\ calls' = calls \ {c}
  /\ Enter("optimize")
  /\ UNCHANGED <<followed, starting, jobs, bounds>>

StartingAfter(c) == IF c.kind = "start" THEN FALSE ELSE starting
CallFails ==
  /\ failures < MaxFailures /\ failures' = failures + 1
  /\ \E c \in calls :
       /\ c.kind \notin {"started", "restarted"}
       /\ calls' = calls \ {c} /\ starting' = StartingAfter(c)
  /\ UNCHANGED <<modes, followed, jobs, actions>>

-----------------------------------------------------------------------------
(* What is followed                                                        *)

\* The tracker shows the status of the job followed; one that ended stays unless the new one
\* has ended too, whichever jobs they are of.
Track ==
  /\ job # None /\ shown' = IF Ended /\ ~jobs[job] THEN shown ELSE StatusNow(job)
  /\ shown' # shown
  /\ UNCHANGED <<modes, job, page, starting, calls, jobs, bounds>>

\* Previous and next page, or the first page of another size or order.
ChangePage ==
  /\ Act /\ page' \in Pages
  /\ page' > page => shown # None /\ page' = page + 1
  /\ page' < page => page' \in {page - 1, 1}
  /\ UNCHANGED <<modes, job, shown, starting, calls, jobs, failures>>

JobEnds ==
  /\ \E j \in DOMAIN jobs : ~jobs[j] /\ jobs' = [jobs EXCEPT ![j] = TRUE]
  /\ UNCHANGED <<modes, followed, starting, calls, bounds>>

\* The page is loaded anew and resumes the stored job; the tab is stored too.
Resumed == IF persisted = None THEN Follows(None, None, 1)
           ELSE Follows(persisted.job, None, persisted.page)
Reload ==
  /\ Act
  /\ workspaceMode' = "backtest" /\ parameterMode' = "backtest"
  /\ starting' = FALSE /\ calls' = {} /\ Resumed
  /\ UNCHANGED <<phone, tab, jobs, failures>>

\* The effect that stores the job followed, until it is shown to have ended.
Stored(j, s, p) ==
  IF j = None \/ (s # None /\ s.ended) THEN None ELSE [job |-> j, page |-> p]

Init ==
  /\ workspaceMode = "backtest" /\ parameterMode = "backtest"
  /\ phone \in BOOLEAN /\ tab = "params"
  /\ job = None /\ shown = None /\ page = 1 /\ starting = FALSE
  /\ calls = {} /\ persisted = None /\ jobs \in {<<>>, <<TRUE>>}
  /\ actions = 0 /\ failures = 0

Next ==
  /\ \/ ChangeWorkspace \/ ChangeParameters \/ ChangeTab \/ Resize
     \/ RunBacktest \/ ApplyRow \/ ApplyLive
     \/ Start \/ Started \/ StartDone \/ Cancel \/ Cancelled \/ CancelShown
     \/ Load \/ LoadDone \/ Restart \/ Restarted \/ RestartDone \/ CallFails
     \/ Track \/ ChangePage \/ JobEnds \/ Reload
  /\ persisted' = Stored(job', shown', page')

Spec == Init /\ [][Next]_vars

-----------------------------------------------------------------------------
\* The start button is locked exactly while a start is under way: no end of another start,
\* failure or reload leaves it locked or frees it early.
StartingIsExact == starting <=> \E c \in calls : c.kind \in {"start", "started"}

\* The status shown is of the job followed, and only the late answer to the cancellation of
\* another job parts them.
Agree == shown # None => shown.job = job
ShownIsTheJobs ==
  [][Agree => Agree' \/ \E c \in calls \ calls' : c.kind = "cancelled" /\ c.job # job]_vars

\* The form is in the mode of the workspace except on the parameter page and the live page
\* of a phone; once they agree, only a change of the screen parts them.
ModesAgree ==
  \/ workspaceMode = "live" \/ parameterMode = workspaceMode
  \/ phone /\ tab \in {"params", "live"}
FormFollowsWorkspace == [][ModesAgree => ModesAgree' \/ phone' # phone]_vars
=============================================================================
