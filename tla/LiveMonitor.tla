----------------------------- MODULE LiveMonitor -----------------------------
(***************************************************************************)
(* Live monitoring in the browser: the list of an account's robots         *)
(* (frontend/src/hooks/useLiveRobotList.ts), the selection of one          *)
(* (hooks/app/useLiveWorkspaceController.ts), the snapshots of the         *)
(* selected one (hooks/useLiveTradingSync.ts) and what the session storage *)
(* keeps of all that (hooks/usePersistedLiveTradingConfig.ts).             *)
(*                                                                         *)
(* A step is one event with the effects it causes: `ui' = Settled(...)`    *)
(* applies them in the order of the renders.  The trading environment is   *)
(* complete and all robots trade its symbol; a snapshot is the robot it is *)
(* of.  The trend, the messages and the numbers are left out.  The         *)
(* exchange behind the server is external: a robot may stop at any time.   *)
(***************************************************************************)
EXTENDS Naturals, FiniteSets

CONSTANTS
  Robots,       \* algo ids of the account
  None,
  MaxActions,   \* bound on what the user does, for TLC
  MaxRequests,  \* bound on the requests under way, for TLC
  MaxFailures   \* bound on the requests that fail after their retries, for TLC

ASSUME LiveAssumption ==
  None \notin Robots /\ {MaxActions, MaxRequests, MaxFailures} \subseteq Nat

Scopes == {"running", "recent"}

VARIABLES
  running,   \* the robots that run
  ui,        \* the state of the hooks, see Ui
  list,      \* the requests for the list under way
  snaps,     \* the requests for a snapshot under way
  stored,    \* session storage
  actions, failures

vars == <<running, ui, list, snaps, stored, actions, failures>>

\* aborted: its controller was aborted; the request still ends, and its finally block runs.
ListRequest == [scope : Scopes, aborted : BOOLEAN]
SnapRequest == [robot : Robots, aborted : BOOLEAN]

Ui == [creds    : BOOLEAN,              \* the profile of the draft is complete
       persist  : BOOLEAN,              \* persistCredentialsEnabled
       robot    : Robots \cup {None},   \* draft.algo_id
       scope    : Scopes, enabled : BOOLEAN,        \* the monitoring preference
       active   : BOOLEAN,              \* the live panel is the one in front
       items    : SUBSET Robots, listLoading : BOOLEAN,
       loadedKey : Scopes \cup {None},  \* lastLoadedKeyRef
       snapshot : Robots \cup {None}, loading : BOOLEAN,
       paused   : BOOLEAN,              \* autoRefreshPaused
       timer    : BOOLEAN]              \* the polling timer is armed

Stored == [creds : BOOLEAN, persist : BOOLEAN, robot : Robots \cup {None},
           scope : Scopes, enabled : BOOLEAN]

TypeOK ==
  /\ running \subseteq Robots /\ ui \in Ui /\ stored \in Stored
  /\ list \subseteq ListRequest /\ snaps \subseteq SnapRequest
  /\ actions \in 0..MaxActions /\ failures \in 0..MaxFailures

-----------------------------------------------------------------------------
Aborted(rs) == {[rq EXCEPT !.aborted = TRUE] : rq \in rs}

\* The state with the requests, as the effects pass it on.
State(u, l, s) == [ui |-> u, list |-> l, snaps |-> s]

\* The effect of the controller: a selection the list does not offer is cleared (also before
\* the first list has been asked for), the only robot offered is selected.
Selected(st) ==
  LET u == st.ui IN
  IF u.listLoading THEN st
  ELSE IF u.robot # None /\ u.robot \notin u.items THEN [st EXCEPT !.ui.robot = None]
  ELSE IF u.robot = None /\ Cardinality(u.items) = 1
       THEN [st EXCEPT !.ui.robot = CHOOSE r \in u.items : TRUE]
  ELSE st

\* performRefresh of useLiveRobotList.
ListRefreshed(st) ==
  IF ~st.ui.creds \/ st.ui.listLoading THEN st
  ELSE [st EXCEPT !.ui.listLoading = TRUE,
                  !.list = Aborted(st.list) \cup {[scope |-> st.ui.scope, aborted |-> FALSE]}]

\* The effect of useLiveRobotList.
Listed(st) ==
  IF ~st.ui.creds
  THEN [st EXCEPT !.list = Aborted(st.list),
                  !.ui = [st.ui EXCEPT !.items = {}, !.listLoading = FALSE, !.loadedKey = None]]
  ELSE IF ~st.ui.active
  THEN [st EXCEPT !.list = Aborted(st.list), !.ui.listLoading = FALSE]
  ELSE IF st.ui.loadedKey = st.ui.scope THEN st
  ELSE ListRefreshed(st)

CanRequest(u) == u.creds /\ u.robot # None
CanAutoRefresh(u) == u.active /\ CanRequest(u) /\ u.enabled /\ ~u.paused

\* Mutated form: the request before is not aborted.
SnapRefreshed_NoAbort(st) ==
  IF ~CanRequest(st.ui) \/ st.ui.loading THEN st
  ELSE [st EXCEPT !.ui.loading = TRUE,
                  !.snaps = st.snaps \cup {[robot |-> st.ui.robot, aborted |-> FALSE]}]

\* performRefresh of useLiveTradingSync.
SnapRefreshed(st) ==
  IF ~CanRequest(st.ui) \/ st.ui.loading THEN st
  ELSE [st EXCEPT !.ui.loading = TRUE,
                  !.snaps = Aborted(st.snaps) \cup {[robot |-> st.ui.robot, aborted |-> FALSE]}]

\* Mutated form: the request goes on.
Dropped_NoAbort(st) ==
  IF CanRequest(st.ui) THEN st
  ELSE [st EXCEPT !.ui = [st.ui EXCEPT !.loading = FALSE, !.paused = FALSE, !.snapshot = None,
                                       !.timer = FALSE]]

\* The effects of useLiveTradingSync: what may not be requested is dropped, another robot
\* starts without a snapshot (a request for the one before goes on), and whenever something
\* of the refresh has changed the timer starts anew, a missing snapshot being fetched at once.
Dropped(st) ==
  IF CanRequest(st.ui) THEN st
  ELSE [st EXCEPT !.snaps = Aborted(st.snaps),
                  !.ui = [st.ui EXCEPT !.loading = FALSE, !.paused = FALSE, !.snapshot = None,
                                       !.timer = FALSE]]
Switched(old, st) ==
  IF st.ui.robot = old.robot /\ st.ui.creds = old.creds THEN st
  ELSE [st EXCEPT !.ui = [st.ui EXCEPT !.snapshot = None, !.paused = FALSE, !.timer = FALSE]]

\* Mutated form: the end of a request does not start the timer anew.
Rearmed_NotByLoading(old, st) ==
  IF ~CanAutoRefresh(st.ui) THEN [st EXCEPT !.ui.timer = FALSE]
  ELSE IF /\ CanAutoRefresh(old)
          /\ <<old.robot, old.scope, old.snapshot>>
               = <<st.ui.robot, st.ui.scope, st.ui.snapshot>>
       THEN st
  ELSE LET next == IF st.ui.snapshot = None THEN SnapRefreshed(st) ELSE st
       IN [next EXCEPT !.ui.timer = TRUE]

Rearmed(old, st) ==
  IF ~CanAutoRefresh(st.ui) THEN [st EXCEPT !.ui.timer = FALSE]
  ELSE IF /\ CanAutoRefresh(old)
          /\ <<old.loading, old.robot, old.scope, old.snapshot>>
               = <<st.ui.loading, st.ui.robot, st.ui.scope, st.ui.snapshot>>
       THEN st
  ELSE LET next == IF st.ui.snapshot = None THEN SnapRefreshed(st) ELSE st
       IN [next EXCEPT !.ui.timer = TRUE]
\* The effects of usePersistedLiveTradingConfig.
Kept(u) == [creds |-> u.creds /\ u.persist, persist |-> u.persist, robot |-> u.robot,
            scope |-> u.scope, enabled |-> u.enabled]

Settled(old, st) ==
  \E selected \in {Selected(st)} :
  \E listed \in {Listed(selected)} :
  \E offered \in {Selected(listed)} :
  \E dropped \in {Dropped(offered)} :
  \E switched \in {Switched(old, dropped)} :
  \E done \in {Rearmed(old, switched)} :
    /\ ui' = done.ui /\ list' = done.list /\ snaps' = done.snaps
    /\ stored' = Kept(done.ui)

-----------------------------------------------------------------------------
(* The user                                                                *)

User ==
  /\ actions < MaxActions
  /\ actions' = actions + 1
  /\ Cardinality(list) < MaxRequests /\ Cardinality(snaps) < MaxRequests
  /\ UNCHANGED <<running, failures>>

Change(u) == User /\ Settled(ui, State(u, list, snaps))

EnterCredentials == ~ui.creds /\ Change([ui EXCEPT !.creds = TRUE])
ClearCredentials ==   \* handleClearLiveCredentials
  ui.creds /\ Change([ui EXCEPT !.creds = FALSE, !.robot = None, !.enabled = FALSE])
TogglePersistence == Change([ui EXCEPT !.persist = ~ui.persist])
SelectRobot == \E r \in ui.items \ {ui.robot} : Change([ui EXCEPT !.robot = r])
ChangeScope == \E s \in Scopes \ {ui.scope} : Change([ui EXCEPT !.scope = s])
SwitchPanel == Change([ui EXCEPT !.active = ~ui.active])

RefreshList == User /\ Settled(ui, ListRefreshed(State(ui, list, snaps)))

\* refresh: the button that starts the monitoring; blocked while the list is not fit.
Refresh ==
  /\ ui.active /\ ui.robot \in ui.items /\ ~ui.listLoading
  /\ User
  /\ Settled(ui, SnapRefreshed(State([ui EXCEPT !.enabled = TRUE, !.paused = FALSE], list, snaps)))

\* stop
Stop ==
  /\ ui.enabled /\ User
  /\ Settled(ui, State([ui EXCEPT !.loading = FALSE, !.paused = FALSE, !.enabled = FALSE,
                                  !.timer = FALSE], list, Aborted(snaps)))

\* The first effect of a reloaded page reads the session storage.
Reload ==
  /\ actions < MaxActions
  /\ actions' = actions + 1
  /\ LET fresh == [creds |-> stored.creds /\ stored.persist, persist |-> stored.persist,
                   robot |-> stored.robot, scope |-> stored.scope, enabled |-> stored.enabled,
                   active |-> FALSE, items |-> {}, listLoading |-> FALSE, loadedKey |-> None,
                   snapshot |-> None, loading |-> FALSE, paused |-> FALSE, timer |-> FALSE]
     IN Settled(fresh, State(fresh, {}, {}))
  /\ UNCHANGED <<running, failures>>

\* The page comes back to the front (usePollingLifecycle): the timer is dropped.
Resume ==
  /\ CanAutoRefresh(ui) /\ User
  /\ Settled(ui, SnapRefreshed(State([ui EXCEPT !.timer = FALSE], list, snaps)))

-----------------------------------------------------------------------------
(* Timer and answers                                                       *)

TimerFires ==
  /\ ui.timer
  /\ Cardinality(snaps) < MaxRequests
  /\ Settled(ui, SnapRefreshed(State([ui EXCEPT !.timer = ui.loading], list, snaps)))
  /\ UNCHANGED <<running, actions, failures>>

\* The finally block clears `loading`, whoever set it.
ListArrives(rq) ==
  Settled(ui, State(
    IF rq.aborted THEN [ui EXCEPT !.listLoading = FALSE]
    ELSE [ui EXCEPT !.listLoading = FALSE, !.loadedKey = rq.scope,
                    !.items = IF rq.scope = "running" THEN running ELSE Robots],
    list \ {rq}, snaps))
ListFails(rq) ==
  Settled(ui, State(IF rq.aborted THEN [ui EXCEPT !.listLoading = FALSE]
                    ELSE [ui EXCEPT !.listLoading = FALSE, !.items = {}], list \ {rq}, snaps))

SnapArrives(rq) ==
  Settled(ui, State(
    IF rq.aborted THEN [ui EXCEPT !.loading = FALSE]
    ELSE [ui EXCEPT !.loading = FALSE, !.paused = FALSE, !.snapshot = rq.robot],
    list, snaps \ {rq}))
SnapFails(rq, pause) ==   \* 400, 401 and 429 pause the refreshes
  Settled(ui, State(IF rq.aborted THEN [ui EXCEPT !.loading = FALSE]
                    ELSE [ui EXCEPT !.loading = FALSE, !.paused = ui.paused \/ pause],
                    list, snaps \ {rq}))

ListAnswered == \E rq \in list : ListArrives(rq) /\ UNCHANGED <<running, actions, failures>>
SnapAnswered == \E rq \in snaps : SnapArrives(rq) /\ UNCHANGED <<running, actions, failures>>
Failure ==
  /\ failures < MaxFailures
  /\ failures' = failures + 1
  /\ \/ \E rq \in list : ListFails(rq)
     \/ \E rq \in snaps, pause \in BOOLEAN : SnapFails(rq, pause)
  /\ UNCHANGED <<running, actions>>

RobotStops ==
  /\ \E r \in running : running' = running \ {r}
  /\ UNCHANGED <<ui, list, snaps, stored, actions, failures>>

Init ==
  /\ running = Robots
  /\ ui = [creds |-> FALSE, persist |-> FALSE, robot |-> None, scope |-> "running",
           enabled |-> FALSE, active |-> TRUE, items |-> {}, listLoading |-> FALSE,
           loadedKey |-> None, snapshot |-> None, loading |-> FALSE, paused |-> FALSE,
           timer |-> FALSE]
  /\ list = {} /\ snaps = {}
  /\ stored = Kept(ui)
  /\ actions = 0 /\ failures = 0

Next ==
  \/ EnterCredentials \/ ClearCredentials \/ TogglePersistence
  \/ SelectRobot \/ ChangeScope \/ SwitchPanel \/ RefreshList
  \/ Refresh \/ Stop \/ Reload \/ Resume
  \/ TimerFires \/ ListAnswered \/ SnapAnswered \/ Failure
  \/ RobotStops

\* Requests end (they have timeouts) and the timer fires; the user owes nothing.
Fairness == WF_vars(TimerFires) /\ WF_vars(ListAnswered) /\ WF_vars(SnapAnswered)

Spec == Init /\ [][Next]_vars
FairSpec == Spec /\ Fairness

-----------------------------------------------------------------------------
(* At most one request for a snapshot counts: an answer that another       *)
(* request has overtaken can no longer replace what is shown.              *)
OneLiveRequest == Cardinality({rq \in snaps : ~rq.aborted}) <= 1

(* Monitoring that has been stopped, or that lost its robot or its         *)
(* credentials, shows no new snapshot.                                     *)
StoppedIsQuiet ==
  (~ui.enabled \/ ~CanRequest(ui)) => \A rq \in snaps : rq.aborted

\* The requests of the panel: one that counts, and none that nobody waits for.
RequestsAreSound == OneLiveRequest /\ StoppedIsQuiet

(* Monitoring goes on: as long as it is on, refreshes keep coming, whether *)
(* they fail, are resumed, or meet one that is under way.                  *)
RefreshesKeepComing == []<>(~CanAutoRefresh(ui) \/ snaps # {})
=============================================================================
