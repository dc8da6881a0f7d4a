------------------------------ MODULE Live_proofs ------------------------------
(***************************************************************************)
(* Proofs about the live panel, for any robots, requests and bounds.       *)
(*                                                                         *)
(* First LiveMonitor: at most one request for a snapshot counts, and none  *)
(* when the monitoring is stopped or has lost its robot or credentials.    *)
(* A step settles the state through six effects, so that the lemmas say    *)
(* what each effect keeps of a state that is passed on.  Then the candles  *)
(* of LiveMiniBacktest, which are those of the request on the page.  Last  *)
(* LiveViews: the cards, the closed grids and the notices of the panel     *)
(* while the robot fills its grids and snapshots come in every state.      *)
(* Then the trend of each robot and the curve with its drawdown            *)
(* (LiveTrend) and the two tables with pages (Pages).  At the end the open *)
(* grids of LiveViews, which come to the position of the robot.            *)
(***************************************************************************)
EXTENDS LiveMonitor, LiveMiniBacktest, LiveViews, LiveTrend, Pages, FiniteSetTheorems, WellFoundedInduction, TLAPS

-----------------------------------------------------------------------------
(* LiveMonitor: the states that the effects pass on.                       *)

Requested == [ui : Ui, list : SUBSET ListRequest, snaps : SUBSET SnapRequest]

\* No two requests of a set count: the answer of one only can replace what is shown.
OneCounts(rs) == \A a, b \in rs : ~a.aborted /\ ~b.aborted => a = b

NoneCounts(rs) == \A rq \in rs : rq.aborted

\* What an event may leave to the effects: a request that nobody waits for only when the credentials are
\* gone, for then Dropped aborts it.
Before(st) ==
  /\ st \in Requested
  /\ OneCounts(st.snaps)
  /\ ~st.ui.enabled /\ st.ui.creds => NoneCounts(st.snaps)

\* What the effects have made of it.
Quiet(st) == ~st.ui.enabled \/ ~CanRequest(st.ui) => NoneCounts(st.snaps)
After(st) == st \in Requested /\ OneCounts(st.snaps) /\ Quiet(st)

\* What is shown is as the effects leave it, and the timer is armed for a monitoring only that may
\* refresh by itself: so the request that it sends is of a monitoring that is on.
MonitorInv ==
  /\ TypeOK
  /\ OneCounts(snaps)
  /\ StoppedIsQuiet
  /\ ui.timer => CanAutoRefresh(ui)

\* The record of a state has the parts it is made of.
LEMMA StateParts ==
  ASSUME NEW u \in Ui, NEW l \in SUBSET ListRequest, NEW s \in SUBSET SnapRequest
  PROVE  /\ State(u, l, s) \in Requested
         /\ State(u, l, s).ui = u /\ State(u, l, s).list = l /\ State(u, l, s).snaps = s
BY DEF State, Requested

\* Aborting keeps the robots of the requests and leaves none that counts.
LEMMA AbortedSnaps ==
  ASSUME NEW rs \in SUBSET SnapRequest
  PROVE  Aborted(rs) \in SUBSET SnapRequest /\ NoneCounts(Aborted(rs))
BY DEF Aborted, SnapRequest, NoneCounts

\* The same of the requests for the list.
LEMMA AbortedLists ==
  ASSUME NEW rs \in SUBSET ListRequest
  PROVE  Aborted(rs) \in SUBSET ListRequest
BY DEF Aborted, ListRequest

\* One more request beside aborted ones is the only one that counts.
LEMMA OneMoreCounts ==
  ASSUME NEW rs, NoneCounts(rs), NEW rq
  PROVE  OneCounts(rs \cup {rq})
BY DEF NoneCounts, OneCounts

\* Where none counts, no two do; and fewer requests count no more.
LEMMA FewerCount ==
  ASSUME NEW rs, NEW fewer \in SUBSET rs
  PROVE  /\ OneCounts(rs) => OneCounts(fewer)
         /\ NoneCounts(rs) => NoneCounts(fewer) /\ OneCounts(rs)
BY DEF NoneCounts, OneCounts

-----------------------------------------------------------------------------
(* The effects.                                                            *)

\* The selection of a robot changes no request and nothing of the user's.
LEMMA SelectedKeeps ==
  ASSUME NEW st \in Requested
  PROVE  /\ Selected(st) \in Requested
         /\ Selected(st).snaps = st.snaps
         /\ Selected(st).ui.enabled = st.ui.enabled
         /\ Selected(st).ui.creds = st.ui.creds
<1>1. CASE Selected(st) = st
  BY <1>1
<1>2. CASE Selected(st) = [st EXCEPT !.ui.robot = None]
  BY <1>2 DEF Requested, Ui
<1>3. CASE Cardinality(st.ui.items) = 1
           /\ Selected(st) = [st EXCEPT !.ui.robot = CHOOSE r \in st.ui.items : TRUE]
  <2>1. st.ui.items # {}
    BY <1>3, FS_EmptySet
  <2>2. st.ui.items \in SUBSET Robots
    BY DEF Requested, Ui
  <2>3. PICK chosen \in Robots : chosen = CHOOSE r \in st.ui.items : TRUE
    BY <2>1, <2>2
  <2>4. Selected(st) = [st EXCEPT !.ui.robot = chosen]
    BY <1>3, <2>3
  <2> QED BY <2>4 DEF Requested, Ui
<1> QED BY <1>1, <1>2, <1>3 DEF Selected

\* A request for the list is none for a snapshot.
LEMMA ListRefreshedKeeps ==
  ASSUME NEW st \in Requested
  PROVE  /\ ListRefreshed(st) \in Requested
         /\ ListRefreshed(st).snaps = st.snaps
         /\ ListRefreshed(st).ui.enabled = st.ui.enabled
         /\ ListRefreshed(st).ui.creds = st.ui.creds
<1>1. CASE ListRefreshed(st) = st
  BY <1>1
<1>2. CASE ListRefreshed(st) # st
  <2> DEFINE raised == Aborted(st.list) \cup {[scope |-> st.ui.scope, aborted |-> FALSE]}
  <2>1. st.ui \in Ui /\ Aborted(st.list) \in SUBSET ListRequest
    BY AbortedLists DEF Requested
  <2>2. [scope |-> st.ui.scope, aborted |-> FALSE] \in ListRequest
    BY <2>1 DEF Ui, ListRequest
  <2>3. raised \in SUBSET ListRequest
    BY <2>1, <2>2
  <2>4. PICK u : u = [st.ui EXCEPT !.listLoading = TRUE]
    OBVIOUS
  <2>5. u \in Ui /\ u.enabled = st.ui.enabled /\ u.creds = st.ui.creds
    BY <2>1, <2>4 DEF Ui
  <2>6. ListRefreshed(st) = [st EXCEPT !.ui.listLoading = TRUE, !.list = raised]
    BY <1>2 DEF ListRefreshed
  <2> HIDE DEF raised
  <2>7. ListRefreshed(st) = [st EXCEPT !.ui = u, !.list = raised]
    BY <2>4, <2>6 DEF Requested
  <2> QED BY <2>3, <2>5, <2>7 DEF Requested
<1> QED BY <1>1, <1>2

\* Nor is what the effect of the list does.
LEMMA ListedKeeps ==
  ASSUME NEW st \in Requested
  PROVE  /\ Listed(st) \in Requested
         /\ Listed(st).snaps = st.snaps
         /\ Listed(st).ui.enabled = st.ui.enabled
         /\ Listed(st).ui.creds = st.ui.creds
<1> DEFINE raised == Aborted(st.list)
<1>1. raised \in SUBSET ListRequest
  BY AbortedLists DEF Requested
<1>2. CASE ~st.ui.creds
  <2>1. PICK u : u = [st.ui EXCEPT !.items = {}, !.listLoading = FALSE, !.loadedKey = None]
    OBVIOUS
  <2>2. u \in Ui /\ u.enabled = st.ui.enabled /\ u.creds = st.ui.creds
    BY <2>1 DEF Requested, Ui
  <2>3. Listed(st) = [st EXCEPT !.list = raised, !.ui = u]
    BY <1>2, <2>1 DEF Listed
  <2> HIDE DEF raised
  <2> QED BY <1>1, <2>2, <2>3 DEF Requested
<1>3. CASE st.ui.creds /\ ~st.ui.active
  <2>1. PICK u : u = [st.ui EXCEPT !.listLoading = FALSE]
    OBVIOUS
  <2>2. u \in Ui /\ u.enabled = st.ui.enabled /\ u.creds = st.ui.creds
    BY <2>1 DEF Requested, Ui
  <2>3. Listed(st) = [st EXCEPT !.list = raised, !.ui.listLoading = FALSE]
    BY <1>3 DEF Listed
  <2> HIDE DEF raised
  <2>4. Listed(st) = [st EXCEPT !.list = raised, !.ui = u]
    BY <2>1, <2>3 DEF Requested
  <2> QED BY <1>1, <2>2, <2>4 DEF Requested
<1>4. CASE st.ui.creds /\ st.ui.active
  BY <1>4, ListRefreshedKeeps DEF Listed
<1> QED BY <1>2, <1>3, <1>4

\* performRefresh of a monitoring that is on: what was asked before counts no longer.
LEMMA SnapRefreshedKeeps ==
  ASSUME NEW st \in Requested, OneCounts(st.snaps), st.ui.enabled
  PROVE  /\ SnapRefreshed(st) \in Requested
         /\ OneCounts(SnapRefreshed(st).snaps)
         /\ SnapRefreshed(st).ui \in {st.ui, [st.ui EXCEPT !.loading = TRUE]}
         /\ SnapRefreshed(st) = st \/ CanRequest(st.ui)
<1>1. CASE SnapRefreshed(st) = st
  BY <1>1
<1>2. CASE SnapRefreshed(st) # st
  <2> DEFINE raised == Aborted(st.snaps) \cup {[robot |-> st.ui.robot, aborted |-> FALSE]}
  <2>1. CanRequest(st.ui)
    BY <1>2 DEF SnapRefreshed
  <2>2. st.ui \in Ui /\ Aborted(st.snaps) \in SUBSET SnapRequest /\ NoneCounts(Aborted(st.snaps))
    BY AbortedSnaps DEF Requested
  <2>3. [robot |-> st.ui.robot, aborted |-> FALSE] \in SnapRequest
    BY <2>1, <2>2 DEF CanRequest, Ui, SnapRequest
  <2>4. raised \in SUBSET SnapRequest /\ OneCounts(raised)
    BY <2>2, <2>3, OneMoreCounts
  <2>5. PICK u : u = [st.ui EXCEPT !.loading = TRUE]
    OBVIOUS
  <2>6. u \in Ui
    BY <2>2, <2>5 DEF Ui
  <2>7. SnapRefreshed(st) = [st EXCEPT !.ui.loading = TRUE, !.snaps = raised]
    BY <1>2 DEF SnapRefreshed
  <2> HIDE DEF raised
  <2>8. SnapRefreshed(st) = [st EXCEPT !.ui = u, !.snaps = raised]
    BY <2>5, <2>7 DEF Requested
  <2>9. /\ SnapRefreshed(st) \in Requested
        /\ SnapRefreshed(st).snaps = raised
        /\ SnapRefreshed(st).ui = u
    BY <2>4, <2>6, <2>8 DEF Requested
  <2> QED BY <2>1, <2>4, <2>5, <2>9
<1> QED BY <1>1, <1>2

\* What may not be requested any more is aborted: no request is left that nobody waits for.
LEMMA DroppedIsQuiet ==
  ASSUME NEW st, Before(st)
  PROVE  After(Dropped(st))
<1>1. CASE CanRequest(st.ui)
  <2>1. Dropped(st) = st /\ st.ui.creds
    BY <1>1 DEF Dropped, CanRequest
  <2> QED BY <1>1, <2>1 DEF Before, After, Quiet
<1>2. CASE ~CanRequest(st.ui)
  <2> DEFINE raised == Aborted(st.snaps)
  <2>1. raised \in SUBSET SnapRequest /\ NoneCounts(raised)
    BY AbortedSnaps DEF Before, Requested
  <2>2. OneCounts(raised)
    BY <2>1, FewerCount
  <2>3. PICK u : u = [st.ui EXCEPT !.loading = FALSE, !.paused = FALSE, !.snapshot = None, !.timer = FALSE]
    OBVIOUS
  <2>4. u \in Ui
    BY <2>3 DEF Before, Requested, Ui
  <2>5. Dropped(st) = [st EXCEPT !.snaps = raised, !.ui = u]
    BY <1>2, <2>3 DEF Dropped
  <2> HIDE DEF raised
  <2>6. Dropped(st) \in Requested /\ Dropped(st).snaps = raised
    BY <2>1, <2>4, <2>5 DEF Before, Requested
  <2> QED BY <2>1, <2>2, <2>6 DEF After, Quiet
<1> QED BY <1>1, <1>2

\* Another robot takes the snapshot away, and the requests go on.
LEMMA SwitchedKeeps ==
  ASSUME NEW old, NEW st, After(st)
  PROVE  After(Switched(old, st))
<1>1. CASE Switched(old, st) = st
  BY <1>1
<1>2. CASE Switched(old, st) # st
  <2>1. PICK u : u = [st.ui EXCEPT !.snapshot = None, !.paused = FALSE, !.timer = FALSE]
    OBVIOUS
  <2>2. u \in Ui /\ u.enabled = st.ui.enabled /\ u.creds = st.ui.creds /\ u.robot = st.ui.robot
    BY <2>1 DEF After, Requested, Ui
  <2>3. Switched(old, st) = [st EXCEPT !.ui = u]
    BY <1>2, <2>1 DEF Switched
  <2>4. Switched(old, st) \in Requested /\ Switched(old, st).snaps = st.snaps /\ Switched(old, st).ui = u
    BY <2>2, <2>3 DEF After, Requested
  <2> QED BY <2>2, <2>4 DEF After, Quiet, CanRequest
<1> QED BY <1>1, <1>2

\* The timer is armed for a monitoring that refreshes by itself, and what is then asked for counts alone.
LEMMA RearmedKeeps ==
  ASSUME NEW old, NEW st, After(st)
  PROVE  /\ After(Rearmed(old, st))
         /\ Rearmed(old, st).ui.timer => CanAutoRefresh(Rearmed(old, st).ui)
<1>1. CASE ~CanAutoRefresh(st.ui)
  <2>1. Rearmed(old, st) = [st EXCEPT !.ui.timer = FALSE]
    BY <1>1 DEF Rearmed
  <2> QED BY <2>1 DEF After, Quiet, CanRequest, Requested, Ui
<1>2. CASE CanAutoRefresh(st.ui) /\ Rearmed(old, st) = st
  BY <1>2
<1>3. CASE CanAutoRefresh(st.ui) /\ Rearmed(old, st) # st
  <2>1. PICK next : next = IF st.ui.snapshot = None THEN SnapRefreshed(st) ELSE st
    OBVIOUS
  <2>2. Rearmed(old, st) = [next EXCEPT !.ui.timer = TRUE]
    BY <1>3, <2>1 DEF Rearmed
  <2>3. st.ui.enabled /\ CanRequest(st.ui)
    BY <1>3 DEF CanAutoRefresh
  <2>4. /\ next \in Requested
        /\ OneCounts(next.snaps)
        /\ next.ui \in {st.ui, [st.ui EXCEPT !.loading = TRUE]}
    BY <2>1, <2>3, SnapRefreshedKeeps DEF After
  <2>5. /\ next.ui.enabled = st.ui.enabled /\ next.ui.creds = st.ui.creds
        /\ next.ui.robot = st.ui.robot /\ next.ui.active = st.ui.active
        /\ next.ui.paused = st.ui.paused
    BY <2>4 DEF After, Requested, Ui
  <2>6. CanAutoRefresh(next.ui)
    BY <1>3, <2>5 DEF CanAutoRefresh, CanRequest
  <2>7. PICK done : done = Rearmed(old, st)
    OBVIOUS
  <2>8. /\ done \in Requested /\ done.snaps = next.snaps
        /\ CanAutoRefresh(done.ui)
    <3> PICK u : u = [next.ui EXCEPT !.timer = TRUE]
      OBVIOUS
    <3>1. done = [ui |-> u, list |-> next.list, snaps |-> next.snaps]
      BY <2>2, <2>4, <2>7 DEF Requested
    <3>2. next.ui \in Ui /\ next.list \in SUBSET ListRequest /\ next.snaps \in SUBSET SnapRequest
      BY <2>4 DEF Requested
    <3>3. /\ u \in Ui
          /\ u.active = next.ui.active /\ u.creds = next.ui.creds /\ u.robot = next.ui.robot
          /\ u.enabled = next.ui.enabled /\ u.paused = next.ui.paused
      BY <3>2 DEF Ui
    <3>4. CanAutoRefresh(u)
      BY <3>3, <2>6 DEF CanAutoRefresh, CanRequest
    <3> QED BY <3>1, <3>2, <3>3, <3>4 DEF Requested
  <2>9. After(done)
    BY <2>4, <2>8 DEF After, Quiet, CanAutoRefresh
  <2> QED BY <2>7, <2>8, <2>9
<1> QED BY <1>1, <1>2, <1>3

\* All the effects of an event.
LEMMA SettledKeepsInv ==
  ASSUME NEW old, NEW st, Before(st), Settled(old, st)
  PROVE  /\ ui' \in Ui /\ list' \subseteq ListRequest /\ snaps' \subseteq SnapRequest
         /\ stored' \in Stored
         /\ OneCounts(snaps)'
         /\ StoppedIsQuiet'
         /\ (ui.timer => CanAutoRefresh(ui))'
<1>1. PICK selected : selected = Selected(st)
  OBVIOUS
<1>2. PICK listed : listed = Listed(selected)
  OBVIOUS
<1>3. PICK offered : offered = Selected(listed)
  OBVIOUS
<1>4. PICK dropped : dropped = Dropped(offered)
  OBVIOUS
<1>5. PICK switched : switched = Switched(old, dropped)
  OBVIOUS
<1>6. PICK done : done = Rearmed(old, switched)
  OBVIOUS
<1>7. /\ ui' = done.ui /\ list' = done.list /\ snaps' = done.snaps
      /\ stored' = Kept(done.ui)
  BY <1>1, <1>2, <1>3, <1>4, <1>5, <1>6 DEF Settled
<1>8. Before(selected)
  BY <1>1, SelectedKeeps DEF Before
<1>9. Before(listed)
  BY <1>2, <1>8, ListedKeeps DEF Before
<1>10. Before(offered)
  BY <1>3, <1>9, SelectedKeeps DEF Before
<1>11. After(dropped)
  BY <1>4, <1>10, DroppedIsQuiet
<1>12. After(switched)
  BY <1>5, <1>11, SwitchedKeeps
<1>13. After(done) /\ (done.ui.timer => CanAutoRefresh(done.ui))
  BY <1>6, <1>12, RearmedKeeps
<1>14. Kept(done.ui) \in Stored
  BY <1>13 DEF After, Requested, Ui, Kept, Stored
<1>15. ui' \in Ui /\ list' \subseteq ListRequest /\ snaps' \subseteq SnapRequest
  BY <1>7, <1>13 DEF After, Requested
<1>16. OneCounts(snaps)'
  BY <1>7, <1>13 DEF After, OneCounts
<1>17. StoppedIsQuiet'
  BY <1>7, <1>13 DEF After, Quiet, StoppedIsQuiet, NoneCounts, CanRequest
<1>18. (ui.timer => CanAutoRefresh(ui))'
  BY <1>7, <1>13 DEF CanAutoRefresh, CanRequest
<1> QED BY <1>7, <1>14, <1>15, <1>16, <1>17, <1>18

-----------------------------------------------------------------------------
(* The events.                                                             *)

\* A state may go through the effects if its requests for a snapshot may.
LEMMA StateBefore ==
  ASSUME NEW u \in Ui, NEW l \in SUBSET ListRequest, NEW s \in SUBSET SnapRequest,
         OneCounts(s), ~u.enabled /\ u.creds => NoneCounts(s)
  PROVE  Before(State(u, l, s))
BY StateParts DEF Before

\* And so may a state in which a monitoring that is on has been refreshed.
LEMMA RefreshedBefore ==
  ASSUME NEW u \in Ui, NEW l \in SUBSET ListRequest, NEW s \in SUBSET SnapRequest,
         OneCounts(s), u.enabled
  PROVE  Before(SnapRefreshed(State(u, l, s)))
<1>1. PICK st : st = State(u, l, s)
  OBVIOUS
<1>2. st \in Requested /\ OneCounts(st.snaps) /\ st.ui = u
  BY <1>1, StateParts
<1>3. PICK next : next = SnapRefreshed(st)
  OBVIOUS
<1>4. /\ next \in Requested /\ OneCounts(next.snaps)
      /\ next.ui \in {u, [u EXCEPT !.loading = TRUE]}
  BY <1>2, <1>3, SnapRefreshedKeeps
<1>5. next.ui.enabled
  BY <1>4 DEF Ui
<1>6. Before(next)
  BY <1>4, <1>5 DEF Before
<1> QED BY <1>1, <1>3, <1>6

\* An event that only changes what the user has set, and switches the monitoring off only together with
\* the credentials.
LEMMA ChangeKeepsInv ==
  ASSUME MonitorInv, NEW u \in Ui, Change(u), ~u.enabled /\ u.creds => ~ui.enabled
  PROVE  MonitorInv'
<1>1. ~u.enabled /\ u.creds => NoneCounts(snaps)
  BY DEF MonitorInv, StoppedIsQuiet, NoneCounts
<1>2. Before(State(u, list, snaps))
  BY <1>1, StateBefore DEF MonitorInv, TypeOK
<1>3. Settled(ui, State(u, list, snaps))
  BY DEF Change
<1>4. actions' \in 0 .. MaxActions /\ UNCHANGED <<running, failures>>
  BY LiveAssumption DEF Change, User, MonitorInv, TypeOK
<1> QED BY <1>2, <1>3, <1>4, SettledKeepsInv DEF MonitorInv, TypeOK

\* An answer takes its request away, and leaves the monitoring as the user has set it.
LEMMA AnswerKeeps ==
  ASSUME MonitorInv, NEW u \in Ui, NEW l \in SUBSET list, NEW s \in SUBSET snaps,
         u.enabled = ui.enabled,
         Settled(ui, State(u, l, s))
  PROVE  /\ ui' \in Ui /\ list' \subseteq ListRequest /\ snaps' \subseteq SnapRequest
         /\ stored' \in Stored
         /\ OneCounts(snaps)'
         /\ StoppedIsQuiet'
         /\ (ui.timer => CanAutoRefresh(ui))'
<1>1. ~u.enabled => NoneCounts(snaps)
  BY DEF MonitorInv, StoppedIsQuiet, NoneCounts
<1>2. OneCounts(s) /\ (~u.enabled /\ u.creds => NoneCounts(s))
  BY <1>1, FewerCount DEF MonitorInv
<1>3. Before(State(u, l, s))
  BY <1>2, StateBefore DEF MonitorInv, TypeOK
<1> QED BY <1>3, SettledKeepsInv

\* The page at its start.
LEMMA InitHasInv ==
  ASSUME Init PROVE MonitorInv
<1>1. ui \in Ui
  BY DEF Init, Ui, Scopes
<1>2. stored \in Stored
  BY <1>1 DEF Init, Kept, Stored, Ui
<1>3. TypeOK
  BY <1>1, <1>2, LiveAssumption DEF Init, TypeOK
<1> QED BY <1>3 DEF Init, MonitorInv, OneCounts, StoppedIsQuiet

\* What the user does.
LEMMA UserKeepsInv ==
  ASSUME MonitorInv,
         \/ EnterCredentials \/ ClearCredentials \/ TogglePersistence
         \/ SelectRobot \/ ChangeScope \/ SwitchPanel \/ RefreshList
         \/ Refresh \/ Stop \/ Resume
  PROVE  MonitorInv'
<1>1. ui \in Ui /\ list \in SUBSET ListRequest /\ snaps \in SUBSET SnapRequest
  BY DEF MonitorInv, TypeOK
<1>2. User => actions' \in 0 .. MaxActions /\ UNCHANGED <<running, failures>>
  BY LiveAssumption DEF User, MonitorInv, TypeOK
<1>3. CASE EnterCredentials
  <2>1. PICK u : u = [ui EXCEPT !.creds = TRUE]
    OBVIOUS
  <2>2. u \in Ui /\ u.enabled = ui.enabled
    BY <1>1, <2>1 DEF Ui
  <2>3. Change(u)
    BY <1>3, <2>1 DEF EnterCredentials
  <2> QED BY <2>2, <2>3, ChangeKeepsInv
<1>4. CASE ClearCredentials
  <2>1. PICK u : u = [ui EXCEPT !.creds = FALSE, !.robot = None, !.enabled = FALSE]
    OBVIOUS
  <2>2. u \in Ui /\ ~u.creds
    BY <1>1, <2>1 DEF Ui
  <2>3. Change(u)
    BY <1>4, <2>1 DEF ClearCredentials
  <2> QED BY <2>2, <2>3, ChangeKeepsInv
<1>5. CASE TogglePersistence
  <2>1. PICK u : u = [ui EXCEPT !.persist = ~ui.persist]
    OBVIOUS
  <2>2. u \in Ui /\ u.enabled = ui.enabled
    BY <1>1, <2>1 DEF Ui
  <2>3. Change(u)
    BY <1>5, <2>1 DEF TogglePersistence
  <2> QED BY <2>2, <2>3, ChangeKeepsInv
<1>6. CASE SelectRobot
  <2>1. PICK r \in ui.items \ {ui.robot} : Change([ui EXCEPT !.robot = r])
    BY <1>6 DEF SelectRobot
  <2>2. PICK u : u = [ui EXCEPT !.robot = r]
    OBVIOUS
  <2>3. u \in Ui /\ u.enabled = ui.enabled
    BY <1>1, <2>1, <2>2 DEF Ui
  <2> QED BY <2>1, <2>2, <2>3, ChangeKeepsInv
<1>7. CASE ChangeScope
  <2>1. PICK s \in Scopes \ {ui.scope} : Change([ui EXCEPT !.scope = s])
    BY <1>7 DEF ChangeScope
  <2>2. PICK u : u = [ui EXCEPT !.scope = s]
    OBVIOUS
  <2>3. u \in Ui /\ u.enabled = ui.enabled
    BY <1>1, <2>1, <2>2 DEF Ui
  <2> QED BY <2>1, <2>2, <2>3, ChangeKeepsInv
<1>8. CASE SwitchPanel
  <2>1. PICK u : u = [ui EXCEPT !.active = ~ui.active]
    OBVIOUS
  <2>2. u \in Ui /\ u.enabled = ui.enabled
    BY <1>1, <2>1 DEF Ui
  <2>3. Change(u)
    BY <1>8, <2>1 DEF SwitchPanel
  <2> QED BY <2>2, <2>3, ChangeKeepsInv
<1>9. CASE RefreshList
  <2>1. PICK st : st = State(ui, list, snaps)
    OBVIOUS
  <2>2. st \in Requested /\ st.snaps = snaps /\ st.ui = ui
    BY <1>1, <2>1, StateParts
  <2>3. ~ui.enabled => NoneCounts(snaps)
    BY DEF MonitorInv, StoppedIsQuiet, NoneCounts
  <2>4. Before(ListRefreshed(st))
    BY <2>2, <2>3, ListRefreshedKeeps DEF Before, MonitorInv
  <2>5. User /\ Settled(ui, ListRefreshed(st))
    BY <1>9, <2>1 DEF RefreshList
  <2> QED BY <1>2, <2>4, <2>5, SettledKeepsInv DEF MonitorInv, TypeOK
<1>10. CASE Refresh
  <2>1. PICK u : u = [ui EXCEPT !.enabled = TRUE, !.paused = FALSE]
    OBVIOUS
  <2>2. u \in Ui /\ u.enabled
    BY <1>1, <2>1 DEF Ui
  <2>3. User /\ Settled(ui, SnapRefreshed(State(u, list, snaps)))
    BY <1>10, <2>1 DEF Refresh
  <2>4. Before(SnapRefreshed(State(u, list, snaps)))
    BY <1>1, <2>2, RefreshedBefore DEF MonitorInv
  <2> QED BY <1>2, <2>3, <2>4, SettledKeepsInv DEF MonitorInv, TypeOK
<1>11. CASE Stop
  <2>1. PICK u : u = [ui EXCEPT !.loading = FALSE, !.paused = FALSE, !.enabled = FALSE, !.timer = FALSE]
    OBVIOUS
  <2>2. u \in Ui
    BY <1>1, <2>1 DEF Ui
  <2>3. User /\ Settled(ui, State(u, list, Aborted(snaps)))
    BY <1>11, <2>1 DEF Stop
  <2>4. Aborted(snaps) \in SUBSET SnapRequest /\ NoneCounts(Aborted(snaps))
    BY <1>1, AbortedSnaps
  <2>5. OneCounts(Aborted(snaps))
    BY <2>4, FewerCount
  <2>6. Before(State(u, list, Aborted(snaps)))
    BY <1>1, <2>2, <2>4, <2>5, StateBefore
  <2> QED BY <1>2, <2>3, <2>6, SettledKeepsInv DEF MonitorInv, TypeOK
<1>12. CASE Resume
  <2>1. PICK u : u = [ui EXCEPT !.timer = FALSE]
    OBVIOUS
  <2>2. u \in Ui /\ u.enabled
    BY <1>1, <1>12, <2>1 DEF Ui, Resume, CanAutoRefresh
  <2>3. User /\ Settled(ui, SnapRefreshed(State(u, list, snaps)))
    BY <1>12, <2>1 DEF Resume
  <2>4. Before(SnapRefreshed(State(u, list, snaps)))
    BY <1>1, <2>2, RefreshedBefore DEF MonitorInv
  <2> QED BY <1>2, <2>3, <2>4, SettledKeepsInv DEF MonitorInv, TypeOK
<1> QED BY <1>3, <1>4, <1>5, <1>6, <1>7, <1>8, <1>9, <1>10, <1>11, <1>12

\* A reload has no requests, whatever the storage has kept.
LEMMA ReloadKeepsInv ==
  ASSUME MonitorInv, Reload
  PROVE  MonitorInv'
<1>1. PICK fresh : fresh =
        [creds |-> stored.creds /\ stored.persist, persist |-> stored.persist,
         robot |-> stored.robot, scope |-> stored.scope, enabled |-> stored.enabled,
         active |-> FALSE, items |-> {}, listLoading |-> FALSE, loadedKey |-> None,
         snapshot |-> None, loading |-> FALSE, paused |-> FALSE, timer |-> FALSE]
  OBVIOUS
<1>2. fresh \in Ui
  BY <1>1 DEF MonitorInv, TypeOK, Stored, Ui
<1>3. Settled(fresh, State(fresh, {}, {}))
  BY <1>1 DEF Reload
<1>4. OneCounts({}) /\ NoneCounts({})
  BY DEF OneCounts, NoneCounts
<1>5. Before(State(fresh, {}, {}))
  BY <1>2, <1>4, StateBefore
<1>6. actions' \in 0 .. MaxActions /\ UNCHANGED <<running, failures>>
  BY LiveAssumption DEF Reload, MonitorInv, TypeOK
<1> QED BY <1>3, <1>5, <1>6, SettledKeepsInv DEF MonitorInv, TypeOK

\* The timer fires for a monitoring that is on.
LEMMA TimerKeepsInv ==
  ASSUME MonitorInv, TimerFires
  PROVE  MonitorInv'
<1>1. PICK u : u = [ui EXCEPT !.timer = ui.loading]
  OBVIOUS
<1>2. u \in Ui /\ u.enabled
  BY <1>1 DEF MonitorInv, TypeOK, Ui, TimerFires, CanAutoRefresh
<1>3. Settled(ui, SnapRefreshed(State(u, list, snaps)))
  BY <1>1 DEF TimerFires
<1>4. Before(SnapRefreshed(State(u, list, snaps)))
  BY <1>2, RefreshedBefore DEF MonitorInv, TypeOK
<1>5. UNCHANGED <<running, actions, failures>>
  BY DEF TimerFires
<1> QED BY <1>3, <1>4, <1>5, SettledKeepsInv DEF MonitorInv, TypeOK

\* What an answer to the request for the list, or its failure, leaves on the page.
LEMMA ListAnswerKeeps ==
  ASSUME MonitorInv, NEW rq \in list, ListArrives(rq) \/ ListFails(rq)
  PROVE  /\ ui' \in Ui /\ list' \subseteq ListRequest /\ snaps' \subseteq SnapRequest
         /\ stored' \in Stored
         /\ OneCounts(snaps)'
         /\ StoppedIsQuiet'
         /\ (ui.timer => CanAutoRefresh(ui))'
<1>1. ui \in Ui /\ rq \in ListRequest /\ running \subseteq Robots
  BY DEF MonitorInv, TypeOK
<1>2. PICK listed : listed = IF rq.scope = "running" THEN running ELSE Robots
  OBVIOUS
<1>3. PICK u \in Ui : u.enabled = ui.enabled /\ Settled(ui, State(u, list \ {rq}, snaps))
  <2>1. [ui EXCEPT !.listLoading = FALSE] \in Ui /\ [ui EXCEPT !.listLoading = FALSE].enabled = ui.enabled
    BY <1>1 DEF Ui
  <2>2. /\ [ui EXCEPT !.listLoading = FALSE, !.items = {}] \in Ui
        /\ [ui EXCEPT !.listLoading = FALSE, !.items = {}].enabled = ui.enabled
    BY <1>1 DEF Ui
  <2>3. listed \in SUBSET Robots
    BY <1>1, <1>2
  <2>4. /\ [ui EXCEPT !.listLoading = FALSE, !.loadedKey = rq.scope, !.items = listed] \in Ui
        /\ [ui EXCEPT !.listLoading = FALSE, !.loadedKey = rq.scope, !.items = listed].enabled = ui.enabled
    BY <1>1, <2>3 DEF Ui, ListRequest
  <2>5. CASE ListArrives(rq) /\ rq.aborted
    BY <2>1, <2>5 DEF ListArrives
  <2>6. CASE ListArrives(rq) /\ ~rq.aborted
    BY <1>2, <2>4, <2>6 DEF ListArrives
  <2>7. CASE ListFails(rq) /\ rq.aborted
    BY <2>1, <2>7 DEF ListFails
  <2>8. CASE ListFails(rq) /\ ~rq.aborted
    BY <2>2, <2>8 DEF ListFails
  <2> QED BY <2>5, <2>6, <2>7, <2>8
<1> QED BY <1>3, AnswerKeeps

\* The same for a snapshot.
LEMMA SnapAnswerKeeps ==
  ASSUME MonitorInv, NEW rq \in snaps, SnapArrives(rq) \/ \E pause \in BOOLEAN : SnapFails(rq, pause)
  PROVE  /\ ui' \in Ui /\ list' \subseteq ListRequest /\ snaps' \subseteq SnapRequest
         /\ stored' \in Stored
         /\ OneCounts(snaps)'
         /\ StoppedIsQuiet'
         /\ (ui.timer => CanAutoRefresh(ui))'
<1>1. ui \in Ui /\ rq \in SnapRequest
  BY DEF MonitorInv, TypeOK
<1>2. PICK u \in Ui : u.enabled = ui.enabled /\ Settled(ui, State(u, list, snaps \ {rq}))
  <2>1. [ui EXCEPT !.loading = FALSE] \in Ui /\ [ui EXCEPT !.loading = FALSE].enabled = ui.enabled
    BY <1>1 DEF Ui
  <2>2. /\ [ui EXCEPT !.loading = FALSE, !.paused = FALSE, !.snapshot = rq.robot] \in Ui
        /\ [ui EXCEPT !.loading = FALSE, !.paused = FALSE, !.snapshot = rq.robot].enabled = ui.enabled
    BY <1>1 DEF Ui, SnapRequest
  <2>3. CASE SnapArrives(rq) /\ rq.aborted
    BY <2>1, <2>3 DEF SnapArrives
  <2>4. CASE SnapArrives(rq) /\ ~rq.aborted
    BY <2>2, <2>4 DEF SnapArrives
  <2>5. CASE \E pause \in BOOLEAN : SnapFails(rq, pause)
    <3>1. PICK pause \in BOOLEAN : SnapFails(rq, pause)
      BY <2>5
    <3>2. CASE rq.aborted
      BY <2>1, <3>1, <3>2 DEF SnapFails
    <3>3. CASE ~rq.aborted
      <4>1. PICK paused \in BOOLEAN : paused = (ui.paused \/ pause)
        OBVIOUS
      <4>2. /\ [ui EXCEPT !.loading = FALSE, !.paused = paused] \in Ui
            /\ [ui EXCEPT !.loading = FALSE, !.paused = paused].enabled = ui.enabled
        BY <1>1, <4>1 DEF Ui
      <4> QED BY <3>1, <3>3, <4>1, <4>2 DEF SnapFails
    <3> QED BY <3>2, <3>3
  <2> QED BY <2>3, <2>4, <2>5
<1> QED BY <1>2, AnswerKeeps

\* Every step.
LEMMA NextKeepsInv ==
  ASSUME MonitorInv, [Next]_vars
  PROVE  MonitorInv'
<1>1. CASE \/ EnterCredentials \/ ClearCredentials \/ TogglePersistence
           \/ SelectRobot \/ ChangeScope \/ SwitchPanel \/ RefreshList
           \/ Refresh \/ Stop \/ Resume
  BY <1>1, UserKeepsInv
<1>2. CASE Reload
  BY <1>2, ReloadKeepsInv
<1>3. CASE TimerFires
  BY <1>3, TimerKeepsInv
<1>4. CASE ListAnswered
  BY <1>4, ListAnswerKeeps DEF ListAnswered, MonitorInv, TypeOK
<1>5. CASE SnapAnswered
  BY <1>5, SnapAnswerKeeps DEF SnapAnswered, MonitorInv, TypeOK
<1>6. CASE Failure
  <2>1. failures' \in 0 .. MaxFailures /\ UNCHANGED <<running, actions>>
    BY <1>6, LiveAssumption DEF Failure, MonitorInv, TypeOK
  <2>2. CASE \E rq \in list : ListFails(rq)
    BY <2>1, <2>2, ListAnswerKeeps DEF MonitorInv, TypeOK
  <2>3. CASE \E rq \in snaps, pause \in BOOLEAN : SnapFails(rq, pause)
    BY <2>1, <2>3, SnapAnswerKeeps DEF MonitorInv, TypeOK
  <2> QED BY <1>6, <2>2, <2>3 DEF Failure
<1>7. CASE RobotStops
  <2>1. running' \subseteq Robots /\ UNCHANGED <<ui, list, snaps, stored, actions, failures>>
    BY <1>7 DEF RobotStops, MonitorInv, TypeOK
  <2> QED BY <2>1 DEF MonitorInv, TypeOK, StoppedIsQuiet
<1>8. CASE UNCHANGED vars
  BY <1>8 DEF vars, MonitorInv, TypeOK, StoppedIsQuiet
<1> QED BY <1>1, <1>2, <1>3, <1>4, <1>5, <1>6, <1>7, <1>8 DEF Next

\* At every step of any user, with requests that are answered late, fail or are overtaken: the types of
\* the page, of its requests and of the storage.
THEOREM MonitorTyped == Spec => []TypeOK
<1>1. MonitorInv => TypeOK
  BY DEF MonitorInv
<1>2. Init => MonitorInv
  BY InitHasInv
<1>3. MonitorInv /\ [Next]_vars => MonitorInv'
  BY NextKeepsInv
<1> QED BY <1>1, <1>2, <1>3, PTL DEF Spec

\* At most one request for a snapshot counts, so that an answer that was overtaken replaces nothing; and
\* a monitoring that is stopped, or has lost its robot or its credentials, has none, so that no answer
\* brings the robot back (performRefresh, stop and the effects of useLiveTradingSync).
THEOREM MonitorSound == Spec => []RequestsAreSound
<1>1. ASSUME MonitorInv PROVE RequestsAreSound
  <2> DEFINE counting == {rq \in snaps : ~rq.aborted}
  <2>1. CASE counting = {}
    <3>1. Cardinality(counting) = 0
      BY <2>1, FS_EmptySet
    <3> QED BY <1>1, <3>1 DEF RequestsAreSound, OneLiveRequest, MonitorInv
  <2>2. CASE counting # {}
    <3>1. PICK one \in counting : TRUE
      BY <2>2
    <3>2. counting = {one}
      BY <1>1, <3>1 DEF MonitorInv, OneCounts
    <3>3. Cardinality(counting) = 1
      BY <3>2, FS_Singleton
    <3> QED BY <1>1, <3>3 DEF RequestsAreSound, OneLiveRequest, MonitorInv
  <2> QED BY <2>1, <2>2
<1>2. Init => MonitorInv
  BY InitHasInv
<1>3. MonitorInv /\ [Next]_vars => MonitorInv'
  BY NextKeepsInv
<1> QED BY <1>1, <1>2, <1>3, PTL DEF Spec

-----------------------------------------------------------------------------
(* LiveMiniBacktest                                                        *)

Run == [nonce : Nat, signature : Requests, aborted : BOOLEAN]

\* A run of the current nonce is of the signature that the effect has started last.
RunsAreNumbered ==
  /\ nonce \in Nat
  /\ runs \subseteq Run
  /\ \A r \in runs : r.nonce <= nonce /\ (r.nonce = nonce => r.signature = signatureRef)

\* The effect has seen what is on the page, and a result that is not about to be replaced is of
\* what it has started.
MiniInv ==
  /\ RunsAreNumbered
  /\ signature \in Requests \cup {NoRequest}
  /\ signatureRef = IF enabled THEN signature ELSE NoRequest
  /\ ~loading /\ ~error /\ result # NoRequest => result = signatureRef

\* Aborting keeps the runs, their numbers and their requests.
LEMMA AbortedRuns ==
  ASSUME NEW rs \in SUBSET Run
  PROVE  /\ AllAborted(rs) \in SUBSET Run
         /\ \A a \in AllAborted(rs) : \E r \in rs : a.nonce = r.nonce /\ a.signature = r.signature
BY DEF AllAborted, Run

\* A render, whatever it shows.
LEMMA RenderKeepsInv ==
  ASSUME MiniInv, NEW visible, NEW request \in Requests \cup {NoRequest}, Render(visible, request)
  PROVE  MiniInv'
<1>1. /\ AllAborted(runs) \in SUBSET Run
      /\ \A a \in AllAborted(runs) : a.nonce <= nonce /\ (a.nonce = nonce => a.signature = signatureRef)
  BY AbortedRuns DEF MiniInv, RunsAreNumbered, Run
<1>2. enabled' = visible /\ signature' = request
  BY DEF Render
<1>3. CASE ~visible \/ request = NoRequest
  <2>1. runs' = AllAborted(runs) /\ nonce' = nonce + 1 /\ signatureRef' = NoRequest /\ result' = NoRequest
    BY <1>3 DEF Render, Effect
  <2>2. RunsAreNumbered'
    BY <1>1, <2>1 DEF MiniInv, RunsAreNumbered, Run
  <2> QED BY <1>2, <1>3, <2>1, <2>2 DEF MiniInv
<1>4. CASE ~(~visible \/ request = NoRequest) /\ signatureRef = request
  <2>1. /\ runs' = AllAborted(runs)
        /\ UNCHANGED <<signatureRef, nonce, loading, result, error>>
    BY <1>4 DEF Render, Effect
  <2>2. RunsAreNumbered'
    BY <1>1, <2>1 DEF MiniInv, RunsAreNumbered
  <2> QED BY <1>2, <1>4, <2>1, <2>2 DEF MiniInv
<1>5. CASE ~(~visible \/ request = NoRequest) /\ signatureRef # request
  <2> DEFINE started == [nonce |-> nonce + 1, signature |-> request, aborted |-> FALSE]
  <2>1. /\ nonce' = nonce + 1
        /\ runs' = AllAborted(runs) \cup {started}
        /\ signatureRef' = request /\ loading'
    BY <1>5 DEF Render, Effect
  <2>2. started \in Run /\ started.nonce = nonce + 1 /\ started.signature = request
    BY <1>5 DEF MiniInv, RunsAreNumbered, Run
  <2> HIDE DEF started
  <2>3. nonce' \in Nat /\ nonce < nonce'
    BY <2>1 DEF MiniInv, RunsAreNumbered
  <2>4. runs' \subseteq Run
    BY <1>1, <2>1, <2>2
  <2>5. ASSUME NEW a \in AllAborted(runs) PROVE a.nonce < nonce'
    BY <1>1, <2>3 DEF Run, MiniInv, RunsAreNumbered
  <2>6. ASSUME NEW a \in runs' PROVE a.nonce <= nonce' /\ (a.nonce = nonce' => a.signature = signatureRef')
    <3>1. CASE a = started
      BY <2>1, <2>2, <2>3, <3>1
    <3>2. CASE a \in AllAborted(runs)
      <4>1. a.nonce \in Nat /\ a.nonce < nonce'
        BY <1>1, <2>5, <3>2 DEF Run
      <4> QED BY <2>3, <4>1
    <3> QED BY <2>1, <3>1, <3>2
  <2>7. RunsAreNumbered'
    BY <2>3, <2>4, <2>6 DEF RunsAreNumbered
  <2> QED BY <1>2, <1>5, <2>1, <2>7 DEF MiniInv
<1> QED BY <1>3, <1>4, <1>5

\* Only the run of the current nonce can change what is shown.
LEMMA AnswerKeepsInv ==
  ASSUME MiniInv, NEW r \in runs, Answered(r)
  PROVE  MiniInv'
<1>1. RunsAreNumbered'
  BY DEF MiniInv, RunsAreNumbered, Answered
<1>2. UNCHANGED <<enabled, signature, signatureRef>>
  BY DEF Answered
<1>3. CASE IsCurrent(r)
  <2>1. r.signature = signatureRef
    BY <1>3 DEF MiniInv, RunsAreNumbered, IsCurrent
  <2>2. result' = r.signature \/ error' = TRUE
    BY <1>3 DEF Answered
  <2> QED BY <1>1, <1>2, <2>1, <2>2 DEF MiniInv
<1>4. CASE ~IsCurrent(r)
  BY <1>1, <1>2, <1>4 DEF MiniInv, Answered
<1> QED BY <1>3, <1>4

\* As long as nothing is loading and nothing has failed, the candles shown are those of the
\* request on the page, however many renders abort however many runs.
THEOREM CandlesCurrent == MiniSpec => []CandlesAreCurrent
<1>1. MiniInit => MiniInv
  BY DEF MiniInit, MiniInv, RunsAreNumbered
<1>2. MiniInv /\ [MiniNext]_miniVars => MiniInv'
  <2> SUFFICES ASSUME MiniInv, [MiniNext]_miniVars PROVE MiniInv'
    OBVIOUS
  <2>1. CASE SameRequest
    BY <2>1, RenderKeepsInv DEF SameRequest, MiniInv
  <2>2. CASE OtherRequest
    BY <2>2, RenderKeepsInv DEF OtherRequest
  <2>3. CASE NoSnapshot
    BY <2>3, RenderKeepsInv DEF NoSnapshot
  <2>4. CASE Toggle
    BY <2>4, RenderKeepsInv DEF Toggle, MiniInv
  <2>5. CASE \E r \in runs : Answered(r)
    BY <2>5, AnswerKeepsInv
  <2>6. CASE UNCHANGED miniVars
    BY <2>6 DEF miniVars, MiniInv, RunsAreNumbered
  <2> QED BY <2>1, <2>2, <2>3, <2>4, <2>5, <2>6 DEF MiniNext
<1>3. MiniInv => CandlesAreCurrent
  BY DEF MiniInv, CandlesAreCurrent
<1> QED BY <1>1, <1>2, <1>3, PTL DEF MiniSpec

-----------------------------------------------------------------------------
(* Folds: a fold over a sequence is a function over sets of indices, chosen   *)
(* by the community module; it exists, and it is what each step makes of it.  *)

\* Induction over the numbers, of a set: that 0 is in it and n + 1 with n makes it all of them.
LEMMA NatInduct ==
  ASSUME NEW P, 0 \in P, \A n \in Nat : n \in P => n + 1 \in P
  PROVE  Nat \subseteq P
<1> SUFFICES ASSUME Nat \ P # {} PROVE FALSE
  OBVIOUS
<1> DEFINE T == Nat \ P
           R == OpToRel(<, Nat)
<1>1. IsWellFoundedOn(R, Nat)
  BY NatLessThanWellFounded
<1>2. T \subseteq Nat /\ T # {}
  OBVIOUS
<1> HIDE DEF R, T
<1>3. PICK x \in T : \A y \in T : <<y, x>> \notin R
  BY <1>1, <1>2, WFMin
<1>4. x # 0 /\ x \in Nat
  BY <1>3 DEF T
<1>5. x - 1 \in Nat /\ x - 1 < x /\ (x - 1) + 1 = x
  BY <1>4
<1>6. <<x - 1, x>> \in R
  BY <1>4, <1>5 DEF R, OpToRel
<1>7. x - 1 \in P
  BY <1>3, <1>5, <1>6 DEF T
<1> QED BY <1>3, <1>5, <1>7 DEF T

\* What Max chooses when there is a greatest number.
LEMMA MaxIs == ASSUME NEW S, NEW x \in S, x \in Int, \A y \in S : y \in Int /\ y <= x PROVE Max(S) = x
<1>1. \A y \in S : x >= y
  OBVIOUS
<1>2. \E m \in S : \A y \in S : m >= y
  BY <1>1
<1>3. PICK m : m = Max(S)
  OBVIOUS
<1>4. m \in S /\ \A y \in S : m >= y
  BY <1>2, <1>3 DEF Max
<1>5. m >= x /\ m <= x /\ m \in Int
  BY <1>4
<1> QED BY <1>3, <1>5

\* Among some of the first numbers there is a greatest.
LEMMA MaxIn == ASSUME NEW n \in Nat, NEW S \in SUBSET (1 .. n), S # {} PROVE Max(S) \in S
<1> DEFINE P == {m \in Nat : \A s \in SUBSET (1 .. m) : s # {} => \E x \in s : \A y \in s : y <= x}
<1>1. 0 \in P
  <2>1. 1 .. 0 = {}
    OBVIOUS
  <2> QED BY <2>1
<1>2. ASSUME NEW m \in Nat, m \in P PROVE m + 1 \in P
  <2> SUFFICES ASSUME NEW s \in SUBSET (1 .. (m + 1)), s # {} PROVE \E x \in s : \A y \in s : y <= x
    OBVIOUS
  <2>1. CASE m + 1 \in s
    BY <2>1
  <2>2. CASE m + 1 \notin s
    <3>1. s \in SUBSET (1 .. m)
      BY <2>2
    <3> QED BY <3>1, <1>2
  <2> QED BY <2>1, <2>2
<1>3. n \in P
  <2> HIDE DEF P
  <2> QED BY <1>1, <1>2, NatInduct
<1>4. PICK x \in S : \A y \in S : y <= x
  BY <1>3
<1>5. x \in Int /\ \A y \in S : y \in Int /\ y <= x
  BY <1>4
<1>6. Max(S) = x
  BY <1>5, MaxIs
<1> QED BY <1>6

\* The greatest of the first i numbers is i, and i - 1 are left without it.
LEMMA MaxUpTo == ASSUME NEW i \in Nat, i # 0
  PROVE  Max(1 .. i) = i /\ (1 .. i) \ {Max(1 .. i)} = 1 .. (i - 1) /\ 1 .. i # {}
<1>1. i \in 1 .. i /\ \A y \in 1 .. i : y \in Int /\ y <= i
  OBVIOUS
<1>2. Max(1 .. i) = i
  BY <1>1, MaxIs
<1> QED BY <1>2

IsFold(h, n, base, G) ==
  \A s \in SUBSET (1 .. n) : h[s] = IF s = {} THEN base ELSE G[Max(s)][h[s \ {Max(s)}]]

\* A fold over a sequence exists: the function over the sets of indices that the community module chooses.
LEMMA FoldExists ==
  ASSUME NEW n \in Nat, NEW T, NEW base \in T, NEW G \in [1 .. n -> [T -> T]]
  PROVE  \E h \in [SUBSET (1 .. n) -> T] : IsFold(h, n, base, G)
<1> DEFINE Good(m, h) ==
             /\ h \in [SUBSET (1 .. m) -> T]
             /\ IsFold(h, m, base, G)
           P == {m \in Nat : m <= n => \E h : Good(m, h)}
<1>1. 0 \in P
  <2> DEFINE h == [s \in SUBSET (1 .. 0) |-> base]
  <2>0. \A s \in SUBSET (1 .. 0) : s = {}
    OBVIOUS
  <2>1. Good(0, h)
    BY <2>0 DEF IsFold
  <2> HIDE DEF h, Good
  <2> QED BY <2>1
<1>2. ASSUME NEW m \in Nat, m \in P PROVE m + 1 \in P
  <2> PICK k \in Nat : k = m + 1
    OBVIOUS
  <2> SUFFICES ASSUME k <= n PROVE \E h : Good(k, h)
    OBVIOUS
  <2>0. m <= n
    OBVIOUS
  <2>1. PICK g : Good(m, g)
    <3> HIDE DEF Good
    <3> QED BY <1>2, <2>0
  <2> DEFINE h == [s \in SUBSET (1 .. k) |-> IF k \in s THEN G[k][g[s \ {k}]] ELSE g[s]]
  <2>2. \A s \in SUBSET (1 .. k) : s \ {k} \in SUBSET (1 .. m) /\ (k \notin s => s \in SUBSET (1 .. m))
    OBVIOUS
  <2>3. k \in 1 .. n /\ G[k] \in [T -> T]
    OBVIOUS
  <2>4. h \in [SUBSET (1 .. k) -> T]
    BY <2>1, <2>2, <2>3
  <2>5. ASSUME NEW s \in SUBSET (1 .. k)
        PROVE  h[s] = IF s = {} THEN base ELSE G[Max(s)][h[s \ {Max(s)}]]
    <3>1. CASE k \in s
      <4>1. Max(s) = k
        <5>1. k \in Int /\ \A y \in s : y \in Int /\ y <= k
          OBVIOUS
        <5> QED BY <5>1, <3>1, MaxIs
      <4>2. h[s] = G[k][g[s \ {k}]] /\ h[s \ {k}] = g[s \ {k}]
        BY <3>1, <2>2
      <4> QED BY <4>1, <4>2, <3>1
    <3>2. CASE k \notin s
      <4>1. h[s] = g[s]
        BY <3>2
      <4>3. ASSUME NEW x PROVE h[s \ {x}] = g[s \ {x}]
        <5>1. s \ {x} \in SUBSET (1 .. k) /\ k \notin s \ {x}
          BY <3>2
        <5> QED BY <5>1
      <4>2. g[s] = IF s = {} THEN base ELSE G[Max(s)][g[s \ {Max(s)}]]
        BY <2>1, <2>2, <3>2 DEF IsFold
      <4> HIDE DEF h
      <4> QED BY <4>1, <4>2, <4>3
    <3> QED BY <3>1, <3>2
  <2>6. Good(k, h)
    BY <2>4, <2>5 DEF IsFold
  <2> HIDE DEF h, Good
  <2> QED BY <2>6
<1>3. n \in P
  <2> HIDE DEF P
  <2> QED BY <1>1, <1>2, NatInduct
<1>4. PICK h : Good(n, h)
  <2> HIDE DEF Good
  <2> QED BY <1>3
<1> QED BY <1>4

-----------------------------------------------------------------------------
(* The folds of the panel. *)

\* What the fold over the lots passes on, of lots with fills and a closing fill from R.
LotOf(R) == [fill : R, rest : Int]
GroupOf(R) == [open : R \cup {BaseLeg}, close : R, quantity : Int, source : {"matched", "base_inferred"}]
TakenOf(R) == [left : Int, lots : Seq(LotOf(R)), closed : Seq(GroupOf(R))]
BookOf(R) == [lots : Seq(LotOf(R)), closed : Seq(GroupOf(R))]

\* A list of groups that another one continues.
Grows(c, d) == Len(c) <= Len(d) /\ \A i \in 1 .. Len(c) : d[i] = c[i]

\* A lot makes of what a fill has left another such thing, and closes groups beside those that were closed.
LEMMA TakeLotType ==
  ASSUME NEW R, NEW fill \in R, NEW t \in TakenOf(R), NEW lot \in LotOf(R)
  PROVE  /\ TakeLot(fill, t, lot) \in TakenOf(R)
         /\ Grows(t.closed, TakeLot(fill, t, lot).closed)
<1> DEFINE quantity == Smaller(lot.rest, t.left)
           rest == lot.rest - quantity
           g == Group(lot.fill, fill, quantity, "matched")
<1>1. quantity \in Int /\ rest \in Int
  BY DEF Smaller, LotOf, TakenOf
<1>2. g \in GroupOf(R)
  BY <1>1 DEF Group, GroupOf, LotOf
<1>3. [lot EXCEPT !.rest = rest] \in LotOf(R)
  BY <1>1 DEF LotOf
<1>4. CASE t.left > 0 /\ MayClose(lot, fill)
  <2>1. TakeLot(fill, t, lot) =
          [left |-> t.left - quantity,
           lots |-> IF rest = 0 THEN t.lots ELSE Append(t.lots, [lot EXCEPT !.rest = rest]),
           closed |-> Append(t.closed, g)]
    BY <1>4 DEF TakeLot
  <2>2. /\ t.left - quantity \in Int
        /\ Append(t.closed, g) \in Seq(GroupOf(R))
        /\ t.lots \in Seq(LotOf(R)) /\ Append(t.lots, [lot EXCEPT !.rest = rest]) \in Seq(LotOf(R))
    <3> HIDE DEF quantity, rest, g
    <3> QED BY <1>1, <1>2, <1>3 DEF TakenOf
  <2>3. Grows(t.closed, Append(t.closed, g))
    <3> HIDE DEF g
    <3>1. t.closed \in Seq(GroupOf(R))
      BY DEF TakenOf
    <3> QED BY <3>1, <1>2 DEF Grows
  <2> HIDE DEF quantity, rest, g
  <2> QED BY <2>1, <2>2, <2>3 DEF TakenOf
<1>5. CASE ~(t.left > 0 /\ MayClose(lot, fill))
  <2>1. TakeLot(fill, t, lot) = [t EXCEPT !.lots = Append(@, lot)]
    BY <1>5 DEF TakeLot
  <2>2. /\ t.lots \in Seq(LotOf(R)) /\ Append(t.lots, lot) \in Seq(LotOf(R))
        /\ t.closed \in Seq(GroupOf(R))
    BY DEF TakenOf
  <2>3. Grows(t.closed, t.closed)
    BY <2>2 DEF Grows
  <2>4. TakeLot(fill, t, lot) = [left |-> t.left, lots |-> Append(t.lots, lot), closed |-> t.closed]
    BY <2>1 DEF TakenOf
  <2> QED BY <2>2, <2>3, <2>4 DEF TakenOf
<1> QED BY <1>4, <1>5

\* The lots after those that a fill closes.
LotsTaken(fill, base, lots) == FoldLeft(LAMBDA t, lot : TakeLot(fill, t, lot), base, lots)

\* A fold over lots is the last of the values it goes through.
LEMMA LotsFolded ==
  ASSUME NEW R, NEW fill \in R, NEW base \in TakenOf(R), NEW lots \in Seq(LotOf(R))
  PROVE  \E v \in [0 .. Len(lots) -> TakenOf(R)] :
           /\ v[0] = base
           /\ \A i \in 1 .. Len(lots) : v[i] = TakeLot(fill, v[i - 1], lots[i])
           /\ LotsTaken(fill, base, lots) = v[Len(lots)]
<1> DEFINE n == Len(lots)
           T == TakenOf(R)
           Is(h) == h = [s \in SUBSET (DOMAIN lots) |->
                          IF s = {} THEN base ELSE TakeLot(fill, h[s \ {Max(s)}], lots[Max(s)])]
           G == [i \in 1 .. n |-> [t \in T |-> TakeLot(fill, t, lots[i])]]
<1>1. n \in Nat /\ DOMAIN lots = 1 .. n /\ \A i \in 1 .. n : lots[i] \in LotOf(R)
  OBVIOUS
<1>2. G \in [1 .. n -> [T -> T]]
  BY <1>1, TakeLotType
<1>3. PICK g \in [SUBSET (1 .. n) -> T] : IsFold(g, n, base, G)
  <2>1. base \in T
    OBVIOUS
  <2> HIDE DEF G, T, n
  <2> QED BY <2>1, <1>1, <1>2, FoldExists
<1>4. Is(g)
  <2>1. ASSUME NEW s \in SUBSET (1 .. n), s # {} PROVE g[s] = TakeLot(fill, g[s \ {Max(s)}], lots[Max(s)])
    <3>1. Max(s) \in 1 .. n
      BY <1>1, <2>1, MaxIn
    <3>2. g[s] = G[Max(s)][g[s \ {Max(s)}]] /\ g[s \ {Max(s)}] \in T
      BY <1>3, <2>1 DEF IsFold
    <3> QED BY <3>1, <3>2
  <2>2. g[{}] = base
    BY <1>3 DEF IsFold
  <2> QED BY <1>1, <1>3, <2>1, <2>2
<1>5. PICK h : h = CHOOSE c : Is(c)
  OBVIOUS
<1>6. Is(h)
  <2> HIDE DEF Is
  <2> QED BY <1>4, <1>5
<1>7. LotsTaken(fill, base, lots) = h[DOMAIN lots]
  BY <1>5 DEF LotsTaken, FoldLeft, MapThenFoldSet
<1>8. h[{}] = base /\ \A i \in 1 .. n : h[1 .. i] = TakeLot(fill, h[1 .. (i - 1)], lots[i])
  <2>1. \A s \in SUBSET (1 .. n) : h[s] = IF s = {} THEN base ELSE TakeLot(fill, h[s \ {Max(s)}], lots[Max(s)])
    BY <1>1, <1>6
  <2>2. ASSUME NEW i \in 1 .. n PROVE h[1 .. i] = TakeLot(fill, h[1 .. (i - 1)], lots[i])
    <3>1. 1 .. i \in SUBSET (1 .. n) /\ i \in Nat /\ i # 0
      BY <1>1
    <3>2. Max(1 .. i) = i /\ (1 .. i) \ {Max(1 .. i)} = 1 .. (i - 1) /\ 1 .. i # {}
      BY <3>1, MaxUpTo
    <3>3. h[1 .. i] = TakeLot(fill, h[(1 .. i) \ {Max(1 .. i)}], lots[Max(1 .. i)])
      BY <2>1, <3>1, <3>2
    <3> QED BY <3>2, <3>3
  <2> QED BY <2>1, <2>2
<1> DEFINE v == [i \in 0 .. n |-> h[1 .. i]]
<1>9. \A m \in Nat : m <= n => h[1 .. m] \in T
  <2> DEFINE P == {m \in Nat : m <= n => h[1 .. m] \in T}
  <2>1. 0 \in P
    BY <1>8
  <2>2. ASSUME NEW m \in Nat, m \in P PROVE m + 1 \in P
    <3> SUFFICES ASSUME m + 1 <= n PROVE h[1 .. (m + 1)] \in T
      OBVIOUS
    <3>1. m + 1 \in 1 .. n /\ h[1 .. m] \in T
      BY <2>2, <1>1
    <3>2. h[1 .. (m + 1)] = TakeLot(fill, h[1 .. m], lots[m + 1])
      BY <3>1, <1>8
    <3> QED BY <3>1, <3>2, <1>1, TakeLotType
  <2>3. Nat \subseteq P
    <3> HIDE DEF P
    <3> QED BY <2>1, <2>2, NatInduct
  <2> QED BY <2>3
<1>10. v \in [0 .. n -> T] /\ v[0] = base /\ v[n] = h[DOMAIN lots]
       /\ \A i \in 1 .. n : v[i] = TakeLot(fill, v[i - 1], lots[i])
  BY <1>1, <1>8, <1>9
<1> HIDE DEF v
<1> QED BY <1>7, <1>10

\* A list that continues one which continues another continues that.
LEMMA GrowsFurther ==
  ASSUME NEW S, NEW a \in Seq(S), NEW b \in Seq(S), NEW c \in Seq(S), Grows(a, b), Grows(b, c)
  PROVE  Grows(a, c)
BY DEF Grows

\* What a fold makes longer with each value it is at the end at least as long as anywhere.
LEMMA GrowsAll ==
  ASSUME NEW S, NEW n \in Nat, NEW v, \A i \in 0 .. n : v[i].closed \in Seq(S),
         \A i \in 1 .. n : Grows(v[i - 1].closed, v[i].closed), NEW m \in 0 .. n
  PROVE  Grows(v[m].closed, v[n].closed)
<1> DEFINE P == {d \in Nat : m + d <= n => Grows(v[m].closed, v[m + d].closed)}
<1>1. 0 \in P
  <2>1. v[m].closed \in Seq(S) /\ m + 0 = m
    OBVIOUS
  <2>2. Grows(v[m].closed, v[m].closed)
    BY <2>1 DEF Grows
  <2> QED BY <2>1, <2>2
<1>2. ASSUME NEW d \in Nat, d \in P PROVE d + 1 \in P
  <2> SUFFICES ASSUME m + (d + 1) <= n PROVE Grows(v[m].closed, v[m + (d + 1)].closed)
    OBVIOUS
  <2> PICK i \in Int : i = m + (d + 1)
    OBVIOUS
  <2>1. i \in 1 .. n /\ i - 1 = m + d /\ i - 1 \in 0 .. n /\ m + d <= n /\ i \in 0 .. n
    OBVIOUS
  <2>2. Grows(v[m].closed, v[i - 1].closed)
    BY <1>2, <2>1
  <2>3. Grows(v[i - 1].closed, v[i].closed)
    BY <2>1
  <2>4. v[m].closed \in Seq(S) /\ v[i - 1].closed \in Seq(S) /\ v[i].closed \in Seq(S)
    BY <2>1
  <2>5. Grows(v[m].closed, v[i].closed)
    BY <2>2, <2>3, <2>4, GrowsFurther
  <2> QED BY <2>5
<1>3. n - m \in P
  <2>1. n - m \in Nat
    OBVIOUS
  <2> HIDE DEF P
  <2> QED BY <2>1, <1>1, <1>2, NatInduct
<1>4. m + (n - m) = n
  OBVIOUS
<1> QED BY <1>3, <1>4

\* A fill makes a book of a book, and closes groups beside those that were closed.
LEMMA TakeFillType ==
  ASSUME NEW R, NEW fill \in R, fill.quantity \in Int, NEW book \in BookOf(R)
  PROVE  TakeFill(book, fill) \in BookOf(R) /\ Grows(book.closed, TakeFill(book, fill).closed)
<1>0. book.lots \in Seq(LotOf(R)) /\ book.closed \in Seq(GroupOf(R)) /\ Grows(book.closed, book.closed)
  BY DEF BookOf, Grows
<1>1. CASE fill.side = OpeningSide
  <2>1. [fill |-> fill, rest |-> fill.quantity] \in LotOf(R)
    BY DEF LotOf
  <2>2. TakeFill(book, fill) =
          [lots |-> Append(book.lots, [fill |-> fill, rest |-> fill.quantity]), closed |-> book.closed]
    BY <1>1 DEF TakeFill, BookOf
  <2>3. Append(book.lots, [fill |-> fill, rest |-> fill.quantity]) \in Seq(LotOf(R))
    BY <2>1, <1>0
  <2> QED BY <2>2, <2>3, <1>0 DEF BookOf
<1>2. CASE fill.side # OpeningSide
  <2> DEFINE base == [left |-> fill.quantity, lots |-> << >>, closed |-> book.closed]
             taken == LotsTaken(fill, base, book.lots)
             g == Group(BaseLeg, fill, taken.left, "base_inferred")
  <2>l. PICK n \in Nat : n = Len(book.lots)
    BY <1>0
  <2>1. base \in TakenOf(R)
    BY <1>0 DEF TakenOf
  <2>2. PICK v \in [0 .. n -> TakenOf(R)] :
          /\ v[0] = base
          /\ \A i \in 1 .. n : v[i] = TakeLot(fill, v[i - 1], book.lots[i])
          /\ taken = v[n]
    <3> HIDE DEF base, taken
    <3>1. book.lots \in Seq(LotOf(R))
      BY <1>0
    <3>2. \E v \in [0 .. Len(book.lots) -> TakenOf(R)] :
            /\ v[0] = base
            /\ \A i \in 1 .. Len(book.lots) : v[i] = TakeLot(fill, v[i - 1], book.lots[i])
            /\ LotsTaken(fill, base, book.lots) = v[Len(book.lots)]
      BY <2>1, <3>1, LotsFolded
    <3> QED BY <2>l, <3>2 DEF taken
  <2> HIDE DEF taken
  <2>n. \A i \in 1 .. n : book.lots[i] \in LotOf(R) /\ i - 1 \in 0 .. n /\ i \in 0 .. n
    BY <1>0, <2>l
  <2>3. taken \in TakenOf(R)
    BY <2>2, <2>n
  <2>4. Grows(book.closed, taken.closed)
    <3>1. \A i \in 0 .. n : v[i].closed \in Seq(GroupOf(R))
      BY <2>2 DEF TakenOf
    <3>2. \A i \in 1 .. n : Grows(v[i - 1].closed, v[i].closed)
      BY <2>2, <2>n, TakeLotType
    <3>3. Grows(v[0].closed, v[n].closed)
      <4>1. 0 \in 0 .. n
        OBVIOUS
      <4> QED BY <4>1, <3>1, <3>2, GrowsAll
    <3> QED BY <3>3, <2>2
  <2>5. TakeFill(book, fill) =
          [lots |-> taken.lots,
           closed |-> IF taken.left > 0 /\ IsBaseOrder(fill.placed) THEN Append(taken.closed, g) ELSE taken.closed]
    BY <1>2 DEF TakeFill, LotsTaken, taken
  <2>6. g \in GroupOf(R)
    BY <2>3 DEF GroupOf, Group, TakenOf
  <2>7. taken.lots \in Seq(LotOf(R)) /\ taken.closed \in Seq(GroupOf(R))
    BY <2>3 DEF TakenOf
  <2> HIDE DEF g
  <2>8. Append(taken.closed, g) \in Seq(GroupOf(R)) /\ Grows(taken.closed, Append(taken.closed, g))
    BY <2>6, <2>7 DEF Grows
  <2>9. Grows(book.closed, Append(taken.closed, g))
    BY <2>4, <2>7, <2>8, <1>0, GrowsFurther
  <2> QED BY <2>4, <2>5, <2>7, <2>8, <2>9 DEF BookOf
<1> QED BY <1>1, <1>2

\* The fold over fills.
LEMMA FillsFolded ==
  ASSUME NEW R, \A r \in R : r.quantity \in Int, NEW s \in Seq(R)
  PROVE  \E v \in [0 .. Len(s) -> BookOf(R)] :
           /\ v[0] = [lots |-> << >>, closed |-> << >>]
           /\ \A i \in 1 .. Len(s) : v[i] = TakeFill(v[i - 1], s[i])
           /\ FoldLeft(TakeFill, [lots |-> << >>, closed |-> << >>], s) = v[Len(s)]
<1> DEFINE n == Len(s)
           T == BookOf(R)
           base == [lots |-> << >>, closed |-> << >>]
           Is(h) == h = [u \in SUBSET (DOMAIN s) |->
                          IF u = {} THEN base ELSE TakeFill(h[u \ {Max(u)}], s[Max(u)])]
           G == [i \in 1 .. n |-> [t \in T |-> TakeFill(t, s[i])]]
<1>1. n \in Nat /\ DOMAIN s = 1 .. n /\ \A i \in 1 .. n : s[i] \in R
  OBVIOUS
<1>2. G \in [1 .. n -> [T -> T]]
  BY <1>1, TakeFillType
<1>b. base \in T
  BY DEF BookOf
<1>3. PICK g \in [SUBSET (1 .. n) -> T] : IsFold(g, n, base, G)
  <2> HIDE DEF G, T, n, base
  <2> QED BY <1>b, <1>1, <1>2, FoldExists
<1>4. Is(g)
  <2>1. ASSUME NEW u \in SUBSET (1 .. n), u # {} PROVE g[u] = TakeFill(g[u \ {Max(u)}], s[Max(u)])
    <3>1. Max(u) \in 1 .. n
      BY <1>1, <2>1, MaxIn
    <3>2. g[u] = G[Max(u)][g[u \ {Max(u)}]] /\ g[u \ {Max(u)}] \in T
      BY <1>3, <2>1 DEF IsFold
    <3> QED BY <3>1, <3>2
  <2>2. g[{}] = base
    BY <1>3 DEF IsFold
  <2> QED BY <1>1, <1>3, <2>1, <2>2
<1>5. PICK h : h = CHOOSE c : Is(c)
  OBVIOUS
<1>6. Is(h)
  <2> HIDE DEF Is
  <2> QED BY <1>4, <1>5
<1>7. FoldLeft(TakeFill, base, s) = h[DOMAIN s]
  BY <1>5 DEF FoldLeft, MapThenFoldSet
<1>8. h[{}] = base /\ \A i \in 1 .. n : h[1 .. i] = TakeFill(h[1 .. (i - 1)], s[i])
  <2>1. \A u \in SUBSET (1 .. n) : h[u] = IF u = {} THEN base ELSE TakeFill(h[u \ {Max(u)}], s[Max(u)])
    BY <1>1, <1>6
  <2>2. ASSUME NEW i \in 1 .. n PROVE h[1 .. i] = TakeFill(h[1 .. (i - 1)], s[i])
    <3>1. 1 .. i \in SUBSET (1 .. n) /\ i \in Nat /\ i # 0
      BY <1>1
    <3>2. Max(1 .. i) = i /\ (1 .. i) \ {Max(1 .. i)} = 1 .. (i - 1) /\ 1 .. i # {}
      BY <3>1, MaxUpTo
    <3>3. h[1 .. i] = TakeFill(h[(1 .. i) \ {Max(1 .. i)}], s[Max(1 .. i)])
      BY <2>1, <3>1, <3>2
    <3> QED BY <3>2, <3>3
  <2> QED BY <2>1, <2>2
<1> DEFINE v == [i \in 0 .. n |-> h[1 .. i]]
<1>9. \A m \in Nat : m <= n => h[1 .. m] \in T
  <2> DEFINE P == {m \in Nat : m <= n => h[1 .. m] \in T}
  <2>1. 0 \in P
    BY <1>8, <1>b
  <2>2. ASSUME NEW m \in Nat, m \in P PROVE m + 1 \in P
    <3> SUFFICES ASSUME m + 1 <= n PROVE h[1 .. (m + 1)] \in T
      OBVIOUS
    <3>1. m + 1 \in 1 .. n /\ h[1 .. m] \in T
      BY <2>2, <1>1
    <3>2. h[1 .. (m + 1)] = TakeFill(h[1 .. m], s[m + 1])
      BY <3>1, <1>8
    <3> QED BY <3>1, <3>2, <1>1, TakeFillType
  <2>3. Nat \subseteq P
    <3> HIDE DEF P
    <3> QED BY <2>1, <2>2, NatInduct
  <2> QED BY <2>3
<1>10. v \in [0 .. n -> T] /\ v[0] = base /\ v[n] = h[DOMAIN s]
       /\ \A i \in 1 .. n : v[i] = TakeFill(v[i - 1], s[i])
  BY <1>1, <1>8, <1>9
<1> HIDE DEF v
<1> QED BY <1>7, <1>10

\* More fills close more groups, after those that were closed.
LEMMA MoreFillsCloseMore ==
  ASSUME NEW R, \A r \in R : r.quantity \in Int, NEW s \in Seq(R), NEW t \in Seq(R),
         Len(s) <= Len(t), \A i \in 1 .. Len(s) : s[i] = t[i]
  PROVE  LET c == FoldLeft(TakeFill, [lots |-> << >>, closed |-> << >>], s).closed
             d == FoldLeft(TakeFill, [lots |-> << >>, closed |-> << >>], t).closed
         IN c \in Seq(GroupOf(R)) /\ d \in Seq(GroupOf(R)) /\ Grows(c, d)
<1> DEFINE base == [lots |-> << >>, closed |-> << >>]
<1>1. PICK v \in [0 .. Len(s) -> BookOf(R)] :
        /\ v[0] = base
        /\ \A i \in 1 .. Len(s) : v[i] = TakeFill(v[i - 1], s[i])
        /\ FoldLeft(TakeFill, base, s) = v[Len(s)]
  BY FillsFolded
<1>2. PICK w \in [0 .. Len(t) -> BookOf(R)] :
        /\ w[0] = base
        /\ \A i \in 1 .. Len(t) : w[i] = TakeFill(w[i - 1], t[i])
        /\ FoldLeft(TakeFill, base, t) = w[Len(t)]
  BY FillsFolded
<1>3. PICK n \in Nat, m \in Nat : n = Len(t) /\ m = Len(s)
  OBVIOUS
<1> HIDE DEF base
<1>4. v[m] = w[m]
  <2> DEFINE P == {i \in Nat : i <= m => v[i] = w[i]}
  <2>1. 0 \in P
    BY <1>1, <1>2
  <2>2. ASSUME NEW i \in Nat, i \in P PROVE i + 1 \in P
    <3> SUFFICES ASSUME i + 1 <= m PROVE v[i + 1] = w[i + 1]
      OBVIOUS
    <3>1. i + 1 \in 1 .. m /\ i + 1 \in 1 .. n /\ (i + 1) - 1 = i /\ v[i] = w[i]
      BY <2>2, <1>3
    <3> QED BY <3>1, <1>1, <1>2, <1>3
  <2>3. m \in P
    <3> HIDE DEF P
    <3> QED BY <2>1, <2>2, NatInduct
  <2> QED BY <2>3
<1>5. \A i \in 0 .. n : w[i] \in BookOf(R) /\ w[i].closed \in Seq(GroupOf(R))
  BY <1>2, <1>3 DEF BookOf
<1>6. \A i \in 1 .. n : Grows(w[i - 1].closed, w[i].closed)
  <2> TAKE i \in 1 .. n
  <2>1. i - 1 \in 0 .. n /\ t[i] \in R /\ i \in 1 .. Len(t)
    BY <1>3
  <2> QED BY <2>1, <1>2, <1>5, TakeFillType
<1>7. m \in 0 .. n
  BY <1>3
<1>8. Grows(w[m].closed, w[n].closed)
  BY <1>5, <1>6, <1>7, GrowsAll
<1> QED BY <1>1, <1>2, <1>3, <1>4, <1>5, <1>7, <1>8 DEF base

\* The fills as the exchange reports them, the newest first.
LEMMA ReverseType ==
  ASSUME NEW S, NEW f \in Seq(S)
  PROVE  /\ Reverse(f) \in Seq(S) /\ Len(Reverse(f)) = Len(f)
         /\ \A i \in 1 .. Len(f) : Reverse(f)[i] = f[Len(f) - i + 1]
<1>1. PICK n \in Nat : n = Len(f)
  OBVIOUS
<1>2. \A i \in 1 .. n : f[(n - i) + 1] \in S
  <2> TAKE i \in 1 .. n
  <2>1. (n - i) + 1 \in 1 .. n
    OBVIOUS
  <2> QED BY <2>1, <1>1
<1> DEFINE r == [i \in 1 .. n |-> f[(n - i) + 1]]
<1>3. r \in Seq(S) /\ Len(r) = n
  BY <1>2
<1>4. Reverse(f) = r
  BY <1>1 DEF Reverse
<1> QED BY <1>1, <1>3, <1>4

Rising(f) == \A i, j \in 1 .. Len(f) : i < j => f[i].time < f[j].time

\* What the ledger sorts is the history of the fills.
LEMMA AscendingOfReverse ==
  ASSUME NEW S, \A r \in S : r.time \in Int, NEW f \in Seq(S), Rising(f)
  PROVE  Ascending(Reverse(f)) = f
<1> PICK n \in Nat : n = Len(f)
  OBVIOUS
<1> PICK r : r = Reverse(f)
  OBVIOUS
<1>1. r \in Seq(S) /\ Len(r) = n /\ DOMAIN r = 1 .. n /\ \A i \in 1 .. n : r[i] = f[n - i + 1]
  BY ReverseType
<1> DEFINE Earlier(i) == {j \in DOMAIN r : r[j].time < r[i].time \/ (r[j].time = r[i].time /\ j < i)}
<1>2. ASSUME NEW i \in 1 .. n PROVE Earlier(i) = (i + 1) .. n
  <2>1. ASSUME NEW j \in 1 .. n PROVE r[j].time < r[i].time \/ (r[j].time = r[i].time /\ j < i) <=> j > i
    <3> PICK a \in 1 .. n, b \in 1 .. n : a = n - i + 1 /\ b = n - j + 1
      <4>1. n - i + 1 \in 1 .. n /\ n - j + 1 \in 1 .. n
        OBVIOUS
      <4> QED BY <4>1
    <3>1. r[i] = f[a] /\ r[j] = f[b] /\ f[a].time \in Int /\ f[b].time \in Int
      BY <1>1
    <3>2. a < b => f[a].time < f[b].time
      BY DEF Rising
    <3>3. b < a => f[b].time < f[a].time
      BY DEF Rising
    <3>4. (b < a <=> j > i) /\ (a < b <=> j < i) /\ (a = b <=> i = j)
      OBVIOUS
    <3>5. CASE j > i
      BY <3>5, <3>4, <3>3, <3>1
    <3>6. CASE j < i
      BY <3>6, <3>4, <3>2, <3>1
    <3>7. CASE j = i
      BY <3>7, <3>4, <3>1
    <3> QED BY <3>5, <3>6, <3>7
  <2>2. \A j : j \in Earlier(i) <=> j \in 1 .. n /\ j > i
    BY <2>1, <1>1
  <2> HIDE DEF Earlier
  <2>3. \A j : j \in Earlier(i) <=> j \in (i + 1) .. n
    BY <2>2
  <2> QED BY <2>3
<1>3. ASSUME NEW i \in 1 .. n PROVE Cardinality(Earlier(i)) = n - i
  <2>1. Cardinality((i + 1) .. n) = IF i + 1 > n THEN 0 ELSE n - (i + 1) + 1
    <3>1. i + 1 \in Int /\ n \in Int
      OBVIOUS
    <3> QED BY <3>1, FS_Interval
  <2> HIDE DEF Earlier
  <2> QED BY <2>1, <1>2
<1>4. ASSUME NEW k \in 1 .. n
      PROVE  (CHOOSE i \in DOMAIN r : Cardinality(Earlier(i)) = k - 1) = n - k + 1
  <2>1. n - k + 1 \in 1 .. n /\ n - (n - k + 1) = k - 1
    OBVIOUS
  <2> HIDE DEF Earlier
  <2>2. \A i \in 1 .. n : Cardinality(Earlier(i)) = k - 1 <=> i = n - k + 1
    <3> TAKE i \in 1 .. n
    <3>1. PICK c : c = Cardinality(Earlier(i))
      OBVIOUS
    <3>2. c = n - i
      BY <3>1, <1>3
    <3>3. c = k - 1 <=> i = n - k + 1
      BY <3>2
    <3> QED BY <3>1, <3>3
  <2>3. \A i : i \in DOMAIN r /\ Cardinality(Earlier(i)) = k - 1 <=> i = n - k + 1
    BY <2>1, <2>2, <1>1
  <2> QED BY <2>3
<1>5. Ascending(r) = [k \in 1 .. n |-> r[CHOOSE i \in DOMAIN r : Cardinality(Earlier(i)) = k - 1]]
  BY <1>1 DEF Ascending
<1>6. \A k \in 1 .. n : r[CHOOSE i \in DOMAIN r : Cardinality(Earlier(i)) = k - 1] = f[k]
  <2> TAKE k \in 1 .. n
  <2> HIDE DEF Earlier
  <2>1. n - k + 1 \in 1 .. n /\ n - (n - k + 1) + 1 = k
    OBVIOUS
  <2>2. r[n - k + 1] = f[k]
    BY <2>1, <1>1
  <2> QED BY <2>2, <1>4
<1>7. Ascending(r) = [k \in 1 .. n |-> f[k]]
  <2> HIDE DEF Earlier
  <2> QED BY <1>5, <1>6
<1> QED BY <1>7

\* What holds of a fold before its first step, and after a step if before, holds of its result.
LEMMA FoldStays ==
  ASSUME NEW n \in Nat, NEW T, NEW h, h[{}] \in T, \A i \in 1 .. n : h[1 .. (i - 1)] \in T => h[1 .. i] \in T
  PROVE  h[1 .. n] \in T
<1> DEFINE P == {m \in Nat : m <= n => h[1 .. m] \in T}
<1>1. 0 \in P
  <2>1. 1 .. 0 = {}
    OBVIOUS
  <2> QED BY <2>1
<1>2. ASSUME NEW m \in Nat, m \in P PROVE m + 1 \in P
  <2> PICK k \in Nat : k = m + 1
    OBVIOUS
  <2> SUFFICES ASSUME k <= n PROVE h[1 .. k] \in T
    OBVIOUS
  <2>1. k \in 1 .. n /\ k - 1 = m /\ h[1 .. m] \in T
    BY <1>2
  <2> QED BY <2>1
<1>3. n \in P
  <2> HIDE DEF P
  <2> QED BY <1>1, <1>2, NatInduct
<1> QED BY <1>3

Signed(f) == IF f.side = OpeningSide THEN f.quantity ELSE -f.quantity
TotalOf(s) == FoldLeft(LAMBDA sum, f : sum + Signed(f), 0, s)

\* What the fills come to.
LEMMA SumType ==
  ASSUME NEW R, \A r \in R : r.quantity \in Int, NEW f \in Seq(R)
  PROVE  TotalOf(f) \in Int
<1> DEFINE n == Len(f)
           Is(h) == h = [s \in SUBSET (DOMAIN f) |->
                          IF s = {} THEN 0 ELSE h[s \ {Max(s)}] + Signed(f[Max(s)])]
           G == [i \in 1 .. n |-> [t \in Int |-> t + Signed(f[i])]]
<1>1. n \in Nat /\ DOMAIN f = 1 .. n /\ \A i \in 1 .. n : Signed(f[i]) \in Int
  BY DEF Signed
<1>2. G \in [1 .. n -> [Int -> Int]]
  BY <1>1
<1>3. PICK g \in [SUBSET (1 .. n) -> Int] : IsFold(g, n, 0, G)
  <2>1. 0 \in Int
    OBVIOUS
  <2> HIDE DEF G, n
  <2> QED BY <2>1, <1>1, <1>2, FoldExists
<1>4. Is(g)
  <2>1. ASSUME NEW s \in SUBSET (1 .. n), s # {} PROVE g[s] = g[s \ {Max(s)}] + Signed(f[Max(s)])
    <3>1. Max(s) \in 1 .. n
      BY <1>1, <2>1, MaxIn
    <3>2. g[s] = G[Max(s)][g[s \ {Max(s)}]] /\ g[s \ {Max(s)}] \in Int
      BY <1>3, <2>1 DEF IsFold
    <3> QED BY <3>1, <3>2
  <2>2. g[{}] = 0
    BY <1>3 DEF IsFold
  <2> QED BY <1>1, <1>3, <2>1, <2>2
<1>5. PICK h : h = CHOOSE c : Is(c)
  OBVIOUS
<1>6. Is(h)
  <2> HIDE DEF Is
  <2> QED BY <1>4, <1>5
<1>7. TotalOf(f) = h[1 .. n]
  BY <1>1, <1>5 DEF TotalOf, FoldLeft, MapThenFoldSet
<1>8. \A s \in SUBSET (1 .. n) : h[s] = IF s = {} THEN 0 ELSE h[s \ {Max(s)}] + Signed(f[Max(s)])
  BY <1>1, <1>6
<1>9. ASSUME NEW i \in 1 .. n, h[1 .. (i - 1)] \in Int PROVE h[1 .. i] \in Int
  <2>1. 1 .. i \in SUBSET (1 .. n) /\ i \in Nat /\ i # 0
    BY <1>1
  <2>2. Max(1 .. i) = i /\ (1 .. i) \ {Max(1 .. i)} = 1 .. (i - 1) /\ 1 .. i # {}
    BY <2>1, MaxUpTo
  <2>3. h[1 .. i] = h[1 .. (i - 1)] + Signed(f[i])
    BY <1>8, <2>1, <2>2
  <2> QED BY <2>3, <1>1, <1>9
<1>10. h[{}] \in Int
  <2>1. h[{}] = 0
    BY <1>8
  <2> QED BY <2>1
<1> HIDE DEF n
<1> QED BY <1>1, <1>7, <1>9, <1>10, FoldStays

\* The position of the robot is a number.
LEMMA NetType ==
  ASSUME ViewsAssumption, fills \in Seq(Filled)
  PROVE  Net \in Int
<1>1. \A r \in Filled : r.quantity \in Int
  BY DEF Filled
<1>2. TotalOf(fills) \in Int
  BY <1>1, SumType
<1>3. Net = OrderSize * Cardinality({g \in 1 .. Len(Lines) - 1 : BaseGrid(g)}) + TotalOf(fills)
  BY DEF Net, TotalOf, Signed
<1>4. Cardinality({g \in 1 .. Len(Lines) - 1 : BaseGrid(g)}) \in Nat
  <2>1. Len(Lines) - 1 \in Int
    BY DEF ViewsAssumption
  <2>2. IsFiniteSet(1 .. Len(Lines) - 1)
    BY <2>1, FS_Interval
  <2>3. IsFiniteSet({g \in 1 .. Len(Lines) - 1 : BaseGrid(g)})
    BY <2>2, FS_Subset
  <2> QED BY <2>3, FS_CardinalityType
<1>5. OrderSize \in Int
  BY DEF ViewsAssumption
<1>6. PICK c \in Nat : c = Cardinality({g \in 1 .. Len(Lines) - 1 : BaseGrid(g)})
  BY <1>4
<1>7. OrderSize * c \in Int
  BY <1>5, <1>6
<1> QED BY <1>2, <1>3, <1>6, <1>7

\* What is kept of attention items stays attention items.
LEMMA KeptType ==
  ASSUME NEW I, NEW items \in Seq(I), NEW base \in Seq(I), NEW severity
  PROVE  KeptOf(base, items, severity) \in Seq(I)
<1> DEFINE n == Len(items)
           T == Seq(I)
           Is(h) == h = [s \in SUBSET (DOMAIN items) |->
                          IF s = {} THEN base ELSE KeepFirst(h[s \ {Max(s)}], items[Max(s)], severity)]
           G == [i \in 1 .. n |-> [t \in T |-> KeepFirst(t, items[i], severity)]]
<1>1. n \in Nat /\ DOMAIN items = 1 .. n /\ \A i \in 1 .. n : items[i] \in I
  OBVIOUS
<1>k. ASSUME NEW t \in T, NEW i \in 1 .. n PROVE KeepFirst(t, items[i], severity) \in T
  BY <1>1 DEF KeepFirst
<1>2. G \in [1 .. n -> [T -> T]]
  BY <1>1, <1>k
<1>b. base \in T
  OBVIOUS
<1>3. PICK g \in [SUBSET (1 .. n) -> T] : IsFold(g, n, base, G)
  <2> HIDE DEF G, n, T
  <2> QED BY <1>1, <1>2, <1>b, FoldExists
<1>4. Is(g)
  <2>1. ASSUME NEW s \in SUBSET (1 .. n), s # {} PROVE g[s] = KeepFirst(g[s \ {Max(s)}], items[Max(s)], severity)
    <3>1. Max(s) \in 1 .. n
      BY <1>1, <2>1, MaxIn
    <3>2. g[s] = G[Max(s)][g[s \ {Max(s)}]] /\ g[s \ {Max(s)}] \in T
      BY <1>3, <2>1 DEF IsFold
    <3> QED BY <3>1, <3>2
  <2>2. g[{}] = base
    BY <1>3 DEF IsFold
  <2> QED BY <1>1, <1>3, <2>1, <2>2
<1>5. PICK h : h = CHOOSE c : Is(c)
  OBVIOUS
<1>6. Is(h)
  <2> HIDE DEF Is
  <2> QED BY <1>4, <1>5
<1>7. KeptOf(base, items, severity) = h[1 .. n]
  BY <1>1, <1>5 DEF KeptOf, FoldLeft, MapThenFoldSet
<1>8. \A s \in SUBSET (1 .. n) : h[s] = IF s = {} THEN base ELSE KeepFirst(h[s \ {Max(s)}], items[Max(s)], severity)
  BY <1>1, <1>6
<1>9. ASSUME NEW i \in 1 .. n, h[1 .. (i - 1)] \in T PROVE h[1 .. i] \in T
  <2>1. 1 .. i \in SUBSET (1 .. n) /\ i \in Nat /\ i # 0
    BY <1>1
  <2>2. Max(1 .. i) = i /\ (1 .. i) \ {Max(1 .. i)} = 1 .. (i - 1) /\ 1 .. i # {}
    BY <2>1, MaxUpTo
  <2>3. h[1 .. i] = KeepFirst(h[1 .. (i - 1)], items[i], severity)
    BY <1>8, <2>1, <2>2
  <2> HIDE DEF T
  <2> QED BY <2>3, <1>k, <1>9
<1>10. h[{}] \in T
  BY <1>8
<1> HIDE DEF n, T
<1>11. h[1 .. n] \in T
  BY <1>1, <1>9, <1>10, FoldStays
<1> QED BY <1>7, <1>11 DEF T

-----------------------------------------------------------------------------
(* The cards. *)

\* What a key says of a report.
Says(s, key) ==
  CASE key = "stale" -> s.stale
    [] key = "orders_unavailable" -> s.missing
    [] key = "liquidation_risk" -> Within(s.mark, s.liquidation, 5)
    [] key = "stop_loss_risk" -> Within(s.mark, s.stop, 5)

\* Texts, with those of the panel named: the provers do not know what is in STRING.
Text == STRING \cup SyncedKeys \cup {"fills_capped", "funding_window_clipped", "danger", "warning"}

\* Items whose cards say what is so.
Honest(s) == {i \in [key : Text, severity : Text] : i.key \in SyncedKeys => Says(s, i.key)}

\* A sequence of some things is one of more things.
LEMMA SeqWider == ASSUME NEW D, NEW I, D \subseteq I, NEW d \in Seq(D) PROVE d \in Seq(I)
<1>1. \A i \in 1 .. Len(d) : d[i] \in D
  OBVIOUS
<1>2. \A i \in 1 .. Len(d) : d[i] \in I
  BY <1>1
<1> QED BY <1>2

\* What a card says is so in the report it comes from: every condition has its own item, and neither the order of severity nor the cut to a few items makes a new one.
LEMMA CardsMean ==
  ASSUME NEW s \in Report
  PROVE  \A key \in Cards(s) : key \in SyncedKeys /\ Says(s, key)
<1> DEFINE I == Honest(s)
<1>1. ASSUME NEW c \in BOOLEAN, NEW key \in Text, NEW severity \in Text, key \in SyncedKeys /\ c => Says(s, key)
      PROVE  Item(c, key, severity) \in Seq(I)
  <2>1. CASE c
    <3>1. [key |-> key, severity |-> severity] \in I
      BY <1>1, <2>1 DEF Honest
    <3> QED BY <3>1, <2>1 DEF Item
  <2>2. CASE ~c
    BY <2>2 DEF Item
  <2> QED BY <2>1, <2>2
<1>t. /\ s.stale \in BOOLEAN /\ s.capped \in BOOLEAN /\ s.clipped \in BOOLEAN /\ s.missing \in BOOLEAN
      /\ Within(s.mark, s.liquidation, 5) \in BOOLEAN /\ Within(s.mark, s.stop, 5) \in BOOLEAN
  BY DEF Report, Within
<1>2. Item(s.stale, "stale", IF s.partial THEN "danger" ELSE "warning") \in Seq(I)
  <2> PICK key \in Text : key = "stale"
    BY DEF Text, SyncedKeys
  <2> PICK severity \in Text : severity = (IF s.partial THEN "danger" ELSE "warning")
    BY DEF Text
  <2> PICK c \in BOOLEAN : c = s.stale
    BY <1>t
  <2>1. key \in SyncedKeys /\ c => Says(s, key)
    BY DEF Says
  <2>2. Item(c, key, severity) \in Seq(I)
    BY <2>1, <1>1
  <2> HIDE DEF I
  <2> QED BY <2>2
<1>3. Item(s.capped, "fills_capped", "warning") \in Seq(I)
  <2> PICK key \in Text : key = "fills_capped"
    BY DEF Text, SyncedKeys
  <2> PICK severity \in Text : severity = "warning"
    BY DEF Text
  <2> PICK c \in BOOLEAN : c = s.capped
    BY <1>t
  <2>1. key \in SyncedKeys /\ c => Says(s, key)
    BY DEF SyncedKeys
  <2>2. Item(c, key, severity) \in Seq(I)
    BY <2>1, <1>1
  <2> HIDE DEF I
  <2> QED BY <2>2
<1>4. Item(s.clipped, "funding_window_clipped", "warning") \in Seq(I)
  <2> PICK key \in Text : key = "funding_window_clipped"
    BY DEF Text, SyncedKeys
  <2> PICK severity \in Text : severity = "warning"
    BY DEF Text
  <2> PICK c \in BOOLEAN : c = s.clipped
    BY <1>t
  <2>1. key \in SyncedKeys /\ c => Says(s, key)
    BY DEF SyncedKeys
  <2>2. Item(c, key, severity) \in Seq(I)
    BY <2>1, <1>1
  <2> HIDE DEF I
  <2> QED BY <2>2
<1>5. Item(s.missing, "orders_unavailable", "warning") \in Seq(I)
  <2> PICK key \in Text : key = "orders_unavailable"
    BY DEF Text, SyncedKeys
  <2> PICK severity \in Text : severity = "warning"
    BY DEF Text
  <2> PICK c \in BOOLEAN : c = s.missing
    BY <1>t
  <2>1. key \in SyncedKeys /\ c => Says(s, key)
    BY DEF Says
  <2>2. Item(c, key, severity) \in Seq(I)
    BY <2>1, <1>1
  <2> HIDE DEF I
  <2> QED BY <2>2
<1>6. RiskItem(s, "liquidation_risk", s.liquidation) \in Seq(I)
  <2> PICK key \in Text : key = "liquidation_risk"
    BY DEF Text, SyncedKeys
  <2> PICK severity \in Text : severity = (IF Within(s.mark, s.liquidation, 2) THEN "danger" ELSE "warning")
    BY DEF Text
  <2> PICK c \in BOOLEAN : c = Within(s.mark, s.liquidation, 5)
    BY <1>t
  <2>1. key \in SyncedKeys /\ c => Says(s, key)
    BY DEF Says
  <2>2. Item(c, key, severity) \in Seq(I)
    BY <2>1, <1>1
  <2> HIDE DEF I
  <2> QED BY <2>2 DEF RiskItem
<1>7. RiskItem(s, "stop_loss_risk", s.stop) \in Seq(I)
  <2> PICK key \in Text : key = "stop_loss_risk"
    BY DEF Text, SyncedKeys
  <2> PICK severity \in Text : severity = (IF Within(s.mark, s.stop, 2) THEN "danger" ELSE "warning")
    BY DEF Text
  <2> PICK c \in BOOLEAN : c = Within(s.mark, s.stop, 5)
    BY <1>t
  <2>1. key \in SyncedKeys /\ c => Says(s, key)
    BY DEF Says
  <2>2. Item(c, key, severity) \in Seq(I)
    BY <2>1, <1>1
  <2> HIDE DEF I
  <2> QED BY <2>2 DEF RiskItem
<1>8. s.diagnostics \in Seq(I)
  <2>1. [key : STRING \ SyncedKeys, severity : STRING] \subseteq I
    BY DEF Honest, Text
  <2>2. s.diagnostics \in Seq([key : STRING \ SyncedKeys, severity : STRING])
    BY DEF Report
  <2> HIDE DEF I
  <2> QED BY <2>1, <2>2, SeqWider
<1> HIDE DEF I
<1>9. Conditions(s) \in Seq(I)
  BY <1>2, <1>3, <1>4, <1>5, <1>6, <1>7, <1>8 DEF Conditions
<1>10. Deduped(Conditions(s)) \in Seq(I)
  <2> DEFINE a == KeptOf(<< >>, Conditions(s), "danger")
             b == KeptOf(a, Conditions(s), "warning")
  <2>1. a \in Seq(I)
    <3>1. << >> \in Seq(I)
      OBVIOUS
    <3> QED BY <3>1, <1>9, KeptType
  <2> HIDE DEF a
  <2>2. b \in Seq(I)
    BY <2>1, <1>9, KeptType
  <2> HIDE DEF b
  <2>3. KeptOf(b, Conditions(s), "info") \in Seq(I)
    BY <2>2, <1>9, KeptType
  <2> QED BY <2>3 DEF Deduped, a, b
<1>11. AttentionItems(s) \in Seq(I)
  <2> PICK d \in Seq(I) : d = Deduped(Conditions(s))
    BY <1>10
  <2> PICK k : k = IF Len(d) < MostItems THEN Len(d) ELSE MostItems
    OBVIOUS
  <2>1. k \in 0 .. Len(d)
    BY ViewsAssumption DEF ViewsAssumption
  <2>2. SubSeq(d, 1, k) \in Seq(I)
    BY <2>1
  <2> QED BY <2>2 DEF AttentionItems
<1>12. ASSUME NEW key \in Cards(s) PROVE key \in SyncedKeys /\ Says(s, key)
  <2> PICK a \in Seq(I) : a = AttentionItems(s)
    BY <1>11
  <2>1. PICK i \in DOMAIN a : key = a[i].key /\ key \in SyncedKeys
    BY DEF Cards
  <2>2. a[i] \in I
    OBVIOUS
  <2> QED BY <2>1, <2>2 DEF I, Honest
<1> QED BY <1>12

-----------------------------------------------------------------------------
(* LiveViews: the invariant.                                               *)

\* Fills in the order in which they were made, up to a time.
InOrder(f, time) == Rising(f) /\ \A i \in 1 .. Len(f) : f[i].id = i /\ f[i].time <= time

\* The fills h of a report: those that were made by its time, of all the fills f.
IsHistory(h, f, s) ==
  /\ s.fills = Reverse(h)
  /\ Len(h) <= Len(f) /\ \A i \in 1 .. Len(h) : h[i] = f[i]
  /\ \A i \in 1 .. Len(f) : f[i].time <= s.at <=> i <= Len(h)

ViewsTypeOK ==
  /\ clock \in Int /\ fills \in Seq(Filled) /\ orders \in SUBSET Placed
  /\ snapshot \in Report \cup {NoReport}
  /\ centre \subseteq SyncedKeys \cup {"fetch"}

\* A snapshot that is complete has the fills that had been made when it was taken.
ReportIsHistory ==
  snapshot # NoReport =>
    /\ snapshot.at <= clock
    /\ snapshot.complete => \E h \in Seq(Filled) : IsHistory(h, fills, snapshot)

ViewsInv == ViewsTypeOK /\ InOrder(fills, clock) /\ ReportIsHistory /\ CardsHold

\* What the robot places is an order.
LEMMA OrderType ==
  ASSUME ViewsAssumption, NEW grid \in 1 .. Len(Lines) - 1, NEW holds, NEW placed \in Int
  PROVE  Order(grid, holds, placed) \in Placed
<1>1. Len(Lines) \in Nat /\ Direction \in {"long", "short"} /\ OrderSize \in Int
  BY DEF ViewsAssumption
<1>2. placed * Len(Lines) + grid \in Int
  <2> PICK n \in Nat : n = Len(Lines)
    BY <1>1
  <2> QED OBVIOUS
<1>3. Lines[IF holds = Long THEN grid + 1 ELSE grid] \in Int
  <2>1. grid + 1 \in 1 .. Len(Lines) /\ grid \in 1 .. Len(Lines)
    BY <1>1
  <2> QED BY <2>1 DEF ViewsAssumption
<1>4. (IF holds THEN ClosingSide ELSE OpeningSide) \in {"buy", "sell"}
  BY <1>1 DEF ClosingSide, OpeningSide
<1> QED BY <1>1, <1>2, <1>3, <1>4 DEF Order, Placed

\* All of a sequence is the sequence.
LEMMA SubSeqAll == ASSUME NEW S, NEW s \in Seq(S) PROVE SubSeq(s, 1, Len(s)) = s
OBVIOUS

\* What Reported reports: the last snapshot again, or what there is.
LEMMA ReportedIs ==
  ASSUME ViewsAssumption, ViewsTypeOK, NEW s \in Situations
  PROVE  /\ Reported(s) \in Report
         /\ \/ /\ snapshot \in Report
               /\ Reported(s).at = snapshot.at /\ Reported(s).fills = snapshot.fills
               /\ Reported(s).complete = snapshot.complete
               /\ Reported(s).orders = snapshot.orders /\ Reported(s).state = snapshot.state
               /\ Reported(s).position = snapshot.position /\ Reported(s).notional = snapshot.notional
               /\ Reported(s).pnl = snapshot.pnl
            \/ /\ snapshot # NoReport => ~Reported(s).stale
               /\ Reported(s).at = clock
               /\ Reported(s).complete => Reported(s).fills = Reverse(fills) /\ Reported(s).orders = orders
               /\ Reported(s).position = Net
<1>0. s \in Situation
  BY DEF ViewsAssumption
<1>1. CASE s.stale /\ snapshot # NoReport
  <2>1. snapshot \in Report
    BY <1>1 DEF ViewsTypeOK
  <2>2. Reported(s) = [snapshot EXCEPT !.stale = TRUE, !.partial = s.partial]
    BY <1>1 DEF Reported
  <2>3. s.partial \in BOOLEAN
    BY <1>0 DEF Situation
  <2>4. Reported(s) = [stale |-> TRUE, partial |-> s.partial, capped |-> snapshot.capped,
          clipped |-> snapshot.clipped, missing |-> snapshot.missing, mark |-> snapshot.mark,
          liquidation |-> snapshot.liquidation, stop |-> snapshot.stop, pnl |-> snapshot.pnl,
          investment |-> snapshot.investment, state |-> snapshot.state, diagnostics |-> snapshot.diagnostics,
          at |-> snapshot.at, position |-> snapshot.position, notional |-> snapshot.notional,
          fills |-> snapshot.fills, orders |-> snapshot.orders, complete |-> snapshot.complete]
    BY <2>1, <2>2 DEF Report
  <2>5. Reported(s) \in Report
    BY <2>1, <2>3, <2>4 DEF Report
  <2> QED BY <2>1, <2>4, <2>5
<1>2. CASE ~(s.stale /\ snapshot # NoReport)
  <2> PICK k : k = IF s.capped /\ Len(fills) > PageOfFills THEN PageOfFills ELSE Len(fills)
    OBVIOUS
  <2> PICK r : r = SubSeq(Reverse(fills), 1, k)
    OBVIOUS
  <2> PICK net \in Int : net = Net
    BY NetType DEF ViewsTypeOK
  <2>1. Reported(s) = [stale |-> s.stale, partial |-> s.partial, capped |-> s.capped, clipped |-> s.clipped,
        missing |-> s.missing, mark |-> s.mark, liquidation |-> s.liquidation, stop |-> s.stop,
        diagnostics |-> s.diagnostics, state |-> s.state, pnl |-> s.pnl, investment |-> s.investment,
        at |-> clock, position |-> net, notional |-> s.mark * net, fills |-> r,
        orders |-> IF s.missing THEN {} ELSE orders,
        complete |-> ~s.missing /\ (s.capped => Len(fills) <= PageOfFills)]
    BY <1>2 DEF Reported
  <2>2. /\ Reverse(fills) \in Seq(Filled) /\ Len(Reverse(fills)) = Len(fills)
        /\ Len(fills) \in Nat /\ PageOfFills \in Nat
    BY ReverseType DEF ViewsTypeOK, ViewsAssumption
  <2>3. r \in Seq(Filled)
    <3> PICK rev \in Seq(Filled) : rev = Reverse(fills)
      BY <2>2
    <3>1. k \in 0 .. Len(rev)
      BY <2>2
    <3> QED BY <3>1
  <2>4. s.mark * net \in Int
    <3> PICK mark \in Int : mark = s.mark
      BY <1>0 DEF Situation
    <3> QED OBVIOUS
  <2>5. Reported(s) \in Report
    BY <1>0, <2>1, <2>3, <2>4 DEF Situation, Report, ViewsTypeOK
  <2>6. ~s.missing /\ (s.capped => Len(fills) <= PageOfFills) => r = Reverse(fills)
    <3> SUFFICES ASSUME s.capped => Len(fills) <= PageOfFills PROVE r = Reverse(fills)
      OBVIOUS
    <3>1. k = Len(Reverse(fills))
      BY <2>2
    <3> QED BY <3>1, <2>2, SubSeqAll
  <2>7. Reported(s).at = clock /\ Reported(s).fills = r /\ Reported(s).stale = s.stale /\ Reported(s).position = Net
        /\ (~s.missing => Reported(s).orders = orders)
        /\ Reported(s).complete = (~s.missing /\ (s.capped => Len(fills) <= PageOfFills))
    BY <2>1
  <2> QED BY <1>2, <2>5, <2>6, <2>7
<1> QED BY <1>1, <1>2

\* The panel starts in the invariant.
LEMMA ViewsInitHolds == ASSUME ViewsAssumption, ViewsInit PROVE ViewsInv
<1>1. clock \in Int /\ fills = << >> /\ snapshot = NoReport /\ centre = {}
  BY DEF ViewsInit, ViewsAssumption
<1>2. orders \in SUBSET Placed
  <2> SUFFICES ASSUME NEW g \in 1 .. Len(Lines) - 1 PROVE Order(g, BaseGrid(g), Started) \in Placed
    BY DEF ViewsInit
  <2>1. Started \in Int
    BY DEF ViewsAssumption
  <2> QED BY <2>1, OrderType
<1>3. ViewsTypeOK
  BY <1>1, <1>2 DEF ViewsTypeOK
<1>4. InOrder(fills, clock) /\ ReportIsHistory /\ CardsHold
  BY <1>1 DEF InOrder, Rising, ReportIsHistory, CardsHold
<1> QED BY <1>3, <1>4 DEF ViewsInv

\* A fill is later than every fill and every report before it.
LEMMA FillKeeps ==
  ASSUME ViewsAssumption, ViewsInv, NEW o \in orders, NEW q \in 1 .. OrderSize, Fill(o, q)
  PROVE  ViewsInv'
<1> DEFINE fill == [id |-> Len(fills) + 1, order |-> o.id, side |-> o.side, price |-> o.price,
                    quantity |-> q, placed |-> o.placed, time |-> clock + 1]
           part == [o EXCEPT !.filled = @ + q, !.status = "partially_filled"]
<1>1. clock \in Int /\ fills \in Seq(Filled) /\ o \in Placed /\ orders \subseteq Placed /\ OrderSize \in Nat
  BY DEF ViewsInv, ViewsTypeOK, ViewsAssumption
<1>2. /\ clock' = clock + 2 /\ fills' = Append(fills, fill) /\ snapshot' = snapshot /\ centre' = centre
      /\ orders' \subseteq orders \cup {Order(o.grid, o.side = OpeningSide, clock + 2), part}
  BY DEF Fill
<1>3. fill \in Filled
  BY <1>1 DEF Filled, Placed
<1>4. Order(o.grid, o.side = OpeningSide, clock + 2) \in Placed
  <2>1. o.grid \in 1 .. Len(Lines) - 1 /\ clock + 2 \in Int
    BY <1>1 DEF Placed
  <2> QED BY <2>1, OrderType
<1>5. part \in Placed
  <2>1. part = [id |-> o.id, side |-> o.side, price |-> o.price, quantity |-> o.quantity,
                filled |-> o.filled + q, placed |-> o.placed, status |-> "partially_filled", grid |-> o.grid]
    <3> PICK b : b = o.filled + q
      OBVIOUS
    <3>1. o = [id |-> o.id, side |-> o.side, price |-> o.price, quantity |-> o.quantity, filled |-> o.filled,
               placed |-> o.placed, status |-> o.status, grid |-> o.grid]
      BY <1>1 DEF Placed
    <3>2. part = [o EXCEPT !.filled = b, !.status = "partially_filled"]
      OBVIOUS
    <3> HIDE DEF part
    <3> QED BY <3>1, <3>2
  <2>2. o.filled + q \in Int
    BY <1>1 DEF Placed
  <2> HIDE DEF part
  <2> QED BY <2>1, <2>2, <1>1 DEF Placed
<1> HIDE DEF part
<1>p. PICK f : f = fill
  OBVIOUS
<1> HIDE DEF fill
<1>6. ViewsTypeOK'
  <2>1. fills' \in Seq(Filled) /\ clock' \in Int
    BY <1>1, <1>2, <1>3
  <2>2. orders' \subseteq Placed
    BY <1>1, <1>2, <1>4, <1>5
  <2> QED BY <2>1, <2>2, <1>2 DEF ViewsInv, ViewsTypeOK
<1>n. PICK n \in Nat : n = Len(fills)
  BY <1>1
<1>7. /\ Len(fills') = n + 1 /\ fills'[n + 1].id = n + 1 /\ fills'[n + 1].time = clock + 1
      /\ \A i \in 1 .. n : fills'[i] = fills[i] /\ fills[i].time \in Int
  <2>1. Append(fills, fill)[n + 1] = fill /\ Len(Append(fills, fill)) = n + 1
        /\ \A i \in 1 .. n : Append(fills, fill)[i] = fills[i]
    BY <1>1, <1>3, <1>n
  <2>2. fill.id = n + 1 /\ fill.time = clock + 1
    BY <1>n DEF fill
  <2>3. \A i \in 1 .. n : fills[i] \in Filled
    BY <1>1, <1>n
  <2>4. \A i \in 1 .. n : fills[i].time \in Int
    BY <2>3 DEF Filled
  <2> QED BY <2>1, <2>2, <2>4, <1>2
<1>i. Rising(fills) /\ \A i \in 1 .. n : fills[i].id = i /\ fills[i].time <= clock
  BY <1>n DEF ViewsInv, InOrder
<1>8. InOrder(fills, clock)'
  <2> PICK g, c : g = fills' /\ c = clock'
    OBVIOUS
  <2>1. \A i \in 1 .. n + 1 : g[i].id = i /\ g[i].time <= c
    <3> TAKE i \in 1 .. n + 1
    <3>1. CASE i = n + 1
      BY <3>1, <1>7, <1>2, <1>1
    <3>2. CASE i # n + 1
      <4>1. i \in 1 .. n
        BY <3>2
      <4> QED BY <4>1, <1>7, <1>i, <1>1, <1>2
    <3> QED BY <3>1, <3>2
  <2>2. ASSUME NEW i \in 1 .. n + 1, NEW j \in 1 .. n + 1, i < j PROVE g[i].time < g[j].time
    <3>1. i \in 1 .. n
      BY <2>2
    <3>2. CASE j = n + 1
      <4>1. g[j].time = clock + 1 /\ g[i].time = fills[i].time
        BY <3>1, <3>2, <1>7
      <4>2. fills[i].time <= clock /\ fills[i].time \in Int
        BY <3>1, <1>7, <1>i
      <4> QED BY <4>1, <4>2, <1>1
    <3>3. CASE j # n + 1
      <4>1. j \in 1 .. n
        BY <3>3
      <4> QED BY <4>1, <3>1, <2>2, <1>7, <1>i, <1>n DEF Rising
    <3> QED BY <3>2, <3>3
  <2>3. Rising(g)
    BY <2>2, <1>7 DEF Rising
  <2>4. InOrder(g, c)
    BY <2>1, <2>3, <1>7 DEF InOrder
  <2> QED BY <2>4 DEF InOrder, Rising
<1>9. ReportIsHistory'
  <2> SUFFICES ASSUME snapshot # NoReport
               PROVE  /\ snapshot.at <= clock'
                      /\ snapshot.complete => \E h \in Seq(Filled) : IsHistory(h, fills', snapshot)
    BY <1>2 DEF ReportIsHistory, IsHistory
  <2>1. snapshot.at <= clock /\ (snapshot.complete => \E h \in Seq(Filled) : IsHistory(h, fills, snapshot))
    BY DEF ViewsInv, ReportIsHistory
  <2>2. snapshot.at \in Int
    BY DEF ViewsInv, ViewsTypeOK, Report
  <2>3. ASSUME NEW h \in Seq(Filled), IsHistory(h, fills, snapshot) PROVE IsHistory(h, fills', snapshot)
    <3> PICK g : g = fills'
      OBVIOUS
    <3>1. Len(h) \in Nat /\ Len(h) <= n /\ \A i \in 1 .. Len(h) : h[i] = fills[i]
      BY <2>3, <1>n DEF IsHistory
    <3>2. \A i \in 1 .. n : fills[i].time <= snapshot.at <=> i <= Len(h)
      BY <2>3, <1>n DEF IsHistory
    <3>3. \A i \in 1 .. Len(h) : i \in 1 .. n
      BY <3>1
    <3>4. Len(h) <= Len(g) /\ \A i \in 1 .. Len(h) : h[i] = g[i]
      BY <3>1, <3>3, <1>7
    <3>5. \A i \in 1 .. n + 1 : g[i].time <= snapshot.at <=> i <= Len(h)
      <4> TAKE i \in 1 .. n + 1
      <4>1. CASE i = n + 1
        BY <4>1, <3>1, <1>7, <2>1, <2>2, <1>1
      <4>2. CASE i # n + 1
        <5>1. i \in 1 .. n
          BY <4>2
        <5> QED BY <5>1, <3>2, <1>7
      <4> QED BY <4>1, <4>2
    <3>6. IsHistory(h, g, snapshot)
      BY <2>3, <3>4, <3>5, <1>7 DEF IsHistory
    <3> QED BY <3>6
  <2>4. snapshot.at <= clock'
    BY <2>1, <2>2, <1>1, <1>2
  <2> QED BY <2>1, <2>3, <2>4
<1>10. CardsHold'
  BY <1>2 DEF ViewsInv, CardsHold, Holds
<1> QED BY <1>6, <1>8, <1>9, <1>10 DEF ViewsInv

\* An answer is the last report again or has what there is, and its cards are those of the new report.
LEMMA SyncedKeeps ==
  ASSUME ViewsAssumption, ViewsInv, NEW s \in Situations, Synced(s)
  PROVE  ViewsInv'
<1> PICK next : next = Reported(s)
  OBVIOUS
<1>1. /\ snapshot' = next /\ clock' = clock /\ fills' = fills /\ orders' = orders
      /\ centre' = CentreAfter(centre, next)
  BY DEF Synced
<1>t. ViewsTypeOK
  BY DEF ViewsInv
<1>2. /\ next \in Report
      /\ \/ /\ snapshot \in Report
            /\ next.at = snapshot.at /\ next.fills = snapshot.fills /\ next.complete = snapshot.complete
         \/ next.at = clock /\ (next.complete => next.fills = Reverse(fills))
  BY <1>t, ReportedIs
<1>c. centre' = Cards(next)
  <2>1. centre \subseteq SyncedKeys \cup {"fetch"} /\ Cards(next) \subseteq SyncedKeys
    BY <1>t DEF ViewsTypeOK, Cards
  <2>2. "fetch" \notin SyncedKeys
    BY DEF SyncedKeys
  <2> QED BY <1>1, <2>1, <2>2 DEF CentreAfter, Dismissed
<1>3. ViewsTypeOK'
  <2>1. Cards(next) \subseteq SyncedKeys
    BY DEF Cards
  <2> QED BY <1>1, <1>2, <1>t, <1>c, <2>1 DEF ViewsTypeOK
<1>4. InOrder(fills, clock)'
  BY <1>1 DEF ViewsInv, InOrder, Rising
<1>5. ReportIsHistory'
  <2>1. next.at <= clock /\ (next.complete => \E h \in Seq(Filled) : IsHistory(h, fills, next))
    <3>1. CASE /\ snapshot \in Report
               /\ next.at = snapshot.at /\ next.fills = snapshot.fills /\ next.complete = snapshot.complete
      <4>1. snapshot # NoReport
        BY <3>1 DEF ViewsAssumption
      <4>2. snapshot.at <= clock /\ (snapshot.complete => \E h \in Seq(Filled) : IsHistory(h, fills, snapshot))
        BY <4>1 DEF ViewsInv, ReportIsHistory
      <4> QED BY <3>1, <4>2 DEF IsHistory
    <3>2. CASE next.at = clock /\ (next.complete => next.fills = Reverse(fills))
      <4>1. clock \in Int /\ fills \in Seq(Filled) /\ InOrder(fills, clock)
        BY DEF ViewsInv, ViewsTypeOK
      <4>2. next.complete => IsHistory(fills, fills, next)
        BY <3>2, <4>1 DEF IsHistory, InOrder
      <4> QED BY <3>2, <4>1, <4>2
    <3> QED BY <1>2, <3>1, <3>2
  <2> QED BY <1>1, <2>1 DEF ReportIsHistory, IsHistory
<1>6. CardsHold'
  <2>1. \A key \in Cards(next) : key \in SyncedKeys /\ Says(next, key)
    BY <1>2, CardsMean
  <2> QED BY <1>1, <1>c, <2>1 DEF CardsHold, Holds, Says
<1> QED BY <1>3, <1>4, <1>5, <1>6 DEF ViewsInv

\* Every step keeps the invariant.
LEMMA ViewsNextKeeps == ASSUME ViewsAssumption, ViewsInv, [ViewsNext]_viewsVars PROVE ViewsInv'
<1>1. CASE \E o \in orders, q \in 1 .. OrderSize : Fill(o, q)
  BY <1>1, FillKeeps
<1>2. CASE \E s \in Situations : Synced(s)
  BY <1>2, SyncedKeeps
<1>3. CASE Failed
  <2>1. clock' = clock /\ fills' = fills /\ orders' = orders /\ snapshot' = snapshot /\ centre' = centre \cup {"fetch"}
    BY <1>3 DEF Failed
  <2>2. CardsHold'
    BY <2>1 DEF ViewsInv, CardsHold, Holds
  <2> QED BY <2>1, <2>2 DEF ViewsInv, ViewsTypeOK, InOrder, Rising, ReportIsHistory, IsHistory
<1>4. CASE UNCHANGED viewsVars
  BY <1>4 DEF viewsVars, ViewsInv, ViewsTypeOK, InOrder, Rising, ReportIsHistory, IsHistory, CardsHold, Holds
<1> QED BY <1>1, <1>2, <1>3, <1>4 DEF ViewsNext

\* More of the history closes more grids.
LEMMA HistoryClosesMore ==
  ASSUME NEW h \in Seq(Filled), NEW k \in Seq(Filled), Rising(k),
         Len(h) <= Len(k), \A i \in 1 .. Len(h) : h[i] = k[i]
  PROVE  IsPrefix(ClosedGroups(Reverse(h)), ClosedGroups(Reverse(k)))
<1>1. (\A r \in Filled : r.time \in Int) /\ (\A r \in Filled : r.quantity \in Int)
  BY DEF Filled
<1>2. Rising(h)
  <2>1. Len(h) \in Nat /\ Len(k) \in Nat /\ \A i \in 1 .. Len(h) : i \in 1 .. Len(k)
    OBVIOUS
  <2> QED BY <2>1 DEF Rising
<1>3. Ascending(Reverse(h)) = h /\ Ascending(Reverse(k)) = k
  BY <1>1, <1>2, AscendingOfReverse
<1> DEFINE base == [lots |-> << >>, closed |-> << >>]
<1>4. PICK c, d : /\ c = FoldLeft(TakeFill, base, h).closed /\ d = FoldLeft(TakeFill, base, k).closed
  OBVIOUS
<1>5. ClosedGroups(Reverse(h)) = c /\ ClosedGroups(Reverse(k)) = d
  BY <1>3, <1>4 DEF ClosedGroups, FillsTaken
<1>6. c \in Seq(GroupOf(Filled)) /\ d \in Seq(GroupOf(Filled)) /\ Grows(c, d)
  BY <1>1, <1>4, MoreFillsCloseMore
<1>7. IsPrefix(c, d)
  <2>1. Len(c) \in Nat /\ Len(d) \in Nat /\ Len(c) <= Len(d) /\ \A i \in 1 .. Len(c) : d[i] = c[i]
    BY <1>6 DEF Grows
  <2>2. SubSeq(c, 1, Len(c)) = SubSeq(d, 1, Len(c))
    BY <1>6, <2>1
  <2> QED BY <2>1, <2>2 DEF IsPrefix
<1> QED BY <1>5, <1>7

\* What a step does to a report that is complete.
LEMMA ReportMoves ==
  ASSUME ViewsAssumption, ViewsInv, [ViewsNext]_viewsVars, snapshot # NoReport,
         snapshot.complete, snapshot'.complete
  PROVE  \E h, k \in Seq(Filled) :
           /\ IsHistory(h, fills, snapshot)
           /\ snapshot'.fills = Reverse(k) /\ (k = h \/ k = fills)
<1>1. PICK h \in Seq(Filled) : IsHistory(h, fills, snapshot)
  BY DEF ViewsInv, ReportIsHistory
<1>2. fills \in Seq(Filled)
  BY DEF ViewsInv, ViewsTypeOK
<1>3. CASE \E s \in Situations : Synced(s)
  <2>1. PICK s \in Situations : Synced(s)
    BY <1>3
  <2>2. snapshot' = Reported(s)
    BY <2>1 DEF Synced
  <2>3. snapshot'.fills = snapshot.fills \/ snapshot'.fills = Reverse(fills)
    BY <2>2, ReportedIs DEF ViewsInv
  <2> QED BY <1>1, <1>2, <2>3 DEF IsHistory
<1>4. CASE ~\E s \in Situations : Synced(s)
  <2>1. snapshot' = snapshot
    BY <1>4 DEF ViewsNext, viewsVars, Fill, Failed
  <2> QED BY <1>1, <1>2, <2>1 DEF IsHistory
<1> QED BY <1>3, <1>4

\* A grid that was shown as closed stays as it was when a later snapshot that is complete has more fills
\* (buildGridLedgerGroups): sorted, the fills of the one are the first fills of the other, and a fill
\* only adds groups to those that earlier fills have closed.
THEOREM ClosedStayClosed == ViewsSpec => ClosedGridsStay
<1>1. ViewsInit => ViewsInv
  BY ViewsAssumption, ViewsInitHolds
<1>2. ViewsInv /\ [ViewsNext]_viewsVars => ViewsInv'
  BY ViewsAssumption, ViewsNextKeeps
<1>3. ViewsInv /\ [ViewsNext]_viewsVars =>
        [snapshot # NoReport /\ snapshot.complete /\ snapshot'.complete
           => IsPrefix(ClosedGroups(snapshot.fills), ClosedGroups(snapshot'.fills))]_viewsVars
  <2> SUFFICES ASSUME ViewsInv, [ViewsNext]_viewsVars, snapshot # NoReport,
                      snapshot.complete, snapshot'.complete
               PROVE  IsPrefix(ClosedGroups(snapshot.fills), ClosedGroups(snapshot'.fills))
    OBVIOUS
  <2>1. PICK h \in Seq(Filled), k \in Seq(Filled) :
          IsHistory(h, fills, snapshot) /\ snapshot'.fills = Reverse(k) /\ (k = h \/ k = fills)
    BY ViewsAssumption, ReportMoves
  <2>2. fills \in Seq(Filled) /\ Rising(fills)
    BY DEF ViewsInv, ViewsTypeOK, InOrder
  <2>3. Len(h) <= Len(fills) /\ \A i \in 1 .. Len(h) : h[i] = fills[i]
    BY <2>1 DEF IsHistory
  <2>4. Len(h) \in Nat /\ Len(fills) \in Nat
    BY <2>2
  <2>5. Rising(h)
    <3>1. \A i \in 1 .. Len(h) : i \in 1 .. Len(fills)
      BY <2>3, <2>4
    <3> QED BY <2>2, <2>3, <3>1 DEF Rising
  <2>6. Rising(k) /\ Len(h) <= Len(k) /\ \A i \in 1 .. Len(h) : h[i] = k[i]
    BY <2>1, <2>2, <2>3, <2>4, <2>5
  <2>7. IsPrefix(ClosedGroups(Reverse(h)), ClosedGroups(Reverse(k)))
    BY <2>6, HistoryClosesMore
  <2> QED BY <2>1, <2>7 DEF IsHistory
<1> QED BY <1>1, <1>2, <1>3, PTL DEF ViewsSpec, ClosedGridsStay

-----------------------------------------------------------------------------
(* What is told. *)

\* The notices of the new fills of a report, and of the fills after the first m.
NewsOfFills(p, q, long) == {<<Lifecycle(q.fills[i], long), q.fills[i].id>> : i \in NewFills(p, q)}
NewsAfter(f, m, long) == {<<Lifecycle(f[j], long), f[j].id>> : j \in {i \in 1 .. Len(f) : i > m}}

\* The fills that are told of when the history goes on.
LEMMA FillsTold ==
  ASSUME NEW f \in Seq(Filled), \A i \in 1 .. Len(f) : f[i].id = i,
         NEW h \in Seq(Filled), Len(h) <= Len(f), \A i \in 1 .. Len(h) : h[i] = f[i],
         NEW p, p.fills = Reverse(h), NEW q, q.fills = Reverse(f), NEW long
  PROVE  NewsOfFills(p, q, long) = NewsAfter(f, Len(h), long)
<1> PICK n \in Nat, m \in Nat : n = Len(f) /\ m = Len(h)
  OBVIOUS
<1>1. /\ Reverse(f) \in Seq(Filled) /\ Len(Reverse(f)) = n /\ \A i \in 1 .. n : Reverse(f)[i] = f[n - i + 1]
      /\ Reverse(h) \in Seq(Filled) /\ Len(Reverse(h)) = m /\ \A i \in 1 .. m : Reverse(h)[i] = h[m - i + 1]
  BY ReverseType
<1>2. DOMAIN Reverse(f) = 1 .. n /\ DOMAIN Reverse(h) = 1 .. m
  BY <1>1
<1>3. Known(p.fills) = 1 .. m
  <2> PICK r : r = Reverse(h)
    OBVIOUS
  <2>1. \A i \in 1 .. m : r[i].id = m - i + 1
    <3> TAKE i \in 1 .. m
    <3>1. m - i + 1 \in 1 .. m /\ m - i + 1 \in 1 .. n
      OBVIOUS
    <3>2. r[i] = f[m - i + 1]
      BY <1>1, <3>1
    <3> QED BY <3>1, <3>2
  <2>2. ASSUME NEW x \in 1 .. m PROVE \E i \in 1 .. m : x = r[i].id
    <3>1. m - x + 1 \in 1 .. m /\ m - (m - x + 1) + 1 = x
      OBVIOUS
    <3> QED BY <3>1, <2>1
  <2>3. ASSUME NEW i \in 1 .. m PROVE r[i].id \in 1 .. m
    BY <2>1
  <2>4. Known(p.fills) = {r[i].id : i \in 1 .. m}
    BY <1>2 DEF Known
  <2> PICK k, l : k = {r[i].id : i \in 1 .. m} /\ l = 1 .. m
    OBVIOUS
  <2>5. \A x : x \in k => x \in l
    BY <2>3
  <2>6. \A x : x \in l => x \in k
    BY <2>2
  <2>7. k = l
    BY <2>5, <2>6
  <2> QED BY <2>4, <2>7
<1>4. \A i \in 1 .. n : q.fills[i] = f[n - i + 1] /\ f[n - i + 1].id = n - i + 1
  <2> TAKE i \in 1 .. n
  <2>1. n - i + 1 \in 1 .. n
    OBVIOUS
  <2> QED BY <2>1, <1>1
<1>5. \A i : i \in NewFills(p, q) <=> i \in 1 .. n /\ n - i + 1 > m
  <2>1. \A i \in 1 .. n : q.fills[i].id \notin 1 .. m <=> n - i + 1 > m
    BY <1>4
  <2> QED BY <1>2, <1>3, <2>1 DEF NewFills
<1>6. ASSUME NEW i \in NewFills(p, q)
      PROVE  \E j \in {x \in 1 .. n : x > m} :
               <<Lifecycle(q.fills[i], long), q.fills[i].id>> = <<Lifecycle(f[j], long), f[j].id>>
  <2>1. i \in 1 .. n /\ n - i + 1 > m
    BY <1>5
  <2>2. n - i + 1 \in {x \in 1 .. n : x > m}
    BY <2>1
  <2> QED BY <2>1, <2>2, <1>4
<1>7. ASSUME NEW j \in {x \in 1 .. n : x > m}
      PROVE  \E i \in NewFills(p, q) :
               <<Lifecycle(q.fills[i], long), q.fills[i].id>> = <<Lifecycle(f[j], long), f[j].id>>
  <2>1. n - j + 1 \in 1 .. n /\ n - (n - j + 1) + 1 = j
    OBVIOUS
  <2>2. n - j + 1 \in NewFills(p, q)
    BY <2>1, <1>5
  <2>3. q.fills[n - j + 1] = f[j]
    BY <2>1, <1>4
  <2> QED BY <2>2, <2>3
<1> PICK new, later : new = NewFills(p, q) /\ later = {x \in 1 .. n : x > m}
  OBVIOUS
<1>8. {<<Lifecycle(q.fills[i], long), q.fills[i].id>> : i \in new}
        = {<<Lifecycle(f[j], long), f[j].id>> : j \in later}
  <2>1. \A i \in new : \E j \in later :
          <<Lifecycle(q.fills[i], long), q.fills[i].id>> = <<Lifecycle(f[j], long), f[j].id>>
    BY <1>6
  <2>2. \A j \in later : \E i \in new :
          <<Lifecycle(q.fills[i], long), q.fills[i].id>> = <<Lifecycle(f[j], long), f[j].id>>
    BY <1>7
  <2> PICK a, b : /\ a = {<<Lifecycle(q.fills[i], long), q.fills[i].id>> : i \in new}
                  /\ b = {<<Lifecycle(f[j], long), f[j].id>> : j \in later}
    OBVIOUS
  <2>3. ASSUME NEW x \in a PROVE x \in b
    <3>1. PICK i \in new : x = <<Lifecycle(q.fills[i], long), q.fills[i].id>>
      OBVIOUS
    <3>2. PICK j \in later : x = <<Lifecycle(f[j], long), f[j].id>>
      BY <3>1, <2>1
    <3> QED BY <3>2
  <2>4. ASSUME NEW x \in b PROVE x \in a
    <3>1. PICK j \in later : x = <<Lifecycle(f[j], long), f[j].id>>
      OBVIOUS
    <3>2. PICK i \in new : x = <<Lifecycle(q.fills[i], long), q.fills[i].id>>
      BY <3>1, <2>2
    <3> QED BY <3>2
  <2>5. a = b
    BY <2>3, <2>4
  <2> QED BY <2>5
<1> QED BY <1>8 DEF NewsOfFills, NewsAfter

\* The notices of fills are those of the fills that are new.
LEMMA FillsInNotices ==
  ASSUME NEW p, NEW q, NEW long
  PROVE  {n \in Notices(p, q, long) : n[1] \in FillNotices} = NewsOfFills(p, q, long)
<1> PICK new : new = {<<Lifecycle(q.fills[i], long), q.fills[i].id>> : i \in NewFills(p, q)}
  OBVIOUS
<1>1. ASSUME NEW n \in new PROVE n[1] \in FillNotices
  <2>1. PICK i \in NewFills(p, q) : n = <<Lifecycle(q.fills[i], long), q.fills[i].id>>
    OBVIOUS
  <2>2. n[1] = Lifecycle(q.fills[i], long)
    BY <2>1
  <2> QED BY <2>2 DEF Lifecycle, FillNotices
<1>2. ASSUME NEW c, NEW name, name \notin FillNotices, NEW n \in When(c, name) PROVE n[1] \notin FillNotices
  BY <1>2 DEF When
<1>3. ASSUME NEW n \in Notices(p, q, long), n[1] \in FillNotices PROVE n \in new
  <2>1. /\ "live_open_orders_added" \notin FillNotices /\ "live_open_orders_removed" \notin FillNotices
        /\ "live_robot_state_changed" \notin FillNotices /\ "live_position_side_changed" \notin FillNotices
        /\ "live_position_notional_shift" \notin FillNotices /\ "live_total_pnl_shift" \notin FillNotices
    BY DEF FillNotices
  <2> QED BY <1>2, <1>3, <2>1 DEF Notices
<1>4. \A n \in new : n \in Notices(p, q, long)
  BY DEF Notices
<1>5. {n \in Notices(p, q, long) : n[1] \in FillNotices} = new
  BY <1>1, <1>3, <1>4
<1> QED BY <1>5 DEF NewsOfFills

\* Nothing is told of a report that says what the last one said.
LEMMA NothingIsTold ==
  ASSUME ViewsAssumption, NEW p \in Report, NEW q \in Report, NEW long,
         q.fills = p.fills, q.orders = p.orders, q.state = p.state, q.position = p.position,
         q.notional = p.notional, q.pnl = p.pnl
  PROVE  Notices(p, q, long) = {}
<1>1. NewFills(p, q) = {}
  BY DEF NewFills, Known
<1>2. ASSUME NEW x \in Int, NEW whole, NEW parts PROVE ~IsShift(x, x, whole, parts)
  <2>1. Gap(x, x) = 0 /\ LeastShift \in Nat \ {0}
    BY DEF Gap, ViewsAssumption
  <2> QED BY <2>1 DEF IsShift
<1>3. ~IsShift(p.notional, q.notional, p.notional, 4) /\ ~IsShift(p.pnl, q.pnl, q.investment, 20)
  BY <1>2 DEF Report
<1>4. {<<Lifecycle(q.fills[i], long), q.fills[i].id>> : i \in NewFills(p, q)} = {}
  BY <1>1
<1> QED BY <1>3, <1>4 DEF Notices, When

\* Between two snapshots that have every fill exactly the fills made in between are told of, and one that
\* is stale tells of nothing (detectLiveMonitoringNotifications).
THEOREM NewsIsTold == ViewsSpec => ToldIsNew
<1>1. ViewsInit => ViewsInv
  BY ViewsAssumption, ViewsInitHolds
<1>2. ViewsInv /\ [ViewsNext]_viewsVars => ViewsInv'
  BY ViewsAssumption, ViewsNextKeeps
<1>3. ViewsInv /\ [ViewsNext]_viewsVars =>
        [/\ syncs' # syncs /\ snapshot # NoReport
         /\ snapshot.complete /\ snapshot'.complete /\ snapshot' # snapshot
         => /\ {n \in told' : n[1] \in FillNotices}
                 = {<<Lifecycle(f, Long), f.id>> :
                      f \in {g \in ToSet(fills) : snapshot.at < g.time /\ g.time <= snapshot'.at}}
            /\ snapshot'.stale => told' = {}]_viewsVars
  <2> SUFFICES ASSUME ViewsInv, [ViewsNext]_viewsVars, snapshot # NoReport,
                      snapshot.complete, snapshot'.complete, snapshot' # snapshot
               PROVE  /\ {n \in told' : n[1] \in FillNotices}
                           = {<<Lifecycle(f, Long), f.id>> :
                                f \in {g \in ToSet(fills) : snapshot.at < g.time /\ g.time <= snapshot'.at}}
                      /\ snapshot'.stale => told' = {}
    OBVIOUS
  <2>1. PICK s \in Situations : Synced(s)
    BY DEF ViewsNext, viewsVars, Fill, Failed
  <2> PICK next : next = Reported(s)
    OBVIOUS
  <2>2. snapshot' = next /\ told' = Notices(snapshot, next, Long)
    BY <2>1 DEF Synced
  <2>3. snapshot \in Report /\ ViewsTypeOK /\ fills \in Seq(Filled) /\ clock \in Int /\ InOrder(fills, clock)
    BY DEF ViewsInv, ViewsTypeOK
  <2>4. \A i \in 1 .. Len(fills) : fills[i].time \in Int /\ fills[i].time <= clock /\ fills[i].id = i
    <3>1. \A i \in 1 .. Len(fills) : fills[i] \in Filled
      BY <2>3
    <3> QED BY <2>3, <3>1 DEF InOrder, Filled
  <2>5. /\ next \in Report
        /\ \/ /\ next.at = snapshot.at /\ next.fills = snapshot.fills /\ next.orders = snapshot.orders
              /\ next.state = snapshot.state /\ next.position = snapshot.position
              /\ next.notional = snapshot.notional /\ next.pnl = snapshot.pnl
           \/ ~next.stale /\ next.at = clock /\ next.fills = Reverse(fills)
    BY ViewsAssumption, <2>2, <2>3, ReportedIs
  <2>6. ToSet(fills) = {fills[i] : i \in 1 .. Len(fills)}
    BY <2>3 DEF ToSet
  <2>7. CASE /\ next.at = snapshot.at /\ next.fills = snapshot.fills /\ next.orders = snapshot.orders
             /\ next.state = snapshot.state /\ next.position = snapshot.position
             /\ next.notional = snapshot.notional /\ next.pnl = snapshot.pnl
    <3>1. told' = {}
      BY ViewsAssumption, <2>2, <2>3, <2>5, <2>7, NothingIsTold
    <3>2. snapshot.at \in Int
      BY <2>3 DEF Report
    <3>3. {g \in ToSet(fills) : snapshot.at < g.time /\ g.time <= snapshot'.at} = {}
      BY <2>2, <2>4, <2>6, <2>7, <3>2
    <3>4. {<<Lifecycle(f, Long), f.id>> :
             f \in {g \in ToSet(fills) : snapshot.at < g.time /\ g.time <= snapshot'.at}} = {}
      BY <3>3
    <3>5. {n \in told' : n[1] \in FillNotices} = {}
      BY <3>1
    <3> QED BY <3>1, <3>4, <3>5
  <2>8. CASE ~next.stale /\ next.at = clock /\ next.fills = Reverse(fills)
    <3>1. PICK h \in Seq(Filled) : IsHistory(h, fills, snapshot)
      BY DEF ViewsInv, ReportIsHistory
    <3>2. /\ snapshot.fills = Reverse(h) /\ Len(h) <= Len(fills) /\ (\A i \in 1 .. Len(h) : h[i] = fills[i])
          /\ \A i \in 1 .. Len(fills) : fills[i].time <= snapshot.at <=> i <= Len(h)
      BY <3>1 DEF IsHistory
    <3>3. NewsOfFills(snapshot, next, Long) = NewsAfter(fills, Len(h), Long)
      <4>1. \A i \in 1 .. Len(fills) : fills[i].id = i
        BY <2>4
      <4>2. /\ snapshot.fills = Reverse(h) /\ next.fills = Reverse(fills)
            /\ Len(h) <= Len(fills) /\ \A i \in 1 .. Len(h) : h[i] = fills[i]
        BY <2>8, <3>2
      <4> QED BY <2>3, <4>1, <4>2, FillsTold
    <3>4. {n \in told' : n[1] \in FillNotices} = NewsAfter(fills, Len(h), Long)
      BY <2>2, <3>3, FillsInNotices
    <3> PICK later, made : /\ later = {i \in 1 .. Len(fills) : i > Len(h)}
                           /\ made = {g \in ToSet(fills) : snapshot.at < g.time /\ g.time <= snapshot'.at}
      OBVIOUS
    <3>5. snapshot.at \in Int /\ Len(h) \in Nat /\ Len(fills) \in Nat
      BY <2>3 DEF Report
    <3>6. \A i \in 1 .. Len(fills) :
            i \in later <=> snapshot.at < fills[i].time /\ fills[i].time <= snapshot'.at
      BY <2>2, <2>4, <2>8, <3>2, <3>5
    <3>7. made = {fills[j] : j \in later}
      <4>1. ASSUME NEW j \in later PROVE fills[j] \in made
        <5>1. j \in 1 .. Len(fills)
          OBVIOUS
        <5> QED BY <5>1, <2>6, <3>6
      <4>2. ASSUME NEW g \in made PROVE \E j \in later : g = fills[j]
        <5>1. PICK j \in 1 .. Len(fills) : g = fills[j]
          BY <2>6
        <5>2. j \in later
          BY <5>1, <3>6
        <5> QED BY <5>1, <5>2
      <4> PICK l : l = {fills[j] : j \in later}
        OBVIOUS
      <4>3. (\A g \in made : g \in l) /\ (\A g \in l : g \in made)
        BY <4>1, <4>2
      <4>4. made \subseteq ToSet(fills) /\ made = l
        BY <4>3
      <4> QED BY <4>4
    <3> PICK a, b : /\ a = {<<Lifecycle(fills[j], Long), fills[j].id>> : j \in later}
                    /\ b = {<<Lifecycle(f, Long), f.id>> : f \in made}
      OBVIOUS
    <3>8. ASSUME NEW x \in a PROVE x \in b
      <4>1. PICK j \in later : x = <<Lifecycle(fills[j], Long), fills[j].id>>
        OBVIOUS
      <4>2. fills[j] \in made
        BY <3>7
      <4> QED BY <4>1, <4>2
    <3>9. ASSUME NEW x \in b PROVE x \in a
      <4>1. PICK f \in made : x = <<Lifecycle(f, Long), f.id>>
        OBVIOUS
      <4>2. PICK j \in later : f = fills[j]
        BY <3>7
      <4> QED BY <4>1, <4>2
    <3>10. a = b
      BY <3>8, <3>9
    <3>11. {n \in told' : n[1] \in FillNotices} = a
      BY <3>4 DEF NewsAfter
    <3> QED BY <2>2, <2>8, <3>10, <3>11
  <2> QED BY <2>5, <2>7, <2>8
<1> QED BY <1>1, <1>2, <1>3, PTL DEF ViewsSpec, ToldIsNew

-----------------------------------------------------------------------------
(* LiveTrend: points are thinned out by ranks, sorted, replaced and added; *)
(* each of these keeps them in order, of one robot, from the first instant *)
(* to the last.                                                            *)

-----------------------------------------------------------------------------
(* Ranks: the elements of a set of numbers, from the smallest.             *)

Below(S, i) == {j \in S : j < i}

\* The numbers of a finite range that are less than one are finite too.
LEMMA BelowFinite ==
  ASSUME NEW n \in Nat, NEW S \in SUBSET (1 .. n), NEW i
  PROVE  IsFiniteSet(S) /\ IsFiniteSet(Below(S, i)) /\ Cardinality(Below(S, i)) \in Nat /\ Cardinality(S) \in Nat
<1>1. IsFiniteSet(1 .. n)
  BY FS_Interval
<1>2. IsFiniteSet(S)
  BY <1>1, FS_Subset
<1>3. Below(S, i) \in SUBSET S
  BY DEF Below
<1> QED BY <1>2, <1>3, FS_Subset, FS_CardinalityType

\* There is one of every rank.
LEMMA RankExists ==
  ASSUME NEW n \in Nat, NEW S \in SUBSET (1 .. n), NEW k \in 1 .. Cardinality(S)
  PROVE  \E i \in S : Cardinality(Below(S, i)) = k - 1
<1> DEFINE P == {m \in Nat : \A s \in SUBSET (1 .. m) : \A c \in 1 .. Cardinality(s) :
                               \E i \in s : Cardinality(Below(s, i)) = c - 1}
<1>1. 0 \in P
  <2>1. \A s \in SUBSET (1 .. 0) : s = {}
    OBVIOUS
  <2>2. Cardinality({}) = 0
    BY FS_EmptySet
  <2> QED BY <2>1, <2>2
<1>2. ASSUME NEW m \in Nat, m \in P PROVE m + 1 \in P
  <2> PICK l \in Nat : l = m + 1
    OBVIOUS
  <2> SUFFICES ASSUME NEW s \in SUBSET (1 .. l), NEW c \in 1 .. Cardinality(s)
               PROVE  \E i \in s : Cardinality(Below(s, i)) = c - 1
    OBVIOUS
  <2>1. CASE l \notin s
    <3>1. s \in SUBSET (1 .. m)
      BY <2>1
    <3> QED BY <3>1, <1>2
  <2>2. CASE l \in s
    <3> PICK t : t = s \ {l}
      OBVIOUS
    <3>1. t \in SUBSET (1 .. m) /\ s = t \cup {l} /\ l \notin t
      BY <2>2
    <3>2. Cardinality(s) = Cardinality(t) + 1 /\ Cardinality(t) \in Nat
      <4>1. IsFiniteSet(t)
        BY <3>1, BelowFinite
      <4>2. Cardinality(t \cup {l}) = Cardinality(t) + 1
        BY <4>1, <3>1, FS_AddElement
      <4> QED BY <4>1, <4>2, <3>1, FS_CardinalityType
    <3>3. CASE c = Cardinality(s)
      <4>0. \A j \in t : j \in Int /\ j < l
        BY <3>1
      <4>1. \A j : j \in Below(s, l) <=> j \in t
        <5>1. ~(l < l)
          OBVIOUS
        <5> QED BY <5>1, <4>0, <3>1 DEF Below
      <4>2. Below(s, l) = t
        BY <4>1
      <4>3. PICK d \in Nat : d = Cardinality(t)
        BY <3>2
      <4>4. c = d + 1 /\ c - 1 = d
        BY <4>3, <3>2, <3>3
      <4>5. Cardinality(Below(s, l)) = c - 1
        BY <4>2, <4>3, <4>4
      <4> QED BY <4>5, <2>2
    <3>4. CASE c # Cardinality(s)
      <4>1. c \in 1 .. Cardinality(t)
        BY <3>2, <3>4
      <4>2. PICK i \in t : Cardinality(Below(t, i)) = c - 1
        BY <4>1, <3>1, <1>2
      <4>3. Below(s, i) = Below(t, i)
        BY <3>1 DEF Below
      <4> QED BY <4>2, <4>3, <3>1
    <3> QED BY <3>3, <3>4
  <2> QED BY <2>1, <2>2
<1>3. n \in P
  <2> HIDE DEF P
  <2> QED BY <1>1, <1>2, NatInduct
<1> QED BY <1>3

\* A greater one has a higher rank.
LEMMA RankRises ==
  ASSUME NEW n \in Nat, NEW S \in SUBSET (1 .. n), NEW i \in S, NEW j \in S, i < j
  PROVE  Cardinality(Below(S, i)) < Cardinality(Below(S, j))
<1>0. \A k \in S : k \in Int
  OBVIOUS
<1>1. Below(S, i) \in SUBSET Below(S, j) /\ i \in Below(S, j) /\ i \notin Below(S, i)
  <2>1. \A k \in S : k < i => k < j
    BY <1>0
  <2>2. ~(i < i)
    BY <1>0
  <2> QED BY <2>1, <2>2 DEF Below
<1>2. /\ Cardinality(Below(S, i)) <= Cardinality(Below(S, j))
      /\ Cardinality(Below(S, j)) = Cardinality(Below(S, i)) => Below(S, j) = Below(S, i)
  BY <1>1, BelowFinite, FS_Subset
<1>3. Cardinality(Below(S, i)) \in Nat /\ Cardinality(Below(S, j)) \in Nat
  BY BelowFinite
<1> QED BY <1>1, <1>2, <1>3

Ranked(S, k) == CHOOSE i \in S : Cardinality(Below(S, i)) = k - 1

\* What is ranked is in the set, from its smallest to its greatest.
LEMMA RankedIs ==
  ASSUME NEW n \in Nat, NEW S \in SUBSET (1 .. n), S # {}
  PROVE  /\ Cardinality(S) \in Nat /\ Cardinality(S) >= 1
         /\ \A k \in 1 .. Cardinality(S) : Ranked(S, k) \in S
         /\ \A k, l \in 1 .. Cardinality(S) : k < l => Ranked(S, k) < Ranked(S, l)
         /\ \A i \in S : Ranked(S, 1) <= i /\ i <= Ranked(S, Cardinality(S))
<1> PICK c : c = Cardinality(S)
  OBVIOUS
<1>1. c \in Nat /\ c >= 1 /\ IsFiniteSet(S)
  <2>1. IsFiniteSet(S) /\ c \in Nat
    BY BelowFinite
  <2>2. c # 0
    BY <2>1, FS_EmptySet
  <2> QED BY <2>1, <2>2
<1>2. \A k \in 1 .. c : Ranked(S, k) \in S /\ Cardinality(Below(S, Ranked(S, k))) = k - 1
  BY RankExists DEF Ranked
<1>3. ASSUME NEW k \in 1 .. c, NEW l \in 1 .. c, k < l PROVE Ranked(S, k) < Ranked(S, l)
  <2> PICK x \in S, y \in S : x = Ranked(S, k) /\ y = Ranked(S, l)
    BY <1>2
  <2>1. Cardinality(Below(S, x)) = k - 1 /\ Cardinality(Below(S, y)) = l - 1
    BY <1>2
  <2>2. y < x => Cardinality(Below(S, y)) < Cardinality(Below(S, x))
    BY RankRises
  <2>3. x # y
    BY <2>1, <1>3
  <2>4. ~(y < x)
    BY <2>1, <2>2, <1>3
  <2> QED BY <2>3, <2>4
<1>4. ASSUME NEW i \in S PROVE Ranked(S, 1) <= i /\ i <= Ranked(S, c)
  <2>1. 1 \in 1 .. c /\ c \in 1 .. c
    BY <1>1
  <2> PICK x \in S, y \in S : x = Ranked(S, 1) /\ y = Ranked(S, c)
    BY <1>2, <2>1
  <2>2. Cardinality(Below(S, x)) = 0 /\ Cardinality(Below(S, y)) = c - 1
    BY <1>2, <2>1
  <2>3. i < x => Cardinality(Below(S, i)) < 0
    BY <2>2, RankRises
  <2>4. y < i => c - 1 < Cardinality(Below(S, i))
    BY <2>2, RankRises
  <2>5. Cardinality(Below(S, i)) \in Nat /\ Cardinality(Below(S, i)) < c
    <3>0. i \in Int
      OBVIOUS
    <3>1. Below(S, i) \in SUBSET S /\ i \notin Below(S, i)
      BY <3>0 DEF Below
    <3>2. Cardinality(Below(S, i)) <= c /\ (c = Cardinality(Below(S, i)) => S = Below(S, i))
      BY <1>1, <3>1, FS_Subset
    <3> QED BY <1>1, <3>1, <3>2, BelowFinite
  <2> QED BY <2>3, <2>4, <2>5, <1>1
<1> QED BY <1>1, <1>2, <1>3, <1>4

\* In the order of time, no two points of one instant.
Forward(points) == \A i, j \in DOMAIN points : i < j => points[i].at < points[j].at

\* What joining two sequences makes.
LEMMA Joined == ASSUME NEW S, NEW a \in Seq(S), NEW b \in Seq(S)
  PROVE  /\ a \o b \in Seq(S) /\ Len(a \o b) = Len(a) + Len(b)
         /\ \A k \in 1 .. Len(a) : (a \o b)[k] = a[k]
         /\ \A k \in 1 .. Len(b) : (a \o b)[Len(a) + k] = b[k]
<1>1. Len(a) \in Nat /\ Len(b) \in Nat
  OBVIOUS
<1> PICK m \in Nat, n \in Nat : m = Len(a) /\ n = Len(b)
  BY <1>1
<1>2. \A k \in 1 .. m : k \in 1 .. (m + n)
  OBVIOUS
<1>3. \A k \in 1 .. n : m + k \in 1 .. (m + n) /\ (m + k) - m = k /\ m + k > m
  OBVIOUS
<1> QED BY <1>2, <1>3

SplitOf(n) == Max({2, (n * 6) \div 10})
SparseOf(n) == {i \in 1 .. SplitOf(n) : i = SplitOf(n) \/ i % 2 = 1}

\* Thinning out splits within the points, and leaves out the second one.
LEMMA SplitIs == ASSUME NEW n \in Nat, n >= 5
  PROVE  /\ SplitOf(n) \in Nat /\ 3 <= SplitOf(n) /\ SplitOf(n) < n
         /\ SparseOf(n) \in SUBSET (1 .. SplitOf(n)) /\ 1 \in SparseOf(n) /\ SplitOf(n) \in SparseOf(n) /\ 2 \notin SparseOf(n)
<1> PICK q : q = (n * 6) \div 10
  OBVIOUS
<1>1. q \in Nat /\ 3 <= q /\ q < n
  OBVIOUS
<1>2. q \in {2, q} /\ q \in Int /\ \A y \in {2, q} : y \in Int /\ y <= q
  BY <1>1
<1> PICK p : p = SplitOf(n)
  OBVIOUS
<1>3. p = q
  <2>1. Max({2, q}) = q
    BY <1>2, MaxIs
  <2> QED BY <2>1 DEF SplitOf
<1>4. 1 % 2 = 1 /\ 2 % 2 = 0
  OBVIOUS
<1>5. 1 \in 1 .. p /\ p \in 1 .. p /\ 2 # p
  BY <1>1, <1>3
<1> QED BY <1>1, <1>3, <1>4, <1>5 DEF SparseOf

\* A shorter trend that keeps the first and the last of its points, in their order.
IsSelection(sel, m, t, s) ==
  /\ 2 <= m /\ m < Len(s) /\ Len(t) = m
  /\ \A k \in 1 .. m : sel[k] \in 1 .. Len(s) /\ t[k] = s[sel[k]]
  /\ sel[1] = 1 /\ sel[m] = Len(s)
  /\ \A k, l \in 1 .. m : k < l => sel[k] < sel[l]

\* Some of the first p points, the first and the last of them too, and the points after them.
LEMMA SelectedHead ==
  ASSUME NEW S, NEW s \in Seq(S), NEW n \in Nat, Len(s) = n, NEW p \in Nat, NEW c \in Nat, NEW R,
         3 <= p, p < n, 2 <= c, c <= p - 1, R[1] = 1, R[c] = p,
         \A k \in 1 .. c : R[k] \in 1 .. p,
         \A k, l \in 1 .. c : k < l => R[k] < R[l],
         NEW t, t = [k \in 1 .. c |-> s[R[k]]] \o SubSeq(s, p + 1, n)
  PROVE  t \in Seq(S) /\ \E m \in Nat : \E sel : IsSelection(sel, m, t, s)
<1> PICK d \in Nat : d = n - p
  OBVIOUS
<1> PICK m \in Nat : m = c + d
  OBVIOUS
<1> DEFINE a == [k \in 1 .. c |-> s[R[k]]]
           b == SubSeq(s, p + 1, n)
           sel == [k \in 1 .. m |-> IF k <= c THEN R[k] ELSE p + (k - c)]
<1>1. a \in Seq(S) /\ Len(a) = c /\ \A k \in 1 .. c : a[k] = s[R[k]]
  <2>1. \A k \in 1 .. c : s[R[k]] \in S
    OBVIOUS
  <2> QED BY <2>1
<1>2. b \in Seq(S) /\ Len(b) = d /\ \A k \in 1 .. d : b[k] = s[p + k]
  <2> PICK e \in Nat : e = p + 1
    OBVIOUS
  <2>1. e \in 1 .. n /\ (n - e) + 1 = d
    OBVIOUS
  <2>2. \A k \in 1 .. d : (e + k) - 1 = p + k /\ p + k \in 1 .. n
    OBVIOUS
  <2>3. b \in Seq(S) /\ Len(b) = d /\ \A k \in 1 .. d : b[k] = s[(e + k) - 1]
    BY <2>1, <2>2
  <2> QED BY <2>3, <2>2
<1>3. 2 <= m /\ m < n /\ c < m
  OBVIOUS
<1>4. t = a \o b
  OBVIOUS
<1>5. /\ \A k \in 1 .. c : sel[k] = R[k]
      /\ \A k \in 1 .. d : sel[c + k] = p + k
  <2>1. \A k \in 1 .. c : k \in 1 .. m /\ k <= c
    OBVIOUS
  <2>2. \A k \in 1 .. d : c + k \in 1 .. m /\ ~(c + k <= c) /\ (c + k) - c = k
    OBVIOUS
  <2> QED BY <2>1, <2>2
<1>6. \A k \in 1 .. m : k \in 1 .. c \/ \E j \in 1 .. d : k = c + j
  <2> SUFFICES ASSUME NEW k \in 1 .. m, k \notin 1 .. c PROVE \E j \in 1 .. d : k = c + j
    OBVIOUS
  <2>1. k - c \in 1 .. d /\ k = c + (k - c)
    OBVIOUS
  <2> QED BY <2>1
<1> HIDE DEF a, b, sel
<1>7. /\ t \in Seq(S) /\ Len(t) = m
      /\ \A k \in 1 .. c : t[k] = s[R[k]]
      /\ \A k \in 1 .. d : t[c + k] = s[p + k]
  <2>1. /\ a \o b \in Seq(S) /\ Len(a \o b) = c + d
        /\ \A k \in 1 .. c : (a \o b)[k] = a[k]
        /\ \A k \in 1 .. d : (a \o b)[c + k] = b[k]
    <3>1. /\ a \o b \in Seq(S) /\ Len(a \o b) = Len(a) + Len(b)
          /\ \A k \in 1 .. Len(a) : (a \o b)[k] = a[k]
          /\ \A k \in 1 .. Len(b) : (a \o b)[Len(a) + k] = b[k]
      <4>1. a \in Seq(S) /\ b \in Seq(S)
        BY <1>1, <1>2
      <4> QED BY <4>1, Joined
    <3> QED BY <3>1, <1>1, <1>2
  <2> QED BY <2>1, <1>1, <1>2, <1>4
<1>8. ASSUME NEW k \in 1 .. m PROVE sel[k] \in 1 .. n /\ t[k] = s[sel[k]]
  <2>1. CASE k \in 1 .. c
    BY <2>1, <1>5, <1>7
  <2>2. CASE \E j \in 1 .. d : k = c + j
    <3> PICK j \in 1 .. d : k = c + j
      BY <2>2
    <3>1. sel[k] = p + j /\ t[k] = s[p + j]
      BY <1>5, <1>7
    <3>2. p + j \in 1 .. n
      OBVIOUS
    <3> PICK i \in 1 .. n : i = p + j
      BY <3>2
    <3>3. sel[k] = i /\ t[k] = s[i]
      BY <3>1
    <3> QED BY <3>3
  <2> QED BY <2>1, <2>2, <1>6
<1>9. sel[1] = 1 /\ sel[m] = n
  <2>1. 1 \in 1 .. c /\ d \in 1 .. d /\ p + d = n
    OBVIOUS
  <2> QED BY <2>1, <1>5
<1>10. ASSUME NEW k \in 1 .. m, NEW l \in 1 .. m, k < l PROVE sel[k] < sel[l]
  <2>1. CASE l \in 1 .. c
    <3>1. k \in 1 .. c
      BY <2>1, <1>10
    <3> QED BY <3>1, <2>1, <1>5, <1>10
  <2>2. CASE l \notin 1 .. c
    <3> PICK j \in 1 .. d : l = c + j
      BY <2>2, <1>6
    <3>1. sel[l] = p + j
      BY <1>5
    <3>2. CASE k \in 1 .. c
      <4>1. sel[k] \in 1 .. p
        BY <3>2, <1>5
      <4> QED BY <3>1, <4>1
    <3>3. CASE k \notin 1 .. c
      <4> PICK i \in 1 .. d : k = c + i
        BY <3>3, <1>6
      <4>1. sel[k] = p + i /\ i < j
        BY <1>5, <1>10
      <4> QED BY <3>1, <4>1
    <3> QED BY <3>2, <3>3
  <2> QED BY <2>1, <2>2
<1>11. IsSelection(sel, m, t, s)
  BY <1>3, <1>7, <1>8, <1>9, <1>10 DEF IsSelection
<1> QED BY <1>7, <1>11

\* What is left of five points or more is a selection of them.
LEMMA ThinnedIs == ASSUME NEW S, NEW s \in Seq(S), Len(s) >= 5
  PROVE  Thinned(s) \in Seq(S) /\ \E m \in Nat : \E sel : IsSelection(sel, m, Thinned(s), s)
<1> PICK n \in Nat : n = Len(s)
  OBVIOUS
<1> DEFINE K == SparseOf(Len(s))
           p == SplitOf(Len(s))
           c == Cardinality(K)
           R == [k \in 1 .. c |-> Ranked(K, k)]
<1>1. p \in Nat /\ 3 <= p /\ p < n /\ K \in SUBSET (1 .. p) /\ 1 \in K /\ p \in K /\ 2 \notin K
  BY SplitIs
<1>2. Thinned(s) = [k \in 1 .. c |-> s[R[k]]] \o SubSeq(s, p + 1, n)
  <2>1. Thinned(s) = [k \in 1 .. c |-> s[CHOOSE i \in K : Cardinality({j \in K : j < i}) = k - 1]]
                       \o SubSeq(s, p + 1, Len(s))
    BY DEF Thinned, SplitOf, SparseOf
  <2> HIDE DEF p, K
  <2>2. \A k \in 1 .. c : R[k] = CHOOSE i \in K : Cardinality({j \in K : j < i}) = k - 1
    BY DEF Ranked, Below
  <2>3. [k \in 1 .. c |-> s[R[k]]] = [k \in 1 .. c |-> s[CHOOSE i \in K : Cardinality({j \in K : j < i}) = k - 1]]
    BY <2>2
  <2> HIDE DEF R
  <2> QED BY <2>1, <2>3
<1> HIDE DEF p, K
<1>3. c \in Nat /\ IsFiniteSet(K) /\ c <= p - 1
  <2>1. IsFiniteSet(1 .. p) /\ Cardinality(1 .. p) = p
    BY <1>1, FS_Interval
  <2>2. 2 \in 1 .. p
    BY <1>1
  <2>3. IsFiniteSet((1 .. p) \ {2}) /\ Cardinality((1 .. p) \ {2}) = p - 1
    BY <2>1, <2>2, FS_RemoveElement
  <2>4. K \in SUBSET ((1 .. p) \ {2})
    BY <1>1
  <2>5. c <= p - 1
    BY <2>3, <2>4, FS_Subset
  <2> QED BY <1>1, <2>5, BelowFinite
<1> HIDE DEF c
<1>4. /\ c >= 1
      /\ \A k \in 1 .. c : Ranked(K, k) \in K
      /\ \A k, l \in 1 .. c : k < l => Ranked(K, k) < Ranked(K, l)
      /\ \A i \in K : Ranked(K, 1) <= i /\ i <= Ranked(K, c)
  <2>1. K # {}
    BY <1>1
  <2> QED BY <1>1, <2>1, RankedIs DEF c
<1>5. /\ \A k \in 1 .. c : R[k] \in 1 .. p
      /\ \A k, l \in 1 .. c : k < l => R[k] < R[l]
  BY <1>1, <1>4
<1>6. R[1] = 1 /\ R[c] = p /\ c >= 2
  <2>1. 1 \in 1 .. c /\ c \in 1 .. c
    BY <1>3, <1>4
  <2>2. R[1] <= 1 /\ p <= R[c]
    BY <1>1, <1>4, <2>1
  <2>3. R[1] \in 1 .. p /\ R[c] \in 1 .. p
    BY <2>1, <1>5
  <2> HIDE DEF R
  <2>4. R[1] = 1 /\ R[c] = p
    BY <2>2, <2>3, <1>1
  <2> QED BY <2>4, <1>1, <1>3, <1>4
<1> HIDE DEF R
<1> QED BY <1>1, <1>2, <1>3, <1>5, <1>6, SelectedHead

TrendPoint == [of : TrendRobots \cup {NoRobot}, at : Int, value : Int]
Snap == [point : TrendPoint, replay : Seq(Int), explained : BOOLEAN]

Own(points, r) == \A i \in DOMAIN points : points[i].of = r
UpTo(points, time) == \A i \in DOMAIN points : points[i].at <= time

\* Thinning out keeps the first and the last point, the order, and whose points they are.
LEMMA SelectionKeeps ==
  ASSUME NEW s \in Seq(TrendPoint), NEW t \in Seq(TrendPoint), NEW m \in Nat, NEW sel, IsSelection(sel, m, t, s),
         Forward(s), NEW r, Own(s, r), NEW time, UpTo(s, time)
  PROVE  Forward(t) /\ Own(t, r) /\ UpTo(t, time) /\ t # << >> /\ t[1] = s[1] /\ t[Len(t)] = s[Len(s)]
<1>1. DOMAIN t = 1 .. m /\ DOMAIN s = 1 .. Len(s) /\ 1 \in 1 .. m /\ m \in 1 .. m /\ Len(t) = m
  BY DEF IsSelection
<1>2. \A k \in 1 .. m : sel[k] \in DOMAIN s /\ t[k] = s[sel[k]]
  BY <1>1 DEF IsSelection
<1>3. \A k, l \in 1 .. m : k < l => sel[k] < sel[l]
  BY DEF IsSelection
<1>4. Forward(t)
  BY <1>1, <1>2, <1>3 DEF Forward
<1>5. Own(t, r) /\ UpTo(t, time)
  BY <1>1, <1>2 DEF Own, UpTo
<1>6. t[1] = s[1] /\ t[m] = s[Len(s)]
  BY <1>1, <1>2 DEF IsSelection
<1>7. t # << >>
  BY <1>1
<1> QED BY <1>1, <1>4, <1>5, <1>6, <1>7

\* A trend with one point more is bounded.
LEMMA CompactedType ==
  ASSUME TrendAssumption, NEW s \in Seq(TrendPoint), Len(s) <= MaxTrend + 1, s # << >>
  PROVE  Compacted(s) \in Seq(TrendPoint) /\ Len(Compacted(s)) <= MaxTrend /\ Compacted(s) # << >>
<1>1. MaxTrend \in Nat /\ MaxTrend >= 4 /\ Len(s) \in Nat
  BY DEF TrendAssumption
<1>2. CASE Len(s) > MaxTrend
  <2>1. Len(s) >= 5 /\ Compacted(s) = Thinned(s)
    BY <1>1, <1>2 DEF Compacted
  <2>2. Thinned(s) \in Seq(TrendPoint)
    BY <2>1, ThinnedIs
  <2>0. PICK m \in Nat : \E sel : IsSelection(sel, m, Thinned(s), s)
    BY <2>1, ThinnedIs
  <2>3. PICK sel : IsSelection(sel, m, Thinned(s), s)
    BY <2>0
  <2>4. Len(Thinned(s)) = m /\ 2 <= m /\ m < Len(s)
    BY <2>3 DEF IsSelection
  <2> QED BY <2>1, <2>2, <2>4, <1>1
<1>3. CASE ~(Len(s) > MaxTrend)
  BY <1>1, <1>3 DEF Compacted
<1> QED BY <1>2, <1>3

\* Compacting keeps the order, the robot, the first and the last of the points.
LEMMA CompactedKeeps ==
  ASSUME TrendAssumption, NEW s \in Seq(TrendPoint), s # << >>,
         Forward(s), NEW r, Own(s, r), NEW time, UpTo(s, time)
  PROVE  LET t == Compacted(s) IN
         Forward(t) /\ Own(t, r) /\ UpTo(t, time) /\ t[1] = s[1] /\ t[Len(t)] = s[Len(s)]
<1>1. MaxTrend \in Nat /\ MaxTrend >= 4 /\ Len(s) \in Nat
  BY DEF TrendAssumption
<1>2. CASE Len(s) > MaxTrend
  <2>1. Len(s) >= 5 /\ Compacted(s) = Thinned(s)
    BY <1>1, <1>2 DEF Compacted
  <2>2. Thinned(s) \in Seq(TrendPoint)
    BY <2>1, ThinnedIs
  <2>0. PICK m \in Nat : \E sel : IsSelection(sel, m, Thinned(s), s)
    BY <2>1, ThinnedIs
  <2>3. PICK sel : IsSelection(sel, m, Thinned(s), s)
    BY <2>0
  <2> QED BY <2>1, <2>2, <2>3, SelectionKeeps
<1>3. CASE ~(Len(s) > MaxTrend)
  BY <1>1, <1>3 DEF Compacted
<1> QED BY <1>2, <1>3

\* A point after the others, and one in the place of the last.
LEMMA PointAdded ==
  ASSUME NEW s \in Seq(TrendPoint), NEW x \in TrendPoint, Forward(s), NEW r, Own(s, r), x.of = r,
         NEW time \in Int, UpTo(s, time), x.at <= time, s # << >> => s[Len(s)].at < x.at
  PROVE  LET t == Append(s, x) IN
         /\ t \in Seq(TrendPoint) /\ Len(t) = Len(s) + 1 /\ Forward(t) /\ Own(t, r) /\ UpTo(t, time)
         /\ t[Len(t)] = x /\ t[1] = (IF s = << >> THEN x ELSE s[1])
<1> PICK n \in Nat : n = Len(s)
  OBVIOUS
<1> PICK m \in Nat : m = n + 1
  OBVIOUS
<1> DEFINE t == Append(s, x)
<1>1. t \in Seq(TrendPoint) /\ Len(t) = m /\ DOMAIN t = 1 .. m /\ t[m] = x /\ \A i \in 1 .. n : t[i] = s[i]
  OBVIOUS
<1>2. \A i \in 1 .. m : i = m \/ i \in 1 .. n
  OBVIOUS
<1>3. \A i \in 1 .. n : s[i].at < x.at
  <2> SUFFICES ASSUME NEW i \in 1 .. n PROVE s[i].at < x.at
    OBVIOUS
  <2>1. s # << >> /\ n \in DOMAIN s /\ i \in DOMAIN s
    OBVIOUS
  <2>2. s[n].at < x.at /\ (i = n \/ i < n)
    BY <2>1
  <2>3. i < n => s[i].at < s[n].at
    BY <2>1 DEF Forward
  <2>4. s[i].at \in Int /\ s[n].at \in Int /\ x.at \in Int
    <3>1. s[i] \in TrendPoint /\ s[n] \in TrendPoint
      BY <2>1
    <3> QED BY <3>1 DEF TrendPoint
  <2> QED BY <2>2, <2>3, <2>4
<1> HIDE DEF t
<1>4. Forward(t)
  <2> SUFFICES ASSUME NEW i \in 1 .. m, NEW j \in 1 .. m, i < j PROVE t[i].at < t[j].at
    BY <1>1 DEF Forward
  <2>1. i \in 1 .. n /\ t[i] = s[i]
    BY <1>1
  <2>2. CASE j = m
    BY <2>1, <2>2, <1>1, <1>3
  <2>3. CASE j \in 1 .. n
    BY <2>1, <2>3, <1>1 DEF Forward
  <2> QED BY <1>2, <2>2, <2>3
<1>5. Own(t, r)
  BY <1>1, <1>2 DEF Own
<1>6. UpTo(t, time)
  BY <1>1, <1>2 DEF UpTo
<1>7. t[1] = (IF s = << >> THEN x ELSE s[1])
  <2>1. CASE s = << >>
    <3>1. m = 1
      BY <2>1
    <3> QED BY <3>1, <2>1, <1>1
  <2>2. CASE s # << >>
    <3>1. 1 \in 1 .. n
      BY <2>2
    <3> QED BY <3>1, <2>2, <1>1
  <2> QED BY <2>1, <2>2
<1> QED BY <1>1, <1>4, <1>5, <1>6, <1>7 DEF t

\* A point of the same instant as the last one takes its place, and nothing else changes.
LEMMA PointReplaced ==
  ASSUME NEW s \in Seq(TrendPoint), NEW x \in TrendPoint, Forward(s), NEW r, Own(s, r), x.of = r,
         NEW time \in Int, UpTo(s, time), s # << >>, s[Len(s)].at = x.at
  PROVE  LET t == [s EXCEPT ![Len(s)] = x] IN
         /\ t \in Seq(TrendPoint) /\ Len(t) = Len(s) /\ Forward(t) /\ Own(t, r) /\ UpTo(t, time)
         /\ t[Len(t)] = x /\ t[1].at = s[1].at
<1> PICK n \in Nat : n = Len(s)
  OBVIOUS
<1>0. n \in 1 .. n /\ DOMAIN s = 1 .. n /\ 1 \in 1 .. n
  OBVIOUS
<1> DEFINE t == [s EXCEPT ![n] = x]
<1>1. /\ t \in Seq(TrendPoint) /\ Len(t) = n /\ DOMAIN t = 1 .. n /\ t[n] = x
      /\ \A i \in 1 .. n : t[i].at = s[i].at /\ (t[i] = x \/ t[i] = s[i])
  BY <1>0
<1> HIDE DEF t
<1>2. Forward(t)
  BY <1>0, <1>1 DEF Forward
<1>3. Own(t, r)
  BY <1>0, <1>1 DEF Own
<1>4. UpTo(t, time)
  BY <1>0, <1>1 DEF UpTo
<1> QED BY <1>0, <1>1, <1>2, <1>3, <1>4 DEF t

\* A trend with one more point is a trend again, and not too long.
LEMMA AppendedType ==
  ASSUME TrendAssumption, NEW s \in Seq(TrendPoint), NEW x \in TrendPoint, Len(s) <= MaxTrend
  PROVE  Appended(s, x) \in Seq(TrendPoint) /\ Len(Appended(s, x)) <= MaxTrend /\ Appended(s, x) # << >>
<1>1. MaxTrend \in Nat
  BY DEF TrendAssumption
<1>2. CASE s # << >> /\ Last(s).at = x.at
  <2>1. Appended(s, x) = [s EXCEPT ![Len(s)] = x]
    BY <1>2 DEF Appended
  <2>2. [s EXCEPT ![Len(s)] = x] \in Seq(TrendPoint) /\ Len([s EXCEPT ![Len(s)] = x]) = Len(s) /\ Len(s) # 0
    BY <1>2
  <2> QED BY <2>1, <2>2
<1>3. CASE ~(s # << >> /\ Last(s).at = x.at)
  <2>1. Appended(s, x) = Compacted(Append(s, x))
    BY <1>3 DEF Appended
  <2>2. Append(s, x) \in Seq(TrendPoint) /\ Len(Append(s, x)) <= MaxTrend + 1 /\ Append(s, x) # << >>
    BY <1>1
  <2> QED BY <2>1, <2>2, CompactedType
<1> QED BY <1>2, <1>3

\* A snapshot's point into the trend of its robot, whose points are not later.
LEMMA AppendedKeeps ==
  ASSUME TrendAssumption, NEW s \in Seq(TrendPoint), NEW x \in TrendPoint, Forward(s), NEW r, Own(s, r), x.of = r,
         NEW time \in Int, UpTo(s, time), x.at <= time, s # << >> => s[Len(s)].at <= x.at
  PROVE  LET t == Appended(s, x) IN
         /\ Forward(t) /\ Own(t, r) /\ UpTo(t, time)
         /\ t[Len(t)] = x /\ t[1].at = (IF s = << >> THEN x.at ELSE s[1].at)
<1>1. CASE s # << >> /\ Last(s).at = x.at
  <2>1. Appended(s, x) = [s EXCEPT ![Len(s)] = x] /\ s[Len(s)].at = x.at
    BY <1>1 DEF Appended, Last
  <2> PICK t : t = [s EXCEPT ![Len(s)] = x]
    OBVIOUS
  <2>2. s # << >>
    BY <1>1
  <2>3. Forward(t) /\ Own(t, r) /\ UpTo(t, time) /\ t[Len(t)] = x /\ t[1].at = s[1].at
    <3>1. LET u == [s EXCEPT ![Len(s)] = x] IN
          /\ u \in Seq(TrendPoint) /\ Len(u) = Len(s) /\ Forward(u) /\ Own(u, r) /\ UpTo(u, time)
          /\ u[Len(u)] = x /\ u[1].at = s[1].at
      BY <2>1, <2>2, PointReplaced
    <3> QED BY <3>1
  <2>4. Appended(s, x) = t
    BY <2>1
  <2> QED BY <2>2, <2>3, <2>4
<1>2. CASE ~(s # << >> /\ Last(s).at = x.at)
  <2> PICK a : a = Append(s, x)
    OBVIOUS
  <2>1. Appended(s, x) = Compacted(a)
    BY <1>2 DEF Appended
  <2>2. s # << >> => s[Len(s)].at < x.at
    <3> SUFFICES ASSUME s # << >> PROVE s[Len(s)].at < x.at
      OBVIOUS
    <3>1. Len(s) \in DOMAIN s
      OBVIOUS
    <3>2. s[Len(s)] \in TrendPoint
      BY <3>1
    <3>3. s[Len(s)].at \in Int /\ x.at \in Int
      BY <3>2 DEF TrendPoint
    <3>4. s[Len(s)].at # x.at
      BY <1>2 DEF Last
    <3> QED BY <3>3, <3>4
  <2>3. /\ a \in Seq(TrendPoint) /\ Len(a) = Len(s) + 1 /\ Forward(a) /\ Own(a, r) /\ UpTo(a, time)
        /\ a[Len(a)] = x /\ a[1] = (IF s = << >> THEN x ELSE s[1])
    BY <2>2, PointAdded
  <2>4. a # << >>
    BY <2>3
  <2>5. LET t == Compacted(a) IN Forward(t) /\ Own(t, r) /\ UpTo(t, time) /\ t[1] = a[1] /\ t[Len(t)] = a[Len(a)]
    BY <2>3, <2>4, CompactedKeeps
  <2> QED BY <2>1, <2>3, <2>5
<1> QED BY <1>1, <1>2

\* Putting points in order that are changes nothing.
LEMMA InTimeIs ==
  ASSUME NEW s \in Seq(TrendPoint), Forward(s)
  PROVE  InTime(s) = s
<1> PICK n \in Nat : n = Len(s)
  OBVIOUS
<1> DEFINE Sooner(i) == {j \in DOMAIN s : s[j].at < s[i].at \/ (s[j].at = s[i].at /\ j < i)}
<1>0. DOMAIN s = 1 .. n /\ \A i \in 1 .. n : s[i].at \in Int
  <2>1. \A i \in 1 .. n : s[i] \in TrendPoint
    OBVIOUS
  <2> QED BY <2>1 DEF TrendPoint
<1>1. ASSUME NEW i \in 1 .. n PROVE Sooner(i) = 1 .. (i - 1)
  <2>1. ASSUME NEW j \in 1 .. n PROVE s[j].at < s[i].at \/ (s[j].at = s[i].at /\ j < i) <=> j < i
    <3>1. s[i].at \in Int /\ s[j].at \in Int
      BY <1>0
    <3>2. j < i => s[j].at < s[i].at
      BY <1>0 DEF Forward
    <3>3. i < j => s[i].at < s[j].at
      BY <1>0 DEF Forward
    <3>4. i < j \/ j < i \/ i = j
      OBVIOUS
    <3> QED BY <3>1, <3>2, <3>3, <3>4
  <2>2. \A j : j \in Sooner(i) <=> j \in 1 .. n /\ j < i
    BY <1>0, <2>1
  <2>3. \A j : j \in 1 .. n /\ j < i <=> j \in 1 .. (i - 1)
    OBVIOUS
  <2> HIDE DEF Sooner
  <2> QED BY <2>2, <2>3
<1>2. \A i \in 1 .. n : Cardinality(Sooner(i)) = i - 1
  <2> SUFFICES ASSUME NEW i \in 1 .. n PROVE Cardinality(Sooner(i)) = i - 1
    OBVIOUS
  <2>1. i - 1 \in Nat
    OBVIOUS
  <2>2. Cardinality(1 .. (i - 1)) = i - 1
    <3> PICK d \in Nat : d = i - 1
      BY <2>1
    <3>1. Cardinality(1 .. d) = d
      BY FS_Interval
    <3> QED BY <3>1
  <2> QED BY <1>1, <2>2
<1>3. InTime(s) = [k \in 1 .. n |-> s[CHOOSE i \in 1 .. n : Cardinality(Sooner(i)) = k - 1]]
  BY <1>0 DEF InTime
<1> HIDE DEF Sooner
<1>4. \A k \in 1 .. n : (CHOOSE i \in 1 .. n : Cardinality(Sooner(i)) = k - 1) = k
  <2> SUFFICES ASSUME NEW k \in 1 .. n PROVE (CHOOSE i \in 1 .. n : Cardinality(Sooner(i)) = k - 1) = k
    OBVIOUS
  <2>1. \A i \in 1 .. n : Cardinality(Sooner(i)) = k - 1 <=> i = k
    BY <1>2
  <2> QED BY <2>1
<1>5. InTime(s) = [k \in 1 .. n |-> s[k]]
  BY <1>3, <1>4
<1>6. s = [k \in 1 .. n |-> s[k]]
  BY <1>0
<1> QED BY <1>5, <1>6

\* The latest point of the robot, at the end of points that are not later.
LEMMA WithLatestIs ==
  ASSUME NEW s \in Seq(TrendPoint), NEW x \in TrendPoint, Forward(s), NEW r, Own(s, r), x.of = r,
         UpTo(s, x.at), s # << >> => s[Len(s)].at <= x.at
  PROVE  LET t == WithLatest(s, x) IN
         /\ t \in Seq(TrendPoint) /\ t # << >> /\ Forward(t)
         /\ t[Len(t)] = x /\ t[1].at = (IF s = << >> THEN x.at ELSE s[1].at)
<1> PICK time \in Int : time = x.at
  BY DEF TrendPoint
<1>1. CASE s = << >>
  <2>1. WithLatest(s, x) = <<x>>
    BY <1>1 DEF WithLatest
  <2>2. Forward(<<x>>)
    BY DEF Forward
  <2> QED BY <2>1, <2>2, <1>1
<1>2. CASE s # << >> /\ Last(s).at = x.at
  <2>1. WithLatest(s, x) = [s EXCEPT ![Len(s)] = x] /\ s[Len(s)].at = x.at
    BY <1>2 DEF WithLatest, Last
  <2>2. s # << >>
    BY <1>2
  <2>3. LET u == [s EXCEPT ![Len(s)] = x] IN
        /\ u \in Seq(TrendPoint) /\ Len(u) = Len(s) /\ Forward(u) /\ Own(u, r) /\ UpTo(u, time)
        /\ u[Len(u)] = x /\ u[1].at = s[1].at
    BY <2>1, <2>2, PointReplaced
  <2>4. [s EXCEPT ![Len(s)] = x] # << >>
    BY <2>2, <2>3
  <2> QED BY <2>1, <2>2, <2>3, <2>4
<1>3. CASE s # << >> /\ Last(s).at # x.at
  <2>1. s[Len(s)].at < x.at
    <3>1. Len(s) \in DOMAIN s
      BY <1>3
    <3>2. s[Len(s)] \in TrendPoint
      BY <3>1
    <3>3. s[Len(s)].at \in Int /\ x.at \in Int
      BY <3>2 DEF TrendPoint
    <3>4. s[Len(s)].at # x.at
      BY <1>3 DEF Last
    <3> QED BY <3>3, <3>4, <1>3
  <2>2. ~(x.at < Last(s).at)
    <3>1. Len(s) \in DOMAIN s
      BY <1>3
    <3>2. s[Len(s)] \in TrendPoint
      BY <3>1
    <3>3. s[Len(s)].at \in Int /\ x.at \in Int
      BY <3>2 DEF TrendPoint
    <3> QED BY <3>3, <2>1 DEF Last
  <2>3. WithLatest(s, x) = InTime(Append(s, x))
    BY <2>2, <1>3 DEF WithLatest
  <2>4. LET u == Append(s, x) IN
         /\ u \in Seq(TrendPoint) /\ Len(u) = Len(s) + 1 /\ Forward(u) /\ Own(u, r) /\ UpTo(u, time)
         /\ u[Len(u)] = x /\ u[1] = (IF s = << >> THEN x ELSE s[1])
    <3>1. x.at <= time
      OBVIOUS
    <3> QED BY <2>1, <3>1, PointAdded
  <2>5. InTime(Append(s, x)) = Append(s, x)
    BY <2>4, InTimeIs
  <2>6. Append(s, x) # << >>
    OBVIOUS
  <2> QED BY <2>3, <2>4, <2>5, <2>6, <1>3
<1> QED BY <1>1, <1>2, <1>3

\* What Min chooses when there is a least number.
LEMMA MinIs == ASSUME NEW S, NEW x \in S, x \in Int, \A y \in S : y \in Int /\ x <= y PROVE Min(S) = x
<1>1. \E m \in S : \A y \in S : m <= y
  OBVIOUS
<1>2. PICK m : m = Min(S)
  OBVIOUS
<1>3. m \in S /\ \A y \in S : m <= y
  BY <1>1, <1>2 DEF Min
<1>4. m <= x /\ x <= m /\ m \in Int
  BY <1>3
<1> QED BY <1>2, <1>4

IsPeaks(p, points, n) ==
  p = [i \in 0 .. n |-> IF i = 0 THEN 100 ELSE Max({p[i - 1], Equity(points[i])})]

\* The peaks so far: that there are such, and what they are.
LEMMA PeaksExist ==
  ASSUME NEW points \in Seq(TrendPoint)
  PROVE  \E p : IsPeaks(p, points, Len(points))
<1> PICK n \in Nat : n = Len(points)
  OBVIOUS
<1> DEFINE P == {m \in Nat : m <= n => \E p : IsPeaks(p, points, m)}
<1>1. 0 \in P
  <2> DEFINE p == [i \in 0 .. 0 |-> 100]
  <2>1. \A i \in 0 .. 0 : i = 0
    OBVIOUS
  <2>2. IsPeaks(p, points, 0)
    BY <2>1 DEF IsPeaks
  <2> QED BY <2>2
<1>2. ASSUME NEW m \in Nat, m \in P PROVE m + 1 \in P
  <2> PICK k \in Nat : k = m + 1
    OBVIOUS
  <2> SUFFICES ASSUME k <= n PROVE \E p : IsPeaks(p, points, k)
    OBVIOUS
  <2>0. m <= n
    OBVIOUS
  <2>1. PICK q : IsPeaks(q, points, m)
    BY <1>2, <2>0
  <2> DEFINE p == [i \in 0 .. k |-> IF i = k THEN Max({q[m], Equity(points[k])}) ELSE q[i]]
  <2>2. \A i \in 0 .. m : i \in 0 .. k /\ i # k /\ (i # 0 => i - 1 \in 0 .. m)
    OBVIOUS
  <2>3. \A i \in 0 .. k : i = k \/ i \in 0 .. m
    OBVIOUS
  <2>4. \A i \in 0 .. m : p[i] = q[i]
    BY <2>2
  <2>5. p[k] = Max({p[k - 1], Equity(points[k])})
    <3>1. k - 1 = m /\ m \in 0 .. m /\ k \in 0 .. k
      OBVIOUS
    <3> QED BY <3>1, <2>4
  <2> HIDE DEF p
  <2>6. \A i \in 0 .. k : p[i] = IF i = 0 THEN 100 ELSE Max({p[i - 1], Equity(points[i])})
    <3> SUFFICES ASSUME NEW i \in 0 .. k PROVE p[i] = IF i = 0 THEN 100 ELSE Max({p[i - 1], Equity(points[i])})
      OBVIOUS
    <3>1. CASE i = k
      BY <3>1, <2>5
    <3>2. CASE i \in 0 .. m
      <4>1. q[i] = IF i = 0 THEN 100 ELSE Max({q[i - 1], Equity(points[i])})
        BY <2>1, <3>2 DEF IsPeaks
      <4>2. p[i] = q[i] /\ (i # 0 => p[i - 1] = q[i - 1])
        BY <2>2, <2>4, <3>2
      <4> QED BY <4>1, <4>2
    <3> QED BY <2>3, <3>1, <3>2
  <2>7. p = [i \in 0 .. k |-> p[i]]
    BY DEF p
  <2>8. IsPeaks(p, points, k)
    BY <2>6, <2>7 DEF IsPeaks
  <2> QED BY <2>8
<1>3. n \in P
  <2> HIDE DEF P
  <2> QED BY <1>1, <1>2, NatInduct
<1> QED BY <1>3

\* The values up to one, and that of the start.
Values(points, i) == {0} \cup {points[j].value : j \in 1 .. i}

\* The peak up to a point is one of the values up to it, and none is higher.
LEMMA PeaksAre ==
  ASSUME NEW points \in Seq(TrendPoint), NEW i \in 0 .. Len(points)
  PROVE  /\ Peaks(points)[i] \in Int
         /\ Peaks(points)[i] - 100 \in Values(points, i)
         /\ \A v \in Values(points, i) : v <= Peaks(points)[i] - 100
<1> PICK n \in Nat : n = Len(points)
  OBVIOUS
<1> DEFINE p == Peaks(points)
           Good(m) == p[m] \in Int /\ p[m] - 100 \in Values(points, m) /\ \A v \in Values(points, m) : v <= p[m] - 100
           P == {m \in Nat : m <= n => Good(m)}
<1>1. \A m \in 0 .. n : p[m] = IF m = 0 THEN 100 ELSE Max({p[m - 1], Equity(points[m])})
  <2>1. p = CHOOSE q : IsPeaks(q, points, Len(points))
    BY DEF Peaks, IsPeaks
  <2>2. IsPeaks(p, points, n)
    <3> HIDE DEF p
    <3> QED BY <2>1, PeaksExist
  <2> HIDE DEF p
  <2> QED BY <2>2 DEF IsPeaks
<1> HIDE DEF p
<1>2. \A j \in 1 .. n : points[j].value \in Int
  <2>1. \A j \in 1 .. n : points[j] \in TrendPoint
    OBVIOUS
  <2> QED BY <2>1 DEF TrendPoint
<1>3. 0 \in P
  <2>1. Values(points, 0) = {0}
    BY DEF Values
  <2>2. p[0] = 100
    <3>1. 0 \in 0 .. n
      OBVIOUS
    <3> QED BY <3>1, <1>1
  <2> QED BY <2>1, <2>2
<1>4. ASSUME NEW m \in Nat, m \in P PROVE m + 1 \in P
  <2> PICK k \in Nat : k = m + 1
    OBVIOUS
  <2> SUFFICES ASSUME k <= n PROVE Good(k)
    OBVIOUS
  <2>1. Good(m) /\ k \in 1 .. n /\ k \in 0 .. n /\ k # 0 /\ k - 1 = m
    BY <1>4
  <2> PICK a \in Int : a = p[m]
    BY <2>1
  <2> PICK w \in Int : w = points[k].value
    BY <1>2, <2>1
  <2> PICK e \in Int : e = 100 + w
    OBVIOUS
  <2>2. p[k] = Max({a, e})
    BY <2>1, <1>1 DEF Equity
  <2>3. Values(points, k) = Values(points, m) \cup {w}
    <3>1. \A j : j \in 1 .. k <=> j \in 1 .. m \/ j = k
      OBVIOUS
    <3> QED BY <3>1 DEF Values
  <2>4. Values(points, m) \subseteq Int
    <3>1. \A j \in 1 .. m : j \in 1 .. n
      BY <2>1
    <3> QED BY <3>1, <1>2 DEF Values
  <2>5. CASE a <= e
    <3>1. e \in {a, e} /\ \A y \in {a, e} : y \in Int /\ y <= e
      BY <2>5
    <3>2. Max({a, e}) = e
      <4> PICK B : B = {a, e}
        OBVIOUS
      <4>1. e \in B /\ \A y \in B : y \in Int /\ y <= e
        BY <3>1
      <4>2. Max(B) = e
        BY <4>1, MaxIs
      <4> QED BY <4>2
    <3>3. \A v \in Values(points, m) : v <= w
      <4>1. a - 100 <= w
        BY <2>5
      <4> QED BY <4>1, <2>1, <2>4
    <3>4. p[k] = e /\ e - 100 = w
      BY <3>2, <2>2
    <3> QED BY <3>3, <3>4, <2>3
  <2>6. CASE ~(a <= e)
    <3>1. a \in {a, e} /\ \A y \in {a, e} : y \in Int /\ y <= a
      BY <2>6
    <3>2. Max({a, e}) = a
      <4> PICK B : B = {a, e}
        OBVIOUS
      <4>1. a \in B /\ \A y \in B : y \in Int /\ y <= a
        BY <3>1
      <4>2. Max(B) = a
        BY <4>1, MaxIs
      <4> QED BY <4>2
    <3>3. w <= a - 100
      BY <2>6
    <3>4. p[k] = a
      BY <3>2, <2>2
    <3> QED BY <3>3, <3>4, <2>1, <2>3
  <2> QED BY <2>5, <2>6
<1>5. i \in P
  <2> HIDE DEF P
  <2> QED BY <1>3, <1>4, NatInduct
<1>6. Good(i)
  BY <1>5
<1> QED BY <1>6 DEF p

\* The drawdown is the fall from the highest of the values so far.
LEMMA DrawdownIs ==
  ASSUME NEW points \in Seq(TrendPoint), NEW i \in DOMAIN Drawdown(points)
  PROVE  Drawdown(points)[i] =
           Min({0} \cup {points[i].value - v : v \in {0} \cup {points[j].value : j \in 1 .. i}})
<1> PICK n \in Nat : n = Len(points)
  OBVIOUS
<1>1. i \in 1 .. n /\ i \in 0 .. n /\ i \in 1 .. i
  BY DEF Drawdown
<1> PICK p \in Int : p = Peaks(points)[i]
  BY <1>1, PeaksAre
<1>2. p - 100 \in Values(points, i) /\ \A v \in Values(points, i) : v <= p - 100
  BY <1>1, PeaksAre
<1> PICK w \in Int : w = points[i].value
  <2>1. points[i] \in TrendPoint
    BY <1>1
  <2> QED BY <2>1 DEF TrendPoint
<1> PICK b \in Int : b = w - (p - 100)
  OBVIOUS
<1>3. Drawdown(points)[i] = b
  <2>1. Drawdown(points)[i] = (100 + w) - p
    BY <1>1 DEF Drawdown, Equity
  <2> QED BY <2>1
<1>4. Values(points, i) \subseteq Int
  <2>1. \A j \in 1 .. i : points[j] \in TrendPoint
    BY <1>1
  <2> QED BY <2>1 DEF Values, TrendPoint
<1>5. w \in Values(points, i)
  BY <1>1 DEF Values
<1> DEFINE B == {0} \cup {w - v : v \in Values(points, i)}
<1>6. b \in B
  BY <1>2
<1>7. \A y \in B : y \in Int /\ b <= y
  <2>1. \A v \in Values(points, i) : w - v \in Int /\ b <= w - v
    BY <1>2, <1>4
  <2>2. b <= 0
    BY <1>2, <1>5
  <2> QED BY <2>1, <2>2
<1>8. Min(B) = b
  <2> HIDE DEF B
  <2> QED BY <1>6, <1>7, MinIs
<1>9. B = {0} \cup {points[i].value - v : v \in {0} \cup {points[j].value : j \in 1 .. i}}
  BY DEF Values
<1> QED BY <1>3, <1>8, <1>9

\* In order of time the last point is the latest.
LEMMA LastIsLatest ==
  ASSUME NEW s \in Seq(TrendPoint), s # << >>, Forward(s), NEW time \in Int, s[Len(s)].at <= time
  PROVE  UpTo(s, time)
<1> PICK n \in Nat : n = Len(s)
  OBVIOUS
<1>1. n \in 1 .. n /\ DOMAIN s = 1 .. n
  OBVIOUS
<1>2. \A i \in 1 .. n : s[i].at \in Int
  <2>1. \A i \in 1 .. n : s[i] \in TrendPoint
    OBVIOUS
  <2> QED BY <2>1 DEF TrendPoint
<1>3. \A i \in 1 .. n : i # n => s[i].at < s[n].at
  BY <1>1 DEF Forward
<1> QED BY <1>1, <1>2, <1>3 DEF UpTo

\* What is replayed goes up to the snapshot.
LEMMA ReplayedIs ==
  ASSUME NEW snap \in Snap
  PROVE  LET t == Replayed(snap) IN
         /\ t \in Seq(TrendPoint) /\ Forward(t) /\ Own(t, snap.point.of) /\ UpTo(t, snap.point.at)
         /\ t # << >> => t[Len(t)].at <= snap.point.at
<1> PICK n \in Nat : n = Len(snap.replay)
  BY DEF Snap
<1> PICK x \in TrendPoint, y \in Seq(Int) : x = snap.point /\ y = snap.replay
  BY DEF Snap
<1> PICK a \in Int : a = x.at
  BY DEF TrendPoint
<1> DEFINE t == Replayed(snap)
<1>1. /\ DOMAIN t = 1 .. n /\ Len(t) = n
      /\ \A i \in 1 .. n : t[i] \in TrendPoint /\ t[i].of = x.of /\ t[i].at = a - n + i - 1
  <2>1. t = [i \in 1 .. n |-> Point(x.of, a - n + i - 1, y[i])]
    BY DEF Replayed
  <2>2. x.of \in TrendRobots \cup {NoRobot}
    BY DEF TrendPoint
  <2>3. \A i \in 1 .. n : y[i] \in Int /\ a - n + i - 1 \in Int
    OBVIOUS
  <2>4. \A i \in 1 .. n : LET p == Point(x.of, a - n + i - 1, y[i]) IN
                          p \in TrendPoint /\ p.of = x.of /\ p.at = a - n + i - 1
    BY <2>2, <2>3 DEF TrendPoint, Point
  <2> HIDE DEF t
  <2> QED BY <2>1, <2>4
<1>2. t \in Seq(TrendPoint)
  <2>1. t = [i \in 1 .. n |-> t[i]]
    BY DEF Replayed, Snap
  <2>2. \A i \in 1 .. n : t[i] \in TrendPoint
    BY <1>1
  <2> HIDE DEF t
  <2>3. t \in [1 .. n -> TrendPoint]
    BY <2>1, <2>2, <1>1
  <2> QED BY <2>3
<1> HIDE DEF t
<1>3. \A i \in 1 .. n : t[i].at <= a
  BY <1>1
<1>4. Forward(t)
  <2> SUFFICES ASSUME NEW i \in 1 .. n, NEW j \in 1 .. n, i < j PROVE t[i].at < t[j].at
    BY <1>1 DEF Forward
  <2>1. a - n + i - 1 < a - n + j - 1
    OBVIOUS
  <2> QED BY <2>1, <1>1
<1>5. Own(t, x.of) /\ UpTo(t, a)
  BY <1>1, <1>3 DEF Own, UpTo
<1>6. t # << >> => t[Len(t)].at <= a
  <2> SUFFICES ASSUME t # << >> PROVE t[Len(t)].at <= a
    OBVIOUS
  <2>1. Len(t) \in 1 .. n
    BY <1>1, <1>2
  <2> QED BY <2>1, <1>3
<1> QED BY <1>2, <1>4, <1>5, <1>6 DEF t

\* The curve of a robot whose trend is its own.
LEMMA CurveIs ==
  ASSUME NEW snap \in Snap, NEW s \in Seq(TrendPoint), Forward(s), Own(s, snap.point.of),
         s # << >> => s[Len(s)].at <= snap.point.at
  PROVE  LET curve == Curve(snap, s) IN
         /\ curve.points \in Seq(TrendPoint) /\ curve.points # << >> /\ Forward(curve.points)
         /\ curve.points[Len(curve.points)] = snap.point
         /\ curve.source = "trend" => s # << >> /\ s[1].at <= Covered
<1> PICK x \in TrendPoint : x = snap.point
  BY DEF Snap
<1>0. x.at \in Int
  BY DEF TrendPoint
<1> DEFINE u == Replayed(snap)
           replay == WithLatest(InTime(Replayed(snap)), snap.point)
           ofTrend == WithLatest(InTime(s), snap.point)
<1>1. /\ replay \in Seq(TrendPoint) /\ replay # << >> /\ Forward(replay) /\ replay[Len(replay)] = x
  <2>1. /\ u \in Seq(TrendPoint) /\ Forward(u) /\ Own(u, x.of) /\ UpTo(u, x.at)
        /\ u # << >> => u[Len(u)].at <= x.at
    BY ReplayedIs
  <2>2. InTime(u) = u
    BY <2>1, InTimeIs
  <2> HIDE DEF u
  <2>3. LET t == WithLatest(u, x) IN t \in Seq(TrendPoint) /\ t # << >> /\ Forward(t) /\ t[Len(t)] = x
    BY <2>1, WithLatestIs
  <2> QED BY <2>2, <2>3 DEF u
<1>2. /\ ofTrend \in Seq(TrendPoint) /\ ofTrend # << >> /\ Forward(ofTrend) /\ ofTrend[Len(ofTrend)] = x
      /\ ofTrend[1].at = (IF s = << >> THEN x.at ELSE s[1].at)
  <2>1. InTime(s) = s
    BY InTimeIs
  <2>2. UpTo(s, x.at)
    <3>1. CASE s = << >>
      BY <3>1 DEF UpTo
    <3>2. CASE s # << >>
      BY <3>2, <1>0, LastIsLatest
    <3> QED BY <3>1, <3>2
  <2>3. LET t == WithLatest(s, x) IN
        /\ t \in Seq(TrendPoint) /\ t # << >> /\ Forward(t) /\ t[Len(t)] = x
        /\ t[1].at = (IF s = << >> THEN x.at ELSE s[1].at)
    BY <2>2, WithLatestIs
  <2> QED BY <2>1, <2>3
<1>3. \/ Curve(snap, s) = [source |-> "replay", points |-> replay]
      \/ /\ Curve(snap, s) = [source |-> "trend", points |-> ofTrend]
         /\ s # << >> /\ ofTrend[1].at <= Covered
      \/ Curve(snap, s) = [source |-> "snapshot", points |-> <<snap.point>>]
  BY DEF Curve
<1> HIDE DEF replay, ofTrend
<1>4. CASE Curve(snap, s) = [source |-> "replay", points |-> replay]
  BY <1>1, <1>4
<1>5. CASE Curve(snap, s) = [source |-> "trend", points |-> ofTrend] /\ s # << >> /\ ofTrend[1].at <= Covered
  BY <1>2, <1>5
<1>6. CASE Curve(snap, s) = [source |-> "snapshot", points |-> <<snap.point>>]
  <2> PICK t : t = <<x>>
    OBVIOUS
  <2>1. t \in Seq(TrendPoint) /\ t # << >> /\ Len(t) = 1 /\ t[1] = x /\ DOMAIN t = {1}
    OBVIOUS
  <2>2. Forward(t)
    BY <2>1 DEF Forward
  <2> QED BY <1>6, <2>1, <2>2
<1> QED BY <1>3, <1>4, <1>5, <1>6

TrendTypes ==
  /\ now \in Nat /\ served \in [TrendRobots -> Snap]
  /\ robot \in TrendRobots \cup {NoRobot} /\ asked \in TrendRobots \cup {NoRobot} /\ shown \in Snap
  /\ saved \in [TrendRobots -> Seq(TrendPoint)] /\ history = saved /\ trend \in Seq(TrendPoint)
  /\ first \in [TrendRobots -> Nat] /\ mixed \in SUBSET TrendRobots
  /\ Len(trend) <= MaxTrend /\ \A r \in TrendRobots : Len(saved[r]) <= MaxTrend

\* A robot has a first snapshot when it has a last, which is its own and not of the future.
ServedIs(r) ==
  /\ first[r] = 0 <=> served[r] = NoSnap
  /\ served[r] # NoSnap => served[r].point.of = r /\ 1 <= served[r].point.at /\ served[r].point.at <= now

\* A trend of its robot alone, from its first snapshot to its last.
IsTrendOf(points, r) ==
  /\ Own(points, r) /\ Forward(points)
  /\ first[r] = 0 => points = << >>
  /\ first[r] # 0 => points # << >> /\ points[1].at = first[r] /\ points[Len(points)] = served[r].point

TrendInv ==
  /\ TrendTypes
  /\ \A r \in TrendRobots : ServedIs(r) /\ (r \notin mixed => IsTrendOf(saved[r], r))
  /\ robot = NoRobot => shown = NoSnap /\ asked = NoRobot
  /\ robot \in TrendRobots \ mixed => trend = saved[robot] /\ (shown # NoSnap => shown = served[robot])

\* No snapshot is a snapshot, of nothing.
LEMMA NoSnapIs == NoSnap \in Snap
<1>1. NoSnap.point \in TrendPoint
  BY DEF NoSnap, Point, TrendPoint
<1>2. NoSnap.replay \in Seq(Int)
  BY DEF NoSnap
<1> QED BY <1>1, <1>2 DEF NoSnap, Snap

\* Before anything is asked for.
LEMMA TrendStarts == ASSUME TrendAssumption, TrendInit PROVE TrendInv
<1>1. TrendTypes
  BY NoSnapIs DEF TrendInit, TrendTypes, TrendAssumption
<1>2. ASSUME NEW r \in TrendRobots PROVE ServedIs(r) /\ IsTrendOf(saved[r], r)
  BY DEF TrendInit, ServedIs, IsTrendOf, Own, Forward
<1> QED BY <1>1, <1>2 DEF TrendInit, TrendInv, TrendAssumption

\* An answer, of the robot it was asked for.
LEMMA AddedKeeps ==
  ASSUME TrendAssumption, TrendInv, asked # NoRobot, NEW snap \in Snap, snap.point.of = asked,
         1 <= snap.point.at, served[asked] # NoSnap => served[asked].point.at <= snap.point.at,
         Added(snap), served' = [served EXCEPT ![asked] = snap], now' \in Nat, now <= now', snap.point.at <= now'
  PROVE  TrendInv'
<1> PICK p \in TrendPoint : p = snap.point
  BY DEF Snap
<1> PICK at \in Int : at = p.at
  BY DEF TrendPoint
<1> PICK q : q = asked
  OBVIOUS
<1>0. q \in TrendRobots /\ robot \in TrendRobots /\ NoRobot \notin TrendRobots
  BY DEF TrendInv, TrendTypes, TrendAssumption
<1> PICK t : t = Appended(trend, p)
  OBVIOUS
<1>1. /\ asked' = NoRobot /\ shown' = snap /\ trend' = t
      /\ history' = [saved EXCEPT ![q] = t] /\ saved' = [saved EXCEPT ![q] = t]
      /\ mixed' = (IF q = robot THEN mixed ELSE mixed \cup {q, robot})
      /\ first' = [first EXCEPT ![q] = IF @ = 0 THEN at ELSE @]
      /\ robot' = robot
  BY DEF Added, TrendInv, TrendTypes
<1>2. t \in Seq(TrendPoint) /\ Len(t) <= MaxTrend /\ t # << >>
  BY AppendedType DEF TrendInv, TrendTypes
<1>3. TrendTypes'
  <2>1. at \in Nat
    OBVIOUS
  <2>2. first' \in [TrendRobots -> Nat]
    BY <1>0, <1>1, <2>1 DEF TrendInv, TrendTypes
  <2>3. served' \in [TrendRobots -> Snap]
    BY <1>0 DEF TrendInv, TrendTypes
  <2>4. saved' \in [TrendRobots -> Seq(TrendPoint)] /\ history' = saved' /\ \A r \in TrendRobots : Len(saved'[r]) <= MaxTrend
    BY <1>0, <1>1, <1>2 DEF TrendInv, TrendTypes
  <2>5. mixed' \in SUBSET TrendRobots
    BY <1>0, <1>1 DEF TrendInv, TrendTypes
  <2> QED BY <1>1, <1>2, <2>2, <2>3, <2>4, <2>5 DEF TrendInv, TrendTypes
<1>4. snap # NoSnap
  BY <1>0 DEF NoSnap, Point
<1>5. served'[q] = snap /\ saved'[q] = t /\ first'[q] = (IF first[q] = 0 THEN at ELSE first[q]) /\ at # 0
  BY <1>0, <1>1 DEF TrendInv, TrendTypes
<1>6. ASSUME NEW r \in TrendRobots, r # q PROVE served'[r] = served[r] /\ saved'[r] = saved[r] /\ first'[r] = first[r]
  BY <1>1, <1>6 DEF TrendInv, TrendTypes
<1>7. ASSUME NEW r \in TrendRobots PROVE ServedIs(r)'
  <2>1. CASE r = q
    BY <2>1, <1>4, <1>5 DEF ServedIs
  <2>2. CASE r # q
    <3>1. ServedIs(r)
      BY DEF TrendInv
    <3>2. served[r] \in Snap
      BY DEF TrendInv, TrendTypes
    <3>3. served[r].point.at \in Int
      BY <3>2 DEF Snap, TrendPoint
    <3>4. served[r].point.at <= now => served[r].point.at <= now'
      BY <3>3 DEF TrendInv, TrendTypes
    <3> QED BY <2>2, <3>1, <3>4, <1>6 DEF ServedIs
  <2> QED BY <2>1, <2>2
<1>8. ASSUME q = robot, q \notin mixed PROVE IsTrendOf(saved[q], q)' /\ trend' = saved'[q]
  <2>1. IsTrendOf(trend, q)
    BY <1>0, <1>8 DEF TrendInv
  <2>2. ServedIs(q)
    BY <1>0 DEF TrendInv
  <2>3. trend # << >> => trend[Len(trend)].at <= at
    <3> SUFFICES ASSUME trend # << >> PROVE trend[Len(trend)].at <= at
      OBVIOUS
    <3>1. first[q] # 0
      BY <2>1 DEF IsTrendOf
    <3> QED BY <2>1, <2>2, <3>1 DEF IsTrendOf, ServedIs
  <2>4. UpTo(trend, at)
    <3>1. CASE trend = << >>
      BY <3>1 DEF UpTo
    <3>2. CASE trend # << >>
      BY <3>2, <2>1, <2>3, LastIsLatest DEF IsTrendOf, TrendInv, TrendTypes
    <3> QED BY <3>1, <3>2
  <2>5. at <= at
    OBVIOUS
  <2>6. /\ Forward(t) /\ Own(t, q)
        /\ t[Len(t)] = p /\ t[1].at = (IF trend = << >> THEN at ELSE trend[1].at)
    <3>1. trend \in Seq(TrendPoint) /\ Forward(trend) /\ Own(trend, q) /\ p.of = q
      BY <2>1 DEF IsTrendOf, TrendInv, TrendTypes
    <3> QED BY <3>1, <2>3, <2>4, <2>5, AppendedKeeps
  <2>7. first'[q] = t[1].at
    BY <2>1, <2>6, <1>5 DEF IsTrendOf
  <2> QED BY <2>6, <2>7, <1>1, <1>2, <1>5 DEF IsTrendOf
<1>9. ASSUME NEW r \in TrendRobots, r \notin mixed' PROVE IsTrendOf(saved[r], r)'
  <2>1. r \notin mixed
    BY <1>1, <1>9
  <2>2. CASE r = q
    <3>1. q = robot
      BY <1>1, <1>9, <2>2
    <3> QED BY <3>1, <2>1, <2>2, <1>8
  <2>3. CASE r # q
    <3>1. IsTrendOf(saved[r], r)
      BY <2>1 DEF TrendInv
    <3> QED BY <2>3, <3>1, <1>6 DEF IsTrendOf
  <2> QED BY <2>2, <2>3
<1>10. robot' \in TrendRobots \ mixed' => trend' = saved'[robot'] /\ (shown' # NoSnap => shown' = served'[robot'])
  <2> SUFFICES ASSUME robot' \notin mixed' PROVE trend' = saved'[robot'] /\ shown' = served'[robot']
    OBVIOUS
  <2>1. q = robot /\ q \notin mixed
    BY <1>1
  <2> QED BY <2>1, <1>1, <1>5
<1>11. NoSnap' = NoSnap
  BY DEF NoSnap, Point
<1> QED BY <1>0, <1>1, <1>3, <1>7, <1>9, <1>10, <1>11 DEF TrendInv

\* A step that changes no trend, snapshot or instant.
LEMMA TrendStays == ASSUME TrendInv, UNCHANGED <<now, served, saved, first, mixed>>,
                           \A r \in TrendRobots : ServedIs(r)' <=> ServedIs(r)
                    PROVE  \A r \in TrendRobots : ServedIs(r)' /\ (r \notin mixed' => IsTrendOf(saved[r], r)')
BY DEF TrendInv, IsTrendOf

\* Every step keeps the invariant.
LEMMA TrendNextKeeps == ASSUME TrendAssumption, TrendInv, [TrendNext]_trendVars PROVE TrendInv'
<1>0. NoRobot \notin TrendRobots /\ NoSnap' = NoSnap /\ NoSnap \in Snap
  BY NoSnapIs DEF TrendAssumption, NoSnap, Point
<1>1. CASE Ask
  <2>1. TrendTypes'
    BY <1>1 DEF Ask, TrendInv, TrendTypes
  <2>2. \A r \in TrendRobots : ServedIs(r)' /\ (r \notin mixed' => IsTrendOf(saved[r], r)')
    BY <1>0, <1>1, TrendStays DEF Ask, ServedIs
  <2> QED BY <1>0, <1>1, <2>1, <2>2 DEF Ask, TrendInv
<1>2. ASSUME NEW replay \in Replays, Fresh(replay) PROVE TrendInv'
  <2> DEFINE snap == [point |-> Point(asked, now + 1, Profits[now + 1]), replay |-> replay.replay,
                      explained |-> replay.explained]
  <2>1. asked \in TrendRobots /\ now \in Nat /\ now' = now + 1 /\ Added(snap) /\ served' = [served EXCEPT ![asked] = snap]
    BY <1>2 DEF Fresh, TrendInv, TrendTypes
  <2>2. snap.point = Point(asked, now + 1, Profits[now + 1]) /\ snap.point \in TrendPoint
    <3>1. Profits[now + 1] \in Int
      <4>1. now + 1 \in 1 .. Len(Profits)
        BY <1>2, <2>1 DEF Fresh, TrendAssumption
      <4> QED BY <4>1 DEF TrendAssumption
    <3> QED BY <3>1, <2>1 DEF Point, TrendPoint
  <2>3. snap \in Snap
    <3>1. replay.replay \in Seq(Int) /\ replay.explained \in BOOLEAN
      BY DEF TrendAssumption
    <3> QED BY <3>1, <2>2 DEF Snap
  <2>4. snap.point.of = asked /\ snap.point.at = now + 1
    BY <2>2 DEF Point
  <2>5. served[asked] # NoSnap => served[asked].point.at <= now + 1
    <3>1. served[asked] \in Snap /\ ServedIs(asked)
      BY <2>1 DEF TrendInv, TrendTypes
    <3>2. served[asked].point.at \in Int
      BY <3>1 DEF Snap, TrendPoint
    <3> QED BY <3>1, <3>2, <2>1 DEF ServedIs
  <2> HIDE DEF snap
  <2>6. asked # NoRobot /\ 1 <= now + 1 /\ now + 1 \in Nat /\ now <= now + 1 /\ now + 1 <= now + 1
    BY <1>0, <2>1
  <2> QED BY <2>1, <2>3, <2>4, <2>5, <2>6, AddedKeeps
<1>3. CASE Stale
  <2> PICK snap : snap = served[asked]
    OBVIOUS
  <2>1. asked # NoRobot /\ snap # NoSnap /\ Added(snap) /\ served' = served /\ now' = now
    BY <1>3 DEF Stale
  <2>2. asked \in TrendRobots /\ snap \in Snap /\ now \in Nat
    BY <2>1 DEF TrendInv, TrendTypes
  <2>3. snap.point.of = asked /\ 1 <= snap.point.at /\ snap.point.at <= now
    BY <2>1, <2>2 DEF TrendInv, ServedIs
  <2>4. served' = [served EXCEPT ![asked] = snap]
    BY <2>1, <2>2 DEF TrendInv, TrendTypes
  <2>5. snap.point.at \in Int
    BY <2>2 DEF Snap, TrendPoint
  <2>6. served[asked].point.at <= snap.point.at /\ now' \in Nat /\ now <= now' /\ snap.point.at <= now'
    BY <2>1, <2>2, <2>3, <2>5
  <2> QED BY <2>1, <2>2, <2>3, <2>4, <2>6, AddedKeeps
<1>4. CASE Fails
  <2>1. TrendTypes'
    BY <1>4 DEF Fails, TrendInv, TrendTypes
  <2>2. \A r \in TrendRobots : ServedIs(r)' /\ (r \notin mixed' => IsTrendOf(saved[r], r)')
    BY <1>0, <1>4, TrendStays DEF Fails, ServedIs
  <2> QED BY <1>0, <1>4, <2>1, <2>2 DEF Fails, TrendInv
<1>5. ASSUME NEW r \in TrendRobots, Select(r) PROVE TrendInv'
  <2>1. TrendTypes'
    BY <1>0, <1>5 DEF Select, Loaded, TrendInv, TrendTypes
  <2>2. \A s \in TrendRobots : ServedIs(s)' /\ (s \notin mixed' => IsTrendOf(saved[s], s)')
    BY <1>0, <1>5, TrendStays DEF Select, ServedIs
  <2> QED BY <1>0, <1>5, <2>1, <2>2 DEF Select, Loaded, TrendInv
<1>6. CASE ReloadPage
  <2>0. robot \in TrendRobots
    BY <1>6 DEF ReloadPage, TrendInv, TrendTypes
  <2>1. TrendTypes'
    BY <1>0, <1>6, <2>0 DEF ReloadPage, Loaded, TrendInv, TrendTypes
  <2>2. \A s \in TrendRobots : ServedIs(s)' /\ (s \notin mixed' => IsTrendOf(saved[s], s)')
    BY <1>0, <1>6, TrendStays DEF ReloadPage, ServedIs
  <2> QED BY <1>0, <1>6, <2>0, <2>1, <2>2 DEF ReloadPage, Loaded, TrendInv
<1>7. CASE UNCHANGED trendVars
  <2>1. TrendTypes'
    BY <1>7 DEF trendVars, TrendInv, TrendTypes
  <2>2. \A s \in TrendRobots : ServedIs(s)' /\ (s \notin mixed' => IsTrendOf(saved[s], s)')
    BY <1>0, <1>7, TrendStays DEF trendVars, ServedIs
  <2> QED BY <1>0, <1>7, <2>1, <2>2 DEF trendVars, TrendInv
<1> QED BY <1>1, <1>2, <1>3, <1>4, <1>5, <1>6, <1>7 DEF TrendNext

\* Points that go forward ascend from each to the next.
LEMMA ForwardAscends == ASSUME NEW s \in Seq(TrendPoint), Forward(s) PROVE IsAscending(s)
<1> PICK n \in Nat : n = Len(s)
  OBVIOUS
<1>1. \A i \in 1 .. n - 1 : i \in DOMAIN s /\ i + 1 \in DOMAIN s /\ i < i + 1
  OBVIOUS
<1> QED BY <1>1 DEF Forward, IsAscending

\* The invariant says what is promised of the trends and the curve.
LEMMA TrendInvIsSound == ASSUME TrendAssumption, TrendInv PROVE TrendIsSound
<1>1. TrendsAreKept
  <2> SUFFICES ASSUME NEW r \in TrendRobots
               PROVE  /\ Len(saved[r]) <= MaxTrend
                      /\ r \notin mixed =>
                           /\ Own(saved[r], r) /\ IsAscending(saved[r])
                           /\ first[r] # 0 => saved[r] # << >> /\ saved[r][1].at = first[r]
                                                /\ Last(saved[r]) = served[r].point
    BY DEF TrendsAreKept, Own
  <2>1. saved[r] \in Seq(TrendPoint) /\ Len(saved[r]) <= MaxTrend /\ (r \notin mixed => IsTrendOf(saved[r], r))
    BY DEF TrendInv, TrendTypes
  <2> QED BY <2>1, ForwardAscends DEF IsTrendOf, Last
<1>2. ASSUME shown # NoSnap, robot \notin mixed
      PROVE  LET curve == Curve(shown, trend) IN
             /\ curve.points \in Seq(TrendPoint) /\ curve.points # << >> /\ Forward(curve.points)
             /\ curve.points[Len(curve.points)] = shown.point
             /\ curve.source = "trend" => first[robot] <= Covered
  <2>1. robot \in TrendRobots /\ shown \in Snap /\ trend \in Seq(TrendPoint)
    BY <1>2 DEF TrendInv, TrendTypes
  <2>2. trend = saved[robot] /\ shown = served[robot] /\ IsTrendOf(trend, robot) /\ ServedIs(robot)
    BY <1>2, <2>1 DEF TrendInv
  <2>3. shown.point.of = robot /\ first[robot] # 0 /\ shown.point.at \in Int
    BY <1>2, <2>1, <2>2 DEF ServedIs, Snap, TrendPoint
  <2>4. Forward(trend) /\ Own(trend, shown.point.of) /\ trend[1].at = first[robot] /\ trend[Len(trend)] = shown.point
    BY <2>2, <2>3 DEF IsTrendOf
  <2>5. trend[Len(trend)].at <= shown.point.at
    BY <2>3, <2>4
  <2>6. LET curve == Curve(shown, trend) IN
         /\ curve.points \in Seq(TrendPoint) /\ curve.points # << >> /\ Forward(curve.points)
         /\ curve.points[Len(curve.points)] = shown.point
         /\ curve.source = "trend" => trend # << >> /\ trend[1].at <= Covered
    BY <2>1, <2>4, <2>5, CurveIs
  <2> QED BY <2>4, <2>6
<1>3. CurveIsSound
  <2> SUFFICES ASSUME shown # NoSnap, robot \notin mixed
               PROVE  LET curve == Curve(shown, trend)
                          below == Drawdown(curve.points)
                      IN /\ IsAscending(curve.points) /\ Last(curve.points) = shown.point
                         /\ curve.source = "trend" => first[robot] <= Covered
                         /\ \A i \in DOMAIN below :
                              below[i] = Min({0} \cup {curve.points[i].value - v :
                                                v \in {0} \cup {curve.points[j].value : j \in 1 .. i}})
    BY DEF CurveIsSound
  <2> DEFINE points == Curve(shown, trend).points
  <2>1. points \in Seq(TrendPoint) /\ Forward(points) /\ points[Len(points)] = shown.point
    BY <1>2
  <2>4. Curve(shown, trend).source = "trend" => first[robot] <= Covered
    BY <1>2
  <2> HIDE DEF points
  <2>2. IsAscending(points) /\ Last(points) = shown.point
    BY <2>1, ForwardAscends DEF Last
  <2>3. \A i \in DOMAIN Drawdown(points) :
          Drawdown(points)[i] = Min({0} \cup {points[i].value - v : v \in {0} \cup {points[j].value : j \in 1 .. i}})
    BY <2>1, DrawdownIs
  <2> QED BY <2>2, <2>3, <2>4 DEF points
<1> QED BY <1>1, <1>3 DEF TrendIsSound

\* The trend of a robot and the curve on the page.
THEOREM TrendStaysSound == TrendSpec => []TrendIsSound
<1>1. TrendInit => TrendInv
  BY TrendAssumption, TrendStarts
<1>2. TrendInv /\ [TrendNext]_trendVars => TrendInv'
  BY TrendAssumption, TrendNextKeeps
<1>3. TrendInv => TrendIsSound
  BY TrendAssumption, TrendInvIsSound
<1> QED BY <1>1, <1>2, <1>3, PTL DEF TrendSpec

-----------------------------------------------------------------------------
(* Pages: joining and filtering sequences, cutting them into pages, and    *)
(* the rows in view; then the invariant of the two tables.                 *)

\* What the ledger sorts is the history of the fills.

\* Joining in two ways comes to the same.
LEMMA JoinedTwice == ASSUME NEW S, NEW a \in Seq(S), NEW b \in Seq(S), NEW c \in Seq(S)
  PROVE  (a \o b) \o c = a \o (b \o c)
OBVIOUS

\* Nothing, before or after a sequence, adds nothing.
LEMMA JoinedEmpty == ASSUME NEW S, NEW a \in Seq(S) PROVE << >> \o a = a /\ a \o << >> = a
OBVIOUS

\* What the first sequences of s come to.
IsFlat(f, s, n) == f[0] = << >> /\ \A i \in 1 .. n : f[i] = f[i - 1] \o s[i]

\* Joining one after the other can be followed step by step.
LEMMA FlatExists ==
  ASSUME NEW S, NEW s \in Seq(Seq(S))
  PROVE  \E f : IsFlat(f, s, Len(s)) /\ \A i \in 0 .. Len(s) : f[i] \in Seq(S)
<1> PICK n \in Nat : n = Len(s)
  OBVIOUS
<1>0. \A i \in 1 .. n : s[i] \in Seq(S)
  OBVIOUS
<1> DEFINE P == {m \in Nat : m <= n => \E f : IsFlat(f, s, m) /\ \A i \in 0 .. m : f[i] \in Seq(S)}
<1>1. 0 \in P
  <2> PICK f : f = [i \in {0} |-> << >>]
    OBVIOUS
  <2>1. f[0] = << >> /\ << >> \in Seq(S)
    OBVIOUS
  <2>2. \A i \in 0 .. 0 : i = 0
    OBVIOUS
  <2>3. \A i : i \notin 1 .. 0
    OBVIOUS
  <2>4. IsFlat(f, s, 0) /\ \A i \in 0 .. 0 : f[i] \in Seq(S)
    BY <2>1, <2>2, <2>3 DEF IsFlat
  <2> QED BY <2>4
<1>2. ASSUME NEW m \in Nat, m \in P PROVE m + 1 \in P
  <2> PICK k \in Nat : k = m + 1
    OBVIOUS
  <2> SUFFICES ASSUME k <= n PROVE \E f : IsFlat(f, s, k) /\ \A i \in 0 .. k : f[i] \in Seq(S)
    OBVIOUS
  <2>1. PICK g : IsFlat(g, s, m) /\ \A i \in 0 .. m : g[i] \in Seq(S)
    BY <1>2
  <2> PICK f : f = [i \in 0 .. k |-> IF i = k THEN g[m] \o s[k] ELSE g[i]]
    OBVIOUS
  <2>2. \A i \in 0 .. m : i \in 0 .. k /\ i # k /\ f[i] = g[i]
    OBVIOUS
  <2>3. f[k] = g[m] \o s[k] /\ s[k] \in Seq(S) /\ g[m] \in Seq(S) /\ m \in 0 .. m
    <3>1. k \in 0 .. k /\ k \in 1 .. n /\ m \in 0 .. m
      OBVIOUS
    <3> QED BY <3>1, <2>1, <1>0
  <2>4. \A i \in 0 .. k : i = k \/ i \in 0 .. m
    OBVIOUS
  <2>5. \A i \in 0 .. k : f[i] \in Seq(S)
    <3>1. f[k] \in Seq(S)
      BY <2>3, Joined
    <3> QED BY <2>1, <2>2, <2>4, <3>1
  <2>6. IsFlat(f, s, k)
    <3>1. f[0] = << >>
      BY <2>1, <2>2 DEF IsFlat
    <3>2. ASSUME NEW i \in 1 .. k PROVE f[i] = f[i - 1] \o s[i]
      <4>1. CASE i = k
        <5>1. i - 1 = m
          BY <4>1
        <5> QED BY <4>1, <5>1, <2>2, <2>3
      <4>2. CASE i # k
        <5>1. i \in 1 .. m /\ i \in 0 .. m /\ i - 1 \in 0 .. m
          BY <4>2
        <5> QED BY <5>1, <2>1, <2>2 DEF IsFlat
      <4> QED BY <4>1, <4>2
    <3> QED BY <3>1, <3>2 DEF IsFlat
  <2> QED BY <2>5, <2>6
<1>3. n \in P
  <2> HIDE DEF P
  <2> QED BY <1>1, <1>2, NatInduct
<1> QED BY <1>3

Flattens(F, s, n) == F = [i \in 1 .. n |-> IF i = 1 THEN s[i] ELSE F[i - 1] \o s[i]]

\* What FlattenSeq's own function is at each of its steps.
LEMMA FlattensAt == ASSUME NEW F, NEW s, NEW n \in Nat, Flattens(F, s, n), NEW i \in 1 .. n
  PROVE  F[i] = IF i = 1 THEN s[i] ELSE F[i - 1] \o s[i]
BY DEF Flattens

\* Whatever joins one after the other ends with what FlattenSeq gives.
LEMMA FlattenBy ==
  ASSUME NEW S, NEW s \in Seq(Seq(S)), NEW f, IsFlat(f, s, Len(s))
  PROVE  FlattenSeq(s) = f[Len(s)]
<1> PICK n \in Nat : n = Len(s)
  OBVIOUS
<1>0. IsFlat(f, s, n) /\ \A i \in 1 .. n : s[i] \in Seq(S)
  OBVIOUS
<1>1. CASE s = << >>
  <2>1. n = 0
    BY <1>1
  <2>2. FlattenSeq(s) = s
    BY <1>1 DEF FlattenSeq
  <2> QED BY <1>1, <2>1, <2>2 DEF IsFlat
<1>2. CASE s # << >>
  <2>0. n # 0
    BY <1>2
  <2>1. FlattenSeq(s) = (CHOOSE F : Flattens(F, s, Len(s)))[Len(s)]
    BY <2>0 DEF FlattenSeq, Flattens
  <2> PICK F : F = CHOOSE G : Flattens(G, s, Len(s))
    OBVIOUS
  <2>2. Flattens(F, s, n)
    <3> PICK G : G = [i \in 1 .. n |-> f[i]]
      OBVIOUS
    <3>1. \A i \in 1 .. n : G[i] = IF i = 1 THEN s[i] ELSE G[i - 1] \o s[i]
      <4> SUFFICES ASSUME NEW i \in 1 .. n PROVE G[i] = IF i = 1 THEN s[i] ELSE G[i - 1] \o s[i]
        OBVIOUS
      <4>1. G[i] = f[i - 1] \o s[i] /\ s[i] \in Seq(S)
        BY <1>0 DEF IsFlat
      <4>2. CASE i = 1
        <5>1. f[i - 1] = << >>
          BY <4>2 DEF IsFlat
        <5> QED BY <4>1, <4>2, <5>1, JoinedEmpty
      <4>3. CASE i # 1
        <5>1. i - 1 \in 1 .. n
          BY <4>3
        <5> QED BY <4>1, <4>3, <5>1
      <4> QED BY <4>2, <4>3
    <3>2. Flattens(G, s, n)
      <4>1. G = [i \in 1 .. n |-> G[i]]
        OBVIOUS
      <4> QED BY <3>1, <4>1 DEF Flattens
    <3> QED BY <3>2
  <2> DEFINE P == {m \in Nat : m <= n /\ m # 0 => F[m] = f[m]}
  <2>3. 0 \in P
    OBVIOUS
  <2>4. ASSUME NEW m \in Nat, m \in P PROVE m + 1 \in P
    <3> PICK k \in Nat : k = m + 1
      OBVIOUS
    <3> SUFFICES ASSUME k <= n PROVE F[k] = f[k]
      OBVIOUS
    <3>1. k \in 1 .. n /\ k - 1 = m
      OBVIOUS
    <3>2. F[k] = IF k = 1 THEN s[k] ELSE F[m] \o s[k]
      BY <2>2, <3>1, FlattensAt
    <3>3. f[k] = f[m] \o s[k]
      BY <3>1 DEF IsFlat
    <3>4. CASE k = 1
      <4>1. m = 0 /\ s[k] \in Seq(S) /\ f[0] = << >>
        BY <3>4, <3>1 DEF IsFlat
      <4> QED BY <3>2, <3>3, <3>4, <4>1, JoinedEmpty
    <3>5. CASE k # 1
      <4>1. m # 0 /\ m <= n
        BY <3>5
      <4>2. F[m] = f[m]
        BY <4>1, <2>4
      <4> QED BY <3>2, <3>3, <3>5, <4>2
    <3> QED BY <3>4, <3>5
  <2>5. n \in P
    <3> HIDE DEF P
    <3> QED BY <2>3, <2>4, NatInduct
  <2> QED BY <2>0, <2>1, <2>5
<1> QED BY <1>1, <1>2

\* The elements of the sequences joined are those of the sequences.
LEMMA FlattenType == ASSUME NEW S, NEW s \in Seq(Seq(S)) PROVE FlattenSeq(s) \in Seq(S)
<1>1. PICK f : IsFlat(f, s, Len(s)) /\ \A i \in 0 .. Len(s) : f[i] \in Seq(S)
  BY FlatExists
<1>2. FlattenSeq(s) = f[Len(s)]
  BY <1>1, FlattenBy
<1>3. Len(s) \in 0 .. Len(s)
  OBVIOUS
<1> QED BY <1>1, <1>2, <1>3

\* Sequences of one length with the same elements are the same.
LEMMA SeqsEqual ==
  ASSUME NEW S, NEW a \in Seq(S), NEW b \in Seq(S), Len(a) = Len(b), \A k \in 1 .. Len(a) : a[k] = b[k]
  PROVE  a = b
<1>1. a = [k \in 1 .. Len(a) |-> a[k]] /\ b = [k \in 1 .. Len(a) |-> b[k]]
  OBVIOUS
<1> QED BY <1>1

Joining(a, b) == a \o b

\* The same of Joining, for steps in which \o would be expanded.
LEMMA Reassociated ==
  ASSUME NEW S, NEW a \in Seq(S), NEW b \in Seq(S), NEW c \in Seq(S)
  PROVE  Joining(Joining(a, b), c) = Joining(a, Joining(b, c))
BY JoinedTwice DEF Joining

\* The sequences of two sequences, one after the other.
LEMMA FlattenJoin ==
  ASSUME NEW S, NEW a \in Seq(Seq(S)), NEW b \in Seq(Seq(S))
  PROVE  FlattenSeq(a \o b) = FlattenSeq(a) \o FlattenSeq(b)
<1> PICK m \in Nat, n \in Nat : m = Len(a) /\ n = Len(b)
  OBVIOUS
<1> PICK f : IsFlat(f, a, m) /\ \A i \in 0 .. m : f[i] \in Seq(S)
  BY FlatExists
<1> PICK g : IsFlat(g, b, n) /\ \A i \in 0 .. n : g[i] \in Seq(S)
  BY FlatExists
<1> PICK h : h = [i \in 0 .. m + n |-> IF i <= m THEN f[i] ELSE f[m] \o g[i - m]]
  OBVIOUS
<1> PICK c : c = a \o b
  OBVIOUS
<1>1. c \in Seq(Seq(S)) /\ Len(c) = m + n /\ (\A k \in 1 .. m : c[k] = a[k]) /\ \A k \in 1 .. n : c[m + k] = b[k]
  BY Joined
<1>2. \A i \in 0 .. m : h[i] = f[i]
  <2>1. \A i \in 0 .. m : i \in 0 .. m + n /\ i <= m
    OBVIOUS
  <2> QED BY <2>1
<1>3. \A i \in 0 .. n : h[m + i] = f[m] \o g[i]
  <2> SUFFICES ASSUME NEW i \in 0 .. n PROVE h[m + i] = f[m] \o g[i]
    OBVIOUS
  <2>1. m \in 0 .. m /\ m + i \in 0 .. m + n /\ (m + i) - m = i
    OBVIOUS
  <2>2. CASE i = 0
    <3>1. h[m + i] = f[m] /\ g[i] = << >> /\ f[m] \in Seq(S)
      BY <1>2, <2>1, <2>2 DEF IsFlat
    <3> QED BY <3>1, JoinedEmpty
  <2>3. CASE i # 0
    <3>1. ~(m + i <= m)
      BY <2>3
    <3> QED BY <2>1, <3>1
  <2> QED BY <2>2, <2>3
<1>4. IsFlat(h, c, m + n)
  <2>1. h[0] = << >>
    <3>1. 0 \in 0 .. m
      OBVIOUS
    <3> QED BY <3>1, <1>2 DEF IsFlat
  <2>2. ASSUME NEW i \in 1 .. m + n PROVE h[i] = h[i - 1] \o c[i]
    <3>1. CASE i \in 1 .. m
      <4>1. i \in 0 .. m /\ i - 1 \in 0 .. m
        BY <3>1
      <4>2. f[i] = f[i - 1] \o a[i]
        BY <3>1 DEF IsFlat
      <4> QED BY <4>1, <4>2, <1>1, <1>2, <3>1
    <3>2. CASE i \notin 1 .. m
      <4>0. i - m \in Nat /\ (i - m) - 1 \in Nat
        BY <3>2
      <4> PICK k \in Nat : k = i - m
        BY <4>0
      <4> PICK j \in Nat : j = k - 1
        BY <4>0
      <4>1. k \in 1 .. n /\ k \in 0 .. n /\ j \in 0 .. n /\ i = m + k /\ i - 1 = m + j /\ k - 1 = j /\ m \in 0 .. m
        BY <3>2
      <4>2. g[k] = g[j] \o b[k]
        BY <4>1 DEF IsFlat
      <4>3. h[i] = f[m] \o g[k] /\ h[i - 1] = f[m] \o g[j] /\ c[i] = b[k]
        BY <4>1, <1>1, <1>3
      <4>4. f[m] \in Seq(S) /\ g[j] \in Seq(S) /\ b[k] \in Seq(S)
        BY <4>1
      <4>5. Joining(Joining(f[m], g[j]), b[k]) = Joining(f[m], Joining(g[j], b[k]))
        BY <4>4, Reassociated
      <4>6. g[k] = Joining(g[j], b[k]) /\ h[i] = Joining(f[m], g[k]) /\ h[i - 1] = Joining(f[m], g[j])
        BY <4>2, <4>3 DEF Joining
      <4>7. h[i] = Joining(h[i - 1], c[i])
        BY <4>3, <4>5, <4>6
      <4> QED BY <4>7 DEF Joining
    <3> QED BY <3>1, <3>2
  <2> QED BY <2>1, <2>2 DEF IsFlat
<1>5. FlattenSeq(c) = h[m + n] /\ FlattenSeq(a) = f[m] /\ FlattenSeq(b) = g[n]
  <2>1. IsFlat(h, c, Len(c)) /\ IsFlat(f, a, Len(a)) /\ IsFlat(g, b, Len(b))
    BY <1>1, <1>4
  <2>2. FlattenSeq(c) = h[Len(c)]
    BY <1>1, <2>1, FlattenBy
  <2>3. FlattenSeq(a) = f[Len(a)]
    BY <2>1, FlattenBy
  <2>4. FlattenSeq(b) = g[Len(b)]
    BY <2>1, FlattenBy
  <2> QED BY <1>1, <2>2, <2>3, <2>4
<1>6. n \in 0 .. n
  OBVIOUS
<1> QED BY <1>3, <1>5, <1>6

\* A filter of rows, by a set of those that it lets through.
RowsLet(rows, f) == [i \in DOMAIN rows |-> IF LetsThrough(f, rows[i]) THEN <<rows[i]>> ELSE << >>]

\* A filter goes through two sequences one after the other.
LEMMA FilteredJoin ==
  ASSUME NEW S, NEW a \in Seq(S), NEW b \in Seq(S), NEW f
  PROVE  Filtered(Joining(a, b), f) = Joining(Filtered(a, f), Filtered(b, f)) /\ Filtered(a, f) \in Seq(S) /\ Filtered(<< >>, f) = << >>
<1>1. ASSUME NEW s \in Seq(S) PROVE RowsLet(s, f) \in Seq(Seq(S)) /\ Len(RowsLet(s, f)) = Len(s)
  <2>1. \A i \in DOMAIN s : (IF LetsThrough(f, s[i]) THEN <<s[i]>> ELSE << >>) \in Seq(S)
    OBVIOUS
  <2> PICK n \in Nat : n = Len(s)
    OBVIOUS
  <2>2. RowsLet(s, f) \in [1 .. n -> Seq(S)]
    BY <2>1 DEF RowsLet
  <2> QED BY <2>2
<1>2. RowsLet(a \o b, f) = RowsLet(a, f) \o RowsLet(b, f)
  <2> PICK m \in Nat, n \in Nat : m = Len(a) /\ n = Len(b)
    OBVIOUS
  <2> PICK c : c = a \o b
    OBVIOUS
  <2>1. c \in Seq(S) /\ Len(c) = m + n /\ (\A k \in 1 .. m : c[k] = a[k]) /\ \A k \in 1 .. n : c[m + k] = b[k]
    BY Joined
  <2> PICK x, y, z : x = RowsLet(a, f) /\ y = RowsLet(b, f) /\ z = RowsLet(c, f)
    OBVIOUS
  <2>2. x \in Seq(Seq(S)) /\ y \in Seq(Seq(S)) /\ z \in Seq(Seq(S)) /\ Len(x) = m /\ Len(y) = n /\ Len(z) = m + n
    BY <1>1, <2>1
  <2>3. /\ x \o y \in Seq(Seq(S)) /\ Len(x \o y) = m + n
        /\ (\A k \in 1 .. m : (x \o y)[k] = x[k]) /\ \A k \in 1 .. n : (x \o y)[m + k] = y[k]
    <3>1. /\ x \o y \in Seq(Seq(S)) /\ Len(x \o y) = Len(x) + Len(y)
          /\ (\A k \in 1 .. Len(x) : (x \o y)[k] = x[k]) /\ \A k \in 1 .. Len(y) : (x \o y)[Len(x) + k] = y[k]
      <4> PICK T : T = Seq(S)
        OBVIOUS
      <4>1. x \in Seq(T) /\ y \in Seq(T)
        BY <2>2
      <4>2. /\ x \o y \in Seq(T) /\ Len(x \o y) = Len(x) + Len(y)
            /\ (\A k \in 1 .. Len(x) : (x \o y)[k] = x[k]) /\ \A k \in 1 .. Len(y) : (x \o y)[Len(x) + k] = y[k]
        BY <4>1, Joined
      <4> QED BY <4>2
    <3> QED BY <2>2, <3>1
  <2>4. \A k \in 1 .. m + n : z[k] = (x \o y)[k]
    <3> SUFFICES ASSUME NEW k \in 1 .. m + n PROVE z[k] = (x \o y)[k]
      OBVIOUS
    <3>1. z[k] = IF LetsThrough(f, c[k]) THEN <<c[k]>> ELSE << >>
      BY <2>1 DEF RowsLet
    <3>2. CASE k \in 1 .. m
      <4>1. x[k] = IF LetsThrough(f, a[k]) THEN <<a[k]>> ELSE << >>
        BY <3>2 DEF RowsLet
      <4> QED BY <3>1, <3>2, <4>1, <2>1, <2>3
    <3>3. CASE k \notin 1 .. m
      <4> PICK j \in 1 .. n : k = m + j
        <5>1. k - m \in 1 .. n /\ k = m + (k - m)
          BY <3>3
        <5> QED BY <5>1
      <4>1. y[j] = IF LetsThrough(f, b[j]) THEN <<b[j]>> ELSE << >>
        BY DEF RowsLet
      <4>2. c[k] = b[j] /\ (x \o y)[k] = y[j]
        BY <2>1, <2>3
      <4> QED BY <3>1, <4>1, <4>2
    <3> QED BY <3>2, <3>3
  <2>5. z = x \o y
    <3> PICK w : w = x \o y
      OBVIOUS
    <3>1. w \in Seq(Seq(S)) /\ Len(w) = m + n /\ \A k \in 1 .. m + n : z[k] = w[k]
      BY <2>3, <2>4
    <3>2. z = w
      BY <2>2, <3>1, SeqsEqual
    <3> QED BY <3>2
  <2> QED BY <2>5
<1>3. ASSUME NEW s PROVE Filtered(s, f) = FlattenSeq(RowsLet(s, f))
  BY DEF Filtered, RowsLet
<1>4. Filtered(a \o b, f) = Filtered(a, f) \o Filtered(b, f)
  <2>1. FlattenSeq(RowsLet(a, f) \o RowsLet(b, f)) = FlattenSeq(RowsLet(a, f)) \o FlattenSeq(RowsLet(b, f))
    BY <1>1, FlattenJoin
  <2>2. /\ Filtered(a \o b, f) = FlattenSeq(RowsLet(a \o b, f))
        /\ Filtered(a, f) = FlattenSeq(RowsLet(a, f)) /\ Filtered(b, f) = FlattenSeq(RowsLet(b, f))
    BY <1>3
  <2> QED BY <1>2, <2>1, <2>2
<1>5. Filtered(a, f) \in Seq(S)
  BY <1>1, <1>3, FlattenType
<1>6. Filtered(<< >>, f) = << >>
  BY DEF Filtered, FlattenSeq
<1> QED BY <1>4, <1>5, <1>6 DEF Joining

\* Division with its remainder.
LEMMA Quotients ==
  ASSUME NEW a \in Nat, NEW b \in Nat, b > 0
  PROVE  /\ a \div b \in Nat /\ a % b \in Nat
         /\ a = b * (a \div b) + (a % b) /\ a % b < b
OBVIOUS

\* More of a positive number is more.
LEMMA Multiples ==
  ASSUME NEW b \in Nat, NEW p \in Int, NEW q \in Int, p <= q
  PROVE  p * b <= q * b /\ p * b \in Int /\ q * b \in Int
OBVIOUS

\* The pages hold everything, and none of them is empty if there is anything.
LEMMA PageCountIs ==
  ASSUME NEW count \in Nat, NEW size \in Nat, size > 0
  PROVE  LET p == PageCount(count, size) IN
         /\ p \in Nat /\ p >= 1 /\ count <= p * size
         /\ count # 0 => (p - 1) * size < count
         /\ count = 0 => p = 1
<1> PICK a \in Nat : a = count + size - 1
  OBVIOUS
<1> PICK q \in Nat, r \in Nat : q = a \div size /\ r = a % size
  BY Quotients
<1>1. a = size * q + r /\ r < size
  BY Quotients
<1>2. PageCount(count, size) = Max({1, q})
  BY DEF PageCount
<1> PICK B : B = {1, q}
  OBVIOUS
<1>3. CASE q = 0
  <2>1. 1 \in B /\ \A y \in B : y \in Int /\ y <= 1
    BY <1>3
  <2>2. Max(B) = 1
    BY <2>1, MaxIs
  <2>3. size * q = 0
    BY <1>3
  <2>4. count = 0
    BY <1>1, <2>3
  <2>5. 1 * size = size
    OBVIOUS
  <2> QED BY <1>2, <2>2, <2>4, <2>5
<1>4. CASE q # 0
  <2>1. q \in B /\ \A y \in B : y \in Int /\ y <= q
    BY <1>4
  <2>2. Max(B) = q
    BY <2>1, MaxIs
  <2> PICK m \in Int : m = size * q
    OBVIOUS
  <2>3. q * size = m /\ (q - 1) * size = m - size
    OBVIOUS
  <2>5. count <= m
    BY <1>1
  <2>6. count = 0 => q = 1
    <3> SUFFICES ASSUME count = 0 PROVE q = 1
      OBVIOUS
    <3>1. m < size
      BY <1>1
    <3>2. q >= 1 => size * 1 <= size * q
      BY Multiples
    <3> QED BY <3>1, <3>2, <1>4
  <2>7. count # 0 => m - size < count
    BY <1>1
  <2> QED BY <1>2, <1>4, <2>2, <2>3, <2>5, <2>6, <2>7
<1> QED BY <1>3, <1>4

\* A longer head of a sequence is a shorter one and what follows.
LEMMA HeadGrows ==
  ASSUME NEW S, NEW s \in Seq(S), NEW a \in Nat, NEW b \in Nat, a <= b, b <= Len(s)
  PROVE  SubSeq(s, 1, b) = SubSeq(s, 1, a) \o SubSeq(s, a + 1, b) /\ SubSeq(s, 1, a) \in Seq(S) /\ SubSeq(s, a + 1, b) \in Seq(S)
<1> PICK n \in Nat : n = Len(s)
  OBVIOUS
<1> PICK d \in Nat : d = b - a
  OBVIOUS
<1> PICK x, y, z : x = SubSeq(s, 1, a) /\ y = SubSeq(s, a + 1, b) /\ z = SubSeq(s, 1, b)
  OBVIOUS
<1>1. x \in Seq(S) /\ Len(x) = a /\ \A k \in 1 .. a : x[k] = s[k]
  OBVIOUS
<1>2. z \in Seq(S) /\ Len(z) = b /\ \A k \in 1 .. b : z[k] = s[k]
  OBVIOUS
<1>3. y \in Seq(S) /\ Len(y) = d /\ \A k \in 1 .. d : y[k] = s[a + k]
  <2> PICK e \in Nat : e = a + 1
    OBVIOUS
  <2>1. \A k \in 1 .. d : (e + k) - 1 = a + k /\ a + k \in 1 .. n
    OBVIOUS
  <2>2. y = SubSeq(s, e, b) /\ (b - e) + 1 = d
    OBVIOUS
  <2>3. y \in Seq(S) /\ Len(y) = d /\ \A k \in 1 .. d : y[k] = s[(e + k) - 1]
    BY <2>1, <2>2
  <2> QED BY <2>1, <2>3
<1>4. /\ x \o y \in Seq(S) /\ Len(x \o y) = a + d
      /\ (\A k \in 1 .. a : (x \o y)[k] = x[k]) /\ \A k \in 1 .. d : (x \o y)[a + k] = y[k]
  <2>1. /\ x \o y \in Seq(S) /\ Len(x \o y) = Len(x) + Len(y)
        /\ (\A k \in 1 .. Len(x) : (x \o y)[k] = x[k]) /\ \A k \in 1 .. Len(y) : (x \o y)[Len(x) + k] = y[k]
    BY <1>1, <1>3, Joined
  <2> QED BY <2>1, <1>1, <1>3
<1>5. ASSUME NEW k \in 1 .. b PROVE z[k] = (x \o y)[k]
  <2>1. CASE k \in 1 .. a
    BY <2>1, <1>1, <1>2, <1>4
  <2>2. CASE k \notin 1 .. a
    <3> PICK j \in 1 .. d : k = a + j
      <4>1. k - a \in 1 .. d /\ k = a + (k - a)
        BY <2>2
      <4> QED BY <4>1
    <3> QED BY <1>2, <1>3, <1>4
  <2> QED BY <2>1, <2>2
<1>6. a + d = b
  OBVIOUS
<1>7. z = x \o y
  <2> PICK w : w = x \o y
    OBVIOUS
  <2>1. w \in Seq(S) /\ Len(w) = b /\ \A k \in 1 .. b : z[k] = w[k]
    BY <1>4, <1>5, <1>6
  <2>2. z = w
    BY <1>2, <2>1, SeqsEqual
  <2> QED BY <2>2
<1> QED BY <1>1, <1>3, <1>7

Lesser(a, b) == Min({a, b})
Greater(a, b) == Max({a, b})

\* The smaller of two numbers, and the larger.
LEMMA LesserIs == ASSUME NEW a \in Int, NEW b \in Int
  PROVE  /\ Lesser(a, b) \in Int /\ Lesser(a, b) <= a /\ Lesser(a, b) <= b
         /\ Lesser(a, b) = IF a <= b THEN a ELSE b
<1> PICK B : B = {a, b}
  OBVIOUS
<1>1. CASE a <= b
  <2>1. a \in B /\ \A y \in B : y \in Int /\ a <= y
    BY <1>1
  <2>2. Min(B) = a
    BY <2>1, MinIs
  <2> QED BY <1>1, <2>2 DEF Lesser
<1>2. CASE ~(a <= b)
  <2>1. b \in B /\ \A y \in B : y \in Int /\ b <= y
    BY <1>2
  <2>2. Min(B) = b
    BY <2>1, MinIs
  <2> QED BY <1>2, <2>2 DEF Lesser
<1> QED BY <1>1, <1>2 DEF Lesser

\* The larger of two numbers.
LEMMA GreaterIs == ASSUME NEW a \in Int, NEW b \in Int
  PROVE  /\ Greater(a, b) \in Int /\ a <= Greater(a, b) /\ b <= Greater(a, b)
         /\ Greater(a, b) = IF a <= b THEN b ELSE a
<1> PICK B : B = {a, b}
  OBVIOUS
<1>1. CASE a <= b
  <2>1. b \in B /\ \A y \in B : y \in Int /\ y <= b
    BY <1>1
  <2>2. Max(B) = b
    BY <2>1, MaxIs
  <2> QED BY <1>1, <2>2 DEF Greater
<1>2. CASE ~(a <= b)
  <2>1. a \in B /\ \A y \in B : y \in Int /\ y <= a
    BY <1>2
  <2>2. Max(B) = a
    BY <2>1, MaxIs
  <2> QED BY <1>2, <2>2 DEF Greater
<1> QED BY <1>1, <1>2 DEF Greater

\* A sequence with a length is not empty.
LEMMA SomeLength == ASSUME NEW y, NEW d, Len(y) = d, d # 0 PROVE y # << >>
<1>1. Len(<< >>) = 0
  OBVIOUS
<1> QED BY <1>1

\* HeadGrows, of Joining.
LEMMA HeadJoins ==
  ASSUME NEW S, NEW s \in Seq(S), NEW a \in Nat, NEW b \in Nat, a <= b, b <= Len(s)
  PROVE  SubSeq(s, 1, b) = Joining(SubSeq(s, 1, a), SubSeq(s, a + 1, b))
         /\ SubSeq(s, 1, a) \in Seq(S) /\ SubSeq(s, a + 1, b) \in Seq(S)
BY HeadGrows DEF Joining

\* The rows up to the end of a page.
HeadTo(rows, page, size) == SubSeq(rows, 1, Lesser(page * size, Len(rows)))

\* A page goes on where the one before it ended, and has a row if there is one.
LEMMA PageGoesOn ==
  ASSUME NEW S, NEW rows \in Seq(S), NEW size \in Nat, size > 0,
         NEW page \in Nat, page >= 1, page <= PageCount(Len(rows), size)
  PROVE  /\ HeadTo(rows, page, size) = HeadTo(rows, page - 1, size) \o Slice(rows, page, size)
         /\ HeadTo(rows, page - 1, size) \in Seq(S) /\ Slice(rows, page, size) \in Seq(S)
         /\ rows # << >> => Slice(rows, page, size) # << >>
<1>0. \A i \in Nat, j \in Nat : i <= j /\ j <= Len(rows) =>
        /\ SubSeq(rows, 1, j) = Joining(SubSeq(rows, 1, i), SubSeq(rows, i + 1, j))
        /\ SubSeq(rows, 1, i) \in Seq(S) /\ SubSeq(rows, i + 1, j) \in Seq(S)
  BY HeadJoins
<1> PICK n \in Nat : n = Len(rows)
  OBVIOUS
<1> PICK P \in Nat : P = PageCount(n, size)
  BY PageCountIs
<1>1. P >= 1 /\ (n # 0 => (P - 1) * size < n) /\ (n = 0 => P = 1)
  <2>1. LET p == PageCount(n, size) IN
         /\ p \in Nat /\ p >= 1 /\ n <= p * size
         /\ n # 0 => (p - 1) * size < n
         /\ n = 0 => p = 1
    BY PageCountIs
  <2> QED BY <2>1
<1> PICK o \in Nat : o = page - 1
  OBVIOUS
<1> PICK a \in Nat : a = o * size
  <2>1. 0 * size <= o * size /\ o * size \in Int /\ 0 * size = 0
    BY Multiples
  <2> QED BY <2>1
<1> PICK e \in Int : e = page * size
  <2>1. page * size \in Int
    OBVIOUS
  <2> QED BY <2>1
<1>2. a <= n /\ (n # 0 => a < n) /\ a <= e /\ (n # 0 => a < e)
  <2>0. page = o + 1 /\ page * size = o * size + size
    OBVIOUS
  <2>1. e = a + size
    BY <2>0
  <2>2. CASE n = 0
    <3>1. o = 0 /\ 0 * size = 0
      BY <2>2, <1>1
    <3> QED BY <2>1, <2>2, <3>1
  <2>3. CASE n # 0
    <3>1. o <= P - 1 /\ P - 1 \in Int
      OBVIOUS
    <3>2. o * size <= (P - 1) * size /\ (P - 1) * size \in Int
      BY <3>1, Multiples
    <3> PICK w \in Int : w = (P - 1) * size
      BY <3>2
    <3>3. a <= w /\ w < n
      BY <3>2, <1>1, <2>3
    <3> QED BY <3>3, <2>1
  <2> QED BY <2>2, <2>3
<1> PICK b \in Int : b = Lesser(e, n)
  BY LesserIs
<1>3. b \in Nat /\ a <= b /\ b <= n /\ (n # 0 => a < b)
  <2>0. \A x \in Int, y \in Int : Lesser(x, y) = IF x <= y THEN x ELSE y
    BY LesserIs
  <2>1. b = IF e <= n THEN e ELSE n
    BY <2>0
  <2> QED BY <2>1, <1>2
<1>4. Lesser(a, n) = a
  BY <1>2, LesserIs
<1>5. /\ HeadTo(rows, page, size) = SubSeq(rows, 1, b) /\ HeadTo(rows, page - 1, size) = SubSeq(rows, 1, a)
      /\ Slice(rows, page, size) = SubSeq(rows, a + 1, b)
  BY <1>4 DEF HeadTo, Slice, Lesser
<1>6. SubSeq(rows, 1, b) = Joining(SubSeq(rows, 1, a), SubSeq(rows, a + 1, b)) /\ SubSeq(rows, 1, a) \in Seq(S) /\ SubSeq(rows, a + 1, b) \in Seq(S)
  <2>1. b <= Len(rows)
    BY <1>3
  <2> QED BY <1>0, <1>3, <2>1
<1>7. ASSUME n # 0 PROVE SubSeq(rows, a + 1, b) # << >>
  <2>1. a < b
    BY <1>3, <1>7
  <2> PICK d \in Nat : d = (b - (a + 1)) + 1 /\ d >= 1
    BY <2>1, <1>3
  <2> PICK y : y = SubSeq(rows, a + 1, b)
    OBVIOUS
  <2>2. Len(y) = d
    BY <1>3, <2>1
  <2>3. d # 0
    OBVIOUS
  <2>4. y # << >>
    BY <2>2, <2>3, SomeLength
  <2> QED BY <2>4
<1>8. rows # << >> => n # 0
  OBVIOUS
<1> QED BY <1>5, <1>6, <1>7, <1>8 DEF Joining

\* Before the first page there is nothing; up to the last one there is everything.
LEMMA HeadsBegin ==
  ASSUME NEW S, NEW rows \in Seq(S), NEW size \in Nat, size > 0
  PROVE  HeadTo(rows, 0, size) = << >> /\ HeadTo(rows, PageCount(Len(rows), size), size) = rows
<1> PICK n \in Nat : n = Len(rows)
  OBVIOUS
<1> PICK P \in Nat : P = PageCount(n, size)
  BY PageCountIs
<1>1. n <= P * size
  <2>1. LET p == PageCount(n, size) IN
         /\ p \in Nat /\ p >= 1 /\ n <= p * size
         /\ n # 0 => (p - 1) * size < n
         /\ n = 0 => p = 1
    BY PageCountIs
  <2> QED BY <2>1
<1> PICK e \in Int : e = P * size
  <2>1. P * size \in Int
    OBVIOUS
  <2> QED BY <2>1
<1>2. Lesser(e, n) = n
  <2>0. \A x \in Int, y \in Int : Lesser(x, y) = IF x <= y THEN x ELSE y
    BY LesserIs
  <2>1. Lesser(e, n) = IF e <= n THEN e ELSE n
    BY <2>0
  <2>2. n <= e
    BY <1>1
  <2> QED BY <2>1, <2>2
<1>3. 0 * size = 0 /\ Lesser(0, n) = 0
  <2>1. Lesser(0, n) = IF 0 <= n THEN 0 ELSE n
    BY LesserIs
  <2> QED BY <2>1
<1>4. SubSeq(rows, 1, n) = rows
  <2> PICK z : z = SubSeq(rows, 1, n)
    OBVIOUS
  <2>1. z \in Seq(S) /\ Len(z) = n /\ \A k \in 1 .. n : z[k] = rows[k]
    OBVIOUS
  <2>2. z = rows
    BY <2>1, SeqsEqual
  <2> QED BY <2>2
<1>5. SubSeq(rows, 1, 0) = << >>
  OBVIOUS
<1> QED BY <1>2, <1>3, <1>4, <1>5 DEF HeadTo

\* The pages together are what they are cut from.
LEMMA PagesMakeAll ==
  ASSUME NEW S, NEW rows \in Seq(S), NEW size \in Nat, size > 0
  PROVE  FlattenSeq([p \in 1 .. PageCount(Len(rows), size) |-> Slice(rows, p, size)]) = rows
<1> PICK n \in Nat : n = Len(rows)
  OBVIOUS
<1> PICK P \in Nat : P = PageCount(n, size)
  BY PageCountIs
<1> PICK s : s = [p \in 1 .. P |-> Slice(rows, p, size)]
  OBVIOUS
<1> PICK h : h = [p \in 0 .. P |-> HeadTo(rows, p, size)]
  OBVIOUS
<1>1. \A p \in 1 .. P : HeadTo(rows, p, size) = HeadTo(rows, p - 1, size) \o Slice(rows, p, size) /\ Slice(rows, p, size) \in Seq(S)
  BY PageGoesOn
<1>2. s \in Seq(Seq(S)) /\ Len(s) = P
  <2> PICK T : T = Seq(S)
    OBVIOUS
  <2>1. s \in [1 .. P -> T]
    BY <1>1
  <2>2. s \in Seq(T) /\ Len(s) = P
    BY <2>1
  <2> QED BY <2>2
<1>3. IsFlat(h, s, P)
  <2>1. h[0] = << >>
    BY HeadsBegin
  <2>2. ASSUME NEW p \in 1 .. P PROVE h[p] = h[p - 1] \o s[p]
    <3>1. p \in 0 .. P /\ p - 1 \in 0 .. P
      OBVIOUS
    <3>2. h[p] = HeadTo(rows, p, size) /\ h[p - 1] = HeadTo(rows, p - 1, size) /\ s[p] = Slice(rows, p, size)
      BY <3>1
    <3> QED BY <3>2, <1>1
  <2> QED BY <2>1, <2>2 DEF IsFlat
<1>4. FlattenSeq(s) = h[P]
  <2>1. IsFlat(h, s, Len(s))
    BY <1>2, <1>3
  <2> QED BY <1>2, <2>1, FlattenBy
<1>5. h[P] = rows
  <2>1. P \in 0 .. P
    OBVIOUS
  <2> QED BY <2>1, HeadsBegin
<1> QED BY <1>4, <1>5

\* And so are the pages filtered one by one.
LEMMA PagesFilterAll ==
  ASSUME NEW S, NEW rows \in Seq(S), NEW size \in Nat, size > 0, NEW f
  PROVE  FlattenSeq([p \in 1 .. PageCount(Len(rows), size) |-> Filtered(Slice(rows, p, size), f)]) = Filtered(rows, f)
<1> PICK n \in Nat : n = Len(rows)
  OBVIOUS
<1> PICK P \in Nat : P = PageCount(n, size)
  BY PageCountIs
<1> PICK s : s = [p \in 1 .. P |-> Filtered(Slice(rows, p, size), f)]
  OBVIOUS
<1> PICK h : h = [p \in 0 .. P |-> Filtered(HeadTo(rows, p, size), f)]
  OBVIOUS
<1>1. \A p \in 1 .. P : /\ HeadTo(rows, p, size) = HeadTo(rows, p - 1, size) \o Slice(rows, p, size)
                        /\ HeadTo(rows, p - 1, size) \in Seq(S) /\ Slice(rows, p, size) \in Seq(S)
  BY PageGoesOn
<1>2. s \in Seq(Seq(S)) /\ Len(s) = P
  <2> PICK T : T = Seq(S)
    OBVIOUS
  <2>0. \A p \in 1 .. P : Filtered(Slice(rows, p, size), f) \in Seq(S)
    BY <1>1, FilteredJoin
  <2>1. s \in [1 .. P -> T]
    BY <2>0
  <2>2. s \in Seq(T) /\ Len(s) = P
    BY <2>1
  <2> QED BY <2>2
<1>3. IsFlat(h, s, P)
  <2>1. h[0] = << >>
    <3>1. 0 \in 0 .. P /\ << >> \in Seq(S)
      OBVIOUS
    <3>2. Filtered(<< >>, f) = << >>
      BY <3>1, FilteredJoin
    <3> QED BY <3>1, <3>2, HeadsBegin
  <2>2. ASSUME NEW p \in 1 .. P PROVE h[p] = h[p - 1] \o s[p]
    <3>1. p \in 0 .. P /\ p - 1 \in 0 .. P
      OBVIOUS
    <3>2. /\ h[p] = Filtered(HeadTo(rows, p, size), f) /\ h[p - 1] = Filtered(HeadTo(rows, p - 1, size), f)
          /\ s[p] = Filtered(Slice(rows, p, size), f)
      BY <3>1
    <3>3. Filtered(HeadTo(rows, p - 1, size) \o Slice(rows, p, size), f) = Filtered(HeadTo(rows, p - 1, size), f) \o Filtered(Slice(rows, p, size), f)
      <4> PICK x \in Seq(S), y \in Seq(S) : x = HeadTo(rows, p - 1, size) /\ y = Slice(rows, p, size)
        BY <1>1
      <4>1. Filtered(Joining(x, y), f) = Joining(Filtered(x, f), Filtered(y, f))
        BY FilteredJoin
      <4> QED BY <4>1 DEF Joining
    <3> QED BY <3>2, <3>3, <1>1
  <2> QED BY <2>1, <2>2 DEF IsFlat
<1>4. FlattenSeq(s) = h[P]
  <2>1. IsFlat(h, s, Len(s))
    BY <1>2, <1>3
  <2> QED BY <1>2, <2>1, FlattenBy
<1>5. h[P] = Filtered(rows, f)
  <2>1. P \in 0 .. P
    OBVIOUS
  <2> QED BY <2>1, HeadsBegin
<1> QED BY <1>4, <1>5

Views == [job : DOMAIN Results, page : Nat \ {0}, size : Sizes, order : {"asc", "desc"}]
Groups == [age : Nat, found : BOOLEAN]

\* The numbers that the constants are.
LEMMA Dimensions ==
  /\ RowHeight \in Nat /\ RowHeight > 0 /\ Viewport \in Nat /\ Viewport > 0
  /\ Overscan \in Nat /\ Overscan > 0 /\ LedgerSize \in Nat /\ LedgerSize > 0
  /\ Results \in Seq(Nat) /\ (\A job \in DOMAIN Results : Results[job] \in Nat)
  /\ \A size \in Sizes : size \in Nat /\ size > 0
<1>1. \A x \in {RowHeight, Viewport, Overscan, LedgerSize} : x \in Nat /\ x > 0
  BY PagesAssumption
<1>2. Results \in Seq(Nat)
  BY PagesAssumption
<1>3. \A job \in DOMAIN Results : Results[job] \in Nat
  BY <1>2
<1>4. \A size \in Sizes : size \in Nat /\ size > 0
  BY PagesAssumption
<1> QED BY <1>1, <1>2, <1>3, <1>4

\* A page is a sequence of what it is cut from, wherever it is.
LEMMA SliceType ==
  ASSUME NEW S, NEW rows \in Seq(S), NEW page \in Nat, page # 0, NEW size \in Nat, size > 0
  PROVE  Slice(rows, page, size) \in Seq(S)
<1> PICK n \in Nat : n = Len(rows)
  OBVIOUS
<1> PICK o \in Nat : o = page - 1
  OBVIOUS
<1> PICK a \in Nat : a = o * size
  <2>1. 0 * size <= o * size /\ o * size \in Int /\ 0 * size = 0
    BY Multiples
  <2> QED BY <2>1
<1> PICK e \in Int : e = page * size
  <2>1. page * size \in Int
    OBVIOUS
  <2> QED BY <2>1
<1> PICK b \in Int : b = Lesser(e, n)
  <2>1. Lesser(e, n) \in Int
    BY LesserIs
  <2> QED BY <2>1
<1>1. b <= n
  <2>0. \A x \in Int, y \in Int : Lesser(x, y) <= y
    BY LesserIs
  <2> QED BY <2>0
<1>2. SubSeq(rows, a + 1, b) \in Seq(S)
  BY <1>1
<1>3. Slice(rows, page, size) = SubSeq(rows, a + 1, b)
  BY DEF Slice, Lesser
<1> QED BY <1>2, <1>3

\* All results of a job are in either order.
LEMMA SortedIs ==
  ASSUME NEW job \in DOMAIN Results, NEW order
  PROVE  Sorted(job, order) \in Seq(Nat) /\ Len(Sorted(job, order)) = Results[job]
<1> PICK n \in Nat : n = Results[job]
  BY Dimensions
<1> PICK rows : rows = [i \in 1 .. n |-> i]
  OBVIOUS
<1>1. rows \in Seq(Nat) /\ Len(rows) = n
  OBVIOUS
<1>2. Reverse(rows) \in Seq(Nat) /\ Len(Reverse(rows)) = Len(rows)
  BY <1>1, ReverseType
<1>3. Sorted(job, order) = IF order = "asc" THEN rows ELSE Reverse(rows)
  BY DEF Sorted
<1> QED BY <1>1, <1>2, <1>3

\* A filter makes nothing new.
LEMMA FilteredType ==
  ASSUME NEW S, NEW rows \in Seq(S), NEW f
  PROVE  Filtered(rows, f) \in Seq(S)
BY FilteredJoin

\* The rows of a view are results.
LEMMA RowsOfType ==
  ASSUME NEW of \in Views
  PROVE  RowsOf(of) \in Seq(Nat)
<1>1. of.job \in DOMAIN Results /\ of.page \in Nat /\ of.page # 0 /\ of.size \in Nat /\ of.size > 0
  BY Dimensions DEF Views
<1> PICK rows : rows = Sorted(of.job, of.order)
  OBVIOUS
<1>2. rows \in Seq(Nat)
  BY <1>1, SortedIs
<1>3. Slice(rows, of.page, of.size) \in Seq(Nat)
  BY <1>1, <1>2, SliceType
<1>4. Filtered(Slice(rows, of.page, of.size), filters) \in Seq(Nat)
  BY <1>3, FilteredType
<1> QED BY <1>4 DEF RowsOf

\* The groups chosen are groups of the ledger.
LEMMA ChosenType ==
  ASSUME NEW S, NEW groups \in Seq(S), NEW c
  PROVE  Chosen(groups, c) \in Seq(S)
<1> PICK s : s = [i \in DOMAIN groups |-> IF IsFound(c, groups[i]) THEN <<groups[i]>> ELSE << >>]
  OBVIOUS
<1>1. s \in Seq(Seq(S))
  <2>1. \A i \in DOMAIN groups : (IF IsFound(c, groups[i]) THEN <<groups[i]>> ELSE << >>) \in Seq(S)
    OBVIOUS
  <2> PICK n \in Nat : n = Len(groups)
    OBVIOUS
  <2>2. s \in [1 .. n -> Seq(S)]
    BY <2>1
  <2> QED BY <2>2
<1> PICK found : found = FlattenSeq(s)
  OBVIOUS
<1>2. found \in Seq(S)
  BY <1>1, FlattenType
<1>3. Reverse(found) \in Seq(S)
  BY <1>2, ReverseType
<1>4. Chosen(groups, c) = IF c.ascending THEN found ELSE Reverse(found)
  BY DEF Chosen
<1> QED BY <1>2, <1>3, <1>4

\* The pages offered are pages, and the one that is shown is one of them.
LEMMA WindowIs ==
  ASSUME NEW pages \in Nat, NEW page \in 1 .. pages
  PROVE  page \in Window(page, pages) /\ Window(page, pages) \subseteq 1 .. pages
<1>1. CASE pages <= 5
  BY <1>1 DEF Window
<1>2. CASE pages > 5 /\ page <= 3
  BY <1>2 DEF Window
<1>3. CASE pages > 5 /\ page > 3 /\ page >= pages - 2
  BY <1>3 DEF Window
<1>4. CASE pages > 5 /\ page > 3 /\ page < pages - 2
  BY <1>4 DEF Window
<1> QED BY <1>1, <1>2, <1>3, <1>4

\* The first row that is rendered of a table of count rows of a height, scrolled to t, the row after
\* the last one, and the rows in a view of height v.
RowFrom(t, h, o) == Greater(0, t \div h - o)
RowTo(count, h, v, o, t) == Lesser(count, RowFrom(t, h, o) + ((v + h - 1) \div h + 2 * o))
InView(count, h, v, t) == {row \in 0 .. count - 1 : row * h < t + v /\ t < (row + 1) * h}

\* Every row in view is rendered.
LEMMA RowIsRendered ==
  ASSUME NEW count \in Nat, NEW h \in Nat, h > 0, NEW v \in Nat, v > 0, NEW o \in Nat, o > 0, NEW t \in Nat
  PROVE  InView(count, h, v, t) \subseteq RowFrom(t, h, o) .. RowTo(count, h, v, o, t) - 1
<1> SUFFICES ASSUME NEW row \in InView(count, h, v, t)
             PROVE  row \in RowFrom(t, h, o) .. RowTo(count, h, v, o, t) - 1
  OBVIOUS
<1>0. row \in 0 .. count - 1 /\ row * h < t + v /\ t < (row + 1) * h
  BY DEF InView
<1> PICK q \in Nat, r \in Nat : q = t \div h /\ r = t % h
  BY Quotients
<1>1. t = h * q + r /\ r < h
  BY Quotients
<1> PICK w \in Nat : w = v + h - 1
  OBVIOUS
<1> PICK c \in Nat, d \in Nat : c = w \div h /\ d = w % h
  BY Quotients
<1>2. w = h * c + d /\ d < h
  BY Quotients
<1> PICK x \in Int, y \in Int, z \in Int : x = row * h /\ y = h * q /\ z = h * c
  BY <1>0
<1>3. q < row + 1
  <2> SUFFICES ASSUME row + 1 <= q PROVE FALSE
    BY <1>0
  <2>1. (row + 1) * h <= q * h /\ (row + 1) * h \in Int /\ q * h \in Int
    BY <1>0, Multiples
  <2>2. q * h = h * q
    OBVIOUS
  <2> PICK u \in Int : u = (row + 1) * h
    BY <1>0, <2>1
  <2>3. u <= y /\ t < u /\ t = y + r
    BY <2>1, <2>2, <1>0, <1>1
  <2> QED BY <2>3
<1>4. row <= q + c
  <2> SUFFICES ASSUME q + c + 1 <= row PROVE FALSE
    BY <1>0
  <2>1. (q + c + 1) * h <= row * h
    BY <1>0, Multiples
  <2>2. (q + c + 1) * h = h * q + h * c + h
    OBVIOUS
  <2>3. y + z + h <= x /\ x < t + v /\ t = y + r /\ v + h - 1 = z + d
    BY <2>1, <2>2, <1>0, <1>1, <1>2
  <2>4. y + z + h < y + r + v
    BY <2>3
  <2> QED BY <2>3, <2>4, <1>1, <1>2
<1> PICK start \in Int : start = RowFrom(t, h, o)
  <2>1. Greater(0, q - o) \in Int
    BY GreaterIs
  <2> QED BY <2>1 DEF RowFrom
<1> PICK end \in Int : end = RowTo(count, h, v, o, t)
  <2> PICK k \in Int : k = start + (c + 2 * o)
    OBVIOUS
  <2>1. Lesser(count, k) \in Int
    BY LesserIs
  <2> QED BY <2>1 DEF RowTo
<1>5. start = (IF 0 <= q - o THEN q - o ELSE 0)
  <2>0. \A i \in Int, j \in Int : Greater(i, j) = IF i <= j THEN j ELSE i
    BY GreaterIs
  <2> QED BY <2>0 DEF RowFrom
<1>6. end = IF count <= start + (c + 2 * o) THEN count ELSE start + (c + 2 * o)
  <2>0. \A i \in Int, j \in Int : Lesser(i, j) = IF i <= j THEN i ELSE j
    BY LesserIs
  <2> PICK k \in Int : k = start + (c + 2 * o)
    OBVIOUS
  <2>1. end = Lesser(count, k)
    BY DEF RowTo
  <2> QED BY <2>0, <2>1
<1>7. start <= row
  BY <1>0, <1>3, <1>5
<1>8. row < start + (c + 2 * o)
  BY <1>0, <1>4, <1>5
<1>9. row < end
  BY <1>0, <1>6, <1>8
<1> QED BY <1>0, <1>7, <1>9

\* A table with rows has one in view, unless it is scrolled past its end.
LEMMA RowInView ==
  ASSUME NEW count \in Nat, count > 0, NEW h \in Nat, h > 0, NEW v \in Nat, v > 0, NEW t \in Nat,
         t = 0 \/ t + v <= count * h
  PROVE  InView(count, h, v, t) # {}
<1> PICK q \in Nat, r \in Nat : q = t \div h /\ r = t % h
  BY Quotients
<1>1. t = h * q + r /\ r < h
  BY Quotients
<1> PICK x \in Int, y \in Int : x = h * q /\ y = count * h
  OBVIOUS
<1>2. q * h = x /\ (q + 1) * h = x + h
  OBVIOUS
<1>3. q * h < t + v /\ t < (q + 1) * h
  BY <1>1, <1>2
<1>4. q < count
  <2> SUFFICES ASSUME count <= q PROVE FALSE
    OBVIOUS
  <2>1. count * h <= q * h
    BY Multiples
  <2>2. 1 * h <= count * h /\ 1 * h = h
    BY Multiples
  <2>3. y <= x /\ h <= y
    BY <2>1, <2>2, <1>2
  <2> QED BY <2>3, <1>1
<1>5. q \in 0 .. count - 1
  BY <1>4
<1> QED BY <1>3, <1>5 DEF InView

Filters == [passed : BOOLEAN, positive : BOOLEAN, diagnostic : BOOLEAN]
Sections == {"closed", "open", "funding"}
LedgerChoices == [section : Sections, recent : BOOLEAN, query : BOOLEAN, ascending : BOOLEAN]

\* The page asked for is one of the job's, unless it was chosen under the page count of other rows.
PageIsThere == ~slipped => view.page <= PageCount(Results[view.job], view.size)

\* The rows shown are of a view that was asked for; either none of its job's are there, or all.
RowsAreKnown ==
  /\ view \in Views /\ answer \in [of : Views, count : Nat]
  /\ answer.count = 0 \/ answer.count = Results[answer.of.job]

\* The table is scrolled no farther than its rows reach.
ScrollIsThere == top \in Nat /\ (top = 0 \/ top + Viewport <= Len(Shown) * RowHeight)

\* The page of the ledger is one of its pages.
LedgerIsThere ==
  /\ ledger \in [Sections -> Seq(Groups)] /\ choice \in LedgerChoices
  /\ ledgerPage \in Nat /\ ledgerPage >= 1 /\ ledgerPage <= LedgerPages

PagesInv == RowsAreKnown /\ PageIsThere /\ ScrollIsThere /\ kept = table /\ LedgerIsThere

\* There is a page, and one only if there is nothing.
LEMMA PageCountNat ==
  ASSUME NEW count \in Nat, NEW size \in Sizes
  PROVE  PageCount(count, size) \in Nat /\ PageCount(count, size) >= 1 /\ PageCount(0, size) = 1
<1>0. size \in Nat /\ size > 0
  BY Dimensions
<1>1. \A c \in Nat : PageCount(c, size) \in Nat /\ PageCount(c, size) >= 1 /\ (c = 0 => PageCount(c, size) = 1)
  <2> SUFFICES ASSUME NEW c \in Nat PROVE PageCount(c, size) \in Nat /\ PageCount(c, size) >= 1 /\ (c = 0 => PageCount(c, size) = 1)
    OBVIOUS
  <2>1. LET p == PageCount(c, size) IN
         /\ p \in Nat /\ p >= 1 /\ c <= p * size
         /\ c # 0 => (p - 1) * size < c
         /\ c = 0 => p = 1
    BY <1>0, PageCountIs
  <2> QED BY <2>1
<1> QED BY <1>1

\* The fields of a view.
LEMMA ViewFields == ASSUME NEW of \in Views
  PROVE  of.job \in DOMAIN Results /\ of.page \in Nat /\ of.page >= 1 /\ of.size \in Sizes /\ of.order \in {"asc", "desc"}
BY DEF Views

\* Other views than a view, field by field.
LEMMA ViewOfJob == ASSUME NEW of \in Views, NEW job \in DOMAIN Results
  PROVE  /\ [job |-> job, page |-> 1, size |-> of.size, order |-> of.order] \in Views
         /\ [job |-> job, page |-> of.page, size |-> of.size, order |-> of.order] \in Views
BY DEF Views

\* Another page of the view.
LEMMA ViewOfPage == ASSUME NEW of \in Views, NEW page \in Nat, page # 0
  PROVE  [job |-> of.job, page |-> page, size |-> of.size, order |-> of.order] \in Views
BY DEF Views

\* Another size of its pages.
LEMMA ViewOfSize == ASSUME NEW of \in Views, NEW size \in Sizes
  PROVE  [job |-> of.job, page |-> 1, size |-> size, order |-> of.order] \in Views
BY DEF Views

\* Another order.
LEMMA ViewOfOrder == ASSUME NEW of \in Views, NEW order \in {"asc", "desc"}
  PROVE  [job |-> of.job, page |-> 1, size |-> of.size, order |-> order] \in Views
BY DEF Views

\* Other views than a view.
LEMMA OtherView ==
  ASSUME NEW of \in Views, NEW order \in {"asc", "desc"}, NEW size \in Sizes, NEW job \in DOMAIN Results, NEW page \in Nat
  PROVE  /\ [of EXCEPT !.order = order, !.page = 1] = [job |-> of.job, page |-> 1, size |-> of.size, order |-> order]
         /\ [of EXCEPT !.size = size, !.page = 1] = [job |-> of.job, page |-> 1, size |-> size, order |-> of.order]
         /\ [of EXCEPT !.page = page] = [job |-> of.job, page |-> page, size |-> of.size, order |-> of.order]
         /\ [of EXCEPT !.job = job, !.page = 1] = [job |-> job, page |-> 1, size |-> of.size, order |-> of.order]
         /\ [of EXCEPT !.job = job] = [job |-> job, page |-> of.page, size |-> of.size, order |-> of.order]
<1> PICK j, p, z, o : of = [job |-> j, page |-> p, size |-> z, order |-> o]
  BY DEF Views
<1>1. [of EXCEPT !.order = order, !.page = 1] = [job |-> of.job, page |-> 1, size |-> of.size, order |-> order]
  <2>1. [of EXCEPT !.order = order] = [job |-> of.job, page |-> of.page, size |-> of.size, order |-> order]
    OBVIOUS
  <2>2. [[job |-> of.job, page |-> of.page, size |-> of.size, order |-> order] EXCEPT !.page = 1] = [job |-> of.job, page |-> 1, size |-> of.size, order |-> order]
    OBVIOUS
  <2>3. [of EXCEPT !.order = order, !.page = 1] = [[of EXCEPT !.order = order] EXCEPT !.page = 1]
    OBVIOUS
  <2> QED BY <2>1, <2>2, <2>3, Zenon
<1>2. [of EXCEPT !.size = size, !.page = 1] = [job |-> of.job, page |-> 1, size |-> size, order |-> of.order]
  <2>1. [of EXCEPT !.size = size] = [job |-> of.job, page |-> of.page, size |-> size, order |-> of.order]
    OBVIOUS
  <2>2. [[job |-> of.job, page |-> of.page, size |-> size, order |-> of.order] EXCEPT !.page = 1] = [job |-> of.job, page |-> 1, size |-> size, order |-> of.order]
    OBVIOUS
  <2>3. [of EXCEPT !.size = size, !.page = 1] = [[of EXCEPT !.size = size] EXCEPT !.page = 1]
    OBVIOUS
  <2> QED BY <2>1, <2>2, <2>3, Zenon
<1>3. [of EXCEPT !.page = page] = [job |-> of.job, page |-> page, size |-> of.size, order |-> of.order]
  OBVIOUS
<1>4. [of EXCEPT !.job = job, !.page = 1] = [job |-> job, page |-> 1, size |-> of.size, order |-> of.order]
  <2>1. [of EXCEPT !.job = job] = [job |-> job, page |-> of.page, size |-> of.size, order |-> of.order]
    OBVIOUS
  <2>2. [[job |-> job, page |-> of.page, size |-> of.size, order |-> of.order] EXCEPT !.page = 1] = [job |-> job, page |-> 1, size |-> of.size, order |-> of.order]
    OBVIOUS
  <2>3. [of EXCEPT !.job = job, !.page = 1] = [[of EXCEPT !.job = job] EXCEPT !.page = 1]
    OBVIOUS
  <2> QED BY <2>1, <2>2, <2>3, Zenon
<1>5. [of EXCEPT !.job = job] = [job |-> job, page |-> of.page, size |-> of.size, order |-> of.order]
  OBVIOUS
<1> QED BY <1>1, <1>2, <1>3, <1>4, <1>5

\* What a render of other rows leaves.
LEMMA ScrolledTop == ASSUME Scrolled PROVE ScrollIsThere'
BY DEF Scrolled, ScrollIsThere

\* What the results do leaves the ledger alone.
LEMMA NoLedgerStep == ASSUME LedgerIsThere, UNCHANGED ledgerVars PROVE LedgerIsThere'
<1>1. ledger' = ledger /\ choice' = choice /\ ledgerPage' = ledgerPage
  BY DEF ledgerVars
<1>2. LedgerPages' = LedgerPages
  BY <1>1 DEF LedgerPages, Active
<1> QED BY <1>1, <1>2 DEF LedgerIsThere

\* What the ledger does leaves the results alone.
LEMMA NoResultStep ==
  ASSUME RowsAreKnown, PageIsThere, ScrollIsThere, kept = table, UNCHANGED resultVars
  PROVE  RowsAreKnown' /\ PageIsThere' /\ ScrollIsThere' /\ kept' = table'
<1>1. view' = view /\ answer' = answer /\ filters' = filters /\ top' = top /\ slipped' = slipped /\ kept' = kept /\ table' = table
  BY DEF resultVars
<1>2. RowsAreKnown'
  BY <1>1 DEF RowsAreKnown
<1>3. PageIsThere'
  BY <1>1 DEF PageIsThere
<1>4. Shown' = Shown
  BY <1>1 DEF Shown, RowsOf
<1>5. ScrollIsThere'
  BY <1>1, <1>4 DEF ScrollIsThere
<1> QED BY <1>1, <1>2, <1>3, <1>5

\* Another view is asked for, and the rows stay.
LEMMA AskedKeeps ==
  ASSUME PagesInv, NEW new \in Views, Asked(new), UNCHANGED <<answer, top>>,
         ~slipped' => new.page <= PageCount(Results[new.job], new.size)
  PROVE  RowsAreKnown' /\ PageIsThere' /\ ScrollIsThere' /\ kept' = table'
<1>1. view' = new /\ answer' = answer /\ filters' = filters /\ top' = top /\ kept' = kept /\ table' = table
  BY DEF Asked
<1>2. RowsAreKnown'
  BY <1>1 DEF RowsAreKnown, PagesInv
<1>3. PageIsThere'
  BY <1>1 DEF PageIsThere
<1>4. Shown' = Shown
  BY <1>1 DEF Shown, RowsOf
<1>5. ScrollIsThere'
  BY <1>1, <1>4 DEF ScrollIsThere, PagesInv
<1> QED BY <1>1, <1>2, <1>3, <1>5 DEF PagesInv

\* The first page is one of any number of pages.
LEMMA FirstPage == ASSUME NEW new \in Views, new.page = 1
  PROVE  new.page <= PageCount(Results[new.job], new.size)
<1>1. Results[new.job] \in Nat /\ new.size \in Sizes
  BY ViewFields, Dimensions
<1> QED BY <1>1, PageCountNat

\* Every step of the results keeps what the invariant says of them.
LEMMA ResultsKeep ==
  ASSUME PagesInv, ResultsStep
  PROVE  RowsAreKnown' /\ PageIsThere' /\ ScrollIsThere' /\ kept' = table'
<1>0. view \in Views /\ view.page \in Nat /\ view.page >= 1 /\ answer.of \in Views /\ answer.count \in Nat
  BY ViewFields DEF PagesInv, RowsAreKnown
<1>000. view.job \in DOMAIN Results /\ view.size \in Sizes /\ view.order \in {"asc", "desc"}
  BY <1>0, ViewFields
<1>00. answer.count = 0 \/ answer.count = Results[answer.of.job]
  BY DEF PagesInv, RowsAreKnown
<1>1. ASSUME NEW order \in {"asc", "desc"}, SetOrder(order) PROVE RowsAreKnown' /\ PageIsThere' /\ ScrollIsThere' /\ kept' = table'
  <2> PICK new : new = [view EXCEPT !.order = order, !.page = 1]
    OBVIOUS
  <2>0. new = [job |-> view.job, page |-> 1, size |-> view.size, order |-> order]
    BY <1>0, <1>000, OtherView
  <2>01. [job |-> view.job, page |-> 1, size |-> view.size, order |-> order] \in Views
    BY <1>0, <1>000, ViewOfJob, ViewOfPage, ViewOfSize, ViewOfOrder
  <2>1. new \in Views /\ new.page = 1
    BY <2>0, <2>01
  <2>2. Asked(new) /\ UNCHANGED <<answer, top>>
    BY <1>1 DEF SetOrder
  <2>3. new.page <= PageCount(Results[new.job], new.size)
    BY <2>1, FirstPage
  <2> QED BY <2>1, <2>2, <2>3, AskedKeeps
<1>2. ASSUME NEW size \in Sizes, SetSize(size) PROVE RowsAreKnown' /\ PageIsThere' /\ ScrollIsThere' /\ kept' = table'
  <2> PICK new : new = [view EXCEPT !.size = size, !.page = 1]
    OBVIOUS
  <2>0. new = [job |-> view.job, page |-> 1, size |-> size, order |-> view.order]
    BY <1>0, <1>000, OtherView
  <2>01. [job |-> view.job, page |-> 1, size |-> size, order |-> view.order] \in Views
    BY <1>0, <1>000, ViewOfJob, ViewOfPage, ViewOfSize, ViewOfOrder
  <2>1. new \in Views /\ new.page = 1
    BY <2>0, <2>01
  <2>2. Asked(new) /\ UNCHANGED <<answer, top>>
    BY <1>2 DEF SetSize
  <2>3. new.page <= PageCount(Results[new.job], new.size)
    BY <2>1, FirstPage
  <2> QED BY <2>1, <2>2, <2>3, AskedKeeps
<1>3. CASE PrevPage
  <2> PICK q \in Nat : q = view.page - 1 /\ q # 0
    BY <1>0, <1>3 DEF PrevPage
  <2> PICK new : new = [view EXCEPT !.page = q]
    OBVIOUS
  <2>0. new = [job |-> view.job, page |-> q, size |-> view.size, order |-> view.order]
    BY <1>0, <1>000, OtherView
  <2>01. [job |-> view.job, page |-> q, size |-> view.size, order |-> view.order] \in Views
    BY <1>0, <1>000, ViewOfJob, ViewOfPage, ViewOfSize, ViewOfOrder
  <2>1. new \in Views /\ new.page = q /\ new.job = view.job /\ new.size = view.size
    BY <2>0, <2>01
  <2>2. Asked(new) /\ UNCHANGED <<answer, top>> /\ slipped' = slipped
    BY <1>3 DEF PrevPage
  <2>3. ~slipped' => new.page <= PageCount(Results[new.job], new.size)
    <3>1. PageCount(Results[view.job], view.size) \in Nat
      <4>1. Results[view.job] \in Nat /\ view.size \in Sizes
        BY <1>0, ViewFields, Dimensions
      <4> QED BY <4>1, PageCountNat
    <3>2. ~slipped => view.page <= PageCount(Results[view.job], view.size)
      BY DEF PagesInv, PageIsThere
    <3> QED BY <3>1, <3>2, <2>1, <2>2, <1>0
  <2> QED BY <2>1, <2>2, <2>3, AskedKeeps
<1>4. CASE NextPage
  <2> PICK q \in Nat : q = view.page + 1 /\ q # 0
    BY <1>0
  <2> PICK new : new = [view EXCEPT !.page = q]
    OBVIOUS
  <2>0. new = [job |-> view.job, page |-> q, size |-> view.size, order |-> view.order]
    BY <1>0, <1>000, OtherView
  <2>01. [job |-> view.job, page |-> q, size |-> view.size, order |-> view.order] \in Views
    BY <1>0, <1>000, ViewOfJob, ViewOfPage, ViewOfSize, ViewOfOrder
  <2>1. new \in Views /\ new.page = q /\ new.job = view.job /\ new.size = view.size
    BY <2>0, <2>01
  <2>2. Asked(new) /\ UNCHANGED <<answer, top>>
    BY <1>4 DEF NextPage
  <2>3. slipped' = (slipped \/ answer.of.job # view.job \/ answer.of.size # view.size) /\ view.page < PageCount(answer.count, answer.of.size)
    BY <1>4 DEF NextPage, Pages
  <2>4. ASSUME ~slipped' PROVE new.page <= PageCount(Results[new.job], new.size)
    <3>1. answer.of.job = view.job /\ answer.of.size = view.size
      BY <2>3, <2>4
    <3>2. Results[view.job] \in Nat /\ view.size \in Sizes
      BY <1>0, ViewFields, Dimensions
    <3>3. PageCount(Results[view.job], view.size) \in Nat /\ PageCount(0, view.size) = 1
      BY <3>2, PageCountNat
    <3>4. answer.count # 0
      <4> SUFFICES ASSUME answer.count = 0 PROVE FALSE
        OBVIOUS
      <4> QED BY <2>3, <3>1, <3>3, <1>0
    <3>5. view.page < PageCount(Results[view.job], view.size)
      BY <2>3, <3>1, <3>4, <1>00
    <3> QED BY <3>3, <3>5, <2>1, <1>0
  <2> QED BY <2>1, <2>2, <2>4, AskedKeeps
<1>5. ASSUME NEW job \in DOMAIN Results, StartJob(job) PROVE RowsAreKnown' /\ PageIsThere' /\ ScrollIsThere' /\ kept' = table'
  <2> PICK new : new = [view EXCEPT !.job = job, !.page = 1]
    OBVIOUS
  <2>0. new = [job |-> job, page |-> 1, size |-> view.size, order |-> view.order]
    BY <1>0, <1>000, OtherView
  <2>01. [job |-> job, page |-> 1, size |-> view.size, order |-> view.order] \in Views
    BY <1>0, <1>000, ViewOfJob, ViewOfPage, ViewOfSize, ViewOfOrder
  <2>1. new \in Views /\ new.page = 1
    BY <2>0, <2>01
  <2>2. view' = new /\ kept' = kept /\ table' = table /\ answer' = [of |-> new, count |-> 0]
    BY <1>5 DEF StartJob, Asked, With
  <2>3. new.page <= PageCount(Results[new.job], new.size)
    BY <2>1, FirstPage
  <2>4. ScrollIsThere'
    BY <1>5, ScrolledTop DEF StartJob
  <2>5. RowsAreKnown'
    BY <2>1, <2>2 DEF RowsAreKnown
  <2>6. PageIsThere'
    BY <2>2, <2>3 DEF PageIsThere
  <2> QED BY <2>2, <2>4, <2>5, <2>6 DEF PagesInv
<1>6. ASSUME NEW job \in DOMAIN Results, LoadJob(job) PROVE RowsAreKnown' /\ PageIsThere' /\ ScrollIsThere' /\ kept' = table'
  <2> PICK new : new = [view EXCEPT !.job = job]
    OBVIOUS
  <2>0. new = [job |-> job, page |-> view.page, size |-> view.size, order |-> view.order]
    BY <1>0, <1>000, OtherView
  <2>01. [job |-> job, page |-> view.page, size |-> view.size, order |-> view.order] \in Views
    BY <1>0, <1>000, ViewOfJob, ViewOfPage, ViewOfSize, ViewOfOrder
  <2>1. new \in Views /\ new.page = view.page /\ new.job = job
    BY <2>0, <2>01
  <2>2. view' = new /\ kept' = kept /\ table' = table /\ answer' = [of |-> new, count |-> Results[job]]
    BY <1>6 DEF LoadJob, Asked, With
  <2>3. slipped' = (slipped \/ view.page > 1)
    BY <1>6 DEF LoadJob
  <2>4. ScrollIsThere'
    BY <1>6, ScrolledTop DEF LoadJob
  <2>5. RowsAreKnown'
    <3>1. Results[job] \in Nat
      BY Dimensions
    <3> QED BY <2>1, <2>2, <3>1 DEF RowsAreKnown
  <2>6. PageIsThere'
    <3>1. ASSUME ~slipped' PROVE new.page <= PageCount(Results[new.job], new.size)
      <4>0. ~(view.page > 1)
        BY <2>3, <3>1
      <4>1. new.page = 1
        BY <2>1, <4>0, <1>0
      <4> QED BY <4>1, <2>1, FirstPage
    <3> QED BY <2>2, <3>1 DEF PageIsThere
  <2> QED BY <2>2, <2>4, <2>5, <2>6 DEF PagesInv
<1>7. CASE RowsArrive
  <2>1. view' = view /\ slipped' = slipped /\ kept' = kept /\ table' = table /\ answer' = [of |-> view, count |-> Results[view.job]]
    BY <1>7 DEF RowsArrive, With
  <2>2. ScrollIsThere'
    BY <1>7, ScrolledTop DEF RowsArrive
  <2>3. RowsAreKnown'
    <3>1. Results[view.job] \in Nat
      BY <1>0, ViewFields, Dimensions
    <3> QED BY <2>1, <3>1, <1>0 DEF RowsAreKnown
  <2>4. PageIsThere'
    BY <2>1 DEF PageIsThere, PagesInv
  <2> QED BY <2>1, <2>2, <2>3, <2>4 DEF PagesInv
<1>8. ASSUME Scrolled, UNCHANGED <<view, answer, slipped>>, kept' = table' PROVE RowsAreKnown' /\ PageIsThere' /\ ScrollIsThere' /\ kept' = table'
  <2>1. RowsAreKnown'
    BY <1>8 DEF RowsAreKnown, PagesInv
  <2>2. PageIsThere'
    BY <1>8 DEF PageIsThere, PagesInv
  <2> QED BY <1>8, <2>1, <2>2, ScrolledTop
<1>9. ASSUME NEW f \in Filters, SetFilters(f) PROVE RowsAreKnown' /\ PageIsThere' /\ ScrollIsThere' /\ kept' = table'
  <2>1. Scrolled /\ UNCHANGED <<view, answer, slipped>> /\ kept' = table'
    BY <1>9 DEF SetFilters, PagesInv
  <2> QED BY <2>1, <1>8
<1>10. ASSUME NEW name \in {"core", "full"}, ApplyPreset(name) PROVE RowsAreKnown' /\ PageIsThere' /\ ScrollIsThere' /\ kept' = table'
  <2>1. Scrolled /\ UNCHANGED <<view, answer, slipped>> /\ kept' = table'
    BY <1>10 DEF ApplyPreset, Remembered
  <2> QED BY <2>1, <1>8
<1>11. ASSUME NEW key \in Columns, ToggleColumn(key) PROVE RowsAreKnown' /\ PageIsThere' /\ ScrollIsThere' /\ kept' = table'
  <2>1. Scrolled /\ UNCHANGED <<view, answer, slipped>> /\ kept' = table'
    BY <1>11 DEF ToggleColumn, Remembered
  <2> QED BY <2>1, <1>8
<1>12. CASE Scroll
  <2>1. view' = view /\ answer' = answer /\ filters' = filters /\ slipped' = slipped /\ kept' = kept /\ table' = table
    BY <1>12 DEF Scroll
  <2>2. RowsAreKnown'
    BY <2>1 DEF RowsAreKnown, PagesInv
  <2>3. PageIsThere'
    BY <2>1 DEF PageIsThere, PagesInv
  <2>4. Shown' = Shown
    BY <2>1 DEF Shown, RowsOf
  <2>5. Shown \in Seq(Nat)
    <3>1. RowsOf(answer.of) \in Seq(Nat)
      BY <1>0, RowsOfType
    <3> QED BY <3>1 DEF Shown
  <2> PICK n \in Nat : n = Len(Shown)
    BY <2>5
  <2> PICK e \in Int : e = n * RowHeight - Viewport
    <3>1. n * RowHeight - Viewport \in Int
      BY Dimensions
    <3> QED BY <3>1
  <2>6. top' \in 0 .. Greater(0, e)
    BY <1>12 DEF Scroll, Greater
  <2>7. Greater(0, e) = IF 0 <= e THEN e ELSE 0
    <3>1. \A i \in Int, j \in Int : Greater(i, j) = IF i <= j THEN j ELSE i
      BY GreaterIs
    <3> QED BY <3>1
  <2>8. top' \in Nat /\ (top' = 0 \/ top' <= e)
    BY <2>6, <2>7
  <2>9. top' \in Nat /\ (top' = 0 \/ top' + Viewport <= n * RowHeight)
    <3> PICK x \in Int : x = n * RowHeight
      BY Dimensions
    <3>1. e = x - Viewport /\ Viewport \in Nat
      BY Dimensions
    <3> QED BY <3>1, <2>8
  <2>10. ScrollIsThere'
    BY <2>4, <2>9 DEF ScrollIsThere
  <2> QED BY <2>1, <2>2, <2>3, <2>10 DEF PagesInv
<1>13. Filters = [passed : BOOLEAN, positive : BOOLEAN, diagnostic : BOOLEAN]
  BY DEF Filters
<1> QED BY <1>1, <1>2, <1>3, <1>4, <1>5, <1>6, <1>7, <1>9, <1>10, <1>11, <1>12, <1>13 DEF ResultsStep

\* The pages of any ledger, under any choice.
LEMMA LedgerPagesNat ==
  ASSUME NEW l \in [Sections -> Seq(Groups)], NEW c \in LedgerChoices
  PROVE  /\ Chosen(l[c.section], c) \in Seq(Groups)
         /\ PageCount(Len(Chosen(l[c.section], c)), LedgerSize) \in Nat
         /\ PageCount(Len(Chosen(l[c.section], c)), LedgerSize) >= 1
<1>1. c.section \in Sections
  BY DEF LedgerChoices
<1>2. l[c.section] \in Seq(Groups)
  BY <1>1
<1> PICK a : a = Chosen(l[c.section], c)
  OBVIOUS
<1>3. a \in Seq(Groups)
  BY <1>2, ChosenType
<1> PICK n \in Nat : n = Len(a)
  BY <1>3
<1>4. LET p == PageCount(n, LedgerSize) IN
         /\ p \in Nat /\ p >= 1 /\ n <= p * LedgerSize
         /\ n # 0 => (p - 1) * LedgerSize < n
         /\ n = 0 => p = 1
  BY Dimensions, PageCountIs
<1> QED BY <1>3, <1>4

\* Every step of the ledger keeps its page among its pages.
LEMMA LedgerKeeps == ASSUME LedgerIsThere, LedgerStep PROVE LedgerIsThere'
<1>0. ledger \in [Sections -> Seq(Groups)] /\ choice \in LedgerChoices /\ ledgerPage \in Nat /\ ledgerPage >= 1
  BY DEF LedgerIsThere
<1>1. ASSUME ledger' \in [Sections -> Seq(Groups)], choice' \in LedgerChoices, LedgerShown PROVE LedgerIsThere'
  <2>1. LedgerPages' \in Nat /\ LedgerPages' >= 1
    BY <1>1, LedgerPagesNat DEF LedgerPages, Active
  <2> PICK p \in Nat : p = LedgerPages'
    BY <2>1
  <2> PICK o \in Nat : o = ledgerPage
    BY <1>0
  <2>2. ledgerPage' = 1 \/ ledgerPage' = Lesser(o, p)
    BY <1>1 DEF LedgerShown, Lesser
  <2>3. Lesser(o, p) = IF o <= p THEN o ELSE p
    <3>1. \A i \in Int, j \in Int : Lesser(i, j) = IF i <= j THEN i ELSE j
      BY LesserIs
    <3> QED BY <3>1
  <2>4. ledgerPage' \in Nat /\ ledgerPage' >= 1 /\ ledgerPage' <= LedgerPages'
    BY <2>1, <2>2, <2>3, <1>0
  <2> QED BY <1>1, <2>4 DEF LedgerIsThere
<1>2. ASSUME NEW c \in LedgerChoices, Choose(c) PROVE LedgerIsThere'
  <2>1. ledger' \in [Sections -> Seq(Groups)] /\ choice' \in LedgerChoices /\ LedgerShown
    BY <1>0, <1>2 DEF Choose
  <2> QED BY <2>1, <1>1
<1>3. ASSUME NEW next \in Ledgers, SnapshotArrives(next) PROVE LedgerIsThere'
  <2>1. next \in [Sections -> Seq(Groups)]
    BY PagesAssumption DEF Sections, Groups
  <2>2. ledger' \in [Sections -> Seq(Groups)] /\ choice' \in LedgerChoices /\ LedgerShown
    BY <1>0, <1>3, <2>1 DEF SnapshotArrives
  <2> QED BY <2>2, <1>1
<1>4. ASSUME NEW page \in 1 .. LedgerPages, TurnLedger(page) PROVE LedgerIsThere'
  <2>1. ledgerPage' = page /\ ledger' = ledger /\ choice' = choice
    BY <1>4 DEF TurnLedger
  <2>2. LedgerPages' = LedgerPages
    BY <2>1 DEF LedgerPages, Active
  <2>3. LedgerPages \in Nat
    BY <1>0, LedgerPagesNat DEF LedgerPages, Active
  <2>4. page \in Nat /\ page >= 1 /\ page <= LedgerPages
    BY <2>3
  <2> QED BY <1>0, <2>1, <2>2, <2>4 DEF LedgerIsThere
<1>5. \A section \in Sections, recent, query, ascending \in BOOLEAN :
        [section |-> section, recent |-> recent, query |-> query, ascending |-> ascending] \in LedgerChoices
  BY DEF LedgerChoices
<1>6. Sections = {"closed", "open", "funding"}
  BY DEF Sections
<1> QED BY <1>2, <1>3, <1>4, <1>5, <1>6 DEF LedgerStep

\* Numbers have a least one.
LEMMA LeastIs == ASSUME NEW T, T \subseteq Nat, T # {} PROVE \E x \in T : \A y \in T : x <= y
<1> DEFINE R == OpToRel(<, Nat)
<1>1. IsWellFoundedOn(R, Nat)
  BY NatLessThanWellFounded
<1>2. PICK x \in T : \A y \in T : ~(<<y, x>> \in R)
  BY <1>1, WFMin
<1>3. \A y \in T : ~(y < x)
  BY <1>2 DEF OpToRel
<1> QED BY <1>3

\* The invariant holds at first.
LEMMA PagesInitInv == ASSUME PagesInit PROVE PagesInv
<1> PICK job : job = Min(DOMAIN Results)
  OBVIOUS
<1> PICK size : size = Min(Sizes)
  OBVIOUS
<1>1. job \in DOMAIN Results
  <2> PICK n \in Nat : n = Len(Results) /\ n # 0
    BY PagesAssumption
  <2> PICK B : B = DOMAIN Results
    OBVIOUS
  <2>1. B = 1 .. n
    BY PagesAssumption
  <2>2. 1 \in B /\ \A y \in B : y \in Int /\ 1 <= y
    BY <2>1
  <2>3. Min(B) = 1
    BY <2>2, MinIs
  <2> QED BY <2>2, <2>3
<1>2. size \in Sizes
  <2>1. \E x \in Sizes : \A y \in Sizes : x <= y
    BY PagesAssumption, LeastIs
  <2>2. PICK x \in Sizes : \A y \in Sizes : x <= y
    BY <2>1
  <2>3. x \in Int /\ \A y \in Sizes : y \in Int /\ x <= y
    BY <2>2, PagesAssumption
  <2>4. Min(Sizes) = x
    BY <2>3, MinIs
  <2> QED BY <2>4
<1>3. view = [job |-> job, page |-> 1, size |-> size, order |-> "desc"] /\ answer = [of |-> view, count |-> 0]
  BY DEF PagesInit, With
<1>4. view \in Views /\ view.page = 1
  BY <1>1, <1>2, <1>3 DEF Views
<1>5. RowsAreKnown
  BY <1>3, <1>4 DEF RowsAreKnown
<1>6. PageIsThere
  BY <1>4, FirstPage DEF PageIsThere
<1>7. ScrollIsThere /\ kept = table
  BY DEF PagesInit, ScrollIsThere
<1>8. ledger \in [Sections -> Seq(Groups)] /\ choice \in LedgerChoices /\ ledgerPage = 1
  BY DEF PagesInit, Sections, LedgerChoices
<1>9. LedgerIsThere
  <2>1. LedgerPages \in Nat /\ LedgerPages >= 1
    BY <1>8, LedgerPagesNat DEF LedgerPages, Active
  <2> QED BY <1>8, <2>1 DEF LedgerIsThere
<1> QED BY <1>5, <1>6, <1>7, <1>9 DEF PagesInv

\* And after every step.
LEMMA PagesNextInv == ASSUME PagesInv, [ResultsNext \/ LedgerNext]_pageVars PROVE PagesInv'
<1>0. RowsAreKnown /\ PageIsThere /\ ScrollIsThere /\ kept = table /\ LedgerIsThere
  BY DEF PagesInv
<1>1. CASE ResultsNext
  <2>1. RowsAreKnown' /\ PageIsThere' /\ ScrollIsThere' /\ kept' = table'
    BY <1>1, ResultsKeep DEF ResultsNext
  <2>2. LedgerIsThere'
    BY <1>0, <1>1, NoLedgerStep DEF ResultsNext
  <2> QED BY <2>1, <2>2 DEF PagesInv
<1>2. CASE LedgerNext
  <2>1. RowsAreKnown' /\ PageIsThere' /\ ScrollIsThere' /\ kept' = table'
    BY <1>0, <1>2, NoResultStep DEF LedgerNext
  <2>2. LedgerIsThere'
    BY <1>0, <1>2, LedgerKeeps DEF LedgerNext
  <2> QED BY <2>1, <2>2 DEF PagesInv
<1>3. CASE UNCHANGED pageVars
  <2>1. UNCHANGED resultVars /\ UNCHANGED ledgerVars
    BY <1>3 DEF pageVars, resultVars, ledgerVars
  <2>2. RowsAreKnown' /\ PageIsThere' /\ ScrollIsThere' /\ kept' = table'
    BY <1>0, <2>1, NoResultStep
  <2>3. LedgerIsThere'
    BY <1>0, <2>1, NoLedgerStep
  <2> QED BY <2>2, <2>3 DEF PagesInv
<1> QED BY <1>1, <1>2, <1>3

\* The results are on the pages, each on one.
LEMMA ReachIsSound == ASSUME PagesInv PROVE ResultsAreInReach
<1>0. view \in Views /\ view.job \in DOMAIN Results /\ view.size \in Sizes /\ view.page \in Nat
  BY ViewFields DEF PagesInv, RowsAreKnown
<1>1. Pages(With(view, Results[view.job])) = PageCount(Results[view.job], view.size)
  BY DEF Pages, With
<1>2. ~slipped => view.page <= Pages(With(view, Results[view.job]))
  BY <1>1 DEF PagesInv, PageIsThere
<1> PICK rows : rows = Sorted(view.job, view.order)
  OBVIOUS
<1> PICK size \in Nat : size = view.size /\ size > 0
  BY <1>0, Dimensions
<1>3. rows \in Seq(Nat) /\ Len(rows) = Results[view.job]
  BY <1>0, SortedIs
<1> PICK P : P = PageCount(Len(rows), size)
  OBVIOUS
<1>4. FlattenSeq([p \in 1 .. P |-> Filtered(Slice(rows, p, size), filters)]) = Filtered(rows, filters)
  BY <1>3, PagesFilterAll
<1>5. ASSUME NEW p \in 1 .. P PROVE RowsOf([view EXCEPT !.page = p]) = Filtered(Slice(rows, p, size), filters)
  <2> PICK of : of = [view EXCEPT !.page = p]
    OBVIOUS
  <2>1. of.job = view.job /\ of.order = view.order /\ of.size = view.size /\ of.page = p
    BY <1>0 DEF Views
  <2> QED BY <2>1 DEF RowsOf
<1>6. [p \in 1 .. P |-> RowsOf([view EXCEPT !.page = p])] = [p \in 1 .. P |-> Filtered(Slice(rows, p, size), filters)]
  BY <1>5
<1>7. Pages(With(view, Results[view.job])) = P
  BY <1>1, <1>3
<1> QED BY <1>2, <1>4, <1>6, <1>7 DEF ResultsAreInReach

\* The rows in view are rendered.
LEMMA ViewIsSound == ASSUME PagesInv PROVE ViewportIsFilled
<1>1. answer.of \in Views
  BY DEF PagesInv, RowsAreKnown
<1>2. Shown \in Seq(Nat)
  <2>1. RowsOf(answer.of) \in Seq(Nat)
    BY <1>1, RowsOfType
  <2> QED BY <2>1 DEF Shown
<1> PICK count \in Nat : count = Len(Shown)
  BY <1>2
<1> PICK h \in Nat, v \in Nat, o \in Nat : h = RowHeight /\ v = Viewport /\ o = Overscan /\ h > 0 /\ v > 0 /\ o > 0
  BY Dimensions
<1> PICK t \in Nat : t = top /\ (t = 0 \/ t + v <= count * h)
  BY DEF PagesInv, ScrollIsThere
<1>3. Rendered(count, t) = RowFrom(t, h, o) .. RowTo(count, h, v, o, t) - 1
  BY DEF Rendered, RowFrom, RowTo, Greater, Lesser
<1>4. InView(count, h, v, t) \subseteq RowFrom(t, h, o) .. RowTo(count, h, v, o, t) - 1
  BY RowIsRendered
<1>5. count > 0 => InView(count, h, v, t) # {}
  BY RowInView
<1>6. InView(count, h, v, t) \subseteq Rendered(count, t) /\ (count > 0 => InView(count, h, v, t) # {})
  BY <1>3, <1>4, <1>5
<1> QED BY <1>6 DEF ViewportIsFilled, InView

\* The page of the ledger is there and has a row if there is one.
LEMMA LedgerPageIsSound == ASSUME PagesInv PROVE LedgerIsInReach
<1>0. ledger \in [Sections -> Seq(Groups)] /\ choice \in LedgerChoices /\ ledgerPage \in Nat /\ ledgerPage >= 1 /\ ledgerPage <= LedgerPages
  BY DEF PagesInv, LedgerIsThere
<1>1. LedgerPages \in Nat /\ Active \in Seq(Groups)
  BY <1>0, LedgerPagesNat DEF LedgerPages, Active
<1> PICK pages \in Nat, page \in Nat : pages = LedgerPages /\ page = ledgerPage
  BY <1>0, <1>1
<1> PICK rows : rows = Active
  OBVIOUS
<1>2. pages = PageCount(Len(rows), LedgerSize) /\ rows \in Seq(Groups)
  BY <1>1 DEF LedgerPages
<1>3. page \in Window(page, pages) /\ Window(page, pages) \subseteq 1 .. pages
  <2>1. page \in 1 .. pages
    BY <1>0
  <2> QED BY <2>1, WindowIs
<1>4. rows # << >> => Slice(rows, page, LedgerSize) # << >>
  <2>1. page >= 1 /\ page <= PageCount(Len(rows), LedgerSize) /\ LedgerSize \in Nat /\ LedgerSize > 0
    BY <1>0, <1>2, Dimensions
  <2> QED BY <1>2, <2>1, PageGoesOn
<1>5. FlattenSeq([p \in 1 .. PageCount(Len(rows), LedgerSize) |-> Slice(rows, p, LedgerSize)]) = rows
  BY <1>2, Dimensions, PagesMakeAll
<1> QED BY <1>2, <1>3, <1>4, <1>5 DEF LedgerIsInReach

\* The invariant says what is promised of both tables.
LEMMA PagesInvIsSound == ASSUME PagesInv PROVE PagesAreSound
<1>1. TableIsKept
  BY DEF TableIsKept, Visible, PagesInv
<1> QED BY <1>1, ReachIsSound, ViewIsSound, LedgerPageIsSound DEF PagesAreSound

\* Both tables, whatever the user does and whenever rows and snapshots come.
THEOREM PagesStaySound == PagesSpec => []PagesAreSound
<1>1. PagesInit => PagesInv
  BY PagesInitInv
<1>2. PagesInv /\ [ResultsNext \/ LedgerNext]_pageVars => PagesInv'
  BY PagesNextInv
<1>3. PagesInv => PagesAreSound
  BY PagesInvIsSound
<1> QED BY <1>1, <1>2, <1>3, PTL DEF PagesSpec

-----------------------------------------------------------------------------
(* LiveLedger and LiveViews: the open grids.                               *)

\* The values that a sum goes through.
SumsTo(v, w, n) == v[0] = 0 /\ \A i \in 1 .. n : v[i] = v[i - 1] + w[i]

\* The terms of a sum determine it.
LEMMA SumsAgree ==
  ASSUME NEW n \in Nat, NEW m \in Nat, m <= n, NEW v, NEW u, NEW w, NEW x, SumsTo(v, w, m), SumsTo(u, x, n),
         \A i \in 1 .. m : w[i] = x[i]
  PROVE  v[m] = u[m]
<1> DEFINE P == {i \in Nat : i <= m => v[i] = u[i]}
<1>1. 0 \in P
  BY DEF SumsTo
<1>2. ASSUME NEW i \in Nat, i \in P PROVE i + 1 \in P
  <2> SUFFICES ASSUME i + 1 <= m PROVE v[i + 1] = u[i + 1]
    OBVIOUS
  <2>1. i + 1 \in 1 .. m /\ i + 1 \in 1 .. n /\ (i + 1) - 1 = i /\ v[i] = u[i]
    BY <1>2
  <2> QED BY <2>1 DEF SumsTo
<1>3. m \in P
  <2> HIDE DEF P
  <2> QED BY <1>1, <1>2, NatInduct
<1> QED BY <1>3

\* A fold that adds w, over sets of indices.
Adds(h, w, n) == \A u \in SUBSET (1 .. n) : h[u] = IF u = {} THEN 0 ELSE h[u \ {Max(u)}] + w[Max(u)]

\* There is one, and it goes through the values of the sum.
LEMMA SumFolded ==
  ASSUME NEW n \in Nat, NEW w \in [1 .. n -> Int]
  PROVE  /\ \E g \in [SUBSET (1 .. n) -> Int] : Adds(g, w, n)
         /\ \A h : Adds(h, w, n) => \E v \in [0 .. n -> Int] : SumsTo(v, w, n) /\ h[1 .. n] = v[n]
<1>1. \E g \in [SUBSET (1 .. n) -> Int] : Adds(g, w, n)
  <2> DEFINE G == [i \in 1 .. n |-> [t \in Int |-> t + w[i]]]
  <2>1. 0 \in Int /\ G \in [1 .. n -> [Int -> Int]]
    OBVIOUS
  <2>2. PICK g \in [SUBSET (1 .. n) -> Int] : IsFold(g, n, 0, G)
    <3> HIDE DEF G
    <3> QED BY <2>1, FoldExists
  <2>3. ASSUME NEW u \in SUBSET (1 .. n), u # {} PROVE g[u] = g[u \ {Max(u)}] + w[Max(u)]
    <3>1. Max(u) \in 1 .. n
      BY <2>3, MaxIn
    <3>2. g[u] = G[Max(u)][g[u \ {Max(u)}]] /\ g[u \ {Max(u)}] \in Int
      BY <2>2, <2>3 DEF IsFold
    <3> QED BY <3>1, <3>2
  <2>4. g[{}] = 0
    BY <2>2 DEF IsFold
  <2> QED BY <2>3, <2>4 DEF Adds
<1>2. ASSUME NEW h, Adds(h, w, n) PROVE \E v \in [0 .. n -> Int] : SumsTo(v, w, n) /\ h[1 .. n] = v[n]
  <2>1. ASSUME NEW i \in 1 .. n PROVE h[1 .. i] = h[1 .. (i - 1)] + w[i]
    <3>1. 1 .. i \in SUBSET (1 .. n) /\ i \in Nat /\ i # 0
      OBVIOUS
    <3>2. Max(1 .. i) = i /\ (1 .. i) \ {Max(1 .. i)} = 1 .. (i - 1) /\ 1 .. i # {}
      BY <3>1, MaxUpTo
    <3> QED BY <1>2, <3>1, <3>2 DEF Adds
  <2>2. h[1 .. 0] = 0
    <3>1. 1 .. 0 = {} /\ {} \in SUBSET (1 .. n)
      OBVIOUS
    <3> QED BY <3>1, <1>2 DEF Adds
  <2> DEFINE P == {m \in Nat : m <= n => h[1 .. m] \in Int}
  <2>3. 0 \in P
    BY <2>2
  <2>4. ASSUME NEW m \in Nat, m \in P PROVE m + 1 \in P
    <3> SUFFICES ASSUME m + 1 <= n PROVE h[1 .. (m + 1)] \in Int
      OBVIOUS
    <3>1. m + 1 \in 1 .. n /\ h[1 .. m] \in Int /\ (m + 1) - 1 = m
      BY <2>4
    <3>2. h[1 .. (m + 1)] = h[1 .. m] + w[m + 1]
      BY <3>1, <2>1
    <3> QED BY <3>1, <3>2
  <2>5. \A m \in 0 .. n : h[1 .. m] \in Int
    <3>1. Nat \subseteq P
      <4> HIDE DEF P
      <4> QED BY <2>3, <2>4, NatInduct
    <3> QED BY <3>1
  <2> DEFINE v == [i \in 0 .. n |-> h[1 .. i]]
  <2>6. v \in [0 .. n -> Int] /\ v[0] = 0 /\ v[n] = h[1 .. n] /\ \A i \in 1 .. n : v[i] = v[i - 1] + w[i]
    BY <2>1, <2>2, <2>5
  <2> HIDE DEF v
  <2> QED BY <2>6 DEF SumsTo
<1> QED BY <1>1, <1>2

\* The quantity of groups is the sum of theirs.
LEMMA QuantitySums ==
  ASSUME NEW S, \A r \in S : r.quantity \in Int, NEW s \in Seq(S), NEW n \in Nat, n = Len(s)
  PROVE  \E v \in [0 .. n -> Int] : SumsTo(v, [i \in 1 .. n |-> s[i].quantity], n) /\ QuantityOf(s) = v[n]
<1> DEFINE Is(h) == h = [u \in SUBSET (DOMAIN s) |->
                          IF u = {} THEN 0 ELSE h[u \ {Max(u)}] + s[Max(u)].quantity]
<1>d. DOMAIN s = 1 .. n /\ \A i \in 1 .. n : s[i].quantity \in Int
  <2>1. \A i \in 1 .. n : s[i] \in S
    OBVIOUS
  <2> QED BY <2>1
<1>w. PICK w \in [1 .. n -> Int] : w = [i \in 1 .. n |-> s[i].quantity]
  BY <1>d
<1>m. ASSUME NEW u \in SUBSET (1 .. n), u # {} PROVE w[Max(u)] = s[Max(u)].quantity
  <2>1. Max(u) \in 1 .. n
    BY <1>m, MaxIn
  <2> QED BY <2>1, <1>w
<1>1. PICK g \in [SUBSET (1 .. n) -> Int] : Adds(g, w, n)
  BY SumFolded
<1>2. Is(g)
  BY <1>1, <1>m, <1>d DEF Adds
<1>3. PICK h : h = CHOOSE c : Is(c)
  OBVIOUS
<1>4. Is(h)
  <2> HIDE DEF Is
  <2> QED BY <1>2, <1>3
<1>5. Adds(h, w, n)
  BY <1>4, <1>m, <1>d DEF Adds
<1>6. QuantityOf(s) = h[1 .. n]
  BY <1>3, <1>d DEF QuantityOf, FoldLeft, MapThenFoldSet
<1>7. PICK v \in [0 .. n -> Int] : SumsTo(v, w, n) /\ h[1 .. n] = v[n]
  <2>1. \A c : Adds(c, w, n) => \E v \in [0 .. n -> Int] : SumsTo(v, w, n) /\ c[1 .. n] = v[n]
    BY SumFolded
  <2> QED BY <1>5, <2>1
<1> QED BY <1>6, <1>7, <1>w

\* What the fills come to is the sum of what they buy.
LEMMA TotalSums ==
  ASSUME NEW R, \A r \in R : r.quantity \in Int, NEW f \in Seq(R), NEW n \in Nat, n = Len(f)
  PROVE  \E v \in [0 .. n -> Int] : SumsTo(v, [i \in 1 .. n |-> Signed(f[i])], n) /\ TotalOf(f) = v[n]
<1> DEFINE Is(h) == h = [u \in SUBSET (DOMAIN f) |->
                          IF u = {} THEN 0 ELSE h[u \ {Max(u)}] + Signed(f[Max(u)])]
<1>d. DOMAIN f = 1 .. n /\ \A i \in 1 .. n : Signed(f[i]) \in Int
  <2>1. \A i \in 1 .. n : f[i] \in R
    OBVIOUS
  <2> QED BY <2>1 DEF Signed
<1>w. PICK w \in [1 .. n -> Int] : w = [i \in 1 .. n |-> Signed(f[i])]
  BY <1>d
<1>m. ASSUME NEW u \in SUBSET (1 .. n), u # {} PROVE w[Max(u)] = Signed(f[Max(u)])
  <2>1. Max(u) \in 1 .. n
    BY <1>m, MaxIn
  <2> QED BY <2>1, <1>w
<1>1. PICK g \in [SUBSET (1 .. n) -> Int] : Adds(g, w, n)
  BY SumFolded
<1>2. Is(g)
  BY <1>1, <1>m, <1>d DEF Adds
<1>3. PICK h : h = CHOOSE c : Is(c)
  OBVIOUS
<1>4. Is(h)
  <2> HIDE DEF Is
  <2> QED BY <1>2, <1>3
<1>5. Adds(h, w, n)
  BY <1>4, <1>m, <1>d DEF Adds
<1>6. TotalOf(f) = h[1 .. n]
  BY <1>3, <1>d DEF TotalOf, FoldLeft, MapThenFoldSet
<1>7. PICK v \in [0 .. n -> Int] : SumsTo(v, w, n) /\ h[1 .. n] = v[n]
  <2>1. \A c : Adds(c, w, n) => \E v \in [0 .. n -> Int] : SumsTo(v, w, n) /\ c[1 .. n] = v[n]
    BY SumFolded
  <2> QED BY <1>5, <2>1
<1> QED BY <1>6, <1>7, <1>w

\* A sequence with one element more.
LEMMA OneMore ==
  ASSUME NEW S, NEW s \in Seq(S), NEW x \in S, NEW n \in Nat, n = Len(s)
  PROVE  /\ Append(s, x) \in Seq(S) /\ Len(Append(s, x)) = n + 1 /\ Append(s, x)[n + 1] = x
         /\ \A i \in 1 .. n : Append(s, x)[i] = s[i]
OBVIOUS

\* A group more adds its quantity.
LEMMA QuantityAppend ==
  ASSUME NEW S, \A r \in S : r.quantity \in Int, NEW s \in Seq(S), NEW x \in S
  PROVE  QuantityOf(Append(s, x)) = QuantityOf(s) + x.quantity /\ QuantityOf(s) \in Int
<1>1. PICK n \in Nat : n = Len(s)
  OBVIOUS
<1>2. PICK t : t = Append(s, x)
  OBVIOUS
<1>3. t \in Seq(S) /\ Len(t) = n + 1 /\ t[n + 1] = x /\ \A i \in 1 .. n : t[i] = s[i]
  BY <1>1, <1>2, OneMore
<1>4. PICK v \in [0 .. n -> Int] : SumsTo(v, [i \in 1 .. n |-> s[i].quantity], n) /\ QuantityOf(s) = v[n]
  BY <1>1, QuantitySums
<1>5. PICK u : SumsTo(u, [i \in 1 .. n + 1 |-> t[i].quantity], n + 1) /\ QuantityOf(t) = u[n + 1]
  <2>1. PICK m \in Nat : m = n + 1
    OBVIOUS
  <2>2. \E u \in [0 .. m -> Int] : SumsTo(u, [i \in 1 .. m |-> t[i].quantity], m) /\ QuantityOf(t) = u[m]
    BY <1>3, <2>1, QuantitySums
  <2> QED BY <2>1, <2>2
<1>6. v[n] = u[n]
  <2> PICK m \in Nat : m = n + 1
    OBVIOUS
  <2>1. PICK w, d : w = [j \in 1 .. n |-> s[j].quantity] /\ d = [j \in 1 .. n + 1 |-> t[j].quantity]
    OBVIOUS
  <2>2. n <= m /\ \A i \in 1 .. n : w[i] = d[i]
    BY <1>3, <2>1
  <2>3. SumsTo(v, w, n) /\ SumsTo(u, d, m)
    BY <1>4, <1>5, <2>1
  <2> QED BY <2>2, <2>3, SumsAgree
<1>7. u[n + 1] = u[n] + x.quantity
  <2>1. n + 1 \in 1 .. n + 1 /\ (n + 1) - 1 = n
    OBVIOUS
  <2> QED BY <1>3, <1>5, <2>1 DEF SumsTo
<1>8. v[n] \in Int
  BY <1>4
<1> QED BY <1>2, <1>4, <1>5, <1>6, <1>7, <1>8

\* No groups have no quantity.
LEMMA QuantityOfNone == QuantityOf(<< >>) = 0
<1> PICK s : s = << >>
  OBVIOUS
<1>1. s \in Seq([quantity : Int]) /\ Len(s) = 0 /\ \A r \in [quantity : Int] : r.quantity \in Int
  OBVIOUS
<1>2. PICK v : SumsTo(v, [i \in 1 .. 0 |-> s[i].quantity], 0) /\ QuantityOf(s) = v[0]
  BY <1>1, QuantitySums
<1> QED BY <1>2 DEF SumsTo

\* A fill more adds what it buys.
LEMMA TotalAppend ==
  ASSUME NEW R, \A r \in R : r.quantity \in Int, NEW f \in Seq(R), NEW x \in R
  PROVE  TotalOf(Append(f, x)) = TotalOf(f) + Signed(x) /\ TotalOf(f) \in Int
<1>1. PICK n \in Nat : n = Len(f)
  OBVIOUS
<1>2. PICK t : t = Append(f, x)
  OBVIOUS
<1>3. t \in Seq(R) /\ Len(t) = n + 1 /\ t[n + 1] = x /\ \A i \in 1 .. n : t[i] = f[i]
  BY <1>1, <1>2, OneMore
<1>4. PICK v \in [0 .. n -> Int] : SumsTo(v, [i \in 1 .. n |-> Signed(f[i])], n) /\ TotalOf(f) = v[n]
  BY <1>1, TotalSums
<1>5. PICK u : SumsTo(u, [i \in 1 .. n + 1 |-> Signed(t[i])], n + 1) /\ TotalOf(t) = u[n + 1]
  <2>1. PICK m \in Nat : m = n + 1
    OBVIOUS
  <2>2. \E u \in [0 .. m -> Int] : SumsTo(u, [i \in 1 .. m |-> Signed(t[i])], m) /\ TotalOf(t) = u[m]
    BY <1>3, <2>1, TotalSums
  <2> QED BY <2>1, <2>2
<1>6. v[n] = u[n]
  <2> PICK m \in Nat : m = n + 1
    OBVIOUS
  <2>1. PICK w, d : w = [j \in 1 .. n |-> Signed(f[j])] /\ d = [j \in 1 .. n + 1 |-> Signed(t[j])]
    OBVIOUS
  <2>2. n <= m /\ \A i \in 1 .. n : w[i] = d[i]
    BY <1>3, <2>1
  <2>3. SumsTo(v, w, n) /\ SumsTo(u, d, m)
    BY <1>4, <1>5, <2>1
  <2> QED BY <2>2, <2>3, SumsAgree
<1>7. u[n + 1] = u[n] + Signed(x)
  <2>1. n + 1 \in 1 .. n + 1 /\ (n + 1) - 1 = n
    OBVIOUS
  <2> QED BY <1>3, <1>5, <2>1 DEF SumsTo
<1>8. v[n] \in Int
  BY <1>4
<1> QED BY <1>2, <1>4, <1>5, <1>6, <1>7, <1>8

\* No fills come to nothing.
LEMMA TotalOfNone == TotalOf(<< >>) = 0
<1> PICK s : s = << >>
  OBVIOUS
<1>1. s \in Seq(Filled) /\ Len(s) = 0 /\ \A r \in Filled : r.quantity \in Int
  BY DEF Filled
<1>2. PICK v : SumsTo(v, [i \in 1 .. 0 |-> Signed(s[i])], 0) /\ TotalOf(s) = v[0]
  BY <1>1, TotalSums
<1> QED BY <1>2 DEF SumsTo

\* No two lots have one price.
OnePrice(lots) == \A i, j \in 1 .. Len(lots) : lots[i].fill.price = lots[j].fill.price => i = j

\* A lot more, of another price.
LEMMA LotAdded ==
  ASSUME NEW S, NEW s \in Seq(S), NEW x \in S
  PROVE  /\ ToSet(Append(s, x)) = ToSet(s) \cup {x}
         /\ OnePrice(s) /\ (\A l \in ToSet(s) : l.fill.price # x.fill.price) => OnePrice(Append(s, x))
<1>1. PICK n \in Nat : n = Len(s)
  OBVIOUS
<1>2. PICK t : t = Append(s, x)
  OBVIOUS
<1>3. t \in Seq(S) /\ Len(t) = n + 1 /\ t[n + 1] = x /\ \A i \in 1 .. n : t[i] = s[i]
  BY <1>1, <1>2, OneMore
<1>4. DOMAIN s = 1 .. n /\ DOMAIN t = 1 .. n + 1
  BY <1>1, <1>3
<1>5. \A i \in 1 .. n + 1 : i = n + 1 \/ i \in 1 .. n
  OBVIOUS
<1>6. ToSet(t) = ToSet(s) \cup {x}
  <2>1. ASSUME NEW i \in 1 .. n + 1 PROVE t[i] \in ToSet(s) \cup {x}
    BY <1>3, <1>4, <1>5 DEF ToSet
  <2>2. ASSUME NEW i \in 1 .. n PROVE s[i] \in ToSet(t)
    BY <1>3, <1>4 DEF ToSet
  <2>3. x \in ToSet(t)
    <3>1. n + 1 \in 1 .. n + 1
      OBVIOUS
    <3> QED BY <1>3, <1>4, <3>1 DEF ToSet
  <2> QED BY <2>1, <2>2, <2>3, <1>4 DEF ToSet
<1>7. ASSUME OnePrice(s), \A l \in ToSet(s) : l.fill.price # x.fill.price PROVE OnePrice(t)
  <2>1. \A i \in 1 .. n : t[i].fill.price # x.fill.price
    BY <1>3, <1>4, <1>7 DEF ToSet
  <2>2. ASSUME NEW i \in 1 .. n + 1, NEW j \in 1 .. n + 1, t[i].fill.price = t[j].fill.price PROVE i = j
    <3>1. CASE i \in 1 .. n /\ j \in 1 .. n
      BY <3>1, <2>2, <1>1, <1>3, <1>7 DEF OnePrice
    <3>2. CASE i = n + 1
      BY <3>2, <2>1, <2>2, <1>3, <1>5
    <3>3. CASE j = n + 1
      BY <3>3, <2>1, <2>2, <1>3, <1>5
    <3> QED BY <3>1, <3>2, <3>3, <1>5
  <2> QED BY <2>2, <1>3 DEF OnePrice
<1> QED BY <1>2, <1>6, <1>7

\* What a fill of q leaves of lots, all of it to those of other prices.
Stays(lot, price, q) == lot.fill.price # price \/ lot.rest > q
Lessened(lot, price, q) == IF lot.fill.price = price THEN [lot EXCEPT !.rest = @ - q] ELSE lot

\* A lot of another price stays as it is; one that has at least what the fill closes gives it that.
LEMMA LotGives ==
  ASSUME NEW R, NEW fill \in R, NEW t \in TakenOf(R), NEW lot \in LotOf(R), NEW price, NEW q \in Nat, q > 0,
         MayClose(lot, fill) <=> lot.fill.price = price,
         lot.fill.price = price => lot.rest >= q /\ t.left = q
  PROVE  /\ TakeLot(fill, t, lot).left = IF lot.fill.price = price THEN 0 ELSE t.left
         /\ TakeLot(fill, t, lot).lots =
              IF Stays(lot, price, q) THEN Append(t.lots, Lessened(lot, price, q)) ELSE t.lots
         /\ Lessened(lot, price, q) \in LotOf(R) /\ Lessened(lot, price, q).fill = lot.fill
<1>1. t.left \in Int /\ lot.rest \in Int
  BY DEF TakenOf, LotOf
<1>2. CASE lot.fill.price # price
  <2>1. TakeLot(fill, t, lot) = [t EXCEPT !.lots = Append(@, lot)]
    BY <1>2 DEF TakeLot
  <2>2. TakeLot(fill, t, lot).left = t.left /\ TakeLot(fill, t, lot).lots = Append(t.lots, lot)
    BY <2>1 DEF TakenOf
  <2> QED BY <2>2, <1>2 DEF Stays, Lessened
<1>3. CASE lot.fill.price = price
  <2>1. Smaller(lot.rest, t.left) = q
    BY <1>1, <1>3 DEF Smaller
  <2>2. PICK rest \in Int : rest = lot.rest - q
    BY <1>1
  <2>3. TakeLot(fill, t, lot) =
          [left |-> t.left - q,
           lots |-> IF rest = 0 THEN t.lots ELSE Append(t.lots, [lot EXCEPT !.rest = rest]),
           closed |-> Append(t.closed, Group(lot.fill, fill, q, "matched"))]
    BY <1>3, <2>1, <2>2 DEF TakeLot
  <2>4. rest = 0 <=> ~Stays(lot, price, q)
    BY <1>1, <1>3, <2>2 DEF Stays
  <2>5. [lot EXCEPT !.rest = rest] = Lessened(lot, price, q)
    BY <1>3, <2>2 DEF Lessened, LotOf
  <2>6. t.left - q = 0
    BY <1>3, <1>1
  <2>7. Lessened(lot, price, q) \in LotOf(R) /\ Lessened(lot, price, q).fill = lot.fill
    BY <2>2, <2>5 DEF LotOf
  <2>8. /\ TakeLot(fill, t, lot).left = 0
        /\ TakeLot(fill, t, lot).lots = IF rest = 0 THEN t.lots ELSE Append(t.lots, [lot EXCEPT !.rest = rest])
    BY <2>3, <2>6
  <2> QED BY <2>4, <2>5, <2>7, <2>8, <1>3
<1> QED BY <1>2, <1>3

\* A fill closes the lots of one price, which has at least as much.
ClosesAt(lots, fill, price, q) ==
  \A i \in 1 .. Len(lots) : /\ MayClose(lots[i], fill) <=> lots[i].fill.price = price
                            /\ lots[i].fill.price = price => lots[i].rest >= q

\* Lots after such a fill, and before.
IsLessened(after, lots, price, q) ==
  /\ OnePrice(after)
  /\ \A l : l \in ToSet(after) <=>
              \E i \in 1 .. Len(lots) : Stays(lots[i], price, q) /\ l = Lessened(lots[i], price, q)

\* A fill that closes, of one price, takes what it closes from the lot of its price.
LEMMA LotsAfterClose ==
  ASSUME NEW R, NEW fill \in R, NEW q \in Nat, q > 0, fill.quantity = q, fill.side # OpeningSide,
         NEW book \in BookOf(R), OnePrice(book.lots), NEW price, ClosesAt(book.lots, fill, price, q)
  PROVE  IsLessened(TakeFill(book, fill).lots, book.lots, price, q)
<1>a. \A i \in 1 .. Len(book.lots) :
        /\ MayClose(book.lots[i], fill) <=> book.lots[i].fill.price = price
        /\ book.lots[i].fill.price = price => book.lots[i].rest >= q
  BY DEF ClosesAt
<1>0. PICK lots \in Seq(LotOf(R)) : lots = book.lots
  BY DEF BookOf
<1>n. PICK n \in Nat : n = Len(lots)
  OBVIOUS
<1> PICK base : base = [left |-> fill.quantity, lots |-> << >>, closed |-> book.closed]
  OBVIOUS
<1>1. base \in TakenOf(R) /\ base.left = q /\ base.lots = << >>
  <2>1. book.closed \in Seq(GroupOf(R)) /\ << >> \in Seq(LotOf(R))
    BY DEF BookOf
  <2> QED BY <2>1 DEF TakenOf
<1>2. PICK v \in [0 .. n -> TakenOf(R)] :
        /\ v[0] = base
        /\ \A i \in 1 .. n : v[i] = TakeLot(fill, v[i - 1], lots[i])
        /\ LotsTaken(fill, base, lots) = v[n]
  <2>1. \E v \in [0 .. Len(lots) -> TakenOf(R)] :
          /\ v[0] = base
          /\ \A i \in 1 .. Len(lots) : v[i] = TakeLot(fill, v[i - 1], lots[i])
          /\ LotsTaken(fill, base, lots) = v[Len(lots)]
    BY <1>1, LotsFolded
  <2> QED BY <2>1, <1>n
<1>3. TakeFill(book, fill).lots = v[n].lots
  BY <1>0, <1>2 DEF TakeFill, LotsTaken
<1> DEFINE Good(i) ==
      /\ v[i].left = IF \E k \in 1 .. i : lots[k].fill.price = price THEN 0 ELSE q
      /\ OnePrice(v[i].lots)
      /\ \A l : l \in ToSet(v[i].lots) <=>
                  \E k \in 1 .. i : Stays(lots[k], price, q) /\ l = Lessened(lots[k], price, q)
    P == {i \in Nat : i <= n => Good(i)}
<1>4. 0 \in P
  <2>1. v[0].lots = << >> /\ v[0].left = q /\ 1 .. 0 = {}
    BY <1>1, <1>2
  <2>2. ToSet(<< >>) = {} /\ OnePrice(<< >>)
    BY DEF ToSet, OnePrice
  <2> QED BY <2>1, <2>2
<1>5. ASSUME NEW m \in Nat, m \in P PROVE m + 1 \in P
  <2> PICK i \in Nat : i = m + 1
    OBVIOUS
  <2> SUFFICES ASSUME i <= n PROVE Good(i)
    OBVIOUS
  <2>1. i \in 1 .. n /\ i - 1 = m /\ m \in 0 .. n /\ Good(m) /\ lots[i] \in LotOf(R) /\ i \notin 1 .. m
        /\ \A k \in 1 .. i : k = i \/ k \in 1 .. m
    BY <1>5, <1>n
  <2>2. PICK lot \in LotOf(R), t \in TakenOf(R) : lot = lots[i] /\ t = v[m]
    BY <2>1, <1>2
  <2>3. v[i] = TakeLot(fill, t, lot)
    BY <1>2, <2>1, <2>2
  <2>4. \A k \in 1 .. m : lots[k].fill.price # lot.fill.price
    BY <2>1, <2>2, <1>0, <1>n DEF OnePrice
  <2>5. MayClose(lot, fill) <=> lot.fill.price = price
    BY <2>1, <2>2, <1>0, <1>n, <1>a
  <2>6. lot.fill.price = price => lot.rest >= q /\ t.left = q
    BY <2>1, <2>2, <2>4, <1>0, <1>n, <1>a
  <2>7. /\ v[i].left = IF lot.fill.price = price THEN 0 ELSE t.left
        /\ v[i].lots = IF Stays(lot, price, q) THEN Append(t.lots, Lessened(lot, price, q)) ELSE t.lots
        /\ Lessened(lot, price, q) \in LotOf(R) /\ Lessened(lot, price, q).fill = lot.fill
    BY <2>3, <2>5, <2>6, LotGives
  <2>8. v[i].left = IF \E k \in 1 .. i : lots[k].fill.price = price THEN 0 ELSE q
    <3>1. t.left = IF \E k \in 1 .. m : lots[k].fill.price = price THEN 0 ELSE q
      BY <2>1, <2>2
    <3>2. (\E k \in 1 .. i : lots[k].fill.price = price) <=>
            lot.fill.price = price \/ \E k \in 1 .. m : lots[k].fill.price = price
      <4>1. \A k : k \in 1 .. i <=> k \in 1 .. m \/ k = i
        BY <2>1
      <4> QED BY <4>1, <2>2
    <3> QED BY <3>1, <3>2, <2>7
  <2>9. t.lots \in Seq(LotOf(R)) /\ OnePrice(t.lots)
    BY <2>1, <2>2 DEF TakenOf
  <2>10. \A l : l \in ToSet(t.lots) <=>
                  \E k \in 1 .. m : Stays(lots[k], price, q) /\ l = Lessened(lots[k], price, q)
    BY <2>1, <2>2
  <2>11. \A l \in ToSet(t.lots) : l.fill.price # Lessened(lot, price, q).fill.price
    <3> TAKE l \in ToSet(t.lots)
    <3>1. PICK k \in 1 .. m : l = Lessened(lots[k], price, q)
      BY <2>10
    <3>2. lots[k] \in LotOf(R)
      BY <2>1, <1>n
    <3>3. l.fill = lots[k].fill
      BY <3>1, <3>2 DEF Lessened, LotOf
    <3> QED BY <3>3, <2>4, <2>7
  <2>12. \A l : l \in ToSet(v[i].lots) <=>
                  l \in ToSet(t.lots) \/ (Stays(lot, price, q) /\ l = Lessened(lot, price, q))
    <3>1. ToSet(Append(t.lots, Lessened(lot, price, q))) = ToSet(t.lots) \cup {Lessened(lot, price, q)}
      BY <2>7, <2>9, LotAdded
    <3> QED BY <3>1, <2>7
  <2>13. OnePrice(v[i].lots)
    <3>1. OnePrice(Append(t.lots, Lessened(lot, price, q)))
      BY <2>7, <2>9, <2>11, LotAdded
    <3> QED BY <3>1, <2>7, <2>9
  <2>14. \A l : l \in ToSet(v[i].lots) <=>
                  \E k \in 1 .. i : Stays(lots[k], price, q) /\ l = Lessened(lots[k], price, q)
    <3>1. \A k : k \in 1 .. i <=> k \in 1 .. m \/ k = i
      BY <2>1
    <3> QED BY <2>2, <2>10, <2>12, <3>1
  <2> QED BY <2>8, <2>13, <2>14
<1>6. Good(n)
  <2>1. n \in P
    <3> HIDE DEF P
    <3> QED BY <1>4, <1>5, NatInduct
  <2> QED BY <2>1
<1> QED BY <1>0, <1>n, <1>3, <1>6 DEF IsLessened

\* The lots without one of them.
LEMMA LotRemoved ==
  ASSUME NEW S, NEW lots \in Seq(S), NEW k \in 1 .. Len(lots), OnePrice(lots)
  PROVE  /\ RemoveAt(lots, k) \in Seq(S) /\ OnePrice(RemoveAt(lots, k))
         /\ ToSet(RemoveAt(lots, k)) = ToSet(lots) \ {lots[k]}
<1>n. PICK n \in Nat : n = Len(lots) /\ k \in 1 .. n
  OBVIOUS
<1> DEFINE r == [i \in 1 .. n - 1 |-> IF i < k THEN lots[i] ELSE lots[i + 1]]
<1>1. \A i \in 1 .. n - 1 : r[i] \in S /\ i \in 1 .. n /\ i + 1 \in 1 .. n
  BY <1>n
<1>2. RemoveAt(lots, k) = r
  <2>1. PICK a, b : a = SubSeq(lots, 1, k - 1) /\ b = SubSeq(lots, k + 1, n)
    OBVIOUS
  <2>2. a \in Seq(S) /\ Len(a) = k - 1 /\ \A i \in 1 .. k - 1 : a[i] = lots[i]
    BY <2>1, <1>n
  <2>3. b \in Seq(S) /\ Len(b) = n - k /\ \A i \in 1 .. n - k : b[i] = lots[k + i]
    BY <2>1, <1>n
  <2>4. PICK c : c = a \o b
    OBVIOUS
  <2>5. /\ c \in Seq(S) /\ Len(c) = Len(a) + Len(b)
        /\ \A i \in 1 .. Len(a) : c[i] = a[i]
        /\ \A i \in 1 .. Len(b) : c[Len(a) + i] = b[i]
    <3>1. \A x, y \in Seq(S) :
            /\ x \o y \in Seq(S) /\ Len(x \o y) = Len(x) + Len(y)
            /\ \A i \in 1 .. Len(x) : (x \o y)[i] = x[i]
            /\ \A i \in 1 .. Len(y) : (x \o y)[Len(x) + i] = y[i]
      BY Joined
    <3> QED BY <3>1, <2>2, <2>3, <2>4
  <2>6. ASSUME NEW i \in 1 .. n - 1 PROVE c[i] = r[i]
    <3>1. CASE i < k
      <4>1. i \in 1 .. k - 1
        BY <3>1, <1>n
      <4>2. c[i] = lots[i]
        BY <4>1, <2>2, <2>5
      <4> QED BY <4>2, <3>1
    <3>2. CASE ~(i < k)
      <4>1. PICK j \in 1 .. n - k : i = (k - 1) + j
        <5>1. i - (k - 1) \in 1 .. n - k /\ i = (k - 1) + (i - (k - 1))
          BY <3>2, <1>n
        <5> QED BY <5>1
      <4>2. c[i] = b[j] /\ b[j] = lots[k + j] /\ k + j = i + 1
        BY <4>1, <2>2, <2>3, <2>5, <1>n
      <4> QED BY <4>2, <3>2
    <3> QED BY <3>1, <3>2
  <2>7. Len(c) = n - 1
    BY <2>2, <2>3, <2>5, <1>n
  <2>8. c = r
    BY <2>5, <2>6, <2>7, <1>n
  <2> QED BY <2>1, <2>4, <2>8, <1>n DEF RemoveAt
<1>3. r \in Seq(S) /\ Len(r) = n - 1 /\ DOMAIN r = 1 .. n - 1
  BY <1>1, <1>n
<1>4. DOMAIN lots = 1 .. n
  BY <1>n
<1>5. OnePrice(r)
  <2>1. ASSUME NEW i \in 1 .. n - 1, NEW j \in 1 .. n - 1, r[i].fill.price = r[j].fill.price PROVE i = j
    <3>1. PICK a \in 1 .. n, b \in 1 .. n :
            /\ a = (IF i < k THEN i ELSE i + 1) /\ b = (IF j < k THEN j ELSE j + 1)
      BY <1>1
    <3>2. r[i] = lots[a] /\ r[j] = lots[b]
      BY <3>1
    <3>3. a = b
      BY <2>1, <3>2, <1>n DEF OnePrice
    <3> QED BY <3>1, <3>3, <1>n
  <2> QED BY <2>1, <1>3 DEF OnePrice
<1>6. ToSet(r) = ToSet(lots) \ {lots[k]}
  <2>1. ASSUME NEW i \in 1 .. n - 1 PROVE r[i] \in ToSet(lots) \ {lots[k]}
    <3>1. PICK a \in 1 .. n : a = (IF i < k THEN i ELSE i + 1)
      BY <1>1
    <3>2. a # k /\ r[i] = lots[a]
      BY <3>1, <1>n
    <3>3. lots[a] # lots[k]
      BY <3>2, <1>n DEF OnePrice
    <3> QED BY <3>2, <3>3, <1>4 DEF ToSet
  <2>2. ASSUME NEW a \in 1 .. n, lots[a] # lots[k] PROVE lots[a] \in ToSet(r)
    <3>1. a # k
      BY <2>2
    <3>2. PICK i \in 1 .. n - 1 : i = (IF a < k THEN a ELSE a - 1)
      BY <3>1, <1>n
    <3>3. r[i] = lots[a]
      BY <3>1, <3>2, <1>n
    <3> QED BY <3>3, <1>3 DEF ToSet
  <2> HIDE DEF r
  <2> QED BY <2>1, <2>2, <1>3, <1>4 DEF ToSet
<1> HIDE DEF r
<1> QED BY <1>2, <1>3, <1>5, <1>6

\* Among some of the first numbers there is one of the latest time.
LEMMA LatestIs ==
  ASSUME NEW n \in Nat, NEW f, \A i \in 1 .. n : f[i] \in Int, NEW S \in SUBSET (1 .. n), S # {}
  PROVE  \E i \in S : \A j \in S : f[i] >= f[j]
<1> DEFINE P == {m \in Nat : m <= n => \A s \in SUBSET (1 .. m) : s # {} => \E i \in s : \A j \in s : f[i] >= f[j]}
<1>1. 0 \in P
  <2>1. 1 .. 0 = {}
    OBVIOUS
  <2> QED BY <2>1
<1>2. ASSUME NEW m \in Nat, m \in P PROVE m + 1 \in P
  <2> SUFFICES ASSUME m + 1 <= n, NEW s \in SUBSET (1 .. (m + 1)), s # {} PROVE \E i \in s : \A j \in s : f[i] >= f[j]
    OBVIOUS
  <2>1. \A j \in s : f[j] \in Int /\ (j = m + 1 \/ j \in 1 .. m)
    OBVIOUS
  <2>2. CASE m + 1 \notin s
    <3>1. s \in SUBSET (1 .. m)
      BY <2>2
    <3> QED BY <3>1, <1>2
  <2>3. CASE s = {m + 1}
    BY <2>1, <2>3
  <2>4. CASE m + 1 \in s /\ s # {m + 1}
    <3>1. PICK u : u = s \ {m + 1}
      OBVIOUS
    <3>2. u \in SUBSET (1 .. m) /\ u # {}
      BY <3>1, <2>1, <2>4
    <3>3. PICK i \in u : \A j \in u : f[i] >= f[j]
      BY <3>2, <1>2
    <3>4. CASE f[i] >= f[m + 1]
      BY <3>1, <3>3, <3>4, <2>1
    <3>5. CASE ~(f[i] >= f[m + 1])
      <4>1. f[m + 1] \in Int /\ f[i] \in Int /\ i \in s
        BY <2>1, <2>4, <3>1
      <4>2. \A j \in s : f[m + 1] >= f[j]
        <5> TAKE j \in s
        <5>1. f[j] \in Int
          BY <2>1
        <5>2. CASE j = m + 1
          BY <5>1, <5>2
        <5>3. CASE j # m + 1
          BY <5>1, <5>3, <3>1, <3>3, <3>5, <4>1
        <5> QED BY <5>2, <5>3
      <4> QED BY <4>2, <2>4
    <3> QED BY <3>4, <3>5
  <2> QED BY <2>2, <2>3, <2>4
<1>3. n \in P
  <2> HIDE DEF P
  <2> QED BY <1>1, <1>2, NatInduct
<1> QED BY <1>3

\* What the orders make of the lots.
OpenOf == [open : Filled \cup {BaseLeg}, close : Placed, quantity : Int, source : {"matched", "base_inferred"}]
OpenBook == [lots : Seq(LotOf(Filled)), open : Seq(OpenOf)]

\* The lot of an order is one of the lots.
LEMMA LotOfOrderType ==
  ASSUME NEW lots \in Seq(LotOf(Filled)), NEW order
  PROVE  LotOfOrder(lots, order) \in {0} \cup 1 .. Len(lots)
<1>1. PICK n \in Nat : n = Len(lots) /\ DOMAIN lots = 1 .. n
  OBVIOUS
<1> PICK fits : fits = {i \in DOMAIN lots : lots[i].rest > 0 /\ lots[i].fill.time < order.placed
                                              /\ PricesMatch(lots[i].fill.price, order.price)}
  OBVIOUS
<1>2. CASE fits = {}
  BY <1>2 DEF LotOfOrder
<1>3. CASE fits # {}
  <2>1. fits \in SUBSET (1 .. n)
    BY <1>1
  <2> DEFINE f == [i \in 1 .. n |-> lots[i].fill.time]
  <2>2. \A i \in 1 .. n : f[i] \in Int
    <3>1. \A i \in 1 .. n : lots[i] \in LotOf(Filled)
      BY <1>1
    <3> QED BY <3>1 DEF LotOf, Filled
  <2>3. \E i \in fits : \A j \in fits : f[i] >= f[j]
    <3> HIDE DEF f
    <3> QED BY <1>3, <2>1, <2>2, LatestIs
  <2>4. \E i \in fits : \A j \in fits : lots[i].fill.time >= lots[j].fill.time
    BY <2>1, <2>3
  <2>5. LotOfOrder(lots, order) = CHOOSE i \in fits : \A j \in fits : lots[i].fill.time >= lots[j].fill.time
    BY <1>3 DEF LotOfOrder
  <2>6. LotOfOrder(lots, order) \in fits
    BY <2>4, <2>5
  <2> QED BY <2>1, <2>6, <1>1
<1> QED BY <1>2, <1>3

\* An order makes such a book of such a book.
LEMMA TakeOrderType ==
  ASSUME NEW book \in OpenBook, NEW order \in Placed
  PROVE  TakeOrder(book, order) \in OpenBook
<1>0. PICK lots \in Seq(LotOf(Filled)), open \in Seq(OpenOf) : lots = book.lots /\ open = book.open
  BY DEF OpenBook
<1>1. PICK i \in {0} \cup 1 .. Len(lots) : i = LotOfOrder(lots, order)
  BY LotOfOrderType
<1>2. order.quantity \in Int
  BY DEF Placed
<1>3. CASE order.side # ClosingSide
  BY <1>3 DEF TakeOrder
<1>4. CASE order.side = ClosingSide /\ IsBaseOrder(order.placed)
  <2> PICK g : g = Group(BaseLeg, order, order.quantity, "base_inferred")
    OBVIOUS
  <2>1. g \in OpenOf
    BY <1>2 DEF Group, OpenOf
  <2>2. TakeOrder(book, order) = [book EXCEPT !.open = Append(@, g)]
    BY <1>4 DEF TakeOrder
  <2>3. Append(open, g) \in Seq(OpenOf)
    BY <2>1
  <2> QED BY <1>0, <2>2, <2>3 DEF OpenBook
<1>5. CASE order.side = ClosingSide /\ ~IsBaseOrder(order.placed) /\ i # 0
  <2>1. i \in 1 .. Len(lots) /\ lots[i] \in LotOf(Filled)
    BY <1>5
  <2> PICK quantity : quantity = Smaller(lots[i].rest, order.quantity)
    OBVIOUS
  <2>2. quantity \in Int
    BY <1>2, <2>1 DEF Smaller, LotOf
  <2> PICK g : g = Group(lots[i].fill, order, quantity, "matched")
    OBVIOUS
  <2>3. g \in OpenOf
    BY <2>1, <2>2 DEF Group, OpenOf, LotOf
  <2>4. TakeOrder(book, order) = [lots |-> Left(lots, i, quantity), open |-> Append(open, g)]
    BY <1>0, <1>1, <1>5 DEF TakeOrder
  <2>5. Append(open, g) \in Seq(OpenOf)
    BY <2>3
  <2>6. Left(lots, i, quantity) \in Seq(LotOf(Filled))
    <3>1. RemoveAt(lots, i) \in Seq(LotOf(Filled))
      BY <2>1 DEF RemoveAt
    <3>2. [lots EXCEPT ![i].rest = @ - quantity] \in Seq(LotOf(Filled))
      <4>1. PICK rest \in Int : rest = lots[i].rest - quantity
        BY <2>1, <2>2 DEF LotOf
      <4>2. [lots[i] EXCEPT !.rest = rest] \in LotOf(Filled)
        BY <2>1, <4>1 DEF LotOf
      <4>3. PICK t : t = [lots EXCEPT ![i].rest = @ - quantity]
        OBVIOUS
      <4>4. t[i] = [lots[i] EXCEPT !.rest = lots[i].rest - quantity]
        BY <4>3, <2>1
      <4>5. t[i] \in LotOf(Filled)
        BY <4>1, <4>2, <4>4
      <4>6. DOMAIN t = DOMAIN lots /\ \A j \in DOMAIN lots : j # i => t[j] = lots[j]
        BY <4>3
      <4>7. t = [j \in DOMAIN lots |-> t[j]]
        BY <4>3, <4>6
      <4>8. \A j \in 1 .. Len(lots) : t[j] \in LotOf(Filled)
        BY <4>5, <4>6, <2>1
      <4>9. t \in Seq(LotOf(Filled))
        <5> PICK m \in Nat : m = Len(lots) /\ DOMAIN lots = 1 .. m
          OBVIOUS
        <5>1. t = [j \in 1 .. m |-> t[j]] /\ \A j \in 1 .. m : t[j] \in LotOf(Filled)
          BY <4>7, <4>8
        <5> QED BY <5>1
      <4> QED BY <4>3, <4>9
    <3> QED BY <3>1, <3>2 DEF Left
  <2> QED BY <2>4, <2>5, <2>6 DEF OpenBook
<1>6. CASE order.side = ClosingSide /\ ~IsBaseOrder(order.placed) /\ i = 0
  BY <1>0, <1>1, <1>6 DEF TakeOrder
<1> QED BY <1>3, <1>4, <1>5, <1>6

\* The fold over orders.
LEMMA OrdersFolded ==
  ASSUME NEW base \in OpenBook, NEW s \in Seq(Placed), NEW n \in Nat, n = Len(s)
  PROVE  \E v \in [0 .. n -> OpenBook] :
           /\ v[0] = base
           /\ \A i \in 1 .. n : v[i] = TakeOrder(v[i - 1], s[i])
           /\ FoldLeft(TakeOrder, base, s) = v[n]
<1> DEFINE T == OpenBook
           Is(h) == h = [u \in SUBSET (DOMAIN s) |->
                          IF u = {} THEN base ELSE TakeOrder(h[u \ {Max(u)}], s[Max(u)])]
           G == [i \in 1 .. n |-> [t \in T |-> TakeOrder(t, s[i])]]
<1>1. DOMAIN s = 1 .. n /\ \A i \in 1 .. n : s[i] \in Placed
  OBVIOUS
<1>2. G \in [1 .. n -> [T -> T]]
  BY <1>1, TakeOrderType
<1>3. PICK g \in [SUBSET (1 .. n) -> T] : IsFold(g, n, base, G)
  <2> HIDE DEF G
  <2> QED BY <1>1, <1>2, FoldExists
<1>4. Is(g)
  <2>1. ASSUME NEW u \in SUBSET (1 .. n), u # {} PROVE g[u] = TakeOrder(g[u \ {Max(u)}], s[Max(u)])
    <3>1. Max(u) \in 1 .. n
      BY <2>1, MaxIn
    <3>2. g[u] = G[Max(u)][g[u \ {Max(u)}]] /\ g[u \ {Max(u)}] \in T
      BY <1>3, <2>1 DEF IsFold
    <3> QED BY <3>1, <3>2
  <2>2. g[{}] = base
    BY <1>3 DEF IsFold
  <2> QED BY <1>1, <1>3, <2>1, <2>2
<1>5. PICK h : h = CHOOSE c : Is(c)
  OBVIOUS
<1>6. Is(h)
  <2> HIDE DEF Is
  <2> QED BY <1>4, <1>5
<1>7. FoldLeft(TakeOrder, base, s) = h[DOMAIN s]
  BY <1>5 DEF FoldLeft, MapThenFoldSet
<1>8. h[{}] = base /\ \A i \in 1 .. n : h[1 .. i] = TakeOrder(h[1 .. (i - 1)], s[i])
  <2>1. \A u \in SUBSET (1 .. n) : h[u] = IF u = {} THEN base ELSE TakeOrder(h[u \ {Max(u)}], s[Max(u)])
    BY <1>1, <1>6
  <2>2. ASSUME NEW i \in 1 .. n PROVE h[1 .. i] = TakeOrder(h[1 .. (i - 1)], s[i])
    <3>1. 1 .. i \in SUBSET (1 .. n) /\ i \in Nat /\ i # 0
      OBVIOUS
    <3>2. Max(1 .. i) = i /\ (1 .. i) \ {Max(1 .. i)} = 1 .. (i - 1) /\ 1 .. i # {}
      BY <3>1, MaxUpTo
    <3>3. h[1 .. i] = TakeOrder(h[(1 .. i) \ {Max(1 .. i)}], s[Max(1 .. i)])
      BY <2>1, <3>1, <3>2
    <3> QED BY <3>2, <3>3
  <2> QED BY <2>1, <2>2
<1> DEFINE v == [i \in 0 .. n |-> h[1 .. i]]
<1>9. \A m \in 0 .. n : h[1 .. m] \in T
  <2> DEFINE P == {m \in Nat : m <= n => h[1 .. m] \in T}
  <2>1. 0 \in P
    <3>1. 1 .. 0 = {}
      OBVIOUS
    <3> QED BY <3>1, <1>8
  <2>2. ASSUME NEW m \in Nat, m \in P PROVE m + 1 \in P
    <3> SUFFICES ASSUME m + 1 <= n PROVE h[1 .. (m + 1)] \in T
      OBVIOUS
    <3>1. m + 1 \in 1 .. n /\ h[1 .. m] \in T /\ (m + 1) - 1 = m
      BY <2>2
    <3>2. h[1 .. (m + 1)] = TakeOrder(h[1 .. m], s[m + 1])
      BY <3>1, <1>8
    <3> QED BY <3>1, <3>2, <1>1, TakeOrderType
  <2>3. Nat \subseteq P
    <3> HIDE DEF P
    <3> QED BY <2>1, <2>2, NatInduct
  <2> QED BY <2>3
<1>10. v \in [0 .. n -> T] /\ v[0] = base /\ v[n] = h[DOMAIN s]
       /\ \A i \in 1 .. n : v[i] = TakeOrder(v[i - 1], s[i])
  <2>1. 1 .. 0 = {}
    OBVIOUS
  <2> QED BY <2>1, <1>1, <1>8, <1>9
<1> HIDE DEF v
<1> QED BY <1>7, <1>10

\* A finite set of orders has an earliest one.
LEMMA EarliestIs ==
  ASSUME NEW U \in SUBSET Placed, IsFiniteSet(U), U # {}
  PROVE  \E u \in U : \A o \in U : o.placed >= u.placed
<1> DEFINE P == {n \in Nat : \A W \in SUBSET Placed : IsFiniteSet(W) /\ Cardinality(W) = n /\ W # {} =>
                               \E u \in W : \A o \in W : o.placed >= u.placed}
<1>0. \A o \in Placed : o.placed \in Int
  BY DEF Placed
<1>1. 0 \in P
  BY FS_EmptySet
<1>2. ASSUME NEW n \in Nat, n \in P PROVE n + 1 \in P
  <2> SUFFICES ASSUME NEW W \in SUBSET Placed, IsFiniteSet(W), Cardinality(W) = n + 1, W # {}
               PROVE  \E u \in W : \A o \in W : o.placed >= u.placed
    OBVIOUS
  <2>1. PICK w \in W : TRUE
    OBVIOUS
  <2>2. PICK V : V = W \ {w}
    OBVIOUS
  <2>3. IsFiniteSet(V) /\ Cardinality(V) = n /\ V \in SUBSET Placed
    <3>1. IsFiniteSet(W \ {w}) /\ Cardinality(W \ {w}) = Cardinality(W) - 1
      BY FS_RemoveElement
    <3> QED BY <2>2, <3>1
  <2>4. CASE V = {}
    BY <1>0, <2>1, <2>2, <2>4
  <2>5. CASE V # {}
    <3>1. PICK v \in V : \A o \in V : o.placed >= v.placed
      BY <1>2, <2>3, <2>5
    <3>2. v.placed \in Int /\ w.placed \in Int /\ v \in W /\ \A o \in W : o.placed \in Int /\ (o = w \/ o \in V)
      BY <1>0, <2>2, <3>1
    <3>3. CASE w.placed >= v.placed
      BY <3>1, <3>2, <3>3
    <3>4. CASE ~(w.placed >= v.placed)
      <4>1. \A o \in W : o.placed >= w.placed
        BY <3>1, <3>2, <3>4
      <4> QED BY <4>1
    <3> QED BY <3>3, <3>4
  <2> QED BY <2>4, <2>5
<1>3. Cardinality(U) \in P
  <2>1. Cardinality(U) \in Nat
    BY FS_CardinalityType
  <2> HIDE DEF P
  <2> QED BY <2>1, <1>1, <1>2, NatInduct
<1> QED BY <1>3

\* Orders one after the other, the newest first.
Queue(U, n) ==
  {s \in [1 .. n -> U] : ToSet(s) = U /\ \A i, j \in DOMAIN s : i < j => s[i].placed >= s[j].placed}

\* A finite set of orders can be put so.
LEMMA QueueExists ==
  ASSUME NEW U \in SUBSET Placed, IsFiniteSet(U)
  PROVE  Queue(U, Cardinality(U)) # {}
<1> DEFINE P == {n \in Nat : \A W \in SUBSET Placed : IsFiniteSet(W) /\ Cardinality(W) = n => Queue(W, n) # {}}
<1>0. \A o \in Placed : o.placed \in Int
  BY DEF Placed
<1>1. 0 \in P
  <2> SUFFICES ASSUME NEW W \in SUBSET Placed, IsFiniteSet(W), Cardinality(W) = 0 PROVE Queue(W, 0) # {}
    OBVIOUS
  <2>1. W = {}
    BY FS_EmptySet
  <2>2. PICK s : s = [i \in 1 .. 0 |-> 0]
    OBVIOUS
  <2>3. s \in [1 .. 0 -> W] /\ DOMAIN s = {}
    BY <2>2
  <2>4. s \in Queue(W, 0)
    BY <2>1, <2>3 DEF Queue, ToSet
  <2> QED BY <2>4
<1>2. ASSUME NEW n \in Nat, n \in P PROVE n + 1 \in P
  <2> PICK m \in Nat : m = n + 1
    OBVIOUS
  <2> SUFFICES ASSUME NEW W \in SUBSET Placed, IsFiniteSet(W), Cardinality(W) = m PROVE Queue(W, m) # {}
    OBVIOUS
  <2>1. W # {}
    BY FS_EmptySet
  <2>2. PICK w \in W : \A o \in W : o.placed >= w.placed
    BY <2>1, EarliestIs
  <2>3. PICK V : V = W \ {w}
    OBVIOUS
  <2>4. IsFiniteSet(V) /\ Cardinality(V) = n /\ V \in SUBSET Placed
    <3>1. IsFiniteSet(W \ {w}) /\ Cardinality(W \ {w}) = Cardinality(W) - 1
      BY FS_RemoveElement
    <3> QED BY <2>3, <3>1
  <2>5. PICK g : g \in Queue(V, n)
    BY <1>2, <2>4
  <2>6. g \in [1 .. n -> V] /\ ToSet(g) = V /\ \A i, j \in 1 .. n : i < j => g[i].placed >= g[j].placed
    BY <2>5 DEF Queue
  <2>7. PICK f : f = [i \in 1 .. m |-> IF i = m THEN w ELSE g[i]]
    OBVIOUS
  <2>8. m \in 1 .. m /\ f[m] = w /\ \A i \in 1 .. m : i = m \/ (i \in 1 .. n /\ f[i] = g[i] /\ f[i] \in V)
    BY <2>6, <2>7
  <2>9. f \in [1 .. m -> W]
    BY <2>3, <2>6, <2>7
  <2>10. ToSet(f) = W
    <3>1. ASSUME NEW o \in W PROVE \E i \in 1 .. m : f[i] = o
      <4>1. CASE o = w
        BY <4>1, <2>8
      <4>2. CASE o # w
        <5>1. o \in ToSet(g)
          BY <4>2, <2>3, <2>6
        <5>2. PICK i \in 1 .. n : g[i] = o
          BY <5>1, <2>6 DEF ToSet
        <5>3. i \in 1 .. m /\ i # m
          OBVIOUS
        <5> QED BY <5>2, <5>3, <2>8
      <4> QED BY <4>1, <4>2
    <3> QED BY <3>1, <2>9 DEF ToSet
  <2>11. ASSUME NEW i \in 1 .. m, NEW j \in 1 .. m, i < j PROVE f[i].placed >= f[j].placed
    <3>1. i # m
      BY <2>11
    <3>2. CASE j = m
      BY <3>1, <3>2, <2>2, <2>9, <2>8
    <3>3. CASE j # m
      <4>1. i \in 1 .. n /\ j \in 1 .. n /\ f[i] = g[i] /\ f[j] = g[j]
        BY <3>1, <3>3, <2>8
      <4> QED BY <4>1, <2>6, <2>11
    <3> QED BY <3>2, <3>3
  <2>12. f \in Queue(W, m)
    BY <2>9, <2>10, <2>11 DEF Queue
  <2> QED BY <2>12
<1>3. Cardinality(U) \in P
  <2>1. Cardinality(U) \in Nat
    BY FS_CardinalityType
  <2> HIDE DEF P
  <2> QED BY <2>1, <1>1, <1>2, NatInduct
<1> QED BY <1>3

\* The live orders, where all are live, are each of them once.
LEMMA LiveOrdersAre ==
  ASSUME NEW book \in SUBSET Placed, IsFiniteSet(book), \A o \in book : o.status = "live",
         NEW n, n = Cardinality(book), NEW s, s = LiveOrders(book)
  PROVE  /\ n \in Nat /\ s \in Seq(Placed) /\ Len(s) = n
         /\ \A i \in 1 .. n : s[i] \in book
         /\ \A o \in book : \E i \in 1 .. n : s[i] = o
         /\ \A i, j \in 1 .. n : s[i] = s[j] => i = j
<1>1. n \in Nat
  BY FS_CardinalityType
<1>2. {o \in book : o.status = "live"} = book
  OBVIOUS
<1>3. s = CHOOSE f \in [1 .. n -> book] :
            ToSet(f) = book /\ \A i, j \in DOMAIN f : i < j => f[i].placed >= f[j].placed
  BY <1>2 DEF LiveOrders
<1>4. s \in Queue(book, n)
  <2>1. Queue(book, n) # {}
    BY QueueExists
  <2> QED BY <1>3, <2>1 DEF Queue
<1>5. s \in [1 .. n -> book] /\ ToSet(s) = book
  BY <1>4 DEF Queue
<1>6. \A o \in book : \E i \in 1 .. n : s[i] = o
  BY <1>5 DEF ToSet
<1>7. s \in Surjection(1 .. n, book)
  BY <1>5, <1>6 DEF Surjection
<1>8. IsFiniteSet(1 .. n) /\ Cardinality(1 .. n) = Cardinality(book)
  <2>1. Cardinality(1 .. n) = IF 1 > n THEN 0 ELSE n - 1 + 1
    <3>1. 1 \in Int /\ n \in Int
      BY <1>1
    <3> QED BY <3>1, FS_Interval
  <2> QED BY <1>1, <2>1, FS_Interval
<1>9. s \in Injection(1 .. n, book)
  BY <1>7, <1>8, FS_SurjSameCardinalityImpliesInj
<1>10. \A i, j \in 1 .. n : s[i] = s[j] => i = j
  BY <1>5, <1>9 DEF Injection, IsInjective
<1>11. s \in Seq(Placed) /\ Len(s) = n
  BY <1>1, <1>5
<1> QED BY <1>1, <1>5, <1>6, <1>10, <1>11

-----------------------------------------------------------------------------
(* The grids of the robot: each has one order, and what it holds is in one lot, or of the base position. *)

Grids == 1 .. Len(Lines) - 1
Opens(g) == Lines[IF Direction = "long" THEN g ELSE g + 1]
Closes(g) == Lines[IF Direction = "long" THEN g + 1 ELSE g]

\* What the grid of an order holds, and whether a fill of it is known.
Held(o) == IF o.side = ClosingSide THEN OrderSize - o.filled ELSE o.filled
Bought(o) == Held(o) > 0 /\ ~(o.side = ClosingSide /\ o.placed = Started)

\* An order as the robot has it in the book.
OrderFits(o, time) ==
  /\ o.quantity = OrderSize /\ o.filled \in 0 .. OrderSize - 1 /\ (o.status = "live" <=> o.filled = 0)
  /\ o.price = IF o.side = ClosingSide THEN Closes(o.grid) ELSE Opens(o.grid)
  /\ Started <= o.placed /\ o.placed <= time

\* The book: an order for each grid.
BookFits(book, time) ==
  /\ IsFiniteSet(book)
  /\ \A g \in Grids : \E o \in book : o.grid = g
  /\ \A o, p \in book : o.grid = p.grid => o = p
  /\ \A o \in book : OrderFits(o, time)

\* A lot is that of a grid with its order.
IsLot(lot, o, time) ==
  /\ lot.fill.price = Opens(o.grid) /\ lot.rest = Held(o) /\ lot.fill.time <= time
  /\ o.side = ClosingSide => lot.fill.time < o.placed

\* The lots are those of the grids that were bought, one of each.
LotsFit(lots, book, time) ==
  /\ \A l \in ToSet(lots) : \E o \in book : Bought(o) /\ IsLot(l, o, time)
  /\ \A o \in book : Bought(o) => \E l \in ToSet(lots) : IsLot(l, o, time)
  /\ OnePrice(lots)

\* An order that opens and is filled in part has its fill.
PartsKnown(book, filled) ==
  \A o \in book : o.side = OpeningSide /\ o.filled > 0 =>
    \E i \in 1 .. Len(filled) : filled[i].order = o.id /\ filled[i].side = OpeningSide

Folded(f) == FoldLeft(TakeFill, [lots |-> << >>, closed |-> << >>], f)

\* Lines are told apart by their prices.
LEMMA LinesApart ==
  ASSUME LinesAssumption, NEW g \in Grids, NEW h \in Grids
  PROVE  /\ PricesMatch(Opens(g), Closes(h)) <=> g = h
         /\ Opens(g) = Opens(h) => g = h
BY DEF LinesAssumption, Grids, Opens, Closes

\* The two sides.
LEMMA SidesDiffer ==
  ASSUME ViewsAssumption
  PROVE  /\ OpeningSide # ClosingSide
         /\ \A o \in Placed : o.side = OpeningSide <=> o.side # ClosingSide
         /\ \A f \in Filled : f.side = OpeningSide <=> f.side # ClosingSide
BY DEF ViewsAssumption, OpeningSide, ClosingSide, Placed, Filled

\* What the robot places.
LEMMA OrderIs ==
  ASSUME ViewsAssumption, NEW g \in Grids, NEW holds \in BOOLEAN, NEW placed \in Int,
         NEW o, o = Order(g, holds, placed)
  PROVE  /\ o \in Placed /\ o.grid = g /\ o.placed = placed
         /\ o.side = IF holds THEN ClosingSide ELSE OpeningSide
         /\ o.filled = 0
         /\ \A time \in Int : Started <= placed /\ placed <= time => OrderFits(o, time)
<1>1. o \in Placed
  BY OrderType DEF Grids
<1>2. OrderSize \in Nat \ {0} /\ Direction \in {"long", "short"}
  BY DEF ViewsAssumption
<1>3. /\ o.grid = g /\ o.placed = placed /\ o.side = (IF holds THEN ClosingSide ELSE OpeningSide)
      /\ o.filled = 0 /\ o.quantity = OrderSize /\ o.status = "live"
      /\ o.price = Lines[IF holds = Long THEN g + 1 ELSE g]
  BY DEF Order
<1>4. o.price = IF o.side = ClosingSide THEN Closes(o.grid) ELSE Opens(o.grid)
  <2>1. o.side = ClosingSide <=> holds
    BY <1>3, SidesDiffer
  <2>2. CASE holds
    BY <1>3, <2>1, <2>2, <1>2 DEF Closes, Long
  <2>3. CASE ~holds
    BY <1>3, <2>1, <2>3, <1>2 DEF Opens, Long
  <2> QED BY <2>2, <2>3
<1>5. o.filled \in 0 .. OrderSize - 1
  BY <1>2, <1>3
<1> QED BY <1>1, <1>3, <1>4, <1>5 DEF OrderFits

\* One fill more in the fold.
LEMMA FoldedAppend ==
  ASSUME NEW f \in Seq(Filled), NEW x \in Filled
  PROVE  Folded(f) \in BookOf(Filled) /\ Folded(Append(f, x)) = TakeFill(Folded(f), x)
<1> DEFINE base == [lots |-> << >>, closed |-> << >>]
<1>0. \A r \in Filled : r.quantity \in Int
  BY DEF Filled
<1>1. PICK n \in Nat : n = Len(f)
  OBVIOUS
<1>2. PICK t : t = Append(f, x)
  OBVIOUS
<1>3. t \in Seq(Filled) /\ Len(t) = n + 1 /\ t[n + 1] = x /\ \A i \in 1 .. n : t[i] = f[i]
  BY <1>1, <1>2, OneMore
<1>4. PICK v \in [0 .. n -> BookOf(Filled)] :
        /\ v[0] = base
        /\ \A i \in 1 .. n : v[i] = TakeFill(v[i - 1], f[i])
        /\ Folded(f) = v[n]
  BY <1>0, <1>1, FillsFolded DEF Folded
<1>5. PICK m \in Nat : m = n + 1
  OBVIOUS
<1>6. PICK w \in [0 .. m -> BookOf(Filled)] :
        /\ w[0] = base
        /\ \A i \in 1 .. m : w[i] = TakeFill(w[i - 1], t[i])
        /\ Folded(t) = w[m]
  <2>1. \E w \in [0 .. Len(t) -> BookOf(Filled)] :
          /\ w[0] = base
          /\ \A i \in 1 .. Len(t) : w[i] = TakeFill(w[i - 1], t[i])
          /\ Folded(t) = w[Len(t)]
    BY <1>0, <1>3, FillsFolded DEF Folded
  <2>2. Len(t) = m
    BY <1>3, <1>5
  <2> QED BY <2>1, <2>2
<1> HIDE DEF base
<1> DEFINE P == {i \in Nat : i <= n => v[i] = w[i]}
<1>7. 0 \in P
  BY <1>4, <1>6
<1>8. ASSUME NEW i \in Nat, i \in P PROVE i + 1 \in P
  <2> SUFFICES ASSUME i + 1 <= n PROVE v[i + 1] = w[i + 1]
    OBVIOUS
  <2>1. i + 1 \in 1 .. n /\ i + 1 \in 1 .. m /\ (i + 1) - 1 = i /\ v[i] = w[i]
    BY <1>5, <1>8
  <2> QED BY <2>1, <1>3, <1>4, <1>6
<1>9. v[n] = w[n]
  <2>1. n \in P
    <3> HIDE DEF P
    <3> QED BY <1>7, <1>8, NatInduct
  <2> QED BY <2>1
<1>10. w[m] = TakeFill(w[n], x) /\ v[n] \in BookOf(Filled)
  <2>1. m \in 1 .. m /\ m - 1 = n /\ n \in 0 .. n
    BY <1>5
  <2> QED BY <2>1, <1>3, <1>4, <1>5, <1>6
<1> QED BY <1>2, <1>4, <1>6, <1>9, <1>10

\* No fills make no lots.
LEMMA FoldedNone == Folded(<< >>).lots = << >>
<1> PICK f : f = << >>
  OBVIOUS
<1>1. f \in Seq(Filled) /\ Len(f) = 0 /\ \A r \in Filled : r.quantity \in Int
  BY DEF Filled
<1>2. Folded(f) = [lots |-> << >>, closed |-> << >>]
  BY <1>1, FillsFolded DEF Folded
<1> QED BY <1>2

\* The fill of an order and what then is in the book for its grid.
FillOf(o, q) == [id |-> Len(fills) + 1, order |-> o.id, side |-> o.side, price |-> o.price, quantity |-> q,
                 placed |-> o.placed, time |-> clock + 1]
Next1(o, q) == IF q = o.quantity - o.filled THEN Order(o.grid, o.side = OpeningSide, clock + 2)
               ELSE [o EXCEPT !.filled = @ + q, !.status = "partially_filled"]

\* A fill is a fill, and leaves in the book an order that fits.
LEMMA FillIs ==
  ASSUME ViewsAssumption, ViewsTypeOK, NEW o \in orders, NEW q \in 1 .. OrderSize, Fill(o, q),
         BookFits(orders, clock), NEW x, x = FillOf(o, q), NEW new, new = Next1(o, q)
  PROVE  /\ x \in Filled /\ new \in Placed
         /\ fills' = Append(fills, x) /\ orders' = (orders \ {o}) \cup {new} /\ clock' = clock + 2
         /\ new.grid = o.grid /\ o.grid \in Grids /\ OrderFits(new, clock + 2)
         /\ q <= OrderSize - o.filled /\ o.filled \in 0 .. OrderSize - 1
         /\ q = OrderSize - o.filled =>
              /\ new.filled = 0 /\ new.placed = clock + 2
              /\ new.side = IF o.side = ClosingSide THEN OpeningSide ELSE ClosingSide
         /\ q # OrderSize - o.filled =>
              new.filled = o.filled + q /\ new.placed = o.placed /\ new.side = o.side /\ new.id = o.id
<1>1. /\ clock \in Int /\ fills \in Seq(Filled) /\ o \in Placed /\ OrderSize \in Nat \ {0} /\ Started \in Int
      /\ Len(fills) \in Nat
  BY DEF ViewsTypeOK, ViewsAssumption
<1>2. OrderFits(o, clock)
  BY DEF BookFits
<1>3. o.quantity = OrderSize /\ o.filled \in 0 .. OrderSize - 1 /\ o.placed \in Int /\ Started <= o.placed /\ o.placed <= clock
  BY <1>1, <1>2 DEF OrderFits, Placed
<1>4. fills' = Append(fills, x) /\ orders' = (orders \ {o}) \cup {new} /\ clock' = clock + 2 /\ q <= OrderSize - o.filled
  BY <1>3 DEF Fill, FillOf, Next1
<1>5. x \in Filled
  BY <1>1 DEF FillOf, Filled, Placed
<1>6. o.grid \in Grids
  BY <1>1 DEF Placed, Grids
<1>7. CASE q = OrderSize - o.filled
  <2>1. new = Order(o.grid, o.side = OpeningSide, clock + 2)
    BY <1>3, <1>7 DEF Next1
  <2>2. PICK holds \in BOOLEAN, placed \in Int : holds = (o.side = OpeningSide) /\ placed = clock + 2
    <3>1. (o.side = OpeningSide) \in BOOLEAN /\ clock + 2 \in Int
      BY <1>1
    <3> QED BY <3>1
  <2>3. /\ new \in Placed /\ new.grid = o.grid /\ new.placed = clock + 2 /\ new.filled = 0
        /\ new.side = IF o.side = OpeningSide THEN ClosingSide ELSE OpeningSide
        /\ \A time \in Int : Started <= clock + 2 /\ clock + 2 <= time => OrderFits(new, time)
    <3>1. new = Order(o.grid, holds, placed)
      BY <2>1, <2>2
    <3>2. /\ new \in Placed /\ new.grid = o.grid /\ new.placed = placed /\ new.filled = 0
          /\ new.side = IF holds THEN ClosingSide ELSE OpeningSide
          /\ \A time \in Int : Started <= placed /\ placed <= time => OrderFits(new, time)
      BY <1>6, <3>1, OrderIs
    <3> QED BY <2>2, <3>2
  <2>4. OrderFits(new, clock + 2)
    <3>1. clock + 2 \in Int /\ Started <= clock + 2
      BY <1>1, <1>3
    <3> QED BY <2>3, <3>1
  <2>5. o.side = OpeningSide <=> o.side # ClosingSide
    BY <1>1, SidesDiffer
  <2> QED BY <1>3, <1>4, <1>5, <1>6, <1>7, <2>3, <2>4, <2>5
<1>8. CASE q # OrderSize - o.filled
  <2>1. new = [o EXCEPT !.filled = @ + q, !.status = "partially_filled"]
    BY <1>3, <1>8 DEF Next1
  <2>2. new = [id |-> o.id, side |-> o.side, price |-> o.price, quantity |-> o.quantity,
               filled |-> o.filled + q, placed |-> o.placed, status |-> "partially_filled", grid |-> o.grid]
    <3> PICK b : b = o.filled + q
      OBVIOUS
    <3>1. o = [id |-> o.id, side |-> o.side, price |-> o.price, quantity |-> o.quantity, filled |-> o.filled,
               placed |-> o.placed, status |-> o.status, grid |-> o.grid]
      BY <1>1 DEF Placed
    <3>2. new = [o EXCEPT !.filled = b, !.status = "partially_filled"]
      BY <2>1
    <3> QED BY <3>1, <3>2
  <2>3. PICK b \in 0 .. OrderSize - 1 : b = o.filled + q /\ b # 0
    <3>1. o.filled + q \in 0 .. OrderSize - 1 /\ o.filled + q # 0
      <4> PICK a \in Nat, most \in Nat, k \in Nat : a = o.filled /\ most = OrderSize /\ k = q /\ k # 0
        BY <1>1, <1>3
      <4>1. k <= most - a /\ k # most - a
        BY <1>4, <1>8
      <4>2. a + k \in 0 .. most - 1 /\ a + k # 0
        BY <4>1
      <4> QED BY <4>2
    <3> QED BY <3>1
  <2>4. new \in Placed
    BY <1>1, <2>2, <2>3 DEF Placed
  <2>5. OrderFits(new, clock + 2)
    BY <1>1, <1>2, <1>3, <2>2, <2>3 DEF OrderFits
  <2> QED BY <1>3, <1>4, <1>5, <1>6, <1>8, <2>2, <2>4, <2>5
<1> QED BY <1>7, <1>8

\* A fill leaves an order for each grid.
LEMMA BookStays ==
  ASSUME ViewsAssumption, ViewsTypeOK, NEW o \in orders, NEW q \in 1 .. OrderSize, Fill(o, q),
         BookFits(orders, clock)
  PROVE  BookFits(orders', clock')
<1> PICK new : new = Next1(o, q)
  OBVIOUS
<1> PICK x : x = FillOf(o, q)
  OBVIOUS
<1>1. /\ orders' = (orders \ {o}) \cup {new} /\ clock' = clock + 2 /\ new.grid = o.grid /\ OrderFits(new, clock + 2)
  BY FillIs
<1>2. IsFiniteSet((orders \ {o}) \cup {new})
  <2>1. IsFiniteSet(orders \ {o})
    BY FS_RemoveElement DEF BookFits
  <2> QED BY <2>1, FS_AddElement
<1>3. \A p \in orders : p # o => p.grid # o.grid
  BY DEF BookFits
<1>4. \A p \in orders : OrderFits(p, clock + 2)
  <2> TAKE p \in orders
  <2>1. OrderFits(p, clock) /\ p \in Placed /\ clock \in Int
    BY DEF BookFits, ViewsTypeOK
  <2> QED BY <2>1 DEF OrderFits, Placed
<1>5. \A g \in Grids : \E p \in orders' : p.grid = g
  <2> TAKE g \in Grids
  <2>1. PICK p \in orders : p.grid = g
    BY DEF BookFits
  <2> QED BY <2>1, <1>1
<1>6. \A a, b \in orders' : a.grid = b.grid => a = b
  BY <1>1, <1>3 DEF BookFits
<1>7. \A p \in orders' : OrderFits(p, clock + 2)
  BY <1>1, <1>4
<1> QED BY <1>1, <1>2, <1>5, <1>6, <1>7 DEF BookFits

\* What is bought is in a lot of its own later on too.
LEMMA IsLotLater ==
  ASSUME ViewsTypeOK, NEW o, NEW l, l.fill \in Filled, IsLot(l, o, clock)
  PROVE  IsLot(l, o, clock + 2)
<1>1. l.fill.time \in Int /\ clock \in Int
  BY DEF Filled, ViewsTypeOK
<1> QED BY <1>1 DEF IsLot

\* The lots of the folded fills are lots.
LEMMA LotsAre ==
  ASSUME NEW lots \in Seq(LotOf(Filled))
  PROVE  /\ \A l \in ToSet(lots) : l \in LotOf(Filled) /\ l.fill \in Filled /\ l.rest \in Int
         /\ \A i \in 1 .. Len(lots) : lots[i] \in ToSet(lots)
         /\ \A l \in ToSet(lots) : \E i \in 1 .. Len(lots) : l = lots[i]
<1>1. \A i \in 1 .. Len(lots) : lots[i] \in LotOf(Filled)
  OBVIOUS
<1>2. DOMAIN lots = 1 .. Len(lots)
  OBVIOUS
<1>3. \A l \in ToSet(lots) : l \in LotOf(Filled)
  BY <1>1, <1>2 DEF ToSet
<1> QED BY <1>2, <1>3 DEF ToSet, LotOf

\* A fill that opens a grid: its lot is one more.
LEMMA LotsAfterOpening ==
  ASSUME ViewsAssumption, LinesAssumption, ViewsTypeOK, BookFits(orders, clock),
         NEW o \in orders, NEW q \in 1 .. OrderSize, Fill(o, q), o.side = OpeningSide, o.filled = 0,
         LotsFit(Folded(fills).lots, orders, clock)
  PROVE  LotsFit(Folded(fills').lots, orders', clock')
<1> PICK new : new = Next1(o, q)
  OBVIOUS
<1> PICK x : x = FillOf(o, q)
  OBVIOUS
<1>1. /\ x \in Filled /\ new \in Placed
      /\ fills' = Append(fills, x) /\ orders' = (orders \ {o}) \cup {new} /\ clock' = clock + 2
      /\ new.grid = o.grid /\ o.grid \in Grids
      /\ q <= OrderSize - o.filled
      /\ q = OrderSize - o.filled =>
           /\ new.filled = 0 /\ new.placed = clock + 2
           /\ new.side = IF o.side = ClosingSide THEN OpeningSide ELSE ClosingSide
      /\ q # OrderSize - o.filled =>
           new.filled = o.filled + q /\ new.placed = o.placed /\ new.side = o.side /\ new.id = o.id
  BY FillIs
<1>0. clock \in Int /\ fills \in Seq(Filled) /\ o \in Placed /\ OrderSize \in Nat \ {0} /\ Started \in Int
  BY DEF ViewsTypeOK, ViewsAssumption
<1>2. x.side = OpeningSide /\ x.price = o.price /\ x.quantity = q /\ x.placed = o.placed /\ x.time = clock + 1
  BY DEF FillOf
<1>3. o.side # ClosingSide /\ OpeningSide # ClosingSide
  BY <1>0, SidesDiffer
<1>4. OrderFits(o, clock)
  BY DEF BookFits
<1>5. x.price = Opens(o.grid)
  BY <1>2, <1>3, <1>4 DEF OrderFits
<1> PICK lot : lot = [fill |-> x, rest |-> q]
  OBVIOUS
<1>6. lot \in LotOf(Filled) /\ lot.fill = x /\ lot.rest = q
  BY <1>1 DEF LotOf
<1>7. PICK lots \in Seq(LotOf(Filled)) : lots = Folded(fills).lots
  <2>1. Folded(fills) \in BookOf(Filled)
    BY <1>0, <1>1, FoldedAppend
  <2> QED BY <2>1 DEF BookOf
<1>8. Folded(fills').lots = Append(lots, lot)
  <2>1. Folded(fills') = TakeFill(Folded(fills), x) /\ Folded(fills) \in BookOf(Filled)
    BY <1>0, <1>1, FoldedAppend
  <2>2. TakeFill(Folded(fills), x) = [Folded(fills) EXCEPT !.lots = Append(@, lot)]
    BY <1>2 DEF TakeFill
  <2> QED BY <2>1, <2>2, <1>7 DEF BookOf
<1>9. Held(new) = q /\ Bought(new) /\ ~Bought(o) /\ IsLot(lot, new, clock + 2)
  <2>1. Held(o) = 0
    BY <1>3 DEF Held
  <2>2. CASE q = OrderSize
    <3>1. new.filled = 0 /\ new.placed = clock + 2 /\ new.side = ClosingSide
      BY <1>0, <1>1, <1>3, <2>2
    <3>2. Started <= clock
      <4>1. o.placed \in Int /\ Started <= o.placed /\ o.placed <= clock
        BY <1>0, <1>4 DEF OrderFits, Placed
      <4> QED BY <4>1, <1>0
    <3>3. new.placed # Started
      BY <1>0, <3>1, <3>2
    <3>4. Held(new) = q
      BY <1>0, <3>1, <2>2 DEF Held
    <3>5. clock + 1 < clock + 2 /\ clock + 1 <= clock + 2
      BY <1>0
    <3> QED BY <1>1, <1>2, <1>5, <1>6, <2>1, <3>1, <3>3, <3>4, <3>5 DEF Bought, IsLot
  <2>3. CASE q # OrderSize
    <3>1. new.filled = q /\ new.side = OpeningSide
      BY <1>0, <1>1, <2>3
    <3>2. Held(new) = q
      BY <1>3, <3>1 DEF Held
    <3>3. clock + 1 <= clock + 2
      BY <1>0
    <3> QED BY <1>1, <1>2, <1>3, <1>5, <1>6, <2>1, <3>1, <3>2, <3>3 DEF Bought, IsLot
  <2> QED BY <2>2, <2>3
<1>10. \A l \in ToSet(lots) : \E p \in orders \ {o} : Bought(p) /\ IsLot(l, p, clock + 2)
  <2> TAKE l \in ToSet(lots)
  <2>1. PICK p \in orders : Bought(p) /\ IsLot(l, p, clock)
    BY <1>7 DEF LotsFit
  <2>2. p # o
    BY <2>1, <1>9
  <2>3. l.fill \in Filled
    BY LotsAre
  <2> QED BY <2>1, <2>2, <2>3, IsLotLater
<1>11. \A l \in ToSet(lots) : l.fill.price # lot.fill.price
  <2> TAKE l \in ToSet(lots)
  <2>1. PICK p \in orders \ {o} : IsLot(l, p, clock + 2)
    BY <1>10
  <2>2. l.fill.price = Opens(p.grid) /\ p.grid \in Grids /\ p.grid # o.grid
    BY <2>1, <1>0 DEF IsLot, BookFits, ViewsTypeOK, Placed, Grids
  <2> QED BY <2>2, <1>1, <1>5, <1>6, LinesApart
<1>12. ToSet(Append(lots, lot)) = ToSet(lots) \cup {lot} /\ OnePrice(Append(lots, lot))
  <2>1. OnePrice(lots)
    BY <1>7 DEF LotsFit
  <2> QED BY <2>1, <1>6, <1>11, LotAdded
<1>13. \A l \in ToSet(Append(lots, lot)) : \E p \in orders' : Bought(p) /\ IsLot(l, p, clock + 2)
  <2> TAKE l \in ToSet(Append(lots, lot))
  <2>1. CASE l = lot
    <3>1. new \in orders'
      BY <1>1
    <3> QED BY <2>1, <3>1, <1>9
  <2>2. CASE l # lot
    <3>1. PICK p \in orders \ {o} : Bought(p) /\ IsLot(l, p, clock + 2)
      BY <2>2, <1>10, <1>12
    <3>2. p \in orders'
      BY <1>1
    <3> QED BY <3>1, <3>2
  <2> QED BY <2>1, <2>2
<1>14. \A p \in orders' : Bought(p) => \E l \in ToSet(Append(lots, lot)) : IsLot(l, p, clock + 2)
  <2> SUFFICES ASSUME NEW p \in orders', Bought(p) PROVE \E l \in ToSet(Append(lots, lot)) : IsLot(l, p, clock + 2)
    OBVIOUS
  <2>1. CASE p = new
    BY <2>1, <1>9, <1>12
  <2>2. CASE p # new
    <3>1. p \in orders
      BY <2>2, <1>1
    <3>2. PICK l \in ToSet(lots) : IsLot(l, p, clock)
      BY <3>1, <1>7 DEF LotsFit
    <3>3. IsLot(l, p, clock + 2)
      BY <3>2, LotsAre, IsLotLater
    <3> QED BY <3>2, <3>3, <1>12
  <2> QED BY <2>1, <2>2
<1> QED BY <1>1, <1>8, <1>12, <1>13, <1>14 DEF LotsFit

\* A fill that closes what a grid holds: of its lot there is as much less.
LEMMA LotsAfterClosing ==
  ASSUME ViewsAssumption, LinesAssumption, ViewsTypeOK, BookFits(orders, clock),
         NEW o \in orders, NEW q \in 1 .. OrderSize, Fill(o, q), o.side = ClosingSide,
         LotsFit(Folded(fills).lots, orders, clock)
  PROVE  LotsFit(Folded(fills').lots, orders', clock')
<1> PICK new : new = Next1(o, q)
  OBVIOUS
<1> PICK x : x = FillOf(o, q)
  OBVIOUS
<1> PICK price : price = Opens(o.grid)
  OBVIOUS
<1>1. /\ x \in Filled /\ new \in Placed
      /\ fills' = Append(fills, x) /\ orders' = (orders \ {o}) \cup {new} /\ clock' = clock + 2
      /\ new.grid = o.grid /\ o.grid \in Grids
      /\ q <= OrderSize - o.filled /\ o.filled \in 0 .. OrderSize - 1
      /\ q = OrderSize - o.filled =>
           /\ new.filled = 0 /\ new.placed = clock + 2
           /\ new.side = IF o.side = ClosingSide THEN OpeningSide ELSE ClosingSide
      /\ q # OrderSize - o.filled =>
           new.filled = o.filled + q /\ new.placed = o.placed /\ new.side = o.side /\ new.id = o.id
  BY FillIs
<1>0. clock \in Int /\ fills \in Seq(Filled) /\ o \in Placed /\ OrderSize \in Nat \ {0} /\ Started \in Int
      /\ q \in Nat /\ q > 0
  BY DEF ViewsTypeOK, ViewsAssumption
<1>2. x.side = o.side /\ x.price = o.price /\ x.quantity = q /\ x.placed = o.placed /\ x.time = clock + 1
  BY DEF FillOf
<1>3. x.side # OpeningSide /\ OpeningSide # ClosingSide
  BY <1>2, SidesDiffer
<1>4. OrderFits(o, clock)
  BY DEF BookFits
<1>5. x.price = Closes(o.grid)
  BY <1>2, <1>3, <1>4 DEF OrderFits
<1>7. PICK book \in BookOf(Filled), lots \in Seq(LotOf(Filled)) : book = Folded(fills) /\ lots = book.lots
  <2>1. Folded(fills) \in BookOf(Filled)
    BY <1>0, <1>1, FoldedAppend
  <2> QED BY <2>1 DEF BookOf
<1>8. Folded(fills') = TakeFill(book, x)
  BY <1>0, <1>1, <1>7, FoldedAppend
<1>9. Held(o) = OrderSize - o.filled /\ Held(o) \in Int
  BY <1>0, <1>1 DEF Held
<1>10. ASSUME NEW i \in 1 .. Len(lots)
       PROVE  /\ MayClose(lots[i], x) <=> lots[i].fill.price = price
              /\ lots[i].fill.price = price => Bought(o) /\ IsLot(lots[i], o, clock)
              /\ lots[i].fill.price # price => \E p \in orders \ {o} : Bought(p) /\ IsLot(lots[i], p, clock)
  <2>1. lots[i] \in ToSet(lots) /\ lots[i].fill \in Filled /\ lots[i].rest \in Int
    BY LotsAre
  <2>2. PICK p \in orders : Bought(p) /\ IsLot(lots[i], p, clock)
    BY <2>1, <1>7 DEF LotsFit
  <2>3. p.grid \in Grids /\ (p.grid = o.grid => p = o)
    BY DEF BookFits, ViewsTypeOK, Placed, Grids
  <2>4. lots[i].fill.price = Opens(p.grid)
    BY <2>2 DEF IsLot
  <2>5. PricesMatch(lots[i].fill.price, x.price) <=> p.grid = o.grid
    BY <2>3, <2>4, <1>1, <1>5, LinesApart
  <2>6. lots[i].fill.price = price <=> p.grid = o.grid
    BY <2>3, <2>4, <1>1, LinesApart
  <2>7. p = o => lots[i].rest > 0 /\ lots[i].fill.time <= x.time /\ lots[i].fill.time < x.placed
    <3>1. lots[i].fill.time <= clock /\ lots[i].fill.time \in Int
      BY <2>1, <2>2 DEF IsLot, Filled
    <3>2. p = o => lots[i].rest = Held(o) /\ Held(o) > 0 /\ lots[i].fill.time < o.placed
      BY <2>2 DEF IsLot, Bought
    <3> QED BY <3>1, <3>2, <1>0, <1>2
  <2> QED BY <2>2, <2>3, <2>5, <2>6, <2>7 DEF MayClose
<1>11. \A i \in 1 .. Len(lots) : lots[i].fill.price = price => lots[i].rest = Held(o) /\ lots[i].rest >= q
  BY <1>0, <1>1, <1>9, <1>10 DEF IsLot
<1>12. PICK t : t = TakeFill(book, x).lots
  OBVIOUS
<1>13. /\ OnePrice(t)
       /\ \A l : l \in ToSet(t) <=> \E i \in 1 .. Len(lots) : Stays(lots[i], price, q) /\ l = Lessened(lots[i], price, q)
  <2>1. OnePrice(book.lots)
    BY <1>7 DEF LotsFit
  <2>2. ClosesAt(book.lots, x, price, q)
    BY <1>7, <1>10, <1>11 DEF ClosesAt
  <2>3. IsLessened(TakeFill(book, x).lots, book.lots, price, q)
    BY <2>1, <2>2, <1>0, <1>1, <1>2, <1>3, LotsAfterClose
  <2> QED BY <2>3, <1>7, <1>12 DEF IsLessened
<1>14. ASSUME NEW i \in 1 .. Len(lots), lots[i].fill.price = price, Stays(lots[i], price, q)
       PROVE  Bought(new) /\ IsLot(Lessened(lots[i], price, q), new, clock + 2)
  <2>1. lots[i].rest = Held(o) /\ Held(o) > q /\ Bought(o) /\ IsLot(lots[i], o, clock)
    BY <1>10, <1>11, <1>14 DEF Stays
  <2>2. q # OrderSize - o.filled
    BY <2>1, <1>0, <1>9
  <2>3. new.filled = o.filled + q /\ new.placed = o.placed /\ new.side = ClosingSide
    BY <2>2, <1>1
  <2>4. Held(new) = Held(o) - q /\ Held(new) > 0
    <3> PICK a \in Int, most \in Int, k \in Int : a = o.filled /\ most = OrderSize /\ k = q
      BY <1>0, <1>1
    <3>1. Held(o) = most - a /\ Held(new) = most - (a + k) /\ most - a > k
      BY <2>1, <2>3, <1>9 DEF Held
    <3> QED BY <3>1
  <2>5. lots[i] \in LotOf(Filled) /\ lots[i].fill \in Filled
    BY LotsAre
  <2>6. PICK l : l = Lessened(lots[i], price, q)
    OBVIOUS
  <2>7. l.fill = lots[i].fill /\ l.rest = Held(new)
    BY <2>1, <2>4, <2>5, <2>6, <1>14 DEF Lessened, LotOf
  <2>8. l.fill.time <= clock + 2 /\ l.fill.time < new.placed /\ l.fill.price = Opens(new.grid)
    <3>1. lots[i].fill.time \in Int /\ lots[i].fill.time <= clock /\ lots[i].fill.time < o.placed
      BY <2>1, <2>5 DEF IsLot, Filled
    <3>2. lots[i].fill.time <= clock + 2
      BY <3>1, <1>0
    <3> QED BY <3>1, <3>2, <2>3, <2>7, <1>1, <1>14
  <2>9. Bought(new)
    BY <2>1, <2>3, <2>4 DEF Bought
  <2> QED BY <2>6, <2>7, <2>8, <2>9 DEF IsLot
<1>15. ASSUME NEW i \in 1 .. Len(lots), lots[i].fill.price # price
       PROVE  \E p \in orders \ {o} : Bought(p) /\ IsLot(Lessened(lots[i], price, q), p, clock + 2)
  <2>1. PICK p \in orders \ {o} : Bought(p) /\ IsLot(lots[i], p, clock)
    BY <1>10, <1>15
  <2>2. Lessened(lots[i], price, q) = lots[i]
    BY <1>15 DEF Lessened
  <2>3. lots[i].fill \in Filled
    BY LotsAre
  <2> QED BY <2>1, <2>2, <2>3, IsLotLater
<1>16. \A l \in ToSet(t) : \E p \in orders' : Bought(p) /\ IsLot(l, p, clock + 2)
  <2> TAKE l \in ToSet(t)
  <2>1. PICK i \in 1 .. Len(lots) : Stays(lots[i], price, q) /\ l = Lessened(lots[i], price, q)
    BY <1>13
  <2> QED BY <2>1, <1>1, <1>14, <1>15
<1>17. \A p \in orders' : Bought(p) => \E l \in ToSet(t) : IsLot(l, p, clock + 2)
  <2> SUFFICES ASSUME NEW p \in orders', Bought(p) PROVE \E l \in ToSet(t) : IsLot(l, p, clock + 2)
    OBVIOUS
  <2>1. CASE p = new
    <3>1. q # OrderSize - o.filled
      <4> SUFFICES ASSUME q = OrderSize - o.filled PROVE FALSE
        OBVIOUS
      <4>1. new.filled = 0 /\ new.side = OpeningSide
        BY <1>1
      <4> QED BY <4>1, <2>1, <1>3 DEF Bought, Held
    <3>2. new.filled = o.filled + q /\ new.placed = o.placed /\ new.side = ClosingSide
      BY <3>1, <1>1
    <3>3. Held(o) > q
      <4> PICK h \in Int : h = Held(o)
        BY <1>9
      <4>1. q <= h /\ q # h
        BY <3>1, <1>1, <1>9
      <4> QED BY <4>1
    <3>4. Bought(o)
      BY <2>1, <3>2, <3>3, <1>0, <1>9 DEF Bought
    <3>5. PICK l \in ToSet(lots) : IsLot(l, o, clock)
      BY <3>4, <1>7 DEF LotsFit
    <3>6. PICK i \in 1 .. Len(lots) : l = lots[i]
      BY LotsAre
    <3>7. lots[i].fill.price = price /\ Stays(lots[i], price, q)
      BY <3>3, <3>5, <3>6 DEF IsLot, Stays
    <3> QED BY <3>7, <2>1, <1>13, <1>14
  <2>2. CASE p # new
    <3>1. p \in orders /\ p # o
      BY <2>2, <1>1
    <3>2. PICK l \in ToSet(lots) : IsLot(l, p, clock)
      BY <3>1, <1>7 DEF LotsFit
    <3>3. PICK i \in 1 .. Len(lots) : l = lots[i]
      BY LotsAre
    <3>4. lots[i].fill.price # price
      <4>1. p.grid \in Grids /\ p.grid # o.grid
        BY <3>1 DEF BookFits, ViewsTypeOK, Placed, Grids
      <4> QED BY <4>1, <3>2, <3>3, <1>1, LinesApart DEF IsLot
    <3>5. Stays(lots[i], price, q) /\ Lessened(lots[i], price, q) = lots[i]
      BY <3>4 DEF Stays, Lessened
    <3>6. lots[i] \in ToSet(t)
      BY <3>5, <1>13
    <3>7. lots[i].fill \in Filled
      BY LotsAre
    <3> QED BY <3>2, <3>3, <3>6, <3>7, IsLotLater
  <2> QED BY <2>1, <2>2
<1> QED BY <1>1, <1>8, <1>12, <1>13, <1>16, <1>17 DEF LotsFit

\* A part that is filled is known.
LEMMA PartsStay ==
  ASSUME ViewsAssumption, ViewsTypeOK, BookFits(orders, clock), PartsKnown(orders, fills),
         NEW o \in orders, NEW q \in 1 .. OrderSize, Fill(o, q)
  PROVE  /\ PartsKnown(orders', fills')
         /\ OpenedAtOnce(fills') => OpenedAtOnce(fills) /\ (o.side = OpeningSide => o.filled = 0)
<1> PICK new : new = Next1(o, q)
  OBVIOUS
<1> PICK x : x = FillOf(o, q)
  OBVIOUS
<1>1. /\ x \in Filled /\ fills' = Append(fills, x) /\ orders' = (orders \ {o}) \cup {new}
      /\ o.filled \in 0 .. OrderSize - 1
      /\ q = OrderSize - o.filled => new.filled = 0
      /\ q # OrderSize - o.filled => new.side = o.side /\ new.id = o.id
  BY FillIs
<1>2. fills \in Seq(Filled) /\ x.side = o.side /\ x.order = o.id
  BY DEF ViewsTypeOK, FillOf
<1>3. PICK n \in Nat : n = Len(fills)
  BY <1>2
<1>4. PICK f : f = fills'
  OBVIOUS
<1>5. Len(f) = n + 1 /\ f[n + 1] = x /\ \A i \in 1 .. n : f[i] = fills[i]
  BY <1>1, <1>2, <1>3, <1>4, OneMore
<1>6. n + 1 \in 1 .. n + 1 /\ \A i \in 1 .. n : i \in 1 .. n + 1 /\ i # n + 1
  OBVIOUS
<1>7. PartsKnown(orders', f)
  <2> SUFFICES ASSUME NEW p \in orders', p.side = OpeningSide, p.filled > 0
               PROVE  \E i \in 1 .. n + 1 : f[i].order = p.id /\ f[i].side = OpeningSide
    BY <1>5 DEF PartsKnown
  <2>1. CASE p = new
    <3>1. new.side = o.side /\ new.id = o.id
      BY <2>1, <1>1
    <3> QED BY <2>1, <3>1, <1>2, <1>5, <1>6
  <2>2. CASE p # new
    <3>1. p \in orders
      BY <2>2, <1>1
    <3>2. PICK i \in 1 .. n : fills[i].order = p.id /\ fills[i].side = OpeningSide
      BY <3>1, <1>3 DEF PartsKnown
    <3> QED BY <3>2, <1>5, <1>6
  <2> QED BY <2>1, <2>2
<1>8. ASSUME OpenedAtOnce(f) PROVE OpenedAtOnce(fills) /\ (o.side = OpeningSide => o.filled = 0)
  <2>1. DOMAIN f = 1 .. n + 1 /\ DOMAIN fills = 1 .. n
    <3>1. f \in Seq(Filled)
      BY <1>1, <1>2, <1>4, OneMore
    <3> QED BY <3>1, <1>2, <1>3, <1>5
  <2>2. \A i, j \in 1 .. n + 1 : f[i].side = OpeningSide /\ f[i].order = f[j].order => i = j
    BY <1>8, <2>1 DEF OpenedAtOnce
  <2>3. OpenedAtOnce(fills)
    BY <2>1, <2>2, <1>5, <1>6 DEF OpenedAtOnce
  <2>4. ASSUME o.side = OpeningSide, o.filled # 0 PROVE FALSE
    <3>1. o.filled > 0
      BY <1>1, <2>4
    <3>2. PICK i \in 1 .. n : fills[i].order = o.id /\ fills[i].side = OpeningSide
      BY <2>4, <3>1, <1>3 DEF PartsKnown
    <3>3. f[i].side = OpeningSide /\ f[i].order = f[n + 1].order
      BY <3>2, <1>2, <1>5
    <3> QED BY <3>3, <2>2, <1>6
  <2> QED BY <2>3, <2>4
<1> QED BY <1>4, <1>7, <1>8

-----------------------------------------------------------------------------
(* The position: it is counted unit by unit, so that it is the size of a set. *)

UnitsOf(book) == {x \in Grids \X (1 .. OrderSize) : \E o \in book : o.grid = x[1] /\ x[2] <= Held(o)}

\* The units are finitely many.
LEMMA UnitsFinite ==
  ASSUME ViewsAssumption, NEW U \in SUBSET (Grids \X (1 .. OrderSize))
  PROVE  IsFiniteSet(U) /\ Cardinality(U) \in Nat
<1>1. Len(Lines) \in Nat /\ OrderSize \in Nat
  BY DEF ViewsAssumption
<1>2. IsFiniteSet(Grids) /\ IsFiniteSet(1 .. OrderSize)
  <2>1. Len(Lines) - 1 \in Int /\ 1 \in Int /\ OrderSize \in Int
    BY <1>1
  <2> QED BY <2>1, FS_Interval DEF Grids
<1>3. IsFiniteSet(Grids \X (1 .. OrderSize))
  BY <1>2, FS_Product
<1> QED BY <1>3, FS_Subset, FS_CardinalityType

\* A grid that holds more: as many units more.
LEMMA HoldsMore ==
  ASSUME ViewsAssumption, NEW rest \in SUBSET Placed, NEW a \in Placed, NEW b \in Placed, a.grid = b.grid,
         \A p \in rest : p.grid # a.grid, Held(a) \in 0 .. OrderSize, Held(b) \in 0 .. OrderSize, Held(a) <= Held(b)
  PROVE  Cardinality(UnitsOf(rest \cup {b})) = Cardinality(UnitsOf(rest \cup {a})) + (Held(b) - Held(a))
<1> PICK g \in Grids : g = a.grid
  BY DEF Placed, Grids
<1> PICK m \in Nat, n \in Nat : m = Held(a) /\ n = Held(b) /\ m <= n /\ n <= OrderSize
  BY DEF ViewsAssumption
<1> PICK U, V, D : U = UnitsOf(rest \cup {a}) /\ V = UnitsOf(rest \cup {b}) /\ D = {g} \X ((m + 1) .. n)
  OBVIOUS
<1>0. OrderSize \in Nat
  BY DEF ViewsAssumption
<1>1. Cardinality(D) = n - m /\ IsFiniteSet(D)
  <2>1. IsFiniteSet({g}) /\ Cardinality({g}) = 1
    BY FS_Singleton
  <2>2. PICK c \in Nat : c = n - m
    <3>1. n - m \in Nat
      OBVIOUS
    <3> QED BY <3>1
  <2>3. IsFiniteSet((m + 1) .. n) /\ Cardinality((m + 1) .. n) = c
    <3>1. m + 1 \in Int /\ n \in Int
      OBVIOUS
    <3>2. IsFiniteSet((m + 1) .. n) /\ Cardinality((m + 1) .. n) = IF m + 1 > n THEN 0 ELSE n - (m + 1) + 1
      BY <3>1, FS_Interval
    <3>3. (IF m + 1 > n THEN 0 ELSE n - (m + 1) + 1) = c
      BY <2>2
    <3> QED BY <3>2, <3>3
  <2>4. Cardinality({g} \X ((m + 1) .. n)) = 1 * c /\ IsFiniteSet({g} \X ((m + 1) .. n))
    BY <2>1, <2>3, FS_Product
  <2> QED BY <2>2, <2>4
<1>2. U \in SUBSET (Grids \X (1 .. OrderSize)) /\ V \in SUBSET (Grids \X (1 .. OrderSize))
  BY DEF UnitsOf
<1>3. \A x \in Grids \X (1 .. OrderSize) : x \in U <=> (\E p \in rest : p.grid = x[1] /\ x[2] <= Held(p)) \/ (x[1] = g /\ x[2] <= m)
  BY DEF UnitsOf
<1>4. \A x \in Grids \X (1 .. OrderSize) : x \in V <=> (\E p \in rest : p.grid = x[1] /\ x[2] <= Held(p)) \/ (x[1] = g /\ x[2] <= n)
  BY DEF UnitsOf
<1>5. \A x \in Grids \X (1 .. OrderSize) : x \in D <=> x[1] = g /\ m < x[2] /\ x[2] <= n
  <2> TAKE x \in Grids \X (1 .. OrderSize)
  <2>1. x = <<x[1], x[2]>> /\ x[2] \in 1 .. OrderSize
    OBVIOUS
  <2>2. x[2] \in (m + 1) .. n <=> m < x[2] /\ x[2] <= n
    BY <2>1, <1>0
  <2>3. x \in D <=> x[1] = g /\ x[2] \in (m + 1) .. n
    BY <2>1
  <2> QED BY <2>2, <2>3
<1>6. D \in SUBSET (Grids \X (1 .. OrderSize))
  <2>1. (m + 1) .. n \subseteq 1 .. OrderSize
    BY <1>0
  <2> QED BY <2>1
<1>7. V = U \cup D
  <2>1. ASSUME NEW x \in Grids \X (1 .. OrderSize) PROVE x \in V <=> x \in U \/ x \in D
    <3>1. x[2] \in Nat
      BY <1>0
    <3>2. x[2] <= n <=> x[2] <= m \/ (m < x[2] /\ x[2] <= n)
      BY <3>1
    <3> QED BY <3>2, <1>3, <1>4, <1>5
  <2> QED BY <2>1, <1>2, <1>6
<1>8. U \cap D = {}
  <2>1. ASSUME NEW x \in Grids \X (1 .. OrderSize), x \in U, x \in D PROVE FALSE
    <3>1. x[1] = g /\ m < x[2] /\ x[2] \in Nat
      BY <2>1, <1>0, <1>5
    <3>2. ~(x[2] <= m)
      BY <3>1
    <3> QED BY <2>1, <3>1, <3>2, <1>3
  <2> QED BY <2>1, <1>2
<1>9. IsFiniteSet(U) /\ Cardinality(U) \in Nat
  BY <1>2, UnitsFinite
<1>10. Cardinality(U \cup D) = Cardinality(U) + Cardinality(D) - Cardinality(U \cap D)
  <2>1. IsFiniteSet(U) /\ IsFiniteSet(D)
    BY <1>1, <1>9
  <2> QED BY <2>1, FS_Union
<1>11. Cardinality(U \cap D) = 0
  BY <1>8, FS_EmptySet
<1>12. PICK c \in Nat, d \in Int : c = Cardinality(U) /\ d = Cardinality(D) /\ d = n - m
  <2>1. n - m \in Int
    OBVIOUS
  <2> QED BY <2>1, <1>1, <1>9
<1>13. Cardinality(V) = c + d - 0
  BY <1>7, <1>10, <1>11, <1>12
<1>14. c + d - 0 = c + (n - m)
  BY <1>12
<1> QED BY <1>12, <1>13, <1>14

\* One order in place of another, of the same grid.
Regrids(rest, o, new, delta) ==
  /\ rest \in SUBSET Placed /\ o \in Placed /\ new \in Placed /\ new.grid = o.grid
  /\ \A p \in rest : p.grid # o.grid
  /\ Held(o) \in 0 .. OrderSize /\ Held(new) \in 0 .. OrderSize /\ Held(new) - Held(o) = delta

\* A grid that holds more or less: as many units more or less.
LEMMA HoldsOther ==
  ASSUME ViewsAssumption, NEW rest, NEW o, NEW new, NEW delta \in Int, Regrids(rest, o, new, delta)
  PROVE  Cardinality(UnitsOf(rest \cup {new})) = Cardinality(UnitsOf(rest \cup {o})) + delta
<1> USE DEF Regrids
<1>0. PICK h \in Int, k \in Int : h = Held(o) /\ k = Held(new) /\ k - h = delta
  <2>1. OrderSize \in Nat
    BY DEF ViewsAssumption
  <2>2. Held(o) \in Int /\ Held(new) \in Int
    BY <2>1
  <2> QED BY <2>2
<1>1. PICK c \in Nat, d \in Nat : c = Cardinality(UnitsOf(rest \cup {o})) /\ d = Cardinality(UnitsOf(rest \cup {new}))
  <2>1. UnitsOf(rest \cup {o}) \in SUBSET (Grids \X (1 .. OrderSize)) /\ UnitsOf(rest \cup {new}) \in SUBSET (Grids \X (1 .. OrderSize))
    BY DEF UnitsOf
  <2>2. Cardinality(UnitsOf(rest \cup {o})) \in Nat /\ Cardinality(UnitsOf(rest \cup {new})) \in Nat
    BY <2>1, UnitsFinite
  <2> QED BY <2>2
<1>2. CASE h <= k
  <2>1. Cardinality(UnitsOf(rest \cup {new})) = Cardinality(UnitsOf(rest \cup {o})) + (Held(new) - Held(o))
    <3>1. o.grid = new.grid /\ Held(o) <= Held(new)
      BY <1>0, <1>2
    <3> QED BY <3>1, HoldsMore
  <2>2. d = c + (k - h)
    BY <2>1, <1>0, <1>1
  <2> QED BY <2>2, <1>0, <1>1
<1>3. CASE ~(h <= k)
  <2>1. Cardinality(UnitsOf(rest \cup {o})) = Cardinality(UnitsOf(rest \cup {new})) + (Held(o) - Held(new))
    <3>1. new.grid = o.grid /\ Held(new) <= Held(o)
      BY <1>0, <1>3
    <3>2. \A p \in rest : p.grid # new.grid
      OBVIOUS
    <3>3. rest \in SUBSET Placed /\ new \in Placed /\ o \in Placed /\ Held(o) \in 0 .. OrderSize /\ Held(new) \in 0 .. OrderSize
      OBVIOUS
    <3> QED BY <3>1, <3>2, <3>3, HoldsMore
  <2>2. c = d + (h - k)
    BY <2>1, <1>0, <1>1
  <2>3. d = c + delta
    <3>1. c = d + (h - k) /\ k - h = delta
      BY <2>2, <1>0
    <3> QED BY <3>1
  <2> QED BY <2>3, <1>1
<1> QED BY <1>2, <1>3

\* The units of grids of which each holds an order's quantity, or nothing.
LEMMA WholeGrids ==
  ASSUME ViewsAssumption, NEW book \in SUBSET Placed, NEW full \in SUBSET Grids,
         \A o \in book : Held(o) = IF o.grid \in full THEN OrderSize ELSE 0, \A g \in full : \E o \in book : o.grid = g
  PROVE  /\ IsFiniteSet(full) /\ Cardinality(full) \in Nat
         /\ Cardinality(UnitsOf(book)) = OrderSize * Cardinality(full)
<1>1. Len(Lines) \in Nat /\ OrderSize \in Nat
  BY DEF ViewsAssumption
<1>2. IsFiniteSet(full) /\ Cardinality(full) \in Nat
  <2>1. IsFiniteSet(Grids)
    <3>1. Len(Lines) - 1 \in Int /\ 1 \in Int
      BY <1>1
    <3> QED BY <3>1, FS_Interval DEF Grids
  <2> QED BY <2>1, FS_Subset, FS_CardinalityType
<1>3. IsFiniteSet(1 .. OrderSize) /\ Cardinality(1 .. OrderSize) = OrderSize
  <2>1. 1 \in Int /\ OrderSize \in Int
    BY <1>1
  <2>2. IsFiniteSet(1 .. OrderSize) /\ Cardinality(1 .. OrderSize) = IF 1 > OrderSize THEN 0 ELSE OrderSize - 1 + 1
    BY <2>1, FS_Interval
  <2> QED BY <2>2, <1>1
<1>4. UnitsOf(book) = full \X (1 .. OrderSize)
  <2>1. ASSUME NEW x \in Grids \X (1 .. OrderSize) PROVE x \in UnitsOf(book) <=> x \in full \X (1 .. OrderSize)
    <3>1. x = <<x[1], x[2]>> /\ x[2] \in 1 .. OrderSize /\ ~(x[2] <= 0) /\ x[2] <= OrderSize
      BY <1>1
    <3>2. x \in full \X (1 .. OrderSize) <=> x[1] \in full
      BY <3>1
    <3>3. (\E o \in book : o.grid = x[1] /\ x[2] <= Held(o)) <=> x[1] \in full
      BY <3>1
    <3> QED BY <3>2, <3>3 DEF UnitsOf
  <2> QED BY <2>1 DEF UnitsOf
<1>5. Cardinality(full \X (1 .. OrderSize)) = Cardinality(full) * Cardinality(1 .. OrderSize)
  BY <1>2, <1>3, FS_Product
<1>6. PICK c \in Nat, s \in Nat : c = Cardinality(full) /\ s = OrderSize
  BY <1>1, <1>2
<1>7. c * s = s * c
  OBVIOUS
<1> QED BY <1>2, <1>3, <1>4, <1>5, <1>6, <1>7

\* The position of the robot is what its grids hold.
PositionIsHeld == Net = Cardinality(UnitsOf(orders))

\* The position as it is reckoned.
NetOf(f) == OrderSize * Cardinality({g \in Grids : BaseGrid(g)}) + TotalOf(f)

\* It comes from the grids held at the start and from the fills.
LEMMA NetIs == Net = NetOf(fills)
BY DEF Net, NetOf, TotalOf, Signed, Grids

\* A fill moves the position by what its grid then holds more or less.
LEMMA PositionStays ==
  ASSUME ViewsAssumption, ViewsTypeOK, BookFits(orders, clock), PositionIsHeld,
         NEW o \in orders, NEW q \in 1 .. OrderSize, Fill(o, q)
  PROVE  PositionIsHeld'
<1> PICK new : new = Next1(o, q)
  OBVIOUS
<1> PICK x : x = FillOf(o, q)
  OBVIOUS
<1> PICK rest : rest = orders \ {o}
  OBVIOUS
<1>1. /\ x \in Filled /\ new \in Placed
      /\ fills' = Append(fills, x) /\ orders' = rest \cup {new}
      /\ new.grid = o.grid /\ o.grid \in Grids
      /\ q <= OrderSize - o.filled /\ o.filled \in 0 .. OrderSize - 1
      /\ q = OrderSize - o.filled =>
           new.filled = 0 /\ new.side = IF o.side = ClosingSide THEN OpeningSide ELSE ClosingSide
      /\ q # OrderSize - o.filled => new.filled = o.filled + q /\ new.side = o.side
  BY FillIs
<1>2. /\ fills \in Seq(Filled) /\ o \in Placed /\ orders = rest \cup {o} /\ rest \in SUBSET Placed
      /\ OrderSize \in Nat \ {0} /\ OpeningSide # ClosingSide
  BY SidesDiffer DEF ViewsTypeOK, ViewsAssumption
<1>3. \A p \in rest : p.grid # o.grid
  BY DEF BookFits
<1>4. PICK delta \in Int : delta = Signed(x) /\ delta = IF o.side = ClosingSide THEN -q ELSE q
  <2>1. x.side = o.side /\ x.quantity = q
    BY DEF FillOf
  <2>2. o.side = OpeningSide <=> o.side # ClosingSide
    BY <1>2, SidesDiffer
  <2> QED BY <2>1, <2>2 DEF Signed
<1>5. Held(o) \in 0 .. OrderSize /\ Held(new) \in 0 .. OrderSize /\ Held(new) - Held(o) = delta
  <2> PICK a \in Int, most \in Int, k \in Int : a = o.filled /\ most = OrderSize /\ k = q /\ 0 <= a /\ a < most /\ 1 <= k /\ k <= most - a
    BY <1>1, <1>2
  <2>0. q = OrderSize - o.filled <=> k = most - a
    OBVIOUS
  <2>1. PICK h \in Int, j \in Int :
          h = Held(o) /\ j = Held(new) /\ 0 <= h /\ h <= most /\ 0 <= j /\ j <= most /\ j - h = delta
    <3>1. CASE o.side = ClosingSide /\ k = most - a
      <4>1. Held(o) = most - a /\ delta = -k
        BY <1>4, <3>1 DEF Held
      <4>2. new.filled = 0 /\ new.side = OpeningSide
        BY <1>1, <2>0, <3>1
      <4>3. Held(new) = 0
        BY <4>2, <1>2 DEF Held
      <4>4. most - a \in Int /\ 0 <= most - a /\ most - a <= most /\ 0 - (most - a) = -k /\ 0 <= most /\ 0 <= 0 /\ 0 \in Int
        BY <3>1
      <4> QED BY <4>1, <4>3, <4>4
    <3>2. CASE o.side # ClosingSide /\ k = most - a
      <4>1. Held(o) = a /\ delta = k
        BY <1>4, <3>2 DEF Held
      <4>2. new.filled = 0 /\ new.side = ClosingSide
        BY <1>1, <2>0, <3>2
      <4>3. Held(new) = most - 0
        BY <4>2 DEF Held
      <4> QED BY <4>1, <4>3, <3>2
    <3>3. CASE o.side = ClosingSide /\ k # most - a
      <4>1. Held(o) = most - a /\ delta = -k
        BY <1>4, <3>3 DEF Held
      <4>2. new.filled = o.filled + q /\ new.side = ClosingSide
        BY <1>1, <2>0, <3>3
      <4>3. Held(new) = most - (a + k)
        BY <4>2 DEF Held
      <4>4. /\ most - a \in Int /\ 0 <= most - a /\ most - a <= most
            /\ most - (a + k) \in Int /\ 0 <= most - (a + k) /\ most - (a + k) <= most
            /\ (most - (a + k)) - (most - a) = -k
        OBVIOUS
      <4> QED BY <4>1, <4>3, <4>4
    <3>4. CASE o.side # ClosingSide /\ k # most - a
      <4>1. Held(o) = a /\ delta = k
        BY <1>4, <3>4 DEF Held
      <4>2. new.filled = o.filled + q /\ new.side # ClosingSide
        BY <1>1, <2>0, <3>4
      <4>3. Held(new) = a + k
        BY <4>2 DEF Held
      <4> QED BY <4>1, <4>3
    <3> QED BY <3>1, <3>2, <3>3, <3>4
  <2> QED BY <2>1
<1>6. Cardinality(UnitsOf(rest \cup {new})) = Cardinality(UnitsOf(rest \cup {o})) + delta
  <2>1. new \in Placed /\ new.grid = o.grid
    BY <1>1
  <2>2. Regrids(rest, o, new, delta)
    BY <2>1, <1>2, <1>3, <1>5 DEF Regrids
  <2> QED BY <2>2, HoldsOther
<1>7. TotalOf(fills') = TotalOf(fills) + delta /\ TotalOf(fills) \in Int
  <2>1. \A r \in Filled : r.quantity \in Int
    BY DEF Filled
  <2> QED BY <2>1, <1>1, <1>2, <1>4, TotalAppend
<1>8. PICK base \in Int : base = OrderSize * Cardinality({g \in Grids : BaseGrid(g)})
  <2>1. Net \in Int /\ TotalOf(fills) \in Int
    BY <1>2, <1>7, NetType
  <2>2. Cardinality({g \in Grids : BaseGrid(g)}) \in Nat
    <3>1. Len(Lines) - 1 \in Int /\ 1 \in Int
      BY DEF ViewsAssumption
    <3>2. IsFiniteSet(Grids)
      BY <3>1, FS_Interval DEF Grids
    <3>3. {g \in Grids : BaseGrid(g)} \in SUBSET Grids
      OBVIOUS
    <3> QED BY <3>2, <3>3, FS_Subset, FS_CardinalityType
  <2>3. PICK c \in Nat, s \in Nat : c = Cardinality({g \in Grids : BaseGrid(g)}) /\ s = OrderSize
    BY <2>2, <1>2
  <2>4. s * c \in Int
    OBVIOUS
  <2> QED BY <2>3, <2>4
<1>9. Net = base + TotalOf(fills)
  BY <1>8, NetIs DEF NetOf
<1>10. Net' = base + TotalOf(fills')
  <2>1. Net' = NetOf(fills)'
    BY DEF Net, NetOf, TotalOf, Signed, Grids
  <2>2. NetOf(fills)' = base + TotalOf(fills')
    BY <1>8 DEF NetOf
  <2> QED BY <2>1, <2>2
<1>11. Net = Cardinality(UnitsOf(orders)) /\ orders = rest \cup {o}
  BY <1>2 DEF PositionIsHeld
<1>12. Net' = Cardinality(UnitsOf(rest \cup {new}))
  <2> PICK t \in Int : t = TotalOf(fills)
    BY <1>7
  <2>1. base + t = Cardinality(UnitsOf(rest \cup {o}))
    BY <1>9, <1>11
  <2>2. Net' = base + (t + delta) /\ Cardinality(UnitsOf(rest \cup {new})) = (base + t) + delta
    BY <2>1, <1>6, <1>7, <1>10
  <2>3. base + (t + delta) = (base + t) + delta
    OBVIOUS
  <2> QED BY <2>2, <2>3
<1> QED BY <1>1, <1>12 DEF PositionIsHeld, UnitsOf, Held

\* At the start there is an order for each grid, and those that close are for what the robot holds.
LEMMA StartFits ==
  ASSUME ViewsAssumption, ViewsInit
  PROVE  /\ BookFits(orders, clock) /\ PartsKnown(orders, fills)
         /\ LotsFit(Folded(fills).lots, orders, clock) /\ PositionIsHeld
<1>1. /\ clock = Started /\ fills = << >> /\ Started \in Int /\ Len(Lines) \in Nat
      /\ orders = {Order(g, BaseGrid(g), Started) : g \in Grids}
      /\ OrderSize \in Nat \ {0} /\ OpeningSide # ClosingSide
  BY SidesDiffer DEF ViewsInit, ViewsAssumption, Grids
<1>2. ASSUME NEW g \in Grids, NEW o, o = Order(g, BaseGrid(g), Started)
      PROVE  /\ o \in Placed /\ o.grid = g /\ o.placed = Started /\ o.filled = 0
             /\ o.side = (IF BaseGrid(g) THEN ClosingSide ELSE OpeningSide) /\ OrderFits(o, clock)
  <2>1. PICK holds \in BOOLEAN : holds = BaseGrid(g)
    <3>1. Lines \in Seq(Int) /\ StartPrice \in Int /\ g \in 1 .. Len(Lines) /\ g + 1 \in 1 .. Len(Lines)
      BY DEF ViewsAssumption, Grids
    <3>2. PICK a \in Int, b \in Int : a = Lines[g] /\ b = Lines[g + 1]
      BY <3>1
    <3>3. BaseGrid(g) = IF Long THEN a >= StartPrice ELSE b <= StartPrice
      BY <3>2 DEF BaseGrid
    <3>4. (a >= StartPrice) \in BOOLEAN /\ (b <= StartPrice) \in BOOLEAN
      BY <3>1
    <3>5. BaseGrid(g) \in BOOLEAN
      BY <3>3, <3>4
    <3> QED BY <3>5
  <2>2. o = Order(g, holds, Started)
    BY <1>2, <2>1
  <2>3. Started <= Started
    BY <1>1
  <2>4. /\ o \in Placed /\ o.grid = g /\ o.placed = Started /\ o.filled = 0
        /\ o.side = (IF holds THEN ClosingSide ELSE OpeningSide)
        /\ \A time \in Int : Started <= Started /\ Started <= time => OrderFits(o, time)
    BY <1>1, <2>2, OrderIs
  <2> QED BY <1>1, <2>1, <2>3, <2>4
<1>3. \A o \in orders : /\ o \in Placed /\ o.grid \in Grids /\ o = Order(o.grid, BaseGrid(o.grid), Started)
                        /\ o.placed = Started /\ o.filled = 0 /\ OrderFits(o, clock)
                        /\ o.side = IF BaseGrid(o.grid) THEN ClosingSide ELSE OpeningSide
  <2> TAKE o \in orders
  <2>1. PICK g \in Grids : o = Order(g, BaseGrid(g), Started)
    BY <1>1
  <2> QED BY <2>1, <1>2
<1>4. IsFiniteSet(Grids)
  <2>1. Len(Lines) - 1 \in Int /\ 1 \in Int
    BY <1>1
  <2> QED BY <2>1, FS_Interval DEF Grids
<1>5. \A o, p \in orders : o.grid = p.grid => o = p
  BY <1>3
<1>6. IsFiniteSet(orders)
  <2> DEFINE f == [o \in orders |-> o.grid]
  <2>1. f \in Injection(orders, Grids)
    BY <1>3, <1>5 DEF Injection, IsInjective
  <2> HIDE DEF f
  <2> QED BY <2>1, <1>4, FS_Injection
<1>7. \A g \in Grids : \E o \in orders : o.grid = g
  <2> TAKE g \in Grids
  <2> PICK o : o = Order(g, BaseGrid(g), Started)
    OBVIOUS
  <2>1. o \in orders /\ o.grid = g
    BY <1>1, <1>2
  <2> QED BY <2>1
<1>8. BookFits(orders, clock)
  BY <1>3, <1>5, <1>6, <1>7 DEF BookFits
<1>9. PartsKnown(orders, fills)
  BY <1>3 DEF PartsKnown
<1>10. \A o \in orders : Held(o) = (IF BaseGrid(o.grid) THEN OrderSize ELSE 0) /\ ~Bought(o)
  <2> TAKE o \in orders
  <2>1. CASE BaseGrid(o.grid)
    <3>1. o.side = ClosingSide /\ o.filled = 0 /\ o.placed = Started
      BY <2>1, <1>3
    <3>2. Held(o) = OrderSize
      BY <3>1, <1>1 DEF Held
    <3> QED BY <2>1, <3>1, <3>2 DEF Bought
  <2>2. CASE ~BaseGrid(o.grid)
    <3>1. o.side # ClosingSide /\ o.filled = 0
      BY <2>2, <1>1, <1>3
    <3>2. Held(o) = 0
      BY <3>1 DEF Held
    <3> QED BY <2>2, <3>2 DEF Bought
  <2> QED BY <2>1, <2>2
<1>11. LotsFit(Folded(fills).lots, orders, clock)
  <2> PICK lots : lots = Folded(fills).lots
    OBVIOUS
  <2>1. lots = << >>
    BY <1>1, FoldedNone
  <2>2. ToSet(lots) = {} /\ OnePrice(lots)
    BY <2>1 DEF ToSet, OnePrice
  <2> QED BY <2>2, <1>10 DEF LotsFit
<1>12. PositionIsHeld
  <2> PICK full \in SUBSET Grids : full = {g \in Grids : BaseGrid(g)}
    OBVIOUS
  <2>1. orders \in SUBSET Placed
    BY <1>3
  <2>2. \A o \in orders : Held(o) = IF o.grid \in full THEN OrderSize ELSE 0
    BY <1>3, <1>10
  <2>3. \A g \in full : \E o \in orders : o.grid = g
    BY <1>7
  <2>4. Cardinality(UnitsOf(orders)) = OrderSize * Cardinality(full) /\ Cardinality(full) \in Nat
    BY <2>1, <2>2, <2>3, WholeGrids
  <2>5. Net = OrderSize * Cardinality(full) + TotalOf(<< >>)
    BY <1>1, NetIs DEF NetOf
  <2>6. PICK c \in Nat, s \in Nat : c = Cardinality(full) /\ s = OrderSize
    BY <1>1, <2>4
  <2>7. s * c + 0 = s * c
    OBVIOUS
  <2> QED BY <2>4, <2>5, <2>6, <2>7, TotalOfNone DEF PositionIsHeld
<1> QED BY <1>8, <1>9, <1>11, <1>12

-----------------------------------------------------------------------------
(* What is shown as open: an order in the book takes the lot of its grid.  *)

\* The lots left are lots of the book, and an order that was bought has its own.
LotsOf(lots, book, time) ==
  OnePrice(lots) /\ \A l \in ToSet(lots) : \E p \in book : Bought(p) /\ IsLot(l, p, time)
HasLot(o, lots, time) == Bought(o) => \E l \in ToSet(lots) : IsLot(l, o, time)

\* An order that closes takes one lot, and it is the one of its grid.
LEMMA OrdersLot ==
  ASSUME ViewsAssumption, LinesAssumption, NEW book \in SUBSET Placed, NEW time, BookFits(book, time),
         NEW o \in book, o.side = ClosingSide, NEW lots \in Seq(LotOf(Filled)),
         LotsOf(lots, book, time), Bought(o), HasLot(o, lots, time)
  PROVE  \E k \in 1 .. Len(lots) :
           /\ LotOfOrder(lots, o) = k /\ IsLot(lots[k], o, time)
<1>1. PICK l \in ToSet(lots) : IsLot(l, o, time)
  BY DEF HasLot
<1>2. PICK k \in 1 .. Len(lots) : l = lots[k]
  BY LotsAre
<1>3. OrderFits(o, time) /\ o.grid \in Grids
  BY DEF BookFits, Placed, Grids
<1>4. o.price = Closes(o.grid)
  BY <1>3 DEF OrderFits
<1>5. ASSUME NEW i \in 1 .. Len(lots)
      PROVE  lots[i].rest > 0 /\ lots[i].fill.time < o.placed /\ PricesMatch(lots[i].fill.price, o.price) <=> i = k
  <2>1. lots[i] \in ToSet(lots)
    BY LotsAre
  <2>2. PICK p \in book : Bought(p) /\ IsLot(lots[i], p, time)
    BY <2>1 DEF LotsOf
  <2>3. p.grid \in Grids /\ lots[i].fill.price = Opens(p.grid)
    BY <2>2 DEF Placed, Grids, IsLot
  <2>4. PricesMatch(lots[i].fill.price, o.price) => i = k
    <3>1. SUFFICES ASSUME PricesMatch(lots[i].fill.price, o.price) PROVE i = k
      OBVIOUS
    <3>2. p.grid = o.grid
      BY <3>1, <2>3, <1>3, <1>4, LinesApart
    <3>3. lots[i].fill.price = lots[k].fill.price
      BY <3>2, <2>3, <1>1, <1>2 DEF IsLot
    <3> QED BY <3>3 DEF LotsOf, OnePrice
  <2>5. i = k => lots[i].rest > 0 /\ lots[i].fill.time < o.placed /\ PricesMatch(lots[i].fill.price, o.price)
    <3>1. lots[k].rest > 0 /\ lots[k].fill.time < o.placed /\ lots[k].fill.price = Opens(o.grid)
      BY <1>1, <1>2 DEF IsLot, Bought
    <3>2. PricesMatch(Opens(o.grid), Closes(o.grid))
      BY <1>3, LinesApart
    <3> QED BY <3>1, <3>2, <1>4
  <2> QED BY <2>4, <2>5
<1>6. PICK fits : fits = {i \in DOMAIN lots : lots[i].rest > 0 /\ lots[i].fill.time < o.placed
                                                /\ PricesMatch(lots[i].fill.price, o.price)}
  OBVIOUS
<1>7. fits = {k}
  BY <1>2, <1>5, <1>6
<1>8. LotOfOrder(lots, o) = IF fits = {} THEN 0 ELSE CHOOSE i \in fits : \A j \in fits : lots[i].fill.time >= lots[j].fill.time
  BY <1>6 DEF LotOfOrder
<1>9. lots[k].fill.time >= lots[k].fill.time
  <2>1. lots[k].fill.time \in Int
    BY LotsAre DEF Filled
  <2> QED BY <2>1
<1>10. (CHOOSE i \in fits : \A j \in fits : lots[i].fill.time >= lots[j].fill.time) = k
  BY <1>7, <1>9
<1> QED BY <1>1, <1>2, <1>7, <1>8, <1>10

\* An order shows what its grid holds, and leaves the others their lots.
Shows(after, before, o, book, time) ==
  /\ after \in OpenBook /\ QuantityOf(after.open) = QuantityOf(before.open) + Held(o)
  /\ LotsOf(after.lots, book, time)
  /\ \A p \in book : p # o /\ HasLot(p, before.lots, time) => HasLot(p, after.lots, time)

\* An open group more adds its quantity.
LEMMA OpenAppend ==
  ASSUME NEW open \in Seq(OpenOf), NEW x \in OpenOf
  PROVE  QuantityOf(Append(open, x)) = QuantityOf(open) + x.quantity /\ QuantityOf(open) \in Int
<1>1. \A r \in OpenOf : r.quantity \in Int
  BY DEF OpenOf
<1> QED BY <1>1, QuantityAppend

\* So does each order of the book.
LEMMA OrderShows ==
  ASSUME ViewsAssumption, LinesAssumption, NEW book \in SUBSET Placed, NEW time, BookFits(book, time),
         NEW o \in book, o.filled = 0, NEW v \in OpenBook, LotsOf(v.lots, book, time), HasLot(o, v.lots, time)
  PROVE  Shows(TakeOrder(v, o), v, o, book, time)
<1> PICK w : w = TakeOrder(v, o)
  OBVIOUS
<1>1. w \in OpenBook
  BY TakeOrderType
<1>2. PICK lots \in Seq(LotOf(Filled)), open \in Seq(OpenOf) : lots = v.lots /\ open = v.open
  BY DEF OpenBook
<1>3. /\ QuantityOf(open) \in Int /\ OrderSize \in Nat \ {0} /\ Started \in Int /\ BaseWindow \in Nat
      /\ OpeningSide # ClosingSide
  <2>2. Group(BaseLeg, o, 0, "matched") \in OpenOf
    BY DEF Group, OpenOf
  <2>3. PICK x \in OpenOf : x = Group(BaseLeg, o, 0, "matched")
    BY <2>2
  <2>4. QuantityOf(open) \in Int
    BY <2>3, OpenAppend
  <2> QED BY <2>4, SidesDiffer DEF ViewsAssumption
<1>4. OrderFits(o, time) /\ o.quantity = OrderSize /\ o.placed \in Int
  BY DEF BookFits, OrderFits, Placed
<1>5. CASE o.side # ClosingSide
  <2>1. w = v
    BY <1>5 DEF TakeOrder
  <2>2. Held(o) = 0
    BY <1>5 DEF Held
  <2>3. QuantityOf(open) = QuantityOf(open) + 0
    BY <1>3
  <2> QED BY <1>1, <1>2, <2>1, <2>2, <2>3 DEF Shows
<1>6. ASSUME o.side = ClosingSide PROVE Held(o) = OrderSize
  BY <1>6, <1>3 DEF Held
<1>7. CASE o.side = ClosingSide /\ IsBaseOrder(o.placed)
  <2> PICK x : x = Group(BaseLeg, o, OrderSize, "base_inferred")
    OBVIOUS
  <2>1. x \in OpenOf /\ x.quantity = OrderSize
    BY <1>3 DEF Group, OpenOf
  <2>2. w = [v EXCEPT !.open = Append(@, x)]
    BY <1>4, <1>7 DEF TakeOrder
  <2>3. w.lots = lots /\ w.open = Append(open, x)
    BY <2>2, <1>2 DEF OpenBook
  <2>4. QuantityOf(w.open) = QuantityOf(open) + OrderSize
    BY <2>1, <2>3, OpenAppend
  <2> QED BY <1>1, <1>2, <1>6, <1>7, <2>3, <2>4 DEF Shows
<1>8. CASE o.side = ClosingSide /\ ~IsBaseOrder(o.placed)
  <2>1. o.placed # Started
    <3>1. Distance(Started, Started) = 0 /\ 0 <= BaseWindow
      BY <1>3 DEF Distance
    <3> QED BY <3>1, <1>8 DEF IsBaseOrder
  <2>2. Bought(o)
    BY <2>1, <1>3, <1>6, <1>8 DEF Bought
  <2>3. PICK k \in 1 .. Len(lots) : LotOfOrder(lots, o) = k /\ IsLot(lots[k], o, time)
    BY <2>2, <1>2, <1>8, OrdersLot
  <2>4. lots[k].rest = OrderSize /\ Smaller(lots[k].rest, o.quantity) = OrderSize /\ k # 0
    BY <2>3, <1>3, <1>4, <1>6, <1>8 DEF IsLot, Smaller
  <2> PICK x : x = Group(lots[k].fill, o, OrderSize, "matched")
    OBVIOUS
  <2>5. x \in OpenOf /\ x.quantity = OrderSize
    <3>1. lots[k] \in LotOf(Filled)
      OBVIOUS
    <3> QED BY <3>1, <1>3 DEF Group, OpenOf, LotOf
  <2>6. w = [lots |-> Left(lots, k, OrderSize), open |-> Append(open, x)]
    BY <2>3, <2>4, <1>2, <1>8 DEF TakeOrder
  <2>7. Left(lots, k, OrderSize) = RemoveAt(lots, k)
    BY <2>4 DEF Left
  <2>8. w.lots = RemoveAt(lots, k) /\ w.open = Append(open, x)
    BY <2>6, <2>7
  <2>9. QuantityOf(w.open) = QuantityOf(open) + OrderSize
    <3>1. QuantityOf(Append(open, x)) = QuantityOf(open) + x.quantity
      BY <2>5, OpenAppend
    <3> QED BY <3>1, <2>5, <2>8
  <2>10. OnePrice(w.lots) /\ ToSet(w.lots) = ToSet(lots) \ {lots[k]}
    BY <2>8, <1>2, LotRemoved DEF LotsOf
  <2>11. LotsOf(w.lots, book, time)
    BY <2>10, <1>2 DEF LotsOf
  <2>12. ASSUME NEW p \in book, p # o, HasLot(p, lots, time) PROVE HasLot(p, w.lots, time)
    <3> SUFFICES ASSUME Bought(p) PROVE \E l \in ToSet(w.lots) : IsLot(l, p, time)
      BY DEF HasLot
    <3>1. PICK l \in ToSet(lots) : IsLot(l, p, time)
      BY <2>12 DEF HasLot
    <3>2. l # lots[k]
      <4>1. p.grid # o.grid /\ p.grid \in Grids /\ o.grid \in Grids
        BY <2>12 DEF BookFits, Placed, Grids
      <4>2. Opens(p.grid) # Opens(o.grid)
        BY <4>1, LinesApart
      <4> QED BY <4>2, <3>1, <2>3 DEF IsLot
    <3> QED BY <3>1, <3>2, <2>10
  <2> QED BY <1>1, <1>2, <1>6, <1>8, <2>9, <2>11, <2>12 DEF Shows
<1> QED BY <1>5, <1>7, <1>8

\* A grid more: as many units more as it holds.
LEMMA UnitsAdded ==
  ASSUME ViewsAssumption, NEW rest \in SUBSET Placed, NEW o \in Placed, \A p \in rest : p.grid # o.grid,
         Held(o) \in 0 .. OrderSize
  PROVE  Cardinality(UnitsOf(rest \cup {o})) = Cardinality(UnitsOf(rest)) + Held(o)
<1> PICK a : a = [id |-> o.id, side |-> OpeningSide, price |-> o.price, quantity |-> o.quantity, filled |-> 0,
                  placed |-> o.placed, status |-> o.status, grid |-> o.grid]
  OBVIOUS
<1>0. OrderSize \in Nat /\ OpeningSide \in {"buy", "sell"} /\ OpeningSide # ClosingSide
  BY SidesDiffer DEF ViewsAssumption, OpeningSide
<1>1. a \in Placed /\ a.grid = o.grid
  BY <1>0 DEF Placed
<1>2. Held(a) = 0
  BY <1>0 DEF Held
<1>3. PICK h \in Nat : h = Held(o) /\ h <= OrderSize
  BY <1>0
<1>4. Regrids(rest, a, o, h)
  <2>1. h - 0 = h /\ 0 \in 0 .. OrderSize
    BY <1>0
  <2> QED BY <2>1, <1>1, <1>2, <1>3 DEF Regrids
<1>5. Cardinality(UnitsOf(rest \cup {o})) = Cardinality(UnitsOf(rest \cup {a})) + h
  BY <1>4, HoldsOther
<1>6. UnitsOf(rest \cup {a}) = UnitsOf(rest)
  <2>1. ASSUME NEW x \in Grids \X (1 .. OrderSize) PROVE ~(x[2] <= Held(a))
    <3>1. x[2] \in 1 .. OrderSize
      OBVIOUS
    <3> QED BY <3>1, <1>0, <1>2
  <2> QED BY <2>1 DEF UnitsOf
<1> QED BY <1>3, <1>5, <1>6

\* Each order of a book once, none of which is filled in part.
EachOnce(s, n, book) ==
  /\ \A i \in 1 .. n : s[i] \in book
  /\ \A i, j \in 1 .. n : s[i] = s[j] => i = j
  /\ \A o \in book : o.filled = 0

\* What the orders up to one of them show.
Showing(i, s, n, v, book, time) ==
  /\ LotsOf(v[i].lots, book, time)
  /\ \A j \in 1 .. n : i < j => HasLot(s[j], v[i].lots, time)
  /\ QuantityOf(v[i].open) = Cardinality(UnitsOf({s[j] : j \in 1 .. i}))

\* One order more.
LEMMA ShowsMore ==
  ASSUME ViewsAssumption, LinesAssumption, NEW book \in SUBSET Placed, NEW time, BookFits(book, time),
         NEW n \in Nat, NEW s, EachOnce(s, n, book), NEW v, NEW i \in Nat, NEW k \in Nat, k = i + 1, k <= n,
         v[i] \in OpenBook, v[k] = TakeOrder(v[i], s[k]), Showing(i, s, n, v, book, time)
  PROVE  Showing(k, s, n, v, book, time)
<1> USE DEF EachOnce
<1>1. k \in 1 .. n /\ i < k
  OBVIOUS
<1> PICK o \in book : o = s[k]
  BY <1>1
<1>2. o.filled = 0 /\ o \in Placed /\ OrderSize \in Nat
  BY DEF ViewsAssumption
<1>3. LotsOf(v[i].lots, book, time) /\ HasLot(o, v[i].lots, time)
  BY <1>1 DEF Showing
<1>4. Shows(v[k], v[i], o, book, time)
  <2> PICK u \in OpenBook : u = v[i]
    OBVIOUS
  <2>1. LotsOf(u.lots, book, time) /\ HasLot(o, u.lots, time)
    BY <1>3
  <2>2. Shows(TakeOrder(u, o), u, o, book, time)
    BY <2>1, <1>2, OrderShows
  <2> QED BY <2>2
<1>5. \A j \in 1 .. n : k < j => HasLot(s[j], v[k].lots, time)
  <2> SUFFICES ASSUME NEW j \in 1 .. n, k < j PROVE HasLot(s[j], v[k].lots, time)
    OBVIOUS
  <2>1. i < j /\ j # k
    OBVIOUS
  <2>2. s[j] \in book /\ s[j] # o
    BY <2>1, <1>1
  <2>3. HasLot(s[j], v[i].lots, time)
    BY <2>1 DEF Showing
  <2> QED BY <2>2, <2>3, <1>4 DEF Shows
<1> PICK rest : rest = {s[j] : j \in 1 .. i}
  OBVIOUS
<1>6. \A j \in 1 .. i : j \in 1 .. n /\ j # k
  OBVIOUS
<1>7. rest \in SUBSET Placed /\ \A p \in rest : p.grid # o.grid
  <2>1. \A p \in rest : p \in book /\ p # o
    BY <1>1, <1>6
  <2> QED BY <2>1 DEF BookFits
<1>8. {s[j] : j \in 1 .. k} = rest \cup {o}
  <2>1. \A j : j \in 1 .. k <=> j \in 1 .. i \/ j = k
    OBVIOUS
  <2> QED BY <2>1
<1>9. Held(o) \in 0 .. OrderSize
  BY <1>2 DEF Held
<1>10. Cardinality(UnitsOf(rest \cup {o})) = Cardinality(UnitsOf(rest)) + Held(o)
  BY <1>2, <1>7, <1>9, UnitsAdded
<1>11. QuantityOf(v[k].open) = Cardinality(UnitsOf({s[j] : j \in 1 .. k}))
  BY <1>4, <1>8, <1>10 DEF Shows, Showing
<1> QED BY <1>4, <1>5, <1>11 DEF Showing, Shows

\* The orders of a book where all are live.
InBook(s, n, book) ==
  /\ n \in Nat /\ s \in Seq(Placed) /\ Len(s) = n
  /\ \A i \in 1 .. n : s[i] \in book
  /\ \A o \in book : \E i \in 1 .. n : s[i] = o
  /\ \A i, j \in 1 .. n : s[i] = s[j] => i = j

\* They are each of them once.
LEMMA LiveOrdersOnce ==
  ASSUME NEW book \in SUBSET Placed, IsFiniteSet(book), \A o \in book : o.status = "live"
  PROVE  \E n \in Nat, s \in Seq(Placed) : s = LiveOrders(book) /\ InBook(s, n, book)
<1> PICK n, s : n = Cardinality(book) /\ s = LiveOrders(book)
  OBVIOUS
<1>1. InBook(s, n, book)
  BY LiveOrdersAre DEF InBook
<1>2. n \in Nat /\ s \in Seq(Placed)
  BY <1>1 DEF InBook
<1> QED BY <1>1, <1>2

\* What the fold over orders goes through.
GoesThrough(v, base, s, n) ==
  /\ v \in [0 .. n -> OpenBook] /\ v[0] = base
  /\ \A i \in 1 .. n : v[i] = TakeOrder(v[i - 1], s[i])
  /\ FoldLeft(TakeOrder, base, s) = v[n]

\* There is what it goes through.
LEMMA OrdersGo ==
  ASSUME NEW base \in OpenBook, NEW s \in Seq(Placed), NEW n \in Nat, n = Len(s)
  PROVE  \E v : GoesThrough(v, base, s, n)
<1>1. \E v \in [0 .. n -> OpenBook] :
           /\ v[0] = base
           /\ \A i \in 1 .. n : v[i] = TakeOrder(v[i - 1], s[i])
           /\ FoldLeft(TakeOrder, base, s) = v[n]
  BY OrdersFolded
<1> QED BY <1>1 DEF GoesThrough

\* The groups that are shown as open come to what the grids hold.
LEMMA GroupsAreUnits ==
  ASSUME ViewsAssumption, LinesAssumption, NEW f \in Seq(Filled), Rising(f), NEW book \in SUBSET Placed, NEW time,
         BookFits(book, time), \A o \in book : o.status = "live", LotsFit(Folded(f).lots, book, time)
  PROVE  QuantityOf(OpenGroups(Reverse(f), book)) = Cardinality(UnitsOf(book))
<1>1. PICK lots \in Seq(LotOf(Filled)) : lots = Folded(f).lots
  <2>0. [id |-> 0, order |-> 0, side |-> "buy", price |-> 0, quantity |-> 0, placed |-> 0, time |-> 0] \in Filled
    BY DEF Filled
  <2>1. PICK x \in Filled : TRUE
    BY <2>0
  <2>2. Folded(f) \in BookOf(Filled)
    BY FoldedAppend
  <2> QED BY <2>2 DEF BookOf
<1>2. FillsTaken(Reverse(f)) = Folded(f)
  <2>1. \A r \in Filled : r.time \in Int
    BY DEF Filled
  <2>2. Ascending(Reverse(f)) = f
    BY <2>1, AscendingOfReverse
  <2> QED BY <2>2 DEF FillsTaken, Folded
<1>3. \A o \in book : o.filled = 0
  BY DEF BookFits, OrderFits
<1>4. PICK n \in Nat, s \in Seq(Placed) : s = LiveOrders(book) /\ InBook(s, n, book)
  <2>1. IsFiniteSet(book)
    BY DEF BookFits
  <2> QED BY <2>1, LiveOrdersOnce
<1>9. /\ Len(s) = n
      /\ \A i \in 1 .. n : s[i] \in book
      /\ \A o \in book : \E i \in 1 .. n : s[i] = o
      /\ \A i, j \in 1 .. n : s[i] = s[j] => i = j
  BY <1>4 DEF InBook
<1>5. OpenGroups(Reverse(f), book) =
        IF s = << >> THEN [k \in DOMAIN lots |-> Group(lots[k].fill, NoOrder, lots[k].rest, "matched")]
        ELSE FoldLeft(TakeOrder, [lots |-> lots, open |-> << >>], s).open
  BY <1>1, <1>2, <1>4 DEF OpenGroups
<1>6. UnitsOf({}) = {} /\ Cardinality({}) = 0
  BY FS_EmptySet DEF UnitsOf
<1>7. CASE s = << >>
  <2>1. book = {}
    BY <1>9, <1>7
  <2>2. ToSet(lots) = {}
    BY <2>1, <1>1 DEF LotsFit
  <2>3. DOMAIN lots = {}
    <3>1. \A i \in 1 .. Len(lots) : lots[i] \in ToSet(lots)
      BY LotsAre
    <3> QED BY <3>1, <2>2
  <2>4. OpenGroups(Reverse(f), book) = [k \in {} |-> Group(lots[k].fill, NoOrder, lots[k].rest, "matched")]
    BY <2>3, <1>5, <1>7
  <2>5. OpenGroups(Reverse(f), book) = << >>
    BY <2>4
  <2> QED BY <2>1, <2>5, <1>6, QuantityOfNone
<1>8. CASE s # << >>
  <2> PICK base : base = [lots |-> lots, open |-> << >>]
    OBVIOUS
  <2>1. base \in OpenBook
    BY DEF OpenBook
  <2>7. PICK v : GoesThrough(v, base, s, n)
    BY <2>1, <1>9, OrdersGo
  <2>2. /\ v \in [0 .. n -> OpenBook] /\ v[0] = base
        /\ \A i \in 1 .. n : v[i] = TakeOrder(v[i - 1], s[i])
        /\ FoldLeft(TakeOrder, base, s) = v[n]
    BY <2>7 DEF GoesThrough
  <2> DEFINE P == {i \in Nat : i <= n => Showing(i, s, n, v, book, time)}
  <2>3. 0 \in P
    <3>1. LotsOf(lots, book, time) /\ \A j \in 1 .. n : HasLot(s[j], lots, time)
      BY <1>1, <1>9 DEF LotsFit, LotsOf, HasLot
    <3>2. {s[j] : j \in 1 .. 0} = {}
      OBVIOUS
    <3>3. v[0].lots = lots /\ v[0].open = << >>
      BY <2>2
    <3>4. Showing(0, s, n, v, book, time)
      BY <3>1, <3>2, <3>3, <1>6, QuantityOfNone DEF Showing
    <3> QED BY <3>4
  <2>4. ASSUME NEW i \in Nat, i \in P PROVE i + 1 \in P
    <3> PICK k \in Nat : k = i + 1
      OBVIOUS
    <3> SUFFICES ASSUME k <= n PROVE Showing(k, s, n, v, book, time)
      OBVIOUS
    <3>1. i \in 0 .. n /\ k \in 1 .. n /\ k - 1 = i
      BY <1>9
    <3>2. v[i] \in OpenBook /\ v[k] = TakeOrder(v[i], s[k])
      BY <3>1, <2>2
    <3>3. Showing(i, s, n, v, book, time)
      BY <3>1, <2>4
    <3> HIDE DEF P
    <3>4. EachOnce(s, n, book)
      BY <1>3, <1>9 DEF EachOnce
    <3> QED BY <3>2, <3>3, <3>4, ShowsMore
  <2>5. Showing(n, s, n, v, book, time)
    <3>1. n \in P
      <4> HIDE DEF P
      <4> QED BY <2>3, <2>4, <1>9, NatInduct
    <3> QED BY <3>1, <1>9
  <2>6. {s[j] : j \in 1 .. n} = book
    BY <1>9
  <2> QED BY <2>2, <2>5, <2>6, <1>5, <1>8 DEF Showing
<1> QED BY <1>7, <1>8

-----------------------------------------------------------------------------
(* LiveViews: the grids.                                                   *)

\* What the book, the lots and the position have to do with each other.
UnitsFit ==
  /\ BookFits(orders, clock) /\ PartsKnown(orders, fills) /\ PositionIsHeld
  /\ OpenedAtOnce(fills) => LotsFit(Folded(fills).lots, orders, clock)
GridInv == ViewsInv /\ UnitsFit /\ OpenGridsArePosition

\* Whether an order was filled in parts does not depend on the end the fills are read from.
LEMMA AtOnceReversed ==
  ASSUME NEW f \in Seq(Filled), OpenedAtOnce(Reverse(f))
  PROVE  OpenedAtOnce(f)
<1> PICK n \in Nat : n = Len(f)
  OBVIOUS
<1> PICK r : r = Reverse(f)
  OBVIOUS
<1>1. r \in Seq(Filled) /\ Len(r) = n /\ \A i \in 1 .. n : r[i] = f[n - i + 1]
  BY ReverseType
<1>2. \A i, j \in 1 .. n : r[i].side = OpeningSide /\ r[i].order = r[j].order => i = j
  BY <1>1 DEF OpenedAtOnce
<1>3. ASSUME NEW i \in 1 .. n, NEW j \in 1 .. n, f[i].side = OpeningSide, f[i].order = f[j].order PROVE i = j
  <2> PICK a \in 1 .. n, b \in 1 .. n : a = n - i + 1 /\ b = n - j + 1
    <3>1. n - i + 1 \in 1 .. n /\ n - j + 1 \in 1 .. n
      OBVIOUS
    <3> QED BY <3>1
  <2>1. n - a + 1 = i /\ n - b + 1 = j
    OBVIOUS
  <2>2. r[a] = f[i] /\ r[b] = f[j]
    BY <2>1, <1>1
  <2>3. a = b
    BY <2>2, <1>2, <1>3
  <2> QED BY <2>3
<1> QED BY <1>3 DEF OpenedAtOnce

\* Each fill keeps the book, the lots and the position together.
LEMMA FillFits ==
  ASSUME ViewsAssumption, LinesAssumption, GridInv, NEW o \in orders, NEW q \in 1 .. OrderSize, Fill(o, q)
  PROVE  UnitsFit'
<1>1. ViewsTypeOK /\ UnitsFit
  BY DEF GridInv, ViewsInv
<1>2. BookFits(orders', clock')
  BY <1>1, BookStays DEF UnitsFit
<1>3. PartsKnown(orders', fills')
  BY <1>1, PartsStay DEF UnitsFit
<1>4. PositionIsHeld'
  BY <1>1, PositionStays DEF UnitsFit
<1>5. ASSUME OpenedAtOnce(fills') PROVE LotsFit(Folded(fills').lots, orders', clock')
  <2>1. OpenedAtOnce(fills) /\ (o.side = OpeningSide => o.filled = 0)
    BY <1>1, <1>5, PartsStay DEF UnitsFit
  <2>2. LotsFit(Folded(fills).lots, orders, clock)
    BY <1>1, <2>1 DEF UnitsFit
  <2>3. CASE o.side = OpeningSide
    BY <2>1, <2>2, <2>3, <1>1, LotsAfterOpening DEF UnitsFit
  <2>4. CASE o.side # OpeningSide
    <3>1. o.side = ClosingSide
      BY <2>4, <1>1, SidesDiffer DEF ViewsTypeOK
    <3> QED BY <3>1, <2>2, <1>1, LotsAfterClosing DEF UnitsFit
  <2> QED BY <2>3, <2>4
<1> QED BY <1>2, <1>3, <1>4, <1>5 DEF UnitsFit, BookFits, PartsKnown, LotsFit

\* What a report shows.
GridsShown(s) ==
  (s.complete /\ (\A o \in s.orders : o.status = "live") /\ OpenedAtOnce(s.fills))
    => QuantityOf(OpenGroups(s.fills, s.orders)) = s.position

\* An answer shows the grids of the book.
LEMMA AnswerShows ==
  ASSUME ViewsAssumption, LinesAssumption, GridInv, NEW s \in Situations, NEW next, next = Reported(s)
  PROVE  GridsShown(next)
<1>t. ViewsTypeOK /\ UnitsFit /\ fills \in Seq(Filled) /\ orders \in SUBSET Placed /\ Rising(fills)
  BY DEF GridInv, ViewsInv, ViewsTypeOK, InOrder
<1>1. \/ /\ snapshot \in Report
         /\ next.fills = snapshot.fills /\ next.complete = snapshot.complete
         /\ next.orders = snapshot.orders /\ next.position = snapshot.position
      \/ next.position = Net /\ (next.complete => next.fills = Reverse(fills) /\ next.orders = orders)
  BY <1>t, ReportedIs
<1>2. CASE /\ snapshot \in Report
           /\ next.fills = snapshot.fills /\ next.complete = snapshot.complete
           /\ next.orders = snapshot.orders /\ next.position = snapshot.position
  <2>1. snapshot # NoReport
    BY <1>2 DEF ViewsAssumption
  <2> QED BY <2>1, <1>2 DEF GridInv, OpenGridsArePosition, GridsShown
<1>3. CASE next.position = Net /\ (next.complete => next.fills = Reverse(fills) /\ next.orders = orders)
  <2> SUFFICES ASSUME next.complete, \A o \in next.orders : o.status = "live", OpenedAtOnce(next.fills)
               PROVE  QuantityOf(OpenGroups(next.fills, next.orders)) = next.position
    BY DEF GridsShown
  <2>1. next.fills = Reverse(fills) /\ next.orders = orders
    BY <1>3
  <2>2. OpenedAtOnce(fills)
    BY <2>1, <1>t, AtOnceReversed
  <2>3. LotsFit(Folded(fills).lots, orders, clock) /\ BookFits(orders, clock)
    BY <2>2, <1>t DEF UnitsFit
  <2>4. QuantityOf(OpenGroups(Reverse(fills), orders)) = Cardinality(UnitsOf(orders))
    BY <2>1, <2>3, <1>t, GroupsAreUnits
  <2> QED BY <2>1, <2>4, <1>3, <1>t DEF UnitsFit, PositionIsHeld
<1> QED BY <1>1, <1>2, <1>3

\* The grids of the last snapshot.
LEMMA ShownAre == (snapshot # NoReport => GridsShown(snapshot)) <=> OpenGridsArePosition
BY DEF GridsShown, OpenGridsArePosition

\* Every step keeps the grids.
LEMMA GridsNextKeep == ASSUME ViewsAssumption, LinesAssumption, GridInv, [ViewsNext]_viewsVars PROVE GridInv'
<1>0. ViewsInv /\ ViewsInv'
  BY ViewsNextKeeps DEF GridInv
<1>1. CASE \E o \in orders, q \in 1 .. OrderSize : Fill(o, q)
  <2>1. UnitsFit' /\ snapshot' = snapshot
    BY <1>1, FillFits DEF Fill
  <2>2. OpenGridsArePosition'
    BY <2>1 DEF GridInv, OpenGridsArePosition
  <2> QED BY <2>1, <2>2, <1>0 DEF GridInv
<1>2. ASSUME clock' = clock, fills' = fills, orders' = orders
      PROVE  UnitsFit'
  <2>1. Net' = Net
    <3>1. Net' = NetOf(fills)' /\ Net = NetOf(fills)
      BY DEF Net, NetOf, TotalOf, Signed, Grids
    <3>2. NetOf(fills)' = NetOf(fills)
      BY <1>2 DEF NetOf
    <3> QED BY <3>1, <3>2
  <2>2. PositionIsHeld'
    <3>1. Cardinality(UnitsOf(orders))' = Cardinality(UnitsOf(orders))
      BY <1>2 DEF UnitsOf, Held
    <3> QED BY <2>1, <3>1 DEF PositionIsHeld, GridInv, UnitsFit
  <2>3. /\ BookFits(orders, clock)' /\ PartsKnown(orders, fills)'
        /\ (OpenedAtOnce(fills) => LotsFit(Folded(fills).lots, orders, clock))'
    BY <1>2 DEF GridInv, UnitsFit, BookFits, PartsKnown, LotsFit
  <2> QED BY <2>2, <2>3 DEF UnitsFit
<1>3. CASE \E s \in Situations : Synced(s)
  <2> PICK s \in Situations : Synced(s)
    BY <1>3
  <2> PICK next : next = Reported(s)
    OBVIOUS
  <2>1. snapshot' = next /\ clock' = clock /\ fills' = fills /\ orders' = orders
    BY DEF Synced
  <2>2. GridsShown(next)
    BY AnswerShows
  <2>3. OpenGridsArePosition'
    BY <2>1, <2>2 DEF OpenGridsArePosition, GridsShown
  <2> QED BY <2>1, <2>3, <1>0, <1>2 DEF GridInv
<1>4. CASE Failed \/ UNCHANGED viewsVars
  <2>1. clock' = clock /\ fills' = fills /\ orders' = orders /\ snapshot' = snapshot
    BY <1>4 DEF Failed, viewsVars
  <2>2. OpenGridsArePosition'
    BY <2>1 DEF GridInv, OpenGridsArePosition
  <2> QED BY <2>1, <2>2, <1>0, <1>2 DEF GridInv
<1> QED BY <1>1, <1>3, <1>4 DEF ViewsNext

\* What the panel shows of the last snapshot is so, whatever the exchange does and in whatever order
\* complete, capped, stale and failed answers come.  A card says what the report says, for the cards of
\* a report replace those of the one before (buildSyncedAttentionNotifications, performRefresh); and the
\* grids shown as open come to the position (buildGridLedgerGroups), for what a grid of the robot holds
\* is in one lot, at its line, and the order of the grid finds no other.
THEOREM ShownStaysTrue == ViewsSpec => []ShownIsTrue
<1>1. ViewsInit => GridInv
  <2> SUFFICES ASSUME ViewsInit PROVE GridInv
    OBVIOUS
  <2>1. UnitsFit
    BY ViewsAssumption, StartFits DEF UnitsFit
  <2>2. OpenGridsArePosition
    BY DEF OpenGridsArePosition, ViewsInit
  <2> QED BY <2>1, <2>2, ViewsAssumption, ViewsInitHolds DEF GridInv
<1>2. GridInv /\ [ViewsNext]_viewsVars => GridInv'
  BY ViewsAssumption, LinesAssumption, GridsNextKeep
<1>3. GridInv => ShownIsTrue
  BY DEF GridInv, ViewsInv, ShownIsTrue
<1> QED BY <1>1, <1>2, <1>3, PTL DEF ViewsSpec

=============================================================================
