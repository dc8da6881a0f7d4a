------------------------------- MODULE LiveTrend --------------------------------
(***************************************************************************)
(* The profit of a robot over time: the trend that useLiveTradingSync      *)
(* keeps of every robot, in memory and in the local storage, thinned out   *)
(* when it grows, and the curve that lib/livePnlCurve.ts shows, from what  *)
(* the server replays, from the trend, or from the last snapshot alone.    *)
(* A robot can be switched while a snapshot is under way: the answer runs  *)
(* the updateTrend of the robot it was asked for on the trend that is      *)
(* shown by then.  One browser tab; values are percents of the investment. *)
(***************************************************************************)
EXTENDS Integers, Sequences, SequencesExt, FiniteSetsExt

CONSTANTS
  TrendRobots, NoRobot,
  MaxTrend,     \* MAX_TREND_POINTS; at least 4, for less is never reached by thinning out
  Covered,      \* how late a trend may start: 4 poll intervals, or 30 minutes
  Profits,      \* the profit a snapshot reports, by the time it is taken: its length bounds time, for TLC
  MaxSwitches,  \* bound on the robots selected, for TLC
  Replays       \* what else it can report: [replay |-> profits before it, explained |-> BOOLEAN]

ASSUME TrendAssumption ==
  /\ MaxTrend \in Nat /\ MaxTrend >= 4
  /\ Profits \in Seq(Int) /\ NoRobot \notin TrendRobots
  /\ Replays \subseteq [replay : Seq(Int), explained : BOOLEAN]

VARIABLES
  now,
  served,    \* the last snapshot the server has of each robot, or NoSnap
  robot,     \* the robot selected
  asked,     \* the robot of the request under way, or NoRobot
  shown,     \* the snapshot, or NoSnap
  trend,     \* the trend of the selected robot
  history,   \* trendHistoryMapRef
  saved,     \* the trends in the local storage
  first,     \* history: when the first snapshot of each robot was taken, or 0
  mixed,     \* history: the robots whose trend an answer for another robot was added to
  switches   \* number of robots selected, for TLC

trendVars == <<now, served, robot, asked, shown, trend, history, saved, first, mixed, switches>>

\* A point of a trend, with the robot it is of (which the page does not keep).
Point(of, at, value) == [of |-> of, at |-> at, value |-> value]
NoSnap == [point |-> Point(NoRobot, 0, 0), replay |-> << >>, explained |-> FALSE]

-----------------------------------------------------------------------------
(* The trend.                                                              *)

\* Mutated form: the oldest point goes.
Thinned_Oldest(points) == Tail(points)

\* One round of compactTrendPoints: of the older six tenths every other point, the first and the last.
Thinned(points) ==
  LET split == Max({2, (Len(points) * 6) \div 10})
      kept == {i \in 1 .. split : i = split \/ i % 2 = 1}
  IN [n \in 1 .. Cardinality(kept) |->
        points[CHOOSE i \in kept : Cardinality({j \in kept : j < i}) = n - 1]]
       \o SubSeq(points, split + 1, Len(points))

\* compactTrendPoints, of a trend that has one point too many.
Compacted(points) == IF Len(points) > MaxTrend THEN Thinned(points) ELSE points

\* appendTrendPoint
Appended(points, point) ==
  IF points # << >> /\ Last(points).at = point.at
  THEN [points EXCEPT ![Len(points)] = point]
  ELSE Compacted(Append(points, point))

-----------------------------------------------------------------------------
(* The curve.                                                              *)

\* The points before one are the earlier ones, and of one instant those given before it.
InTime(points) ==
  LET Before(i) == {j \in DOMAIN points : \/ points[j].at < points[i].at
                                         \/ (points[j].at = points[i].at /\ j < i)}
  IN [n \in DOMAIN points |-> points[CHOOSE i \in DOMAIN points : Cardinality(Before(i)) = n - 1]]

\* Mutated form: also when there is a point of that instant.
WithLatest_Always(points, point) == InTime(Append(points, point))

\* appendLatestPoint
WithLatest(points, point) ==
  CASE points = << >> -> <<point>>
    [] points # << >> /\ Last(points).at = point.at -> [points EXCEPT ![Len(points)] = point]
    [] points # << >> /\ Last(points).value = point.value /\ point.at < Last(points).at -> points
    [] OTHER -> InTime(Append(points, point))

Size(value) == IF value >= 0 THEN value ELSE -value

\* isCurvePlausible, of a robot whose investment is known.
IsPlausible(points, current) ==
  Max({Size(points[i].value) : i \in DOMAIN points}) <= Max({500, Size(current) * 8 + 100})

\* What the server has replayed of the fills, up to the snapshot.
Replayed(snap) ==
  [i \in DOMAIN snap.replay |->
     Point(snap.point.of, snap.point.at - Len(snap.replay) + i - 1, snap.replay[i])]

\* buildLivePnlCurve
Curve(snap, points) ==
  LET replay == WithLatest(InTime(Replayed(snap)), snap.point)
      ofTrend == WithLatest(InTime(points), snap.point)
      total == snap.point.value
      Usable == /\ snap.replay # << >>
                /\ (Len(snap.replay) >= 2 /\ snap.explained) \/ IsPlausible(replay, total)
  IN IF Usable THEN [source |-> "replay", points |-> replay]
     ELSE IF points # << >> /\ IsPlausible(ofTrend, total) /\ ofTrend[1].at <= Covered
     THEN [source |-> "trend", points |-> ofTrend]
     ELSE [source |-> "snapshot", points |-> <<snap.point>>]

\* pnlCurveDrawdownChartData, before it is divided by the peak: how far the equity is below its peak.
Equity(point) == 100 + point.value
Peaks(points) ==
  LET peaks[i \in 0 .. Len(points)] == IF i = 0 THEN 100 ELSE Max({peaks[i - 1], Equity(points[i])})
  IN peaks
Drawdown(points) == [i \in DOMAIN points |-> Equity(points[i]) - Peaks(points)[i]]

-----------------------------------------------------------------------------
(* The page.                                                               *)

\* performRefresh sends a request, if none is under way.
Ask ==
  /\ robot # NoRobot /\ asked = NoRobot
  /\ asked' = robot
  /\ UNCHANGED <<now, served, robot, shown, trend, history, saved, first, mixed, switches>>

\* The rest of performRefresh after an answer: updateTrend is that of the render that asked.
Added(snap) ==
  /\ asked' = NoRobot
  /\ shown' = snap
  /\ trend' = Appended(trend, snap.point)
  /\ history' = [history EXCEPT ![asked] = trend']
  /\ saved' = history'
  /\ mixed' = IF asked = robot THEN mixed ELSE mixed \cup {asked, robot}
  /\ first' = [first EXCEPT ![asked] = IF @ = 0 THEN snap.point.at ELSE @]
  /\ UNCHANGED <<robot, switches>>

Fresh(replay) ==
  /\ asked # NoRobot /\ now < Len(Profits)
  /\ now' = now + 1
  /\ LET snap == [point |-> Point(asked, now + 1, Profits[now + 1]), replay |-> replay.replay,
                  explained |-> replay.explained] IN
     /\ Added(snap)
     /\ served' = [served EXCEPT ![asked] = snap]

\* The exchange did not answer: the server sends the last snapshot once more.
Stale ==
  /\ asked # NoRobot /\ served[asked] # NoSnap
  /\ Added(served[asked])
  /\ UNCHANGED <<now, served>>

Fails ==
  /\ asked # NoRobot
  /\ asked' = NoRobot
  /\ UNCHANGED <<now, served, robot, shown, trend, history, saved, first, mixed, switches>>

\* Mutated form: the trend of the robot before is added to.
Loaded_Kept(r) == /\ history' = saved /\ trend' = trend

\* The effect of a new trendKey.
Loaded(r) == /\ history' = saved /\ trend' = saved[r]

\* Another robot is selected; the request under way goes on.
Select(r) ==
  /\ r # robot /\ switches < MaxSwitches
  /\ switches' = switches + 1
  /\ robot' = r
  /\ shown' = NoSnap
  /\ Loaded(r)
  /\ UNCHANGED <<now, served, asked, saved, first, mixed>>

\* The page is loaded again: the request under way is lost.
ReloadPage ==
  /\ robot # NoRobot
  /\ shown' = NoSnap /\ asked' = NoRobot
  /\ Loaded(robot)
  /\ UNCHANGED <<now, served, robot, saved, first, mixed, switches>>

TrendInit ==
  /\ now = 0
  /\ robot = NoRobot /\ asked = NoRobot /\ shown = NoSnap
  /\ trend = << >>
  /\ saved = [r \in TrendRobots |-> << >>] /\ history = saved
  /\ served = [r \in TrendRobots |-> NoSnap]
  /\ first = [r \in TrendRobots |-> 0]
  /\ mixed = {} /\ switches = 0

TrendNext ==
  \/ Ask
  \/ \E replay \in Replays : Fresh(replay)
  \/ Stale
  \/ Fails
  \/ \E r \in TrendRobots : Select(r)
  \/ ReloadPage

TrendSpec == TrendInit /\ [][TrendNext]_trendVars

-----------------------------------------------------------------------------
(* Properties.                                                             *)

IsAscending(points) == \A i \in 1 .. Len(points) - 1 : points[i].at < points[i + 1].at

\* The storage keeps a bounded trend of every robot, and unless an answer for another robot was added
\* to it: with its own points only, in the order of time, and however often it was thinned out and the
\* page reloaded or switched, from its first snapshot to its last.
TrendsAreKept ==
  \A r \in TrendRobots :
    /\ Len(saved[r]) <= MaxTrend
    /\ r \notin mixed =>
         /\ \A i \in DOMAIN saved[r] : saved[r][i].of = r
         /\ IsAscending(saved[r])
         /\ first[r] # 0 =>
              saved[r] # << >> /\ saved[r][1].at = first[r] /\ Last(saved[r]) = served[r].point

\* The curve on the page ends with the profit of the snapshot, at its time and once, goes forward in
\* time, and is taken from the trend only if that reaches back to the start of the robot; a drawdown
\* is the fall from the highest equity so far.  (Of a robot that no other was mixed with.)
CurveIsSound ==
  shown # NoSnap /\ robot \notin mixed =>
    LET curve == Curve(shown, trend)
        below == Drawdown(curve.points)
    IN /\ IsAscending(curve.points) /\ Last(curve.points) = shown.point
       /\ curve.source = "trend" => first[robot] <= Covered
       /\ \A i \in DOMAIN below :
            below[i] = Min({0} \cup {curve.points[i].value - v :
                                        v \in {0} \cup {curve.points[j].value : j \in 1 .. i}})

TrendIsSound == TrendsAreKept /\ CurveIsSound
=============================================================================
