------------------------------ MODULE GridPrecheck ------------------------------
(***************************************************************************)
(* What the page works out about a strategy while it is edited: the legs   *)
(* of its worst case, the price it would be liquidated at, its loss at the *)
(* stop, the errors that block a start, the size of a search and the marks *)
(* on the price chart (frontend/src/lib/backtestAppHelpers.ts and          *)
(* gridLogic.ts).  The service has its own copies (risk_limit.py,          *)
(* grid_logic.py, sampling.py), and the engine has the orders themselves:  *)
(* this module relates the three.  There are no states of its own.         *)
(***************************************************************************)
EXTENDS GridEngine, Sequences

CONSTANTS
  Limits,        \* what max_allowed_loss_usdt can be; 0 is for none
  Sweeps         \* the ranges of one parameter of a search

ASSUME LimitsAssumption == Limits \subseteq Nat

\* SweepRange; values is a sequence, and start is 0 when the range is left open.
ASSUME SweepsAssumption ==
  \A s \in Sweeps : /\ s.enabled \in BOOLEAN
                    /\ {s.start, s.end, s.step} \subseteq Nat
                    /\ s.values \in Seq(Nat)

\* No price, where there can be one: prices are positive.
NoPrice == 0

-----------------------------------------------------------------------------
(* The legs, as the page has them.                                         *)

\* Math.round of a / b: halves go up.
MathRound(a, b) == (2 * a + b) \div (2 * b)

ToTick(parts) == strategy.tick * MathRound(parts, Unit * strategy.tick)

\* How many lines are below a price, and how many are not above it, by bisection of the lines.
Bisected(price, orAt) ==
  LET Before(line) == line < price \/ (orAt /\ line = price)
      Split[window \in (0 .. strategy.grids + 1) \X (0 .. strategy.grids + 1)] ==
        LET left == window[1]
            right == window[2]
            mid == (left + right) \div 2
        IN IF left >= right THEN left
           ELSE IF Before(Line(mid)) THEN Split[<<mid + 1, right>>] ELSE Split[<<left, mid>>]
  IN Split[<<0, strategy.grids + 1>>]

\* Mutated form: a line at the price counts as below it for a long grid.
PageBaseGrids_PastLine(price) ==
  IF ~strategy.base THEN {}
  ELSE IF IsLong THEN Bisected(price, TRUE) .. strategy.grids - 1
       ELSE 0 .. Min({Bisected(price, TRUE) - 1, strategy.grids}) - 1

\* deriveBasePositionGridIndices
PageBaseGrids(price) ==
  IF ~strategy.base THEN {}
  ELSE IF IsLong THEN Bisected(price, FALSE) .. strategy.grids - 1
       ELSE 0 .. Min({Bisected(price, TRUE) - 1, strategy.grids}) - 1

\* Without an anchor, the middle of the range stands for the price.
AssumedInitial(anchor) ==
  IF anchor = NoPrice THEN (Line(0) + Line(strategy.grids)) \div 2 ELSE anchor

\* buildWorstCaseLegs
PageLegs(anchor) ==
  LET price == AssumedInitial(anchor)
      base == PageBaseGrids(price)
      orders == {g \in Grids \ base :
                   IF IsLong THEN EntryLevel(g) < price ELSE EntryLevel(g) > price}
      Entry(g) == ToTick((IF g \in base THEN price ELSE EntryLevel(g)) *
                         (IF IsLong THEN Unit + strategy.slippage ELSE Unit - strategy.slippage))
      rate == [g \in Grids |-> IF g \in base THEN strategy.taker ELSE strategy.maker]
  IN [g \in {h \in base \cup orders : Accepted(Entry(h))} |->
       [entry |-> Entry(g), quantity |-> Quantity(Entry(g)),
        fee |-> Entry(g) * Quantity(Entry(g)) * rate[g]]]

\* A price as a quotient.
Quotient(parts, per) == [parts |-> parts, per |-> per]
NoQuotient == Quotient(0, 1)

\* Mutated form: the maintenance margin is forgotten.
LiquidationOf_Unmaintained(legs) ==
  LET quantity == SumFunction([g \in DOMAIN legs |-> legs[g].quantity])
      notional == SumFunction([g \in DOMAIN legs |-> legs[g].entry * legs[g].quantity])
      fees == SumFunction([g \in DOMAIN legs |-> legs[g].fee])
      buffer == Max({0, Unit * strategy.margin - fees})
      parts == IF IsLong THEN Unit * notional - buffer ELSE Unit * notional + buffer
  IN IF DOMAIN legs = {} \/ parts <= 0 THEN Quotient(0, 1)
     ELSE Quotient(parts, Unit * quantity)

\* estimateInitialAverageEntryAndLiquidationPrice, for given legs: the price at which the margin
\* that the fees leave, less the maintenance margin at the entries, is lost.
LiquidationOf(legs) ==
  LET quantity == SumFunction([g \in DOMAIN legs |-> legs[g].quantity])
      notional == SumFunction([g \in DOMAIN legs |-> legs[g].entry * legs[g].quantity])
      fees == SumFunction([g \in DOMAIN legs |-> legs[g].fee])
      margin == Max({0, Unit * strategy.margin - fees})
      buffer == Max({0, margin - strategy.mmr * notional})
      parts == IF IsLong THEN Unit * notional - buffer ELSE Unit * notional + buffer
  IN IF DOMAIN legs = {} \/ parts <= 0 THEN NoQuotient
     ELSE Quotient(parts, Unit * quantity)

\* estimateMaxPossibleLossAtStop
PageLoss(anchor) ==
  LET legs == PageLegs(anchor)
      price == ToTick(strategy.stop * (IF IsLong THEN Unit - strategy.slippage
                                                 ELSE Unit + strategy.slippage))
      exit == IF price > 0 THEN price ELSE strategy.stop
      net == [g \in DOMAIN legs |->
                GrossOf(legs[g], exit) - legs[g].fee - exit * legs[g].quantity * strategy.taker]
  IN Max({0, -SumFunction(net)})

-----------------------------------------------------------------------------
(* The errors that block a start.                                          *)

\* The stop lies between the range and the liquidation price.
StopIsBetween(liquidation) ==
  IF IsLong
  THEN liquidation.parts < strategy.stop * liquidation.per /\ strategy.stop < Line(0)
  ELSE Line(strategy.grids) < strategy.stop /\ strategy.stop * liquidation.per < liquidation.parts

\* Mutated form: the guard on the loss depends on strict risk control even when it is forced.
PrecheckErrors_NotForced(anchor, liquidation, strict, limit, forced) ==
  (IF strict /\ liquidation # NoQuotient /\ ~StopIsBetween(liquidation) THEN {"liquidation"} ELSE {})
    \cup (IF (forced \/ strict) /\ limit = 0 THEN {"no limit"} ELSE {})
    \cup (IF strict /\ limit # 0 /\ PageLoss(anchor) > limit THEN {"loss"} ELSE {})

\* buildBacktestPrecheck, for a request that is well formed; forced: requireMaxLossInput and
\* forceMaxLossGuard, which are set together.
PrecheckErrors(anchor, liquidation, strict, limit, forced) ==
  (IF strict /\ liquidation # NoQuotient /\ ~StopIsBetween(liquidation) THEN {"liquidation"} ELSE {})
    \cup (IF (forced \/ strict) /\ limit = 0 THEN {"no limit"} ELSE {})
    \cup (IF (forced \/ strict) /\ limit # 0 /\ PageLoss(anchor) > limit THEN {"loss"} ELSE {})

\* useRiskAnchorAndPrechecks: without an anchor price there is no liquidation price.
BacktestErrors(anchor, strict, limit, forced) ==
  PrecheckErrors(anchor,
                 IF anchor = NoPrice THEN NoQuotient ELSE LiquidationOf(PageLegs(anchor)),
                 strict, limit, forced)

\* estimateSweepCount
SweepCount(sweep) ==
  IF ~sweep.enabled THEN 1
  ELSE IF DOMAIN sweep.values # {} THEN Cardinality(DOMAIN sweep.values)
  ELSE IF sweep.start = 0 \/ sweep.step = 0 \/ sweep.end < sweep.start THEN 0
  ELSE (sweep.end - sweep.start) \div sweep.step + 1

SpaceSize(leverage, grids) == SweepCount(leverage) * SweepCount(grids)

\* buildOptimizationPrecheck, for a search over two of the parameters; mode, most and sampled are
\* optimization_mode, max_combinations and auto_limit_combinations.
OptimizationErrors(anchor, strict, limit, forced, leverage, grids, mode, most, sampled) ==
  PrecheckErrors(anchor, NoQuotient, strict, limit, forced)
    \cup (IF SpaceSize(leverage, grids) = 0 THEN {"no space"} ELSE {})
    \cup (IF mode = "grid" /\ SpaceSize(leverage, grids) > most /\ ~sampled THEN {"too many"} ELSE {})

-----------------------------------------------------------------------------
(* The marks on the price chart.                                           *)

\* deriveInitialPendingGridMarkers; count is the base_grid_count of the result.
InitialMarkers(price, count) ==
  LET derived == PageBaseGrids(price)
      base == {g \in derived : Cardinality({h \in derived : h < g}) < count}
  IN IF ~strategy.base THEN [base |-> {}, pending |-> {}]
     ELSE [base |-> base, pending |-> Grids \ base]

-----------------------------------------------------------------------------
(* What the service does with the same strategy.                           *)

\* violates_stop_loss_liquidation_guard
ViolatesStopGuard(price) ==
  LET liquidation == LiquidationOf(WorstCaseLegs(price)) IN
  liquidation # NoQuotient /\ ~StopIsBetween(liquidation)

\* violates_max_loss_limit
ViolatesLossLimit(price, limit) == limit # 0 /\ MaxPossibleLoss(price) > limit

\* _validate_backtest_risk_constraints
Refused(price, strict, limit) ==
  strict /\ (ViolatesStopGuard(price) \/ ViolatesLossLimit(price, limit))

\* The values of a range that the search goes through (expand_sweep), after SweepRange has been
\* validated.
ValidSweep(sweep) ==
  sweep.enabled /\ DOMAIN sweep.values = {}
    => sweep.start > 0 /\ sweep.step > 0 /\ sweep.end >= sweep.start

ExpandedSweep(sweep) ==
  IF DOMAIN sweep.values # {} THEN Range(sweep.values)
  ELSE {v \in sweep.start .. sweep.end : (v - sweep.start) % sweep.step = 0}

-----------------------------------------------------------------------------
(* Properties.                                                             *)

AtStart == index = 1 /\ phase = "funding"

\* A price of the estimate lies in the middle between two ticks, where Python rounds to the even
\* one and JavaScript up (round, Math.round).
HalfTick(parts) == (2 * parts) % (2 * Unit * strategy.tick) = Unit * strategy.tick
RoundsAlike(price) ==
  LET factors == {Unit + strategy.slippage, Unit - strategy.slippage}
      levels == {price, strategy.stop} \cup {Line(i) : i \in 0 .. strategy.grids}
  IN \A f \in factors : \A l \in levels : ~HalfTick(l * f)

\* A start that the page lets through for the price that the run starts at, the service does not
\* refuse, and one that the page blocks for a loss or the liquidation price it would refuse: with
\* strict risk control, a limit, and no price at half a tick.
GuardsAgree ==
  AtStart /\ RoundsAlike(history.first) =>
    \A limit \in Limits \ {0} : \A forced \in BOOLEAN :
      Refused(history.first, TRUE, limit) <=> BacktestErrors(history.first, TRUE, limit, forced) # {}

\* A limit that is forced on the user holds without strict risk control, for backtests and for
\* searches alike, whatever else the page has to say.
LimitIsKept ==
  AtStart => \A limit \in Limits : \A strict \in BOOLEAN : \A sweep \in Sweeps :
    limit = 0 \/ PageLoss(history.first) > limit =>
      /\ BacktestErrors(history.first, strict, limit, TRUE) # {}
      /\ OptimizationErrors(history.first, strict, limit, TRUE, sweep, sweep, "grid", 1, TRUE) # {}

\* The page counts a search of at least as many combinations as the service makes, blocks one that
\* the service's schema refuses, and nothing else for its space.
SpacesAgree ==
  AtStart => \A s, t \in Sweeps :
    LET Made(sweep) == IF sweep.enabled THEN Cardinality(ExpandedSweep(sweep)) ELSE 1 IN
    /\ SpaceSize(s, t) = 0 <=> ~(ValidSweep(s) /\ ValidSweep(t))
    /\ ValidSweep(s) /\ ValidSweep(t) => SpaceSize(s, t) >= Made(s) * Made(t)

\* A long grid that passes the guard on its stop is closed by its stop and not liquidated: while
\* closes only went against it, nothing was closed before, and funding cost it nothing.  The stop is
\* a price that can be traded: an entry that is rounded past it is beyond the estimate.
StopComesFirst ==
  /\ IsLong /\ history.adverse /\ state.funding >= 0 /\ state.reasons = {"liquidation"}
  /\ strategy.base \/ (\A i \in 0 .. strategy.grids : Line(i) # history.first)
  /\ strategy.stop % strategy.tick = 0
  => ViolatesStopGuard(history.first)

\* With a base position, the marks on the chart are where the run began: the marked positions are
\* the ones it opened, and each of its first orders has a mark.
MarkersAreRight ==
  AtStart /\ strategy.base =>
    LET markers == InitialMarkers(history.first, Cardinality(DOMAIN positions)) IN
    markers.base = DOMAIN positions /\ pending \subseteq markers.pending

\* What the page says of a strategy is what becomes of it.
PrecheckIsSound ==
  GuardsAgree /\ LimitIsKept /\ SpacesAgree /\ StopComesFirst /\ MarkersAreRight
=============================================================================
