------------------------------- MODULE GridEngine -------------------------------
(***************************************************************************)
(* One run of a strategy over a list of candles: run_backtest of           *)
(* backend/app/services/backtest_engine.py, with the estimate of the worst *)
(* case that it reports (risk_limit.py, grid_logic.py).  The code is       *)
(* sequential; an action is one of the things it does to a candle, in its  *)
(* order.  Prices, quantities and money are integers, so that the sums are *)
(* exact: prices in units that divide the tick size, rates in parts of     *)
(* Unit, and money in parts of a Unit-th.  Curves, events, times and the   *)
(* statistics that nothing else depends on are left out.                   *)
(***************************************************************************)
EXTENDS Integers, FiniteSets, FiniteSetsExt, Functions

CONSTANTS
  Strategies,    \* the strategies to run
  Candles,       \* the candles a run can meet
  Rates,         \* what the points of a funding schedule within one candle can add up to
  Unit,          \* rates are in parts of this
  MaxCandles     \* bound on the candles of a run, for TLC

Amount == Nat \ {0}

\* The fields of the schema, some under shorter names: the upper end is lower + grids * step, rate is
\* what funding_rate_per_8h comes to for a candle, mark is use_mark_price_for_liquidation, and least
\* is min_notional.  A strategy without step sizes has steps of 1.
StrategyConfig ==
  [side : {"long", "short"}, lower : Amount, step : Amount, grids : Nat \ 0 .. 1,
   margin : Amount, leverage : Amount, stop : Amount, base : BOOLEAN, reopen : BOOLEAN,
   maker : Nat, taker : Nat, slippage : Nat, mmr : Amount, rate : Int, mark : BOOLEAN,
   tick : Amount, qstep : Amount, least : Nat]

ASSUME UnitAssumption == Unit \in Amount /\ Rates \subseteq Int /\ MaxCandles \in Nat \ 0 .. 1
ASSUME StrategiesAssumption ==
  \A s \in Strategies :
    /\ s \in StrategyConfig
    /\ s.slippage < Unit
    /\ s.mmr <= Unit
    /\ IF s.side = "long" THEN s.stop < s.lower ELSE s.stop > s.lower + s.grids * s.step
ASSUME CandlesAssumption ==
  \A c \in Candles :
    /\ c \in [open : Amount, close : Amount, low : Amount, high : Amount]
    /\ \A price \in {c.open, c.close} : c.low <= price /\ price <= c.high

VARIABLES
  strategy,      \* the strategy of the run
  scheduled,     \* whether the run has a schedule of funding rates
  candle,        \* the candle in hand
  index,         \* its number, from 1
  phase,         \* what is done to it next; "done" when the run has ended
  positions,     \* the open positions, by the grid they belong to
  pending,       \* the grids with an order in the book
  state,         \* EngineState: what has been realized
  active,        \* FALSE when the run is over before its candles are
  history        \* history: the first close, and whether no close was better since

vars == <<strategy, scheduled, candle, index, phase, positions, pending, state, active, history>>

-----------------------------------------------------------------------------
(* Prices and quantities.                                                  *)

Grids == 0 .. strategy.grids - 1
IsLong == strategy.side = "long"

\* grid_lines
Line(i) == strategy.lower + i * strategy.step

\* Where the order of a grid is, and where its position takes its profit.
EntryLevel(g) == IF IsLong THEN Line(g) ELSE Line(g + 1)
ExitLevel(g) == IF IsLong THEN Line(g + 1) ELSE Line(g)

\* round(): the nearest integer to a / b, and of two the even one.
RoundedQuotient(a, b) ==
  LET q == a \div b
      twice == 2 * (a % b)
  IN IF twice > b \/ (twice = b /\ q % 2 = 1) THEN q + 1 ELSE q

RoundToStep(parts) == strategy.tick * RoundedQuotient(parts, Unit * strategy.tick)

EntryPrice(level) ==
  RoundToStep(level * (IF IsLong THEN Unit + strategy.slippage ELSE Unit - strategy.slippage))

\* A price that is rounded to 0 is replaced by the level.
ExitPrice(level) ==
  LET price == RoundToStep(level * (IF IsLong THEN Unit - strategy.slippage
                                              ELSE Unit + strategy.slippage))
  IN IF price > 0 THEN price ELSE level

\* order_notional is Stake / grids, and required_margin_per_order is margin / grids.
Stake == strategy.margin * strategy.leverage

Quantity(price) == (Stake \div (strategy.grids * price * strategy.qstep)) * strategy.qstep

Accepted(price) ==
  /\ Stake >= strategy.grids * strategy.least
  /\ price > 0
  /\ Quantity(price) > 0
  /\ price * Quantity(price) >= strategy.least

Position(level, rate) ==
  LET price == EntryPrice(level) IN
  [entry |-> price, quantity |-> Quantity(price), fee |-> price * Quantity(price) * rate]

\* derive_base_position_grid_indices
BaseGrids(price) ==
  IF ~strategy.base THEN {}
  ELSE {g \in Grids : IF IsLong THEN Line(g) >= price ELSE Line(g + 1) <= price}

-----------------------------------------------------------------------------
(* Values.                                                                 *)

GrossOf(position, exit) ==
  Unit * position.quantity * (IF IsLong THEN exit - position.entry ELSE position.entry - exit)

UnrealizedPnl(price) ==
  SumFunction([g \in DOMAIN positions |-> GrossOf(positions[g], price)])

\* _total_market_value, in units of price times quantity
UsedNotional(price) ==
  SumFunction([g \in DOMAIN positions |-> price * positions[g].quantity])

\* Funding is in realized and in funding, and what is in funding cancels out.
Equity(price) == Unit * strategy.margin + state.realized - state.fees + UnrealizedPnl(price)

EntryFees == SumFunction([g \in DOMAIN positions |-> positions[g].fee])

-----------------------------------------------------------------------------
(* What the passes over a candle do.                                       *)

\* open_position for some grids, at a level each; what is not accepted is not opened.
Open(grids, level, rate) ==
  LET opened == [g \in {h \in grids : Accepted(EntryPrice(level[h]))} |-> Position(level[g], rate)]
      fees == [g \in DOMAIN opened |-> opened[g].fee]
  IN /\ positions' = [g \in DOMAIN positions \cup DOMAIN opened |->
                       IF g \in DOMAIN opened THEN opened[g] ELSE positions[g]]
     /\ state' = [state EXCEPT !.fees = @ + SumFunction(fees)]

\* close_position for some grids, at a level each.
Close(grids, level, rate, reason) ==
  LET exit == [g \in grids |-> ExitPrice(level[g])]
      gross == [g \in grids |-> GrossOf(positions[g], exit[g])]
      fee == [g \in grids |-> exit[g] * positions[g].quantity * rate]
      net == [g \in grids |-> gross[g] - positions[g].fee - fee[g]]
  IN /\ positions' = [g \in DOMAIN positions \ grids |-> positions[g]]
     /\ state' = [state EXCEPT !.realized = @ + SumFunction(gross),
                               !.fees = @ + SumFunction(fee),
                               !.net = @ + SumFunction(net),
                               !.stops = IF reason = "stop_loss" THEN @ + 1 ELSE @,
                               !.reasons = IF grids = {} THEN @ ELSE @ \cup {reason}]

\* The same level for every grid.
At(grids, price) == [g \in grids |-> price]

\* Mutated form: funding is realized and not recorded.
Fund_Unrecorded(rate, notional) ==
  state' = [state EXCEPT !.realized = @ + notional * (IF IsLong THEN -rate ELSE rate)]

\* Funding at a rate, for positions worth notional: realized, and recorded as funding.
Fund(rate, notional) ==
  LET amount == notional * (IF IsLong THEN -rate ELSE rate) IN
  state' = [state EXCEPT !.realized = @ + amount, !.funding = @ + amount]

EntryIsAdverse(g, price) == IF IsLong THEN EntryLevel(g) <= price ELSE EntryLevel(g) >= price

\* refresh_pending_orders at a price, with the value of the account at it: orders that the price
\* has passed are dropped, and grids without one get theirs, the nearest first, for as long as
\* the margin lasts that positions and orders leave.
Refreshed(orders, held, price, equity, used) ==
  LET kept == {g \in orders \ held : EntryIsAdverse(g, price)}
      wanted == {g \in Grids \ (held \cup kept) : EntryIsAdverse(g, price)}
      UpTo(g) == {h \in wanted : IF IsLong THEN h >= g ELSE h <= g}
      Covered(count) ==
        strategy.leverage * strategy.grids * equity - Unit * strategy.grids * used
          >= Unit * Stake * count
  IN kept \cup {g \in wanted : Covered(Cardinality(kept \cup UpTo(g)))}

StopIsTouched ==
  IF IsLong THEN candle.low <= strategy.stop ELSE candle.high >= strategy.stop

\* execute_stop_loss
StopLoss ==
  IF StopIsTouched /\ DOMAIN positions # {}
  THEN /\ Close(DOMAIN positions, At(DOMAIN positions, strategy.stop), strategy.taker, "stop_loss")
       /\ active' = strategy.reopen
  ELSE UNCHANGED <<positions, state, active>>

\* _touched
Touched(level) == candle.low <= level /\ level <= candle.high

\* The opening pass comes first in a candle that went the strategy's way.
OpensFirst == IF IsLong THEN candle.close >= candle.open ELSE candle.close <= candle.open

LiquidationPrice ==
  IF strategy.mark THEN candle.close ELSE IF IsLong THEN candle.low ELSE candle.high

-----------------------------------------------------------------------------
TypeOK ==
  /\ strategy \in Strategies
  /\ scheduled \in BOOLEAN
  /\ candle \in Candles
  /\ index \in 1 .. MaxCandles
  /\ phase \in {"funding", "carried", "first pass", "second pass", "opened", "late funding",
               "liquidation", "orders", "done"}
  /\ DOMAIN positions \subseteq Grids
  /\ \A g \in DOMAIN positions : positions[g] \in [entry : Amount, quantity : Amount, fee : Nat]
  /\ pending \subseteq Grids
  /\ state \in [realized : Int, fees : Int, funding : Int,
                net : Int,             \* the sum of net_pnl over trades
                stops : Nat,
                reasons : SUBSET {"grid_take_profit", "stop_loss", "liquidation"}]
  /\ active \in BOOLEAN
  /\ history \in [first : Amount, adverse : BOOLEAN]

\* The base position is opened and the first orders are placed at the close of the first candle,
\* which is then worked through like any other.
Init ==
  /\ strategy \in Strategies
  /\ scheduled \in BOOLEAN
  /\ candle \in Candles
  /\ index = 1
  /\ phase = "funding"
  /\ positions = [g \in {h \in BaseGrids(candle.close) : Accepted(EntryPrice(candle.close))} |->
                    Position(candle.close, strategy.taker)]
  /\ state = [realized |-> 0, fees |-> EntryFees, funding |-> 0, net |-> 0,
              stops |-> 0, reasons |-> {}]
  /\ pending = Refreshed({}, DOMAIN positions, candle.close, Equity(candle.close),
                         UsedNotional(candle.close))
  /\ active = TRUE
  /\ history = [first |-> candle.close, adverse |-> TRUE]

Fixed == UNCHANGED <<strategy, scheduled, candle, index, history>>

\* apply_scheduled_funding, for the points of the schedule in the candle's window together.
ScheduledFunding(notional) ==
  /\ phase = "funding"
  /\ phase' = "carried"
  /\ IF scheduled /\ DOMAIN positions # {}
     THEN \E rate \in Rates : Fund(rate, notional)
     ELSE UNCHANGED state
  /\ UNCHANGED <<positions, pending, active>> /\ Fixed

\* Stop-loss pass 1, for the positions carried into the candle.
StopCarried ==
  /\ phase = "carried"
  /\ StopLoss
  /\ phase' = IF active' THEN "first pass" ELSE "late funding"
  /\ UNCHANGED pending /\ Fixed

NextPass == IF phase = "first pass" THEN "second pass" ELSE "opened"

\* run_open_pass; touched: the grids whose order is within the candle's range.
OpenPass(touched) ==
  /\ phase = IF OpensFirst THEN "first pass" ELSE "second pass"
  /\ phase' = NextPass
  /\ LET filled == (pending \cap touched) \ DOMAIN positions IN
     /\ Open(filled, [g \in filled |-> EntryLevel(g)], strategy.maker)
     /\ pending' = pending \ filled
  /\ UNCHANGED active /\ Fixed

\* run_close_pass; touched: the grids whose take-profit level is.
ClosePass(touched) ==
  /\ phase = IF OpensFirst THEN "second pass" ELSE "first pass"
  /\ phase' = NextPass
  /\ LET reached == DOMAIN positions \cap touched IN
     Close(reached, [g \in reached |-> ExitLevel(g)], strategy.maker, "grid_take_profit")
  /\ UNCHANGED <<pending, active>> /\ Fixed

\* Mutated form: there is no second pass.
StopOpened_Skipped ==
  /\ phase = "opened"
  /\ phase' = "late funding"
  /\ UNCHANGED <<positions, pending, state, active>> /\ Fixed

\* Stop-loss pass 2, for the positions opened in the candle.
StopOpened ==
  /\ phase = "opened"
  /\ StopLoss
  /\ phase' = "late funding"
  /\ UNCHANGED pending /\ Fixed

\* apply_funding: the strategy's own rate for the time since the last candle, without a schedule.
LateFunding(notional) ==
  /\ phase = "late funding"
  /\ phase' = "liquidation"
  /\ IF ~scheduled /\ DOMAIN positions # {} /\ index > 1
     THEN Fund(strategy.rate, notional)
     ELSE UNCHANGED state
  /\ UNCHANGED <<positions, pending, active>> /\ Fixed

\* The forced liquidation, of an account with this equity and positions worth used.
Liquidation(equity, used) ==
  /\ phase = "liquidation"
  /\ phase' = "orders"
  /\ IF DOMAIN positions # {} /\ equity <= used * strategy.mmr
     THEN /\ Close(DOMAIN positions, At(DOMAIN positions, LiquidationPrice), strategy.taker,
                   "liquidation")
          /\ active' = FALSE
     ELSE UNCHANGED <<positions, state, active>>
  /\ UNCHANGED pending /\ Fixed

\* The orders for the next candle, if there is one and the run goes on.
Orders(equity, used) ==
  /\ phase = "orders"
  /\ pending' = IF active
                THEN Refreshed(pending, DOMAIN positions, candle.close, equity, used)
                ELSE {}
  /\ \/ /\ active /\ index < MaxCandles
        /\ \E next \in Candles :
             /\ candle' = next
             /\ history' = [history EXCEPT
                  !.adverse = @ /\ IF IsLong THEN next.close <= history.first
                                             ELSE next.close >= history.first]
        /\ index' = index + 1
        /\ phase' = "funding"
     \/ /\ ~active \/ index >= 2
        /\ phase' = "done"
        /\ UNCHANGED <<candle, index, history>>
  /\ UNCHANGED <<strategy, scheduled, positions, state, active>>

\* The answer has been computed.
Done == phase = "done" /\ UNCHANGED vars

EntriesTouched == {g \in Grids : Touched(EntryLevel(g))}
ExitsTouched == {g \in Grids : Touched(ExitLevel(g))}

Next ==
  \/ ScheduledFunding(UsedNotional(candle.open))
  \/ StopCarried
  \/ OpenPass(EntriesTouched)
  \/ ClosePass(ExitsTouched)
  \/ StopOpened
  \/ LateFunding(UsedNotional(candle.close))
  \/ Liquidation(Equity(LiquidationPrice), UsedNotional(LiquidationPrice))
  \/ Orders(Equity(candle.close), UsedNotional(candle.close))
  \/ Done

Spec == Init /\ [][Next]_vars
-----------------------------------------------------------------------------
(* The worst case.                                                         *)

\* _materialize_worst_case_legs: the positions of a fall (a rise, for a short grid) from a price.
WorstCaseLegs(price) ==
  LET base == BaseGrids(price)
      orders == {g \in Grids \ base :
                   IF IsLong THEN EntryLevel(g) < price ELSE EntryLevel(g) > price}
      level == [g \in base \cup orders |-> IF g \in base THEN price ELSE EntryLevel(g)]
  IN [g \in {h \in DOMAIN level : Accepted(EntryPrice(level[h]))} |->
       Position(level[g], IF g \in base THEN strategy.taker ELSE strategy.maker)]

\* estimate_max_possible_loss_at_stop
MaxPossibleLoss(price) ==
  LET legs == WorstCaseLegs(price)
      exit == ExitPrice(strategy.stop)
      loss == [g \in DOMAIN legs |->
                 legs[g].fee + exit * legs[g].quantity * strategy.taker - GrossOf(legs[g], exit)]
  IN Max({0, SumFunction(loss)})

-----------------------------------------------------------------------------
(* Properties.                                                             *)

\* A grid never has both a position and an order: an order is placed only for a grid without a
\* position, and leaves the book when it is filled (run_open_pass, refresh_pending_orders).
OrdersApart == pending \cap DOMAIN positions = {}

\* The books balance: what the account has realized and paid is what the trades made, the funding,
\* and the entry fees of the positions still open (close_position, apply_funding).
LedgerBalances == state.realized - state.fees = state.net + state.funding - EntryFees

\* Once the stop-loss passes over a candle that touched the stop price are done, nothing is held,
\* also not what the candle itself opened (the two calls of execute_stop_loss).
NothingHeldBeyondStop ==
  phase \in {"late funding", "liquidation", "orders"} /\ StopIsTouched => DOMAIN positions = {}

\* A run that is over before its candles are holds nothing, and has no orders when it answers: what
\* it reports does not depend on the candles it did not look at (final_mark is the last close).
EndedIsFlat ==
  ~active => DOMAIN positions = {} /\ (phase = "done" => pending = {})

\* A run that goes on after a candle holds positions only with more equity at the candle's close
\* than the maintenance margin of what it holds, with the candle's funding already paid.
SolventAtClose ==
  phase = "orders" /\ DOMAIN positions # {}
    => Equity(candle.close) > UsedNotional(candle.close) * strategy.mmr

\* While closes only went against the strategy and one stop-loss closed everything that was closed,
\* the trades together lost at most what the estimate says.
LossIsWithin(estimate) ==
  history.adverse /\ state.stops = 1 /\ state.reasons = {"stop_loss"} => -state.net <= estimate

\* The estimate for the first close covers that (estimate_max_possible_loss_at_stop), for a strategy
\* with a base position or a first close that is not on a grid line.
WorstCaseCovers ==
  strategy.base \/ (\A i \in 0 .. strategy.grids : Line(i) # history.first)
    => LossIsWithin(MaxPossibleLoss(history.first))

\* What the run keeps to about what it holds.
PositionsAreSound == OrdersApart /\ NothingHeldBeyondStop /\ EndedIsFlat

\* What it keeps to about the money.
AccountIsSound == LedgerBalances /\ SolventAtClose /\ WorstCaseCovers
=============================================================================
