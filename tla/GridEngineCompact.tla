---------------------------- MODULE GridEngineCompact ----------------------------
(***************************************************************************)
(* The engine that the optimizer runs, run_backtest_for_optimization of    *)
(* backend/app/services/backtest_engine.py: the steps of GridEngine, with  *)
(* the positions' value computed from running totals and the grids that a  *)
(* candle touches found by bisection.  It implements GridEngine.           *)
(***************************************************************************)
EXTENDS GridEngine

VARIABLES
  totalPositionQty,      \* what the open positions add up to
  totalEntryNotional     \* what they were bought or sold for

totals == <<totalPositionQty, totalEntryNotional>>

-----------------------------------------------------------------------------
UnrealizedAt(price) ==
  IF IsLong THEN price * totalPositionQty - totalEntryNotional
            ELSE totalEntryNotional - price * totalPositionQty

EquityAt(price) == Unit * strategy.margin + state.realized + Unit * UnrealizedAt(price) - state.fees

UsedNotionalAt(price) == price * totalPositionQty

\* The lines from the first that is not below the low to the last that is not above the high; the
\* range is empty when there are none.
BisectLeft(price) == Cardinality({i \in 0 .. strategy.grids : Line(i) < price})
BisectRight(price) == Cardinality({i \in 0 .. strategy.grids : Line(i) <= price})
TouchedLineRange == BisectLeft(candle.low) .. BisectRight(candle.high) - 1

\* Mutated form: the ranges of the two sides are the same.
OpenRange_OneSide == Grids \cap TouchedLineRange

\* The ranges of grids that run_open_pass and run_close_pass go through.
OpenRange ==
  IF TouchedLineRange = {} THEN {}
  ELSE LET start == Min(TouchedLineRange)
           end == Max(TouchedLineRange)
       IN IF IsLong THEN start .. Min({strategy.grids - 1, end})
          ELSE Max({0, start - 1}) .. Min({strategy.grids - 1, end - 1})

CloseRange == {g \in Grids : (IF IsLong THEN g + 1 ELSE g) \in TouchedLineRange}

Quantities(held) == [g \in DOMAIN held |-> held[g].quantity]
EntryNotionals(held) == [g \in DOMAIN held |-> held[g].entry * held[g].quantity]

\* The totals follow what open_position and close_position do.
Follow ==
  LET opened == DOMAIN positions' \ DOMAIN positions
      closed == DOMAIN positions \ DOMAIN positions'
  IN /\ totalPositionQty' =
          totalPositionQty + SumFunctionOnSet(Quantities(positions'), opened)
            - SumFunctionOnSet(Quantities(positions), closed)
     /\ totalEntryNotional' =
          totalEntryNotional + SumFunctionOnSet(EntryNotionals(positions'), opened)
            - SumFunctionOnSet(EntryNotionals(positions), closed)

-----------------------------------------------------------------------------
CompactTypeOK == TypeOK /\ totalPositionQty \in Nat /\ totalEntryNotional \in Nat

CompactInit ==
  /\ Init
  /\ totalPositionQty = SumFunction(Quantities(positions))
  /\ totalEntryNotional = SumFunction(EntryNotionals(positions))

CompactNext ==
  \/ ScheduledFunding(UsedNotionalAt(candle.open)) /\ UNCHANGED totals
  \/ StopCarried /\ Follow
  \/ OpenPass(OpenRange) /\ Follow
  \/ ClosePass(CloseRange) /\ Follow
  \/ StopOpened /\ Follow
  \/ LateFunding(UsedNotionalAt(candle.close)) /\ UNCHANGED totals
  \/ Liquidation(EquityAt(LiquidationPrice), UsedNotionalAt(LiquidationPrice)) /\ Follow
  \/ Orders(EquityAt(candle.close), UsedNotionalAt(candle.close)) /\ UNCHANGED totals
  \/ Done /\ UNCHANGED totals

CompactSpec == CompactInit /\ [][CompactNext]_<<vars, totals>>

-----------------------------------------------------------------------------
\* The compact engine is the engine ("Run the same execution logic with compact outputs for
\* optimization"): what a search ranks strategies by is what a backtest of them reports.
ImplementsGridEngine == Spec
=============================================================================
