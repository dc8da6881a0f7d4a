------------------------------ MODULE MCGridEngine ------------------------------
(***************************************************************************)
(* Model for TLC: strategies of three grids and candles around their lines.*)
(***************************************************************************)
EXTENDS GridEngineCompact, GridPrecheck, Sequences

\* A long grid with lines at 60, 70, 80 and 90, without costs.
Long ==
  [side |-> "long", lower |-> 60, step |-> 10, grids |-> 3, margin |-> 100, leverage |-> 3, stop |-> 50,
   base |-> FALSE, reopen |-> FALSE, maker |-> 0, taker |-> 0, slippage |-> 0, mmr |-> 1, rate |-> 0,
   mark |-> FALSE, tick |-> 1, qstep |-> 1, least |-> 0]

\* Its opposite, with costs, a coarse tick, and orders that are too small at the higher lines.
Short ==
  [Long EXCEPT !.side = "short", !.stop = 100, !.margin = 500, !.reopen = TRUE, !.maker = 1, !.taker = 1,
               !.slippage = 3, !.tick = 2, !.qstep = 2, !.least = 430, !.rate = -1]

MCStrategies ==
  {Long,
   [Long EXCEPT !.base = TRUE, !.reopen = TRUE, !.margin = 200, !.maker = 1, !.taker = 1, !.slippage = 3,
         !.qstep = 3],
   [Long EXCEPT !.base = TRUE, !.margin = 1000, !.leverage = 4, !.stop = 54, !.mmr = 9, !.rate = 2],
   Short,
   [Short EXCEPT !.base = TRUE, !.reopen = FALSE, !.least = 0, !.slippage = 0],
   [Short EXCEPT !.base = TRUE, !.leverage = 12, !.mmr = 5, !.least = 0, !.mark = TRUE]}

Bar(open, close, low, high) == [open |-> open, close |-> close, low |-> low, high |-> high]

MCCandles ==
  {Bar(62, 84, 58, 88), Bar(86, 63, 61, 92), Bar(75, 75, 74, 76), Bar(66, 58, 48, 72),
   Bar(64, 86, 49, 104), Bar(72, 80, 70, 82), Bar(84, 94, 80, 101), Bar(68, 65, 55, 70)}

MCRates == {-1, 0, 2}

MCLimits == {0, 3000, 4400, 12000}

Sweep(start, end, step) ==
  [enabled |-> TRUE, start |-> start, end |-> end, step |-> step, values |-> <<>>]

\* Ranges that end on a step and between two, that are empty, left open or without a step, a list
\* with a value twice, and a parameter that is not swept.
MCSweeps ==
  {Sweep(5, 9, 2), Sweep(4, 9, 2), Sweep(6, 6, 1), Sweep(6, 5, 1), Sweep(0, 5, 1), Sweep(3, 5, 0),
   [Sweep(0, 0, 0) EXCEPT !.values = <<5, 8, 5>>], [Sweep(0, 0, 0) EXCEPT !.enabled = FALSE]}
=============================================================================
