--------------------------- MODULE MCBacktestRunner ---------------------------
(* BacktestRunner with two runs and two of resets, reloads, edits and refused runs, for TLC. *)
EXTENDS BacktestRunner
=============================================================================
