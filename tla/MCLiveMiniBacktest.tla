--------------------------- MODULE MCLiveMiniBacktest ---------------------------
(***************************************************************************)
(* Model for TLC: the backtest of the live panel by itself.                *)
(***************************************************************************)
EXTENDS LiveMiniBacktest
=============================================================================
