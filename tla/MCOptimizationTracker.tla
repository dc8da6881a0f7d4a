------------------------ MODULE MCOptimizationTracker ------------------------
(* OptimizationTracker with two pages and two requests, for TLC. *)
EXTENDS OptimizationTracker
=============================================================================
