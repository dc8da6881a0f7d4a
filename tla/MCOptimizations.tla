---------------------------- MODULE MCOptimizations ----------------------------
(***************************************************************************)
(* Model for TLC of the optimizations: their history in the browser, with  *)
(* two jobs, one a page.  In runs of their own, a job of the server, and   *)
(* the evaluation of combinations by two jobs of one process.  The three   *)
(* share no state.                                                         *)
(***************************************************************************)
EXTENDS OptimizationHistory, OptimizationJobs, CombinationEvaluator

VARIABLE which

\* Three rows in batches of two: a full batch and a rest.
MCRows == 1 .. 3

MCInit ==
  /\ which \in {"history", "server", "evaluator"}
  /\ HistoryInit /\ Init /\ RunInit
  /\ which # "history" => unfinished = {} /\ cursor = None
  /\ which # "evaluator" => ~fallback

MCNext ==
  \/ which = "history" /\ HistoryNext /\ UNCHANGED <<which, vars, runVars>>
  \/ which = "server" /\ Next /\ UNCHANGED <<which, historyVars, runVars>>
  \/ which = "evaluator" /\ RunNext /\ UNCHANGED <<which, historyVars, vars>>

MCSpec == MCInit /\ [][MCNext]_<<which, historyVars, vars, runVars>>
=============================================================================
