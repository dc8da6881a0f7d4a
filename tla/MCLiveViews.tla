------------------------------ MODULE MCLiveViews -------------------------------
(***************************************************************************)
(* Model for TLC: a long grid of three grids whose upper one is held from  *)
(* the start; with it, in runs of its own, the backtest of the panel.      *)
(***************************************************************************)
EXTENDS LiveViews, LiveMiniBacktest, LiveTrend, Pages

VARIABLE which

MCLines == <<100, 110, 120, 130>>

\* What a snapshot says besides its fills and orders.
Calm == [stale |-> FALSE, partial |-> FALSE, capped |-> FALSE, clipped |-> FALSE, missing |-> FALSE,
         mark |-> 110, liquidation |-> 80, stop |-> 90, diagnostics |-> << >>,
         state |-> "running", pnl |-> 0, investment |-> 1000]

MCSituations ==
  {Calm,
   [Calm EXCEPT !.capped = TRUE],
   [Calm EXCEPT !.stale = TRUE, !.partial = TRUE],
   [Calm EXCEPT !.missing = TRUE, !.mark = 94, !.pnl = -60],
   [Calm EXCEPT !.mark = 83, !.state = "stopped"],
   [Calm EXCEPT !.mark = 84, !.stop = 81, !.capped = TRUE, !.clipped = TRUE,
         !.diagnostics = <<[key |-> "diagnostic", severity |-> "danger"]>>]}

\* A profit that leaps and falls, and replays: none, or one that is not plausible, explained or not.
MCProfits == <<0, 600, 600, 0, 10, 10, 0>>
MCReplays == {[replay |-> << >>, explained |-> FALSE]} \cup {[replay |-> <<0, 999>>, explained |-> e] : e \in BOOLEAN}

MCResults == <<7, 2>>

\* Ledgers of a snapshot: nothing, some of each section, and more closed grids than pages are offered.
MCLedgers ==
  LET Groups(n) == [i \in 1 .. n |-> [age |-> i % 3, found |-> i % 2 = 0]]
  IN {[closed |-> Groups(c), open |-> Groups(o), funding |-> Groups(3)] : c \in {0, 14}, o \in {0, 4}}

MCInit ==
  /\ which \in {"views", "mini", "trend", "results", "ledger"}
  /\ ViewsInit /\ MiniInit /\ TrendInit /\ PagesInit
  /\ which # "mini" => ~enabled

MCNext ==
  \/ which = "views" /\ ViewsNext /\ UNCHANGED <<which, miniVars, trendVars, pageVars>>
  \/ which = "mini" /\ MiniNext /\ UNCHANGED <<which, viewsVars, trendVars, pageVars>>
  \/ which = "trend" /\ TrendNext /\ UNCHANGED <<which, viewsVars, miniVars, pageVars>>
  \/ which = "results" /\ ResultsNext /\ UNCHANGED <<which, viewsVars, miniVars, trendVars>>
  \/ which = "ledger" /\ LedgerNext /\ UNCHANGED <<which, viewsVars, miniVars, trendVars>>

MCSpec == MCInit /\ [][MCNext]_<<which, viewsVars, miniVars, trendVars, pageVars>>
=============================================================================
