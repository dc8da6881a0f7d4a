------------------------------ MODULE JobStream ------------------------------
(***************************************************************************)
(* How the front end follows one job                                       *)
(* (frontend/src/hooks/createSsePollingFallbackController.ts and           *)
(* usePollingLifecycle.ts): an event stream with a connection timer, a     *)
(* fallback to polling that is never undone, and the one polling timer.    *)
(* The two trackers, of backtests and of optimizations, share them.        *)
(*                                                                         *)
(* A tracker's transport is a record; every operator says what a call of   *)
(* the controller makes of it.  The intervals of the timers are left out:  *)
(* an armed timer may fire.                                                *)
(***************************************************************************)
EXTENDS Naturals

Finished == {"completed", "failed", "cancelled"}
Status == {"pending", "running"} \cup Finished

Transport == [mode         : {"idle", "connecting", "sse", "polling"},
              stream       : {"closed", "connecting", "open"},
              connectTimer : BOOLEAN,   \* connectingTimer
              probeTimer   : BOOLEAN,   \* sseProbeTimer (optimizations only)
              polling      : BOOLEAN,   \* pollingStarted
              ended        : BOOLEAN,   \* terminalReached
              pollTimer    : BOOLEAN]   \* timerRef of usePollingLifecycle

Idle == [mode |-> "idle", stream |-> "closed", connectTimer |-> FALSE, probeTimer |-> FALSE,
         polling |-> FALSE, ended |-> FALSE, pollTimer |-> FALSE]

CleanedUp(t) == [t EXCEPT !.stream = "closed", !.connectTimer = FALSE]

\* startPollingFallback of the controller, then that of its tracker; the tracker polls at once.
FallenBack(t) == [CleanedUp(t) EXCEPT !.polling = TRUE, !.mode = "polling", !.probeTimer = FALSE]
MayFallBack(t) == ~t.ended /\ ~t.polling

\* A fresh tracker with a stream, or without (no EventSource, or its constructor throws).
Connecting == [Idle EXCEPT !.mode = "connecting", !.stream = "connecting", !.connectTimer = TRUE]
Started == {Connecting, FallenBack(Idle)}

MayOpen(t) == t.stream = "connecting" /\ ~t.ended

\* Mutated form: nothing watches a stream that is open.
Opened_NoProbe(t, probes) ==
  [t EXCEPT !.stream = "open", !.connectTimer = FALSE, !.mode = "sse"]

\* The listener of "open"; only the tracker of optimizations probes beside an open stream.
Opened(t, probes) ==
  [t EXCEPT !.stream = "open", !.connectTimer = FALSE, !.mode = "sse",
            !.probeTimer = t.probeTimer \/ probes]

MayUpdate(t) == t.stream = "open" /\ ~t.ended
MayBreak(t) == t.stream # "closed" /\ ~t.ended
ConnectTimerFires(t) == t.connectTimer

\* schedule: a new delay replaces the one before.
Scheduled(t) == [t EXCEPT !.pollTimer = TRUE]
Unscheduled(t) == [t EXCEPT !.pollTimer = FALSE]

\* A terminal status in a stream or a probe stops both.
StoppedAtEnd(t) ==
  [CleanedUp(t) EXCEPT !.ended = TRUE, !.mode = "idle", !.probeTimer = FALSE]
=============================================================================
