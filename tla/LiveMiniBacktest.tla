---------------------------- MODULE LiveMiniBacktest ----------------------------
(***************************************************************************)
(* The backtest that the live panel runs by itself to draw candles beside  *)
(* the robot: useLiveMiniBacktest (hooks/live/useLiveMiniBacktest.ts) as   *)
(* LiveTradingPanel uses it.  The request is made from the form and the    *)
(* snapshot and ends on a whole minute (lib/liveBacktestAlignment.ts), so  *)
(* snapshots of one minute make the same request, and so do forms that     *)
(* differ in what the snapshot overrides.                                  *)
(***************************************************************************)
EXTENDS Naturals

CONSTANTS
  NoRequest,
  Requests,      \* the signatures that aligned requests have
  MaxRenders     \* bound for TLC: changes of what the hook is given

VARIABLES
  enabled,       \* isVisible
  signature,     \* of the aligned request, or NoRequest without a snapshot
  signatureRef,
  runs,          \* the requests under way: [nonce, signature, aborted]
  nonce,         \* runNonceRef
  loading,
  result,        \* the signature that the result is of, or NoRequest
  error,
  renders

miniVars == <<enabled, signature, signatureRef, runs, nonce, loading, result, error, renders>>

AllAborted(rs) == {[r EXCEPT !.aborted = TRUE] : r \in rs}

\* The effect, of a render with these values: its cleanup aborts what the last one started, and a
\* signature that it has started already is not started again.
Effect(shown, request) ==
  IF ~shown \/ request = NoRequest
  THEN /\ runs' = AllAborted(runs)
       /\ result' = NoRequest /\ error' = FALSE /\ loading' = FALSE
       /\ signatureRef' = NoRequest
       /\ nonce' = nonce + 1
  ELSE IF signatureRef = request
  THEN /\ runs' = AllAborted(runs)
       /\ UNCHANGED <<signatureRef, nonce, loading, result, error>>
  ELSE /\ nonce' = nonce + 1
       /\ runs' = AllAborted(runs)
            \cup {[nonce |-> nonce + 1, signature |-> request, aborted |-> FALSE]}
       /\ signatureRef' = request
       /\ loading' = TRUE /\ error' = FALSE
       /\ UNCHANGED result

Render(shown, request) ==
  /\ renders < MaxRenders
  /\ renders' = renders + 1
  /\ enabled' = shown
  /\ signature' = request
  /\ Effect(shown, request)

\* A snapshot of the same minute, or a form that differs in what the snapshot overrides: the
\* aligned request is a new object with the same signature.
SameRequest == signature # NoRequest /\ Render(enabled, signature)

\* A snapshot of a later minute, another form or another window of days, or the first snapshot.
OtherRequest == \E r \in Requests \ {signature} : Render(enabled, r)

\* The robot is changed: there is no snapshot.
NoSnapshot == signature # NoRequest /\ Render(enabled, NoRequest)

\* The panel is shown or hidden.
Toggle == Render(~enabled, signature)

\* Mutated form: an answer is taken from whatever run it is.
IsCurrent_Any(r) == TRUE

\* The answer of a run counts.
IsCurrent(r) == ~r.aborted /\ r.nonce = nonce

\* The answer to a request, or its failure; an abort can come too late to stop the answer.
Answered(r) ==
  /\ runs' = runs \ {r}
  /\ IF IsCurrent(r)
     THEN /\ loading' = FALSE
          /\ \/ result' = r.signature /\ UNCHANGED error
             \/ error' = TRUE /\ UNCHANGED result
     ELSE UNCHANGED <<loading, result, error>>
  /\ UNCHANGED <<enabled, signature, signatureRef, nonce, renders>>

MiniInit ==
  /\ enabled \in BOOLEAN
  /\ signature = NoRequest /\ signatureRef = NoRequest /\ runs = {} /\ result = NoRequest
  /\ nonce = 0 /\ renders = 0
  /\ loading = FALSE /\ error = FALSE

MiniNext == SameRequest \/ OtherRequest \/ NoSnapshot \/ Toggle \/ \E r \in runs : Answered(r)

MiniSpec == MiniInit /\ [][MiniNext]_miniVars

-----------------------------------------------------------------------------
\* When nothing is loading and the last run did not fail, the candles shown are those of the request
\* on the page: the answer of an earlier one never comes last (the nonce and the signal).
CandlesAreCurrent == ~loading /\ ~error /\ result # NoRequest => result = signature

\* "runs a hidden live-aligned backtest and stores candles locally"
\* (hooks/live/useLiveMiniBacktest.test.tsx): as long as it is loading, a run is on its way.
LoadingHasARun == loading => \E r \in runs : ~r.aborted
=============================================================================
