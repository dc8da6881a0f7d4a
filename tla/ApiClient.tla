------------------------------- MODULE ApiClient -------------------------------
(***************************************************************************)
(* A call of the page's API client (frontend/src/lib/api/core.ts, with the *)
(* functions of api/backtest.ts and api/optimization.ts that use it): its  *)
(* attempts, each under a signal of its own that a time-out or the         *)
(* caller's signal aborts, the pauses between them, and what the server    *)
(* makes of an attempt the client has given up.                            *)
(*                                                                         *)
(* A step is what runs between two awaits.  An abort carries an Error,     *)
(* which is not told from a failure: it is retried like one.  Answers are  *)
(* right or wrong; how long a pause lasts is left out.  The server is      *)
(* external: it may serve an attempt long after the client gave it up, and *)
(* it starts one job for a key (Idempotency).                              *)
(***************************************************************************)
EXTENDS Naturals, FiniteSets

CONSTANTS
  MaxApiCalls,   \* bound on the calls made under one signal, for TLC
  MaxFaults      \* bound on the attempts that fail, for TLC

VARIABLES
  kind,          \* of the call under way, or the last one
  calls,         \* the calls made so far
  phase,         \* of the call
  attempt,
  listeners,     \* the attempts that listen to the caller's signal
  aborted,       \* the caller's signal
  outcome,       \* of the call
  wire,          \* attempts the server has not served yet
  replies,       \* attempts it has answered
  jobs,          \* the jobs it has started: the call and what told it from others
  faults

callVars == <<kind, calls, phase, attempt, listeners, aborted, outcome, wire, replies, jobs, faults>>

\* Mutated form: a call that is not keyed is retried too.
Retries_Always(op) == IF op = "export" THEN 0 ELSE 1

\* The attempts after the first.  Those who start a job leave the number to the default, 0, but could
\* choose one for the keyed start; an export takes none.
Retries(op) == IF op \in {"read", "start"} THEN 2 ELSE 0

\* A GET or a cancellation, startBacktest and startOptimization, restartOptimization, and
\* exportOptimizationCsv.
Kinds == {"read", "start", "restart", "export"}
Attempts == (1 .. MaxApiCalls) \X (0 .. 2) \X Kinds
Outcomes == {"none", "value", "error"}

CallTypeOK ==
  /\ kind \in Kinds /\ calls \in 0 .. MaxApiCalls /\ attempt \in 0 .. 2
  /\ phase \in {"idle", "fetching", "reading", "sleeping"} /\ outcome \in Outcomes
  /\ {listeners, wire, replies} \subseteq SUBSET Attempts
  /\ aborted \in BOOLEAN /\ faults \in 0 .. MaxFaults

Current == <<calls, attempt, kind>>
Now(number) == <<calls', number, kind'>>

-----------------------------------------------------------------------------
(* The client                                                              *)

\* The call ends; `finally' has cleaned up after its last attempt.
Ends(result, heard) == phase' = "idle" /\ outcome' = result /\ listeners' = heard /\ UNCHANGED attempt

\* Mutated form: nothing is cleaned up.
CleanedUp_Not(heard, which) == heard
CleanedUp(heard, which) == heard \ {which}

\* Mutated form: the attempts are not counted.
Rejected_Uncounted(number, heard) ==
  IF 0 < Retries(kind')
  THEN phase' = "sleeping" /\ attempt' = 1 /\ listeners' = heard /\ UNCHANGED outcome
  ELSE /\ phase' = "idle" /\ outcome' = "error" /\ attempt' = number
       /\ listeners' = CleanedUp(heard, Now(number))

\* An attempt fails or is aborted.  The clean-up comes after the pause.
Rejected(number, heard) ==
  IF number < Retries(kind')
  THEN phase' = "sleeping" /\ attempt' = number + 1 /\ listeners' = heard /\ UNCHANGED outcome
  ELSE /\ phase' = "idle" /\ outcome' = "error" /\ attempt' = number
       /\ listeners' = CleanedUp(heard, Now(number))

\* Mutated form: the caller's signal is listened to, not looked at.
Sends_Blindly(number, heard) ==
  /\ phase' = "fetching" /\ attempt' = number /\ outcome' = "none"
  /\ listeners' = heard \cup {Now(number)} /\ wire' = wire \cup {Now(number)}

\* buildAbortSignal, and the fetch: under a signal that is aborted already it fails at once.
Sends(number, heard) ==
  IF aborted THEN Rejected(number, heard) /\ UNCHANGED wire
  ELSE /\ phase' = "fetching" /\ attempt' = number /\ outcome' = "none"
       /\ listeners' = heard \cup {Now(number)} /\ wire' = wire \cup {Now(number)}

Call(op) ==
  /\ phase = "idle" /\ calls < MaxApiCalls
  /\ calls' = calls + 1 /\ kind' = op
  /\ Sends(0, listeners)
  /\ UNCHANGED <<aborted, replies, jobs, faults>>

\* The pause is over: the attempt before is cleaned up, and the next begins.
SleepEnds ==
  /\ phase = "sleeping"
  /\ UNCHANGED <<kind, calls, aborted, replies, jobs, faults>>
  /\ Sends(attempt, CleanedUp(listeners, Now(attempt - 1)))

AnswerArrives ==
  /\ phase = "fetching" /\ Current \in replies
  /\ IF kind = "export"
     THEN \* The clean-up does not wait for the file.
          /\ phase' = "reading" /\ listeners' = CleanedUp(listeners, Current)
          /\ UNCHANGED <<attempt, outcome>>
     ELSE Ends("value", CleanedUp(listeners, Current))
  /\ UNCHANGED <<kind, calls, aborted, wire, replies, jobs, faults>>

BodyRead ==
  /\ phase = "reading"
  /\ \E result \in {"value", "error"} : Ends(result, listeners)
  /\ UNCHANGED <<kind, calls, aborted, wire, replies, jobs, faults>>

\* The network fails, or the answer is an error, a 4xx too; what was sent may still be served.
AttemptFails ==
  /\ phase = "fetching" /\ faults < MaxFaults /\ faults' = faults + 1
  /\ UNCHANGED <<kind, calls, aborted, wire, replies, jobs>>
  /\ Rejected(attempt, listeners)

Timeout ==
  /\ phase = "fetching"
  /\ UNCHANGED <<kind, calls, aborted, wire, replies, jobs, faults>>
  /\ Rejected(attempt, listeners)

\* The caller aborts; every listener hears it once.
CallerAborts ==
  /\ ~aborted /\ aborted' = TRUE
  /\ UNCHANGED <<kind, calls, wire, replies, jobs, faults>>
  /\ IF phase = "fetching" /\ Current \in listeners THEN Rejected(attempt, {})
     ELSE listeners' = {} /\ UNCHANGED <<phase, attempt, outcome>>

-----------------------------------------------------------------------------
(* The server                                                              *)

\* Mutated form: every attempt has a key of its own.
KeyOf_EachAttempt(op, number) == number

\* The headers of a call are made once, for all its attempts.
KeyOf(op, number) == IF op = "start" THEN 0 ELSE number

ServerServes ==
  /\ \E sent \in wire :
       /\ wire' = wire \ {sent}
       /\ replies' = replies \cup {sent}
       /\ jobs' = IF sent[3] \in {"start", "restart"}
                  THEN jobs \cup {<<sent[1], KeyOf(sent[3], sent[2])>>} ELSE jobs
  /\ UNCHANGED <<kind, calls, phase, attempt, listeners, aborted, outcome, faults>>

-----------------------------------------------------------------------------
CallInit ==
  /\ kind = "read" /\ calls = 0 /\ phase = "idle" /\ attempt = 0
  /\ listeners = {} /\ aborted = FALSE /\ outcome = "none"
  /\ wire = {} /\ replies = {} /\ jobs = {} /\ faults = 0

CallNext ==
  \/ \E op \in Kinds : Call(op)
  \/ SleepEnds \/ AnswerArrives \/ BodyRead \/ AttemptFails \/ Timeout \/ CallerAborts
  \/ ServerServes

\* Timers fire.  Nothing is owed by the network.
CallFairness == WF_callVars(SleepEnds) /\ WF_callVars(Timeout)

-----------------------------------------------------------------------------
\* Once the caller has aborted, nothing more is sent, and no answer is handed to him: except the file
\* of an export whose first bytes had arrived.
AbortHolds ==
  aborted => wire' \subseteq wire /\ (outcome' = "value" /\ outcome # "value" => kind = "export")

\* However often it is tried, a call starts one job at most.
StartsOneJob == \A i \in 1 .. calls : Cardinality({j \in jobs : j[1] = i}) <= 1

\* A call that is over leaves nothing that listens to the caller's signal.
LeavesNoListener == phase = "idle" => listeners = {}

\* What a caller relies on when he gives up, retries or reuses a signal.
CallsAreSound == [][AbortHolds /\ StartsOneJob' /\ LeavesNoListener']_callVars

\* Every call ends, whatever the network does; only a file is read without a time-out.
CallsEnd == phase \in {"fetching", "sleeping"} ~> phase \notin {"fetching", "sleeping"}
=============================================================================
