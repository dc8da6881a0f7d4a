------------------------------- MODULE MCServices -------------------------------
(***************************************************************************)
(* Model for TLC of the services of the back end, which share no state:    *)
(* every behaviour is one of a single service, `which' says of which, and  *)
(* the others stay in a state they start in.                               *)
(***************************************************************************)
EXTENDS BacktestJobs, BacktestArq, ConcurrencyLimit, Idempotency

\* Two guarded requests of different subjects, one of which is one too many for everybody; the
\* counter of the address, a third like the other two, is left out.
CONSTANTS r1, r2, subject1, subject2, all

MCGuarded == {r1, r2}
MCKeys == {subject1, subject2, all}
MCKeysOf == [r \in {r1, r2} |-> <<IF r = r1 THEN subject1 ELSE subject2, all>>]
MCLimit == [k \in {subject1, subject2, all} |-> 1]

VARIABLE which

Services == {"backtests", "queue", "starts", "ceilings"}

MCInit ==
  /\ which \in Services
  /\ Init /\ QueueInit /\ StartInit /\ SlotInit
  /\ which # "starts" => backend = "memory"

MCNext ==
  \/ which = "backtests" /\ Next /\ UNCHANGED <<which, queueVars, startVars, slotVars>>
  \/ which = "queue" /\ QueueNext /\ UNCHANGED <<which, vars, startVars, slotVars>>
  \/ which = "starts" /\ StartNext /\ UNCHANGED <<which, vars, queueVars, slotVars>>
  \/ which = "ceilings" /\ SlotNext /\ UNCHANGED <<which, vars, queueVars, startVars>>

\* The fairness of the services; what is not active has no step to be fair to.
MCSpec ==
  /\ MCInit /\ [][MCNext]_<<which, vars, queueVars, startVars, slotVars>>
  /\ \A j \in Jobs : WF_vars(Worker(j))
  /\ \A j \in QueueJobs : WF_queueVars(RunRow(j)) /\ WF_queueVars(Handler(j))
  /\ WF_startVars(LockExpires) /\ \A r \in Starters : WF_startVars(Step(r))
  /\ \A r \in Guarded : WF_slotVars(Serve(r))

-----------------------------------------------------------------------------
(* Properties. *)

\* What each service owes in the end: a queued job settles (BacktestArq), a request is answered
\* (Idempotency), and slots are given back (ConcurrencyLimit).
ServicesSettle == QueuedJobSettles /\ RequestSettles /\ SlotsComeBack
=============================================================================
