------------------------------ MODULE JobOutcome ------------------------------
(***************************************************************************)
(* What a job registry promises about each job, whichever way it is built: *)
(* a job that was started stays open until it settles on one outcome, the  *)
(* outcome never changes, only a job somebody asked to cancel ends as      *)
(* cancelled or disappears without an outcome, and no job stays open.      *)
(* The jobs are independent: one step may move several of them.            *)
(***************************************************************************)
CONSTANT Jobs

VARIABLE phase

Settled == {"completed", "failed", "cancelled"}
Phases == {"absent", "open", "withdrawn", "gone"} \cup Settled

\* The moves of one job.
Moves ==
  {<<"absent", "open">>, <<"open", "withdrawn">>, <<"open", "completed">>, <<"open", "failed">>}
    \cup ({"withdrawn"} \X (Settled \cup {"gone"}))
    \cup (Settled \X {"gone"})

Init == phase = [j \in Jobs |-> "absent"]

Next ==
  /\ phase' \in [Jobs -> Phases]
  /\ \A j \in Jobs : phase'[j] = phase[j] \/ <<phase[j], phase'[j]>> \in Moves

Leaves(j) == Next /\ phase[j] \in {"open", "withdrawn"} /\ phase'[j] \in Settled \cup {"gone"}

\* The promise about steps.
Safe == Init /\ [][Next]_phase

\* The promise that every job ends.
Spec == Safe /\ \A j \in Jobs : WF_phase(Leaves(j))
=============================================================================
