---------------------------- MODULE MCLiveMonitor ----------------------------
(* LiveMonitor with two robots, for TLC. *)
EXTENDS LiveMonitor
=============================================================================
