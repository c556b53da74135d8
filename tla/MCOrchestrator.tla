---------------------------- MODULE MCOrchestrator ----------------------------
(* Instances of Orchestrator for TLC. *)
EXTENDS Orchestrator

MCCaps == {0, 1, 3}

MCAmounts == 0..2

MCConnectivities == {"stable", "intermittent", "offline_first"}

MCReassessments == {{}, {"AB-BUDGET-1"}}

=============================================================================
