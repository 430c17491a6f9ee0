--------------------------- MODULE MCFlowScheduler ---------------------------
(* Small instances of the scheduler for TLC. *)
EXTENDS FlowScheduler
=============================================================================
