---------------------------- MODULE MCPlannerTurn ----------------------------
(* PlannerTurn for TLC. *)
EXTENDS PlannerTurn
=============================================================================
