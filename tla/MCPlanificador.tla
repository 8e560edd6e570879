---------------------------- MODULE MCPlanificador ----------------------------
(* Instances of Planificador for TLC. *)
EXTENDS Planificador
===============================================================================
