----------------------------- MODULE MCTablaNodos -----------------------------
(* Instances of TablaNodos for TLC. *)
EXTENDS TablaNodos

CONSTANTS a, b
===============================================================================
