---------------------------- MODULE MCColaPunteros ----------------------------
(* Instances of ColaPunteros for TLC; the cells are interchangeable. *)
EXTENDS ColaPunteros, TLC

CONSTANTS x, y, z, a, b

CeldasIguales == Permutations({x, y, z})
===============================================================================
