------------------------------- MODULE MCRecurso -------------------------------
(* Instances of Recurso for TLC. *)
EXTENDS Recurso

\* With Total = 2: part of the pool, all of it, and more than there will ever be.
MontosMC == {1, 2, 3}

\* A negative return and two that are right or too large for what is lent.
DevolucionesMC == {-1, 1, 2}
================================================================================
