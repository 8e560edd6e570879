------------------------------- MODULE MCLectura -------------------------------
(* Instances of Lectura for TLC. *)
EXTENDS Lectura

CONSTANTS w1, w2

(* An empty line, one that just fits and others around them. *)
CuatroLineas == <<2, 0, 4, 1>>

UnaLarga == <<1, 5>>

DosCortas == <<1, 1>>
===============================================================================
