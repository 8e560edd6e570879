---------------------------- MODULE MCGestorHilos -----------------------------
(* Instances of GestorHilos for TLC. *)
EXTENDS GestorHilos, TLC

CONSTANTS A, B, cpu, mem, j1, j2, j3, j4, j5

Item1(ip, tipo, monto) == [ip |-> ip, tipo |-> tipo, monto |-> monto]

(* The two jobs of the client and the two of Vecino queue behind each other*)
(* for cpu and mem; nobody holds mem while it waits for cpu.               *)
PedidoMC ==
  (j1 :> <<Item1(A, cpu, 1), Item1(B, cpu, 1)>>) @@
  (j2 :> <<Item1(A, cpu, 2), Item1(A, mem, 1)>>)
(* With a job that is refused after part of it was reserved. *)
PedidoConExceso == PedidoMC @@ (j5 :> <<Item1(A, mem, 1), Item1(A, cpu, 3)>>)

AjenoMC == (j3 :> Item1(A, mem, 1)) @@ (j4 :> Item1(A, cpu, 1))
EnterasMC == [n \in Nodos |-> n]
TotalMC == [n \in Nodos |-> (cpu :> 2) @@ (mem :> 1)]

(* What the theorems on the table and the queues assume of the client. *)
ASSUME PedidoPorTipo == UnoPorTipo
===============================================================================
