------------------------------- MODULE MCCluster -------------------------------
(* Instances of Cluster for TLC: who asks for what. *)
EXTENDS Cluster

CONSTANTS A, B, C, cpu, mem, j1, j2, j3, j4, j5, bCortada

Pide1(ip, tipo, monto) == [ip |-> ip, tipo |-> tipo, monto |-> monto]

DosNodos == {A, B}
TresNodos == {A, B, C}
TodosVisibles == {Nodos}
AVecesVisibles == {Nodos, {}}

(* Addresses of up to 14 characters, and B's of 15. *)
Enteras == [n \in Nodos |-> n]
BLarga == [n \in Nodos |-> IF n = B THEN bCortada ELSE n]

--------------------------------------------------------------------------------
(* j1 opens the connection from A to B; in A's second burst j2 asks B for  *)
(* two types over it and j4 waits behind j2 at A, or holds A's unit, when B*)
(* denies it; j3 competes at B and j5, from C, asks for all of B's cpu.    *)
(* They queue behind each other and never in a circle: nobody who holds    *)
(* something of B waits for anything else but B's.                         *)
JobsSinCiclo == {j1, j2, j3, j4, j5}
PedidoSinCiclo ==
  (j1 :> <<Pide1(B, cpu, 1)>>) @@
  (j2 :> <<Pide1(A, cpu, 1), Pide1(B, cpu, 1), Pide1(B, mem, 1)>>) @@
  (j3 :> <<Pide1(B, mem, 1)>>) @@
  (j4 :> <<Pide1(A, cpu, 1), Pide1(B, mem, 2)>>) @@
  (j5 :> <<Pide1(B, cpu, 2)>>)
RafagasSinCiclo ==
  (A :> <<<<j1>>, <<j2, j4>>>>) @@ (B :> <<<<j3>>>>) @@ (C :> <<<<j5>>>>)
TotalSinCiclo ==
  [n \in Nodos |-> [t \in Tipos |-> IF n = B /\ t = cpu THEN 2 ELSE 1]]

--------------------------------------------------------------------------------
(* Two jobs of A and one of B over two agents, each asking each agent for  *)
(* one thing, of one type or of different ones.  The other agent may have  *)
(* dropped out of the nodes table.                                         *)
JobsCruzados == {j1, j2, j3}
PedidoCruzados ==
  (j1 :> <<Pide1(A, cpu, 1), Pide1(B, cpu, 1)>>) @@
  (j2 :> <<Pide1(B, cpu, 1)>>) @@
  (j3 :> <<Pide1(A, cpu, 1), Pide1(B, cpu, 1)>>)
PedidoMezclados ==
  (j1 :> <<Pide1(A, cpu, 1), Pide1(B, mem, 1)>>) @@
  (j2 :> <<Pide1(B, cpu, 1)>>) @@
  (j3 :> <<Pide1(A, cpu, 1), Pide1(B, mem, 1)>>)
RafagasCruzados == (A :> <<<<j1, j2>>>>) @@ (B :> <<<<j3>>>>)
TotalUno == [n \in Nodos |-> [t \in Tipos |-> 1]]

--------------------------------------------------------------------------------
(* One job that asks another agent for two types at once, over connections *)
(* that are still being made.                                              *)
JobsDosTipos == {j1}
PedidoDosTipos == (j1 :> <<Pide1(B, cpu, 1), Pide1(B, mem, 1)>>)
RafagasDosTipos == (A :> <<<<j1>>>>) @@ (B :> << >>)

(* The same over a connection that j1 has opened: j2 asks B for two types, *)
(* j4 for one of them, and j3 of B competes for the other.                 *)
JobsYaConectado == {j1, j2, j3, j4}
PedidoYaConectado ==
  (j1 :> <<Pide1(B, cpu, 1)>>) @@
  (j2 :> <<Pide1(B, cpu, 1), Pide1(B, mem, 1)>>) @@
  (j3 :> <<Pide1(B, mem, 1)>>) @@
  (j4 :> <<Pide1(B, cpu, 1)>>)
RafagasYaConectado == (A :> <<<<j1>>, <<j2, j4>>>>) @@ (B :> <<<<j3>>>>)

--------------------------------------------------------------------------------
(* Two bursts of A that ask B for one unit each. *)
JobsSeguidos == {j1, j2}
PedidoSeguidos == (j1 :> <<Pide1(B, cpu, 1)>>) @@ (j2 :> <<Pide1(B, cpu, 1)>>)
RafagasSeguidos == (A :> <<<<j1>>, <<j2>>>>) @@ (B :> << >>)
================================================================================
