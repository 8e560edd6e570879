------------------------------ MODULE RecursoAbs ------------------------------
(***************************************************************************)
(* What one entry of manager.recursos[] promises to the handlers that use  *)
(* it, with no threads and no locks: a pool of `libre' units and a queue   *)
(* of requests.  A request is granted at once, queued, or refused; a       *)
(* return adds units and opens a serving round, during which nothing but   *)
(* serving the head of the queue may happen; the round ends only when the  *)
(* head no longer fits.  A waiting request may be withdrawn.               *)
(***************************************************************************)
EXTENDS Integers, Sequences

CONSTANTS Total,     \* total_amount of the resource
          Pedidos    \* the requests: records with fields job, amount, conn

VARIABLES libre,     \* units nobody holds
          espera,    \* the requests waiting, oldest first
          sirviendo  \* a serving round is open

abs == <<libre, espera, sirviendo>>

(* The sequence without its k-th element, the others in their order. *)
SinElemento(s, k) ==
  [i \in 1 .. Len(s) - 1 |-> IF i < k THEN s[i] ELSE s[i + 1]]

Init == libre = Total /\ espera = << >> /\ sirviendo = FALSE

Otorgar(p) ==
  /\ ~sirviendo
  /\ p.amount <= libre
  /\ libre' = libre - p.amount
  /\ UNCHANGED <<espera, sirviendo>>

Encolar(p) ==
  /\ ~sirviendo
  /\ libre < p.amount /\ p.amount <= Total
  /\ espera' = Append(espera, p)
  /\ UNCHANGED <<libre, sirviendo>>

Devolver(m) ==
  /\ ~sirviendo
  /\ libre + m <= Total
  /\ libre' = libre + m
  /\ sirviendo' = TRUE
  /\ UNCHANGED espera

Servir ==
  /\ sirviendo
  /\ espera # << >>
  /\ Head(espera).amount <= libre
  /\ libre' = libre - Head(espera).amount
  /\ espera' = Tail(espera)
  /\ UNCHANGED sirviendo

FinDeRonda ==
  /\ sirviendo
  /\ espera = << >> \/ libre < Head(espera).amount
  /\ sirviendo' = FALSE
  /\ UNCHANGED <<libre, espera>>

Retirar(k) ==
  /\ ~sirviendo
  /\ espera' = SinElemento(espera, k)
  /\ UNCHANGED <<libre, sirviendo>>

Next ==
  \/ \E p \in Pedidos : Otorgar(p) \/ Encolar(p)
  \/ \E m \in 0 .. Total : Devolver(m)
  \/ Servir
  \/ FinDeRonda
  \/ \E k \in 1 .. Len(espera) : Retirar(k)

Spec == Init /\ [][Next]_abs
===============================================================================
