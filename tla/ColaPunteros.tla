------------------------------ MODULE ColaPunteros ------------------------------
(***************************************************************************)
(* The waiting queue as pending_request.c builds it: cells on the heap     *)
(* linked by sig, with pointers to both ends and the total amount.  Every  *)
(* operation runs under the mutex of its resource (Recurso), so each is one*)
(* step here; a deletion is the fold of its loop body over the cells.      *)
(* queue_destroy only runs when the agent ends, and no operation follows.  *)
(***************************************************************************)
EXTENDS Integers, Sequences, SequencesExt, FiniteSetsExt

CONSTANTS Celdas,    \* the heap: bound on the requests queued at a time
          Jobs, Conns, Montos,
          Maximo,    \* max_amount, which queue_enqueue is given
          NULL

Pedidos == [job : Jobs, amount : Montos, conn : Conns]

ASSUME HeapFinito ==
  /\ IsFiniteSet(Celdas) /\ Montos \subseteq Nat /\ Maximo \in Nat
  /\ NULL \notin Celdas /\ NULL \notin Pedidos

VARIABLES mem,      \* mem[c]: the request in cell c, or NULL when it is free
          sig,      \* sig[c]: the next cell
          top, bottom, amount

vars == <<mem, sig, top, bottom, amount>>

(* queue_init *)
Init ==
  /\ mem = [c \in Celdas |-> NULL] /\ sig = [c \in Celdas |-> NULL]
  /\ top = NULL /\ bottom = NULL /\ amount = 0

(* The cells from t on along s, at most as many as the heap has. *)
Desde(t, s) ==
  LET sigue(l) == IF l = << >> \/ s[Last(l)] = NULL THEN l ELSE Append(l, s[Last(l)])
  IN  FoldLeft(LAMBDA l, k : sigue(l), IF t = NULL THEN << >> ELSE <<t>>,
               [k \in 1 .. Cardinality(Celdas) |-> k])

Lista == Desde(top, sig)

queue_is_empty == top = NULL /\ bottom = NULL

-------------------------------------------------------------------------------
(* malloc takes any free cell; max_amount is not looked at. *)
queue_enqueue(p) ==
  \E c \in Celdas :
    /\ mem[c] = NULL
    /\ mem' = [mem EXCEPT ![c] = p]
    /\ sig' = IF queue_is_empty THEN [sig EXCEPT ![c] = NULL]
              ELSE [sig EXCEPT ![c] = NULL, ![bottom] = c]
    /\ top' = IF queue_is_empty THEN c ELSE top
    /\ bottom' = c
    /\ amount' = amount + p.amount

(* Mutant: bottom keeps pointing to the cell that was taken out. *)
DesencolarSinFondo ==
  /\ ~queue_is_empty
  /\ top' = sig[top]
  /\ sig' = [sig EXCEPT ![top] = NULL]
  /\ amount' = amount - mem[top].amount
  /\ mem' = [mem EXCEPT ![top] = NULL]
  /\ UNCHANGED bottom

(* The caller frees the cell. *)
queue_dequeue ==
  /\ ~queue_is_empty
  /\ top' = sig[top]
  /\ bottom' = IF sig[top] = NULL THEN NULL ELSE bottom
  /\ sig' = [sig EXCEPT ![top] = NULL]
  /\ amount' = amount - mem[top].amount
  /\ mem' = [mem EXCEPT ![top] = NULL]

(* Mutant: the deletion of the first cell does not move top. *)
PasoSinTope(q, c, fuera) ==
  IF c \notin fuera THEN [q EXCEPT !.prev = c]
  ELSE [q EXCEPT !.sig = IF q.prev = NULL THEN @ ELSE [@ EXCEPT ![q.prev] = q.sig[c]],
                 !.bottom = IF @ = c THEN q.prev ELSE @,
                 !.amount = @ - q.mem[c].amount,
                 !.mem = [@ EXCEPT ![c] = NULL]]

(* The body of the deletion loops at cell c, the cells to go being fuera:  *)
(* unlink it and free it, or make it the previous one.                     *)
paso_delete(q, c, fuera) ==
  IF c \notin fuera THEN [q EXCEPT !.prev = c]
  ELSE [q EXCEPT !.top = IF q.prev = NULL THEN q.sig[c] ELSE @,
                 !.sig = IF q.prev = NULL THEN @ ELSE [@ EXCEPT ![q.prev] = q.sig[c]],
                 !.bottom = IF @ = c THEN q.prev ELSE @,
                 !.amount = @ - q.mem[c].amount,
                 !.mem = [@ EXCEPT ![c] = NULL]]

(* The whole loop. *)
borrado(fuera) ==
  FoldLeft(LAMBDA x, c : paso_delete(x, c, fuera),
           [mem |-> mem, sig |-> sig, top |-> top, bottom |-> bottom,
            amount |-> amount, prev |-> NULL], Lista)

queue_delete(fuera) ==
  LET q == borrado(fuera)
  IN  mem' = q.mem /\ sig' = q.sig /\ top' = q.top /\ bottom' = q.bottom /\ amount' = q.amount

queue_delete_by_conn(conn) == queue_delete({c \in Celdas : mem[c] # NULL /\ mem[c].conn = conn})

queue_delete_by_job_id(job) == queue_delete({c \in Celdas : mem[c] # NULL /\ mem[c].job = job})

Next ==
  \/ \E p \in Pedidos : queue_enqueue(p)
  \/ queue_dequeue
  \/ \E conn \in Conns : queue_delete_by_conn(conn)
  \/ \E job \in Jobs : queue_delete_by_job_id(job)

Spec == Init /\ [][Next]_vars

-------------------------------------------------------------------------------
(* Pointers name cells or NULL, and a cell in use holds a request; the     *)
(* queue's amount never falls below 0.                                     *)
TypeOK ==
  /\ mem \in [Celdas -> Pedidos \cup {NULL}] /\ sig \in [Celdas -> Celdas \cup {NULL}]
  /\ top \in Celdas \cup {NULL} /\ bottom \in Celdas \cup {NULL} /\ amount \in Nat

(* What the cells of l ask for together. *)
MontoDe(l) == FoldLeft(LAMBDA s, c : s + mem[c].amount, 0, l)

(***************************************************************************)
(* The list is well formed after every operation: bottom is its last cell, *)
(* or NULL like top when it is empty (queue_is_empty asks for both, and    *)
(* queue_enqueue writes through bottom), it has no cycle, and its cells are*)
(* exactly the allocated ones: none leaks and none is used after free.     *)
(* amount is "Cantidad total de recurso a reservar de liberarse toda la    *)
(* cola", the sum of the requests queued.                                  *)
(***************************************************************************)
ListaBienFormada ==
  /\ IF Lista = << >> THEN bottom = NULL ELSE bottom = Last(Lista) /\ sig[bottom] = NULL
  /\ Len(Lista) <= Cardinality(Celdas)
  /\ ToSet(Lista) = {c \in Celdas : mem[c] # NULL}
  /\ amount = MontoDe(Lista)

Abs == INSTANCE ColaAbs WITH cola <- [i \in DOMAIN Lista |-> mem[Lista[i]]]

(***************************************************************************)
(* The linked list is the FIFO of ColaAbs, its cells read in order.        *)
(***************************************************************************)
EsCola == Abs!Spec

(***************************************************************************)
(* pending_request.h: "Encola un elemento si es que no supera la cantidad  *)
(* máxima": the requests queued never ask for more than max_amount.        *)
(***************************************************************************)
NoSuperaElMaximo == amount <= Maximo
===============================================================================
