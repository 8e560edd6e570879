-------------------------------- MODULE ColaAbs --------------------------------
(***************************************************************************)
(* What the waiting queue of a resource promises (pending_request.h): a    *)
(* FIFO of requests from which those of a job or of a connection can be    *)
(* taken out, the others keeping their order.                              *)
(***************************************************************************)
EXTENDS Sequences, SequencesExt

CONSTANT Pedidos   \* requests: [job, amount, conn]

VARIABLE cola

Init == cola = << >>

enqueue(p) == cola' = Append(cola, p)

dequeue == cola # << >> /\ cola' = Tail(cola)

(* The requests that are not in fuera, in their order. *)
Sin(fuera) == FoldLeft(LAMBDA q, p : IF p \in fuera THEN q ELSE Append(q, p), << >>, cola)

delete_by_conn(c) == cola' = Sin({p \in Pedidos : p.conn = c})

delete_by_job_id(j) == cola' = Sin({p \in Pedidos : p.job = j})

Next ==
  \/ \E p \in Pedidos : enqueue(p) \/ delete_by_conn(p.conn) \/ delete_by_job_id(p.job)
  \/ dequeue

Spec == Init /\ [][Next]_cola
===============================================================================
