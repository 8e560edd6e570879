-------------------------------- MODULE Recurso --------------------------------
(***************************************************************************)
(* One entry of manager.recursos[] (agente_c/src/resource_manager.c) under *)
(* the worker threads of the server: reserve_resource, release_resource    *)
(* and the two limpiar_colas_* functions, with the resource's mutex and    *)
(* the lock of the jobs table they are called under.                       *)
(*                                                                         *)
(* Every read and every write of available_amount is a step of its own, and*)
(* so is every node a walk over the waiting list visits, so that the mutual*)
(* exclusion is something the model can get wrong.  What a dequeue does to *)
(* the jobs table and the message it sends are left to the module Gestor;  *)
(* here it matters only that the table's lock is held meanwhile.           *)
(***************************************************************************)
EXTENDS Integers, Sequences, FiniteSets

CONSTANTS Hilos,         \* the worker threads of server_run
          Jobs,          \* job ids
          Conns,         \* connections a request may come from
          Total,         \* total_amount
          Montos,        \* amounts a RESERVE may ask for
          Devoluciones,  \* amounts a RELEASE may carry, whoever sends it
          MaxCola,       \* bound: requests queued or about to be
          Nadie          \* not a thread

Pedidos == [job : Jobs, amount : Montos, conn : Conns]

(* The arguments of a thread that runs no call. *)
SinPedido == [job |-> Nadie, amount |-> 0, conn |-> Nadie]

(***************************************************************************)
(* parse_job_request keeps only items with an amount above 0, so RESERVE   *)
(* carries nothing else; a RELEASE carries any amount, negative ones too.  *)
(***************************************************************************)
ASSUME Supuestos ==
  /\ Total \in Nat
  /\ Montos \subseteq Nat \ {0}
  /\ Devoluciones \subseteq Int
  /\ MaxCola \in Nat
  /\ Nadie \notin Hilos

VARIABLES available,   \* available_amount
          cola,        \* cola, top first
          mutex,       \* holder of the resource's mutex
          tabla,       \* holder of manager.tabla.lock
          pc,          \* where each thread is
          pedido,      \* arguments of the reserve_resource in progress
          monto,       \* argument `amount' of the release_resource in progress
          propia,      \* release_resource was called with take_lock
          leido,       \* value of available_amount the thread has in a register
          nodo,        \* position of `curr' in a queue_delete_by_* walk
          borrar,      \* what that walk deletes: a job's or a connection's requests
          prestado     \* history: units granted and not returned

vars == <<available, cola, mutex, tabla, pc, pedido, monto, propia, leido,
          nodo, borrar, prestado>>

Lugares == {"fuera", "reserve", "decide", "resta", "pide_tabla", "release",
            "valida", "suma", "atiende", "limpiar", "recorre", "unlock",
            "deja_tabla"}

(* The places between pthread_mutex_lock and pthread_mutex_unlock. *)
EnMutex == {"decide", "resta", "valida", "suma", "atiende", "recorre", "unlock"}

Criterios == [clave : {"job"}, valor : Jobs] \cup [clave : {"conn"}, valor : Conns]

SinCriterio == [clave |-> "ninguna", valor |-> Nadie]

Coincide(p, c) == IF c.clave = "job" THEN p.job = c.valor ELSE p.conn = c.valor

SinElemento(s, k) ==
  [i \in 1 .. Len(s) - 1 |-> IF i < k THEN s[i] ELSE s[i + 1]]

(* The types of the resource, of its locks and of the threads' locals.     *)
TypeOK ==
  /\ available \in Int
  /\ cola \in Seq(Pedidos)
  /\ mutex \in Hilos \cup {Nadie}
  /\ tabla \in Hilos \cup {Nadie}
  /\ pc \in [Hilos -> Lugares]
  /\ pedido \in [Hilos -> Pedidos \cup {SinPedido}]
  /\ monto \in [Hilos -> Int]
  /\ propia \in [Hilos -> BOOLEAN]
  /\ leido \in [Hilos -> Int]
  /\ nodo \in [Hilos -> Nat \ {0}]
  /\ borrar \in [Hilos -> Criterios \cup {SinCriterio}]
  /\ prestado \in Int

Init ==
  /\ available = Total
  /\ cola = << >>
  /\ mutex = Nadie
  /\ tabla = Nadie
  /\ pc = [h \in Hilos |-> "fuera"]
  /\ pedido = [h \in Hilos |-> SinPedido]
  /\ monto = [h \in Hilos |-> 0]
  /\ propia = [h \in Hilos |-> FALSE]
  /\ leido = [h \in Hilos |-> 0]
  /\ nodo = [h \in Hilos |-> 1]
  /\ borrar = [h \in Hilos |-> SinCriterio]
  /\ prestado = 0

--------------------------------------------------------------------------------
(* Handlers that keep the jobs table locked around their calls: JOB_REQUEST,   *)
(* GRANTED, DENIED, process_connection_ready.                                  *)

TomarTabla(h) ==
  /\ pc[h] = "fuera" /\ tabla = Nadie
  /\ tabla' = h
  /\ UNCHANGED <<available, cola, mutex, pc, pedido, monto, propia, leido, nodo,
                 borrar, prestado>>

DejarTabla(h) ==
  /\ pc[h] = "fuera" /\ tabla = h
  /\ tabla' = Nadie
  /\ UNCHANGED <<available, cola, mutex, pc, pedido, monto, propia, leido, nodo,
                 borrar, prestado>>

(* Mutant: the lock does not exclude. *)
LockSinExclusion(h, desde, hasta) ==
  /\ pc[h] = desde
  /\ mutex' = h
  /\ pc' = [pc EXCEPT ![h] = hasta]
  /\ UNCHANGED <<available, cola, tabla, pedido, monto, propia, leido, nodo,
                 borrar, prestado>>

(* pthread_mutex_lock(&manager.recursos[tipo].mutex) *)
Lock(h, desde, hasta) ==
  /\ pc[h] = desde /\ mutex = Nadie
  /\ mutex' = h
  /\ pc' = [pc EXCEPT ![h] = hasta]
  /\ UNCHANGED <<available, cola, tabla, pedido, monto, propia, leido, nodo,
                 borrar, prestado>>

(* The unlock at every exit; the arguments and the locals die with the call. *)
Unlock(h) ==
  /\ pc[h] = "unlock"
  /\ mutex' = Nadie
  /\ pc' = [pc EXCEPT ![h] = IF propia[h] THEN "deja_tabla" ELSE "fuera"]
  /\ pedido' = [pedido EXCEPT ![h] = SinPedido]
  /\ monto' = [monto EXCEPT ![h] = 0]
  /\ leido' = [leido EXCEPT ![h] = 0]
  /\ nodo' = [nodo EXCEPT ![h] = 1]
  /\ borrar' = [borrar EXCEPT ![h] = SinCriterio]
  /\ UNCHANGED <<available, cola, tabla, propia, prestado>>

UnlockTabla(h) ==
  /\ pc[h] = "deja_tabla"
  /\ tabla' = Nadie
  /\ propia' = [propia EXCEPT ![h] = FALSE]
  /\ pc' = [pc EXCEPT ![h] = "fuera"]
  /\ UNCHANGED <<available, cola, mutex, pedido, monto, leido, nodo, borrar,
                 prestado>>

--------------------------------------------------------------------------------
(* reserve_resource *)

Reserve(h, p) ==
  /\ pc[h] = "fuera"
  /\ Len(cola) + Cardinality({x \in Hilos : pc[x] \in {"reserve", "decide"}}) < MaxCola
  /\ pedido' = [pedido EXCEPT ![h] = p]
  /\ pc' = [pc EXCEPT ![h] = "reserve"]
  /\ UNCHANGED <<available, cola, mutex, tabla, monto, propia, leido, nodo,
                 borrar, prestado>>

ReserveLock(h) == Lock(h, "reserve", "decide")

(* available_amount >= amount: it is read here and written in Resta. *)
ReserveOtorga(h) ==
  /\ pc[h] = "decide"
  /\ available >= pedido[h].amount
  /\ leido' = [leido EXCEPT ![h] = available]
  /\ pc' = [pc EXCEPT ![h] = "resta"]
  /\ UNCHANGED <<available, cola, mutex, tabla, pedido, monto, propia, nodo,
                 borrar, prestado>>

ReserveResta(h) ==
  /\ pc[h] = "resta"
  /\ available' = leido[h] - pedido[h].amount
  /\ prestado' = prestado + pedido[h].amount
  /\ pc' = [pc EXCEPT ![h] = "unlock"]
  /\ UNCHANGED <<cola, mutex, tabla, pedido, monto, propia, leido, nodo, borrar>>

ReserveNiega(h) ==
  /\ pc[h] = "decide"
  /\ available < pedido[h].amount /\ Total < pedido[h].amount
  /\ pc' = [pc EXCEPT ![h] = "unlock"]
  /\ UNCHANGED <<available, cola, mutex, tabla, pedido, monto, propia, leido,
                 nodo, borrar, prestado>>

ReserveEncola(h) ==
  /\ pc[h] = "decide"
  /\ available < pedido[h].amount /\ Total >= pedido[h].amount
  /\ cola' = Append(cola, pedido[h])
  /\ pc' = [pc EXCEPT ![h] = "unlock"]
  /\ UNCHANGED <<available, mutex, tabla, pedido, monto, propia, leido, nodo,
                 borrar, prestado>>

--------------------------------------------------------------------------------
(* release_resource: called with take_lock by a thread that does not hold the  *)
(* table's lock, and without it by one that does.                              *)

Release(h, m) ==
  /\ pc[h] = "fuera"
  /\ monto' = [monto EXCEPT ![h] = m]
  /\ pc' = [pc EXCEPT ![h] = IF tabla = h THEN "release" ELSE "pide_tabla"]
  /\ UNCHANGED <<available, cola, mutex, tabla, pedido, propia, leido, nodo,
                 borrar, prestado>>

ReleaseTabla(h) ==
  /\ pc[h] = "pide_tabla" /\ tabla = Nadie
  /\ tabla' = h
  /\ propia' = [propia EXCEPT ![h] = TRUE]
  /\ pc' = [pc EXCEPT ![h] = "release"]
  /\ UNCHANGED <<available, cola, mutex, pedido, monto, leido, nodo, borrar,
                 prestado>>

ReleaseLock(h) == Lock(h, "release", "valida")

(* Mutant: only the sign of the amount is checked. *)
ValidaSinTope(a, m) == m >= 0

(* The guard of release_resource on what the caller gives back. *)
Valida(a, m) == m >= 0 /\ a + m <= Total

ReleaseAcepta(h) ==
  /\ pc[h] = "valida"
  /\ Valida(available, monto[h])
  /\ leido' = [leido EXCEPT ![h] = available]
  /\ pc' = [pc EXCEPT ![h] = "suma"]
  /\ UNCHANGED <<available, cola, mutex, tabla, pedido, monto, propia, nodo,
                 borrar, prestado>>

(* Mutant: the early return of an invalid release forgets the mutex. *)
ReleaseIgnoraSinUnlock(h) ==
  /\ pc[h] = "valida"
  /\ ~Valida(available, monto[h])
  /\ pc' = [pc EXCEPT ![h] = IF propia[h] THEN "deja_tabla" ELSE "fuera"]
  /\ UNCHANGED <<available, cola, mutex, tabla, pedido, monto, propia, leido,
                 nodo, borrar, prestado>>

ReleaseIgnora(h) ==
  /\ pc[h] = "valida"
  /\ ~Valida(available, monto[h])
  /\ pc' = [pc EXCEPT ![h] = "unlock"]
  /\ UNCHANGED <<available, cola, mutex, tabla, pedido, monto, propia, leido,
                 nodo, borrar, prestado>>

ReleaseSuma(h) ==
  /\ pc[h] = "suma"
  /\ available' = leido[h] + monto[h]
  /\ prestado' = prestado - monto[h]
  /\ pc' = [pc EXCEPT ![h] = "atiende"]
  /\ UNCHANGED <<cola, mutex, tabla, pedido, monto, propia, leido, nodo, borrar>>

(* Mutant: off by one, a head that fits exactly is not served. *)
CabeSobrado == cola # << >> /\ available > Head(cola).amount

(* The condition of the while loop: there is a head and it fits. *)
CabeElPrimero == cola # << >> /\ available >= Head(cola).amount

(* One turn of the loop: queue_dequeue, the subtraction, the table's update. *)
ReleaseDesencola(h) ==
  /\ pc[h] = "atiende"
  /\ CabeElPrimero
  /\ cola' = Tail(cola)
  /\ available' = available - Head(cola).amount
  /\ prestado' = prestado + Head(cola).amount
  /\ UNCHANGED <<mutex, tabla, pc, pedido, monto, propia, leido, nodo, borrar>>

ReleaseTermina(h) ==
  /\ pc[h] = "atiende"
  /\ ~CabeElPrimero
  /\ pc' = [pc EXCEPT ![h] = "unlock"]
  /\ UNCHANGED <<available, cola, mutex, tabla, pedido, monto, propia, leido,
                 nodo, borrar, prestado>>

--------------------------------------------------------------------------------
(* limpiar_colas_por_id and limpiar_colas_por_conn: the walks of               *)
(* queue_delete_by_job_id and queue_delete_by_conn.                            *)

(* Mutant: the walk starts before the first node. *)
LimpiarDesdeCero(h, c) ==
  /\ pc[h] = "fuera"
  /\ borrar' = [borrar EXCEPT ![h] = c]
  /\ nodo' = [nodo EXCEPT ![h] = 0]
  /\ pc' = [pc EXCEPT ![h] = "limpiar"]
  /\ UNCHANGED <<available, cola, mutex, tabla, pedido, monto, propia, leido,
                 prestado>>

Limpiar(h, c) ==
  /\ pc[h] = "fuera"
  /\ borrar' = [borrar EXCEPT ![h] = c]
  /\ pc' = [pc EXCEPT ![h] = "limpiar"]
  /\ UNCHANGED <<available, cola, mutex, tabla, pedido, monto, propia, leido,
                 nodo, prestado>>

LimpiarLock(h) == Lock(h, "limpiar", "recorre")

LimpiarBorra(h) ==
  /\ pc[h] = "recorre"
  /\ nodo[h] <= Len(cola) /\ Coincide(cola[nodo[h]], borrar[h])
  /\ cola' = SinElemento(cola, nodo[h])
  /\ UNCHANGED <<available, mutex, tabla, pc, pedido, monto, propia, leido, nodo,
                 borrar, prestado>>

LimpiarSigue(h) ==
  /\ pc[h] = "recorre"
  /\ nodo[h] <= Len(cola) /\ ~Coincide(cola[nodo[h]], borrar[h])
  /\ nodo' = [nodo EXCEPT ![h] = @ + 1]
  /\ UNCHANGED <<available, cola, mutex, tabla, pc, pedido, monto, propia, leido,
                 borrar, prestado>>

LimpiarTermina(h) ==
  /\ pc[h] = "recorre"
  /\ nodo[h] > Len(cola)
  /\ pc' = [pc EXCEPT ![h] = "unlock"]
  /\ UNCHANGED <<available, cola, mutex, tabla, pedido, monto, propia, leido,
                 nodo, borrar, prestado>>

--------------------------------------------------------------------------------
(* A thread inside one of the three functions goes on with it. *)
Paso(h) ==
  \/ Unlock(h) \/ UnlockTabla(h)
  \/ ReserveLock(h) \/ ReserveOtorga(h) \/ ReserveResta(h)
  \/ ReserveNiega(h) \/ ReserveEncola(h)
  \/ ReleaseTabla(h) \/ ReleaseLock(h) \/ ReleaseAcepta(h) \/ ReleaseIgnora(h)
  \/ ReleaseSuma(h) \/ ReleaseDesencola(h) \/ ReleaseTermina(h)
  \/ LimpiarLock(h) \/ LimpiarBorra(h) \/ LimpiarSigue(h) \/ LimpiarTermina(h)

(* A handler calls one of them. *)
Llamada(h) ==
  \/ TomarTabla(h) \/ DejarTabla(h)
  \/ \E p \in Pedidos : Reserve(h, p)
  \/ \E m \in Devoluciones : Release(h, m)
  \/ \E c \in Criterios : Limpiar(h, c)

Next == \E h \in Hilos : Paso(h) \/ Llamada(h)

Spec == Init /\ [][Next]_vars

(* The operating system runs every thread that can run. *)
FairSpec == Spec /\ \A h \in Hilos : WF_vars(Paso(h))

--------------------------------------------------------------------------------
(***************************************************************************)
(* The pool is conserved: whatever amounts the RELEASE messages carry and  *)
(* however the threads interleave, the units available and the units lent  *)
(* always add up to total_amount and neither is negative (the guard of     *)
(* release_resource and the resource's mutex).                             *)
(***************************************************************************)
Conservacion ==
  /\ available \in 0 .. Total
  /\ available + prestado = Total

(***************************************************************************)
(* No lost wake-up: while a request waits and nobody is inside the         *)
(* critical section, some unit is lent, so a RELEASE that will look at the *)
(* queue is still to come (reserve_resource queues only what exceeds what  *)
(* is available; the loop of release_resource stops only at a head that    *)
(* does not fit; a purge leaves the pool alone).                           *)
(***************************************************************************)
SinDespertarPerdido ==
  mutex = Nadie /\ cola # << >> => prestado > 0

(***************************************************************************)
(* When a walk of queue_delete_by_* reaches the end of the list, no request*)
(* of the purged job or connection is left in the queue, wherever it stood *)
(* and however many there were, two neighbours included.                   *)
(***************************************************************************)
LimpiezaCompleta ==
  \A h \in Hilos : pc[h] = "recorre" /\ nodo[h] > Len(cola) =>
    \A i \in 1 .. Len(cola) : ~Coincide(cola[i], borrar[h])

(***************************************************************************)
(* The loop of release_resource updates the jobs table with take_lock =    *)
(* false: whichever way it was called, the calling thread holds the        *)
(* table's lock there.                                                     *)
(***************************************************************************)
TablaProtegida == \A h \in Hilos : pc[h] = "atiende" => tabla = h

(***************************************************************************)
(* README.md lists "Gestión de recursos locales con colas FIFO": a request *)
(* is not served while an older one waits.  reserve_resource does not look *)
(* at the queue, so a small request overtakes the ones that wait.          *)
(***************************************************************************)
SinAdelantamiento ==
  [][cola # << >> /\ available' < available => cola' = Tail(cola)]_vars

(***************************************************************************)
(* Whoever holds the resource's mutex lets it go: the loop of              *)
(* release_resource and the walks of queue_delete_by_* end.                *)
(***************************************************************************)
MutexSeLibera == []<>(mutex = Nadie)

(***************************************************************************)
(* The threads, locks and register copies implement RecursoAbs: in         *)
(* particular nothing comes between a return and the grants it allows.     *)
(***************************************************************************)
Abstracto == INSTANCE RecursoAbs WITH
  libre <- available, espera <- cola,
  sirviendo <- \E h \in Hilos : pc[h] = "atiende"

ImplementaAbs == Abstracto!Spec
================================================================================
