----------------------------- MODULE RecursoProofs -----------------------------
(***************************************************************************)
(* Proofs about Recurso, for any number of threads, jobs, connections and  *)
(* units.                                                                  *)
(***************************************************************************)
EXTENDS Recurso, TLAPS

(* The mutex is held by exactly the thread between its lock and its unlock. *)
Exclusion == \A h \in Hilos : pc[h] \in EnMutex <=> mutex = h

(* A thread that reserves has a request, and only a running walk has moved. *)
Marco ==
  \A h \in Hilos :
    /\ pc[h] \in {"reserve", "decide", "resta"} => pedido[h] \in Pedidos
    /\ pc[h] \notin {"recorre", "unlock"} => nodo[h] = 1

(* A register copy is current, and what was tested on it still holds. *)
Registros ==
  \A h \in Hilos :
    /\ pc[h] = "resta" => leido[h] = available /\ pedido[h].amount <= available
    /\ pc[h] = "suma" => leido[h] = available /\ Valida(available, monto[h])

(* Who holds the jobs table's lock, and on whose behalf. *)
Tablas ==
  \A h \in Hilos :
    /\ pc[h] \in {"release", "valida", "suma", "atiende"} => tabla = h
    /\ propia[h] => /\ tabla = h
                    /\ pc[h] \in {"release", "valida", "suma", "atiende",
                                  "unlock", "deja_tabla"}
    /\ pc[h] = "deja_tabla" => propia[h]

(* No request that could never be served is in the queue. *)
Servibles == \A i \in 1 .. Len(cola) : cola[i].amount <= Total

(* Outside a serving round, a waiting request means that a unit is lent. *)
Despertar ==
  cola # << >> /\ (\A h \in Hilos : pc[h] # "atiende") => available < Total

(* A walk leaves nothing to delete behind it. *)
Recorrido ==
  \A h \in Hilos : pc[h] = "recorre" =>
    \A i \in 1 .. Len(cola) : i < nodo[h] => ~Coincide(cola[i], borrar[h])

IInv ==
  /\ TypeOK /\ Exclusion /\ Marco /\ Registros /\ Tablas
  /\ Conservacion /\ Servibles /\ Despertar /\ Recorrido
--------------------------------------------------------------------------------
(* Deleting the k-th node of the list leaves a list of its other nodes. *)
LEMMA SinElementoTipo ==
  ASSUME NEW S, NEW s \in Seq(S), NEW k \in 1 .. Len(s)
  PROVE  /\ Len(s) \in Nat \ {0}
         /\ SinElemento(s, k) \in Seq(S)
         /\ Len(SinElemento(s, k)) = Len(s) - 1
         /\ \A i \in 1 .. Len(s) - 1 :
              SinElemento(s, k)[i] = IF i < k THEN s[i] ELSE s[i + 1]
  <1>1. Len(s) \in Nat \ {0}
    OBVIOUS
  <1> QED
    BY <1>1 DEF SinElemento

(* The head of a non-empty list and the list without it. *)
LEMMA ColaCabeza ==
  ASSUME NEW S, NEW s \in Seq(S), s # << >>
  PROVE  /\ Len(s) \in Nat \ {0}
         /\ Head(s) = s[1] /\ Head(s) \in S
         /\ Tail(s) \in Seq(S) /\ Len(Tail(s)) = Len(s) - 1
         /\ \A i \in 1 .. Len(s) - 1 : Tail(s)[i] = s[i + 1]
  OBVIOUS

(* Every request asks for something. *)
LEMMA MontoDePedido ==
  ASSUME NEW p \in Pedidos
  PROVE  p.amount \in Nat \ {0}
  BY Supuestos DEF Pedidos

(* The program starts in a state that satisfies the inductive invariant. *)
LEMMA Inicio == Init => IInv
  <1> SUFFICES ASSUME Init PROVE IInv
    OBVIOUS
  <1> USE Supuestos DEF Init
  <1>1. TypeOK
    BY DEF TypeOK, Lugares, SinPedido, SinCriterio
  <1>2. Exclusion /\ Marco /\ Registros /\ Tablas
    BY DEF Exclusion, Marco, Registros, Tablas, EnMutex
  <1>3. Conservacion /\ Servibles /\ Despertar /\ Recorrido
    BY DEF Conservacion, Servibles, Despertar, Recorrido
  <1> QED
    BY <1>1, <1>2, <1>3 DEF IInv

(* Each step of each thread preserves the inductive invariant. *)
LEMMA Induccion == IInv /\ [Next]_vars => IInv'
  <1> SUFFICES ASSUME IInv, [Next]_vars PROVE IInv'
    OBVIOUS
  <1> USE Supuestos DEF IInv
  <1>1. ASSUME NEW h \in Hilos, TomarTabla(h) PROVE IInv'
    <2> USE <1>1 DEF TomarTabla
    <2>1. TypeOK' /\ Exclusion' /\ Marco' /\ Tablas'
      BY DEF TypeOK, Lugares, EnMutex, Exclusion, Marco, Tablas
    <2>2. Registros' /\ Conservacion' /\ Servibles' /\ Despertar' /\ Recorrido'
      BY DEF TypeOK, Registros, Valida, Conservacion, Servibles, Despertar, Recorrido
    <2> QED
      BY <2>1, <2>2
  <1>2. ASSUME NEW h \in Hilos, DejarTabla(h) PROVE IInv'
    <2> USE <1>2 DEF DejarTabla
    <2>1. TypeOK' /\ Exclusion' /\ Marco' /\ Tablas'
      BY DEF TypeOK, Lugares, EnMutex, Exclusion, Marco, Tablas
    <2>2. Registros' /\ Conservacion' /\ Servibles' /\ Despertar' /\ Recorrido'
      BY DEF TypeOK, Registros, Valida, Conservacion, Servibles, Despertar, Recorrido
    <2> QED
      BY <2>1, <2>2
  <1>3. ASSUME NEW h \in Hilos, Unlock(h) PROVE IInv'
    <2> USE <1>3 DEF Unlock
    <2>1. TypeOK' /\ Exclusion' /\ Marco' /\ Tablas'
      BY DEF TypeOK, Lugares, EnMutex, Exclusion, Marco, Tablas
    <2>2. Registros' /\ Conservacion' /\ Servibles' /\ Despertar' /\ Recorrido'
      BY DEF TypeOK, Registros, Valida, Conservacion, Servibles, Despertar, Recorrido
    <2> QED
      BY <2>1, <2>2
  <1>4. ASSUME NEW h \in Hilos, UnlockTabla(h) PROVE IInv'
    <2> USE <1>4 DEF UnlockTabla
    <2>1. TypeOK' /\ Exclusion' /\ Marco' /\ Tablas'
      BY DEF TypeOK, Lugares, EnMutex, Exclusion, Marco, Tablas
    <2>2. Registros' /\ Conservacion' /\ Servibles' /\ Despertar' /\ Recorrido'
      BY DEF TypeOK, Registros, Valida, Conservacion, Servibles, Despertar, Recorrido
    <2> QED
      BY <2>1, <2>2
  <1>5. ASSUME NEW h \in Hilos, NEW p \in Pedidos, Reserve(h, p) PROVE IInv'
    <2> USE <1>5 DEF Reserve
    <2>1. TypeOK' /\ Exclusion' /\ Marco' /\ Tablas'
      BY DEF TypeOK, Lugares, EnMutex, Exclusion, Marco, Tablas
    <2>2. Registros' /\ Conservacion' /\ Servibles' /\ Despertar' /\ Recorrido'
      BY DEF TypeOK, Registros, Valida, Conservacion, Servibles, Despertar, Recorrido
    <2> QED
      BY <2>1, <2>2
  <1>6. ASSUME NEW h \in Hilos, ReserveLock(h) PROVE IInv'
    <2> USE <1>6 DEF ReserveLock, Lock
    <2>1. TypeOK' /\ Exclusion' /\ Marco' /\ Tablas'
      BY DEF TypeOK, Lugares, EnMutex, Exclusion, Marco, Tablas
    <2>2. Registros' /\ Conservacion' /\ Servibles' /\ Despertar' /\ Recorrido'
      BY DEF TypeOK, Registros, Valida, Conservacion, Servibles, Despertar, Recorrido
    <2> QED
      BY <2>1, <2>2
  <1>7. ASSUME NEW h \in Hilos, ReserveOtorga(h) PROVE IInv'
    <2> USE <1>7 DEF ReserveOtorga
    <2>1. TypeOK' /\ Exclusion' /\ Marco' /\ Tablas'
      BY DEF TypeOK, Lugares, EnMutex, Exclusion, Marco, Tablas
    <2>2. Registros' /\ Conservacion' /\ Servibles' /\ Despertar' /\ Recorrido'
      BY DEF TypeOK, Registros, Valida, Conservacion, Servibles, Despertar, Recorrido
    <2> QED
      BY <2>1, <2>2
  <1>8. ASSUME NEW h \in Hilos, ReserveResta(h) PROVE IInv'
    <2> USE <1>8 DEF ReserveResta
    <2>1. PICK m \in Nat \ {0} : m = pedido[h].amount
      BY DEF Marco, Pedidos
    <2>2. available' = available - m /\ prestado' = prestado + m /\ m <= available
      BY <2>1 DEF Registros
    <2>3. available \in 0 .. Total /\ available + prestado = Total
      BY DEF Conservacion
    <2>4. prestado \in Int
      BY DEF TypeOK
    <2>5. Conservacion' /\ available' < Total
      <3> HIDE <1>8 DEF ReserveResta, IInv
      <3> QED BY <2>1, <2>2, <2>3, <2>4 DEF Conservacion
    <2>6. available' \in Int /\ prestado' \in Int
      BY <2>1, <2>2, <2>3, <2>4
    <2>7. TypeOK' /\ Exclusion' /\ Marco' /\ Tablas'
      BY <2>6 DEF TypeOK, Lugares, EnMutex, Exclusion, Marco, Tablas
    <2>8. Registros' /\ Servibles' /\ Despertar' /\ Recorrido'
      BY <2>5 DEF TypeOK, EnMutex, Exclusion, Registros, Servibles, Despertar, Recorrido
    <2> QED
      BY <2>5, <2>7, <2>8
  <1>9. ASSUME NEW h \in Hilos, ReserveNiega(h) PROVE IInv'
    <2> USE <1>9 DEF ReserveNiega
    <2>1. TypeOK' /\ Exclusion' /\ Marco' /\ Tablas'
      BY DEF TypeOK, Lugares, EnMutex, Exclusion, Marco, Tablas
    <2>2. Registros' /\ Conservacion' /\ Servibles' /\ Despertar' /\ Recorrido'
      BY DEF TypeOK, Registros, Valida, Conservacion, Servibles, Despertar, Recorrido
    <2> QED
      BY <2>1, <2>2
  <1>10. ASSUME NEW h \in Hilos, ReserveEncola(h) PROVE IInv'
    <2> USE <1>10 DEF ReserveEncola
    <2>1. pedido[h] \in Pedidos /\ pedido[h].amount \in Nat \ {0}
      BY DEF TypeOK, Marco, Pedidos
    <2>2. /\ cola' \in Seq(Pedidos) /\ Len(cola') = Len(cola) + 1
          /\ \A i \in 1 .. Len(cola) : cola'[i] = cola[i]
          /\ cola'[Len(cola) + 1] = pedido[h]
      BY <2>1 DEF TypeOK
    <2>3. Servibles'
      BY <2>1, <2>2 DEF TypeOK, Servibles
    <2>4. Conservacion' /\ Despertar'
      BY <2>1 DEF TypeOK, Conservacion, Despertar
    <2>5. TypeOK' /\ Exclusion' /\ Marco' /\ Tablas'
      BY <2>2 DEF TypeOK, Lugares, EnMutex, Exclusion, Marco, Tablas
    <2>6. Registros' /\ Recorrido'
      BY DEF TypeOK, EnMutex, Exclusion, Registros, Recorrido
    <2> QED
      BY <2>3, <2>4, <2>5, <2>6
  <1>11. ASSUME NEW h \in Hilos, NEW m \in Devoluciones, Release(h, m) PROVE IInv'
    <2> USE <1>11 DEF Release
    <2>1. TypeOK' /\ Exclusion' /\ Marco' /\ Tablas'
      BY DEF TypeOK, Lugares, EnMutex, Exclusion, Marco, Tablas
    <2>2. Registros' /\ Conservacion' /\ Servibles' /\ Despertar' /\ Recorrido'
      BY DEF TypeOK, Registros, Valida, Conservacion, Servibles, Despertar, Recorrido
    <2> QED
      BY <2>1, <2>2
  <1>12. ASSUME NEW h \in Hilos, ReleaseTabla(h) PROVE IInv'
    <2> USE <1>12 DEF ReleaseTabla
    <2>1. TypeOK' /\ Exclusion' /\ Marco' /\ Tablas'
      BY DEF TypeOK, Lugares, EnMutex, Exclusion, Marco, Tablas
    <2>2. Registros' /\ Conservacion' /\ Servibles' /\ Despertar' /\ Recorrido'
      BY DEF TypeOK, Registros, Valida, Conservacion, Servibles, Despertar, Recorrido
    <2> QED
      BY <2>1, <2>2
  <1>13. ASSUME NEW h \in Hilos, ReleaseLock(h) PROVE IInv'
    <2> USE <1>13 DEF ReleaseLock, Lock
    <2>1. TypeOK' /\ Exclusion' /\ Marco' /\ Tablas'
      BY DEF TypeOK, Lugares, EnMutex, Exclusion, Marco, Tablas
    <2>2. Registros' /\ Conservacion' /\ Servibles' /\ Despertar' /\ Recorrido'
      BY DEF TypeOK, Registros, Valida, Conservacion, Servibles, Despertar, Recorrido
    <2> QED
      BY <2>1, <2>2
  <1>14. ASSUME NEW h \in Hilos, ReleaseAcepta(h) PROVE IInv'
    <2> USE <1>14 DEF ReleaseAcepta
    <2>1. TypeOK' /\ Exclusion' /\ Marco' /\ Tablas'
      BY DEF TypeOK, Lugares, EnMutex, Exclusion, Marco, Tablas
    <2>2. Registros' /\ Conservacion' /\ Servibles' /\ Despertar' /\ Recorrido'
      BY DEF TypeOK, Registros, Valida, Conservacion, Servibles, Despertar, Recorrido
    <2> QED
      BY <2>1, <2>2
  <1>15. ASSUME NEW h \in Hilos, ReleaseIgnora(h) PROVE IInv'
    <2> USE <1>15 DEF ReleaseIgnora
    <2>1. TypeOK' /\ Exclusion' /\ Marco' /\ Tablas'
      BY DEF TypeOK, Lugares, EnMutex, Exclusion, Marco, Tablas
    <2>2. Registros' /\ Conservacion' /\ Servibles' /\ Despertar' /\ Recorrido'
      BY DEF TypeOK, Registros, Valida, Conservacion, Servibles, Despertar, Recorrido
    <2> QED
      BY <2>1, <2>2
  <1>16. ASSUME NEW h \in Hilos, ReleaseSuma(h) PROVE IInv'
    <2> USE <1>16 DEF ReleaseSuma
    <2>1. /\ available' = available + monto[h] /\ prestado' = prestado - monto[h]
          /\ monto[h] \in Int /\ monto[h] >= 0 /\ available + monto[h] <= Total
      BY DEF TypeOK, Registros, Valida
    <2>2. available \in 0 .. Total /\ available + prestado = Total /\ prestado \in Int
      BY DEF TypeOK, Conservacion
    <2>3. Conservacion'
      <3> HIDE <1>16 DEF ReleaseSuma, IInv
      <3> QED BY <2>1, <2>2 DEF Conservacion
    <2>4. TypeOK' /\ Exclusion' /\ Marco' /\ Tablas'
      BY <2>1, <2>2, SMTT(30) DEF TypeOK, Lugares, EnMutex, Exclusion, Marco, Tablas
    <2>5. Registros' /\ Servibles' /\ Despertar' /\ Recorrido'
      BY DEF TypeOK, EnMutex, Exclusion, Registros, Servibles, Despertar, Recorrido
    <2> QED
      BY <2>3, <2>4, <2>5
  <1>17. ASSUME NEW h \in Hilos, ReleaseDesencola(h) PROVE IInv'
    <2> USE <1>17 DEF ReleaseDesencola
    <2>1. /\ Head(cola) \in Pedidos /\ Head(cola).amount <= available
          /\ cola' \in Seq(Pedidos) /\ Len(cola) \in Nat \ {0}
          /\ Len(cola') = Len(cola) - 1
          /\ \A i \in 1 .. Len(cola) - 1 : cola'[i] = cola[i + 1]
      BY ColaCabeza DEF TypeOK, CabeElPrimero
    <2>2. PICK m \in Nat \ {0} : m = Head(cola).amount
      BY <2>1 DEF Pedidos
    <2>3. available' = available - m /\ prestado' = prestado + m /\ m <= available
      BY <2>1, <2>2
    <2>4. available \in 0 .. Total /\ available + prestado = Total /\ prestado \in Int
      BY DEF TypeOK, Conservacion
    <2>5. Conservacion'
      <3> HIDE <1>17 DEF ReleaseDesencola, IInv
      <3> QED BY <2>2, <2>3, <2>4 DEF Conservacion
    <2>6. Servibles' /\ Despertar'
      BY <2>1, SMTT(30) DEF TypeOK, Servibles, Despertar
    <2>7. available' \in Int /\ prestado' \in Int
      BY <2>2, <2>3, <2>4
    <2>8. TypeOK' /\ Exclusion' /\ Marco' /\ Tablas'
      BY <2>1, <2>7 DEF TypeOK, Lugares, EnMutex, Exclusion, Marco, Tablas
    <2>9. Registros' /\ Recorrido'
      BY DEF TypeOK, EnMutex, Exclusion, Registros, Recorrido
    <2> QED
      BY <2>5, <2>6, <2>8, <2>9
  <1>18. ASSUME NEW h \in Hilos, ReleaseTermina(h) PROVE IInv'
    <2> USE <1>18 DEF ReleaseTermina
    <2>1. Despertar'
      BY ColaCabeza DEF TypeOK, CabeElPrimero, Servibles, Conservacion, Despertar
    <2>2. TypeOK' /\ Exclusion' /\ Marco' /\ Tablas'
      BY DEF TypeOK, Lugares, EnMutex, Exclusion, Marco, Tablas
    <2>3. Registros' /\ Conservacion' /\ Servibles' /\ Recorrido'
      BY DEF TypeOK, Registros, Valida, Conservacion, Servibles, Recorrido
    <2> QED
      BY <2>1, <2>2, <2>3
  <1>19. ASSUME NEW h \in Hilos, NEW c \in Criterios, Limpiar(h, c) PROVE IInv'
    <2> USE <1>19 DEF Limpiar
    <2>1. TypeOK' /\ Exclusion' /\ Marco' /\ Tablas'
      BY DEF TypeOK, Lugares, EnMutex, Exclusion, Marco, Tablas
    <2>2. Registros' /\ Conservacion' /\ Servibles' /\ Despertar' /\ Recorrido'
      BY DEF TypeOK, Registros, Valida, Conservacion, Servibles, Despertar, Recorrido
    <2> QED
      BY <2>1, <2>2
  <1>20. ASSUME NEW h \in Hilos, LimpiarLock(h) PROVE IInv'
    <2> USE <1>20 DEF LimpiarLock, Lock
    <2>1. Recorrido'
      <3> SUFFICES ASSUME NEW x \in Hilos, pc'[x] = "recorre" PROVE nodo'[x] = 1
        BY DEF TypeOK, Recorrido
      <3>1. x = h
        BY DEF TypeOK, EnMutex, Exclusion
      <3> QED
        BY <3>1 DEF Marco
    <2>2. TypeOK' /\ Exclusion' /\ Marco' /\ Tablas'
      BY DEF TypeOK, Lugares, EnMutex, Exclusion, Marco, Tablas
    <2>3. Registros' /\ Conservacion' /\ Servibles' /\ Despertar'
      BY DEF TypeOK, Registros, Valida, Conservacion, Servibles, Despertar
    <2> QED
      BY <2>1, <2>2, <2>3
  <1>21. ASSUME NEW h \in Hilos, LimpiarBorra(h) PROVE IInv'
    <2> USE <1>21 DEF LimpiarBorra
    <2>1. nodo[h] \in 1 .. Len(cola)
      BY DEF TypeOK
    <2>2. /\ cola' \in Seq(Pedidos) /\ Len(cola) \in Nat \ {0}
          /\ Len(cola') = Len(cola) - 1
          /\ \A i \in 1 .. Len(cola) - 1 :
               cola'[i] = IF i < nodo[h] THEN cola[i] ELSE cola[i + 1]
      <3>1. cola \in Seq(Pedidos) /\ cola' = SinElemento(cola, nodo[h])
        BY DEF TypeOK
      <3> HIDE <1>21 DEF IInv, LimpiarBorra
      <3> QED BY <2>1, <3>1, SinElementoTipo
    <2>3. Servibles'
      <3> SUFFICES ASSUME NEW i \in 1 .. Len(cola) - 1 PROVE cola'[i].amount <= Total
        BY <2>2 DEF Servibles
      <3>1. i \in 1 .. Len(cola) /\ i + 1 \in 1 .. Len(cola)
        BY <2>2
      <3> QED BY <2>2, <3>1 DEF Servibles
    <2>4. Conservacion' /\ Despertar'
      BY <2>2 DEF TypeOK, Conservacion, Despertar
    <2>5. TypeOK' /\ Exclusion' /\ Marco' /\ Tablas'
      BY <2>2 DEF TypeOK, Lugares, EnMutex, Exclusion, Marco, Tablas
    <2>6. Registros'
      BY DEF TypeOK, Registros, Valida
    <2>7. Recorrido'
      <3> SUFFICES ASSUME NEW x \in Hilos, pc'[x] = "recorre",
                          NEW i \in 1 .. Len(cola'), i < nodo'[x]
                   PROVE  ~Coincide(cola'[i], borrar'[x])
        BY DEF Recorrido
      <3>1. x = h
        BY DEF TypeOK, EnMutex, Exclusion
      <3>2. cola'[i] = cola[i] /\ i \in 1 .. Len(cola)
        BY <2>1, <2>2, <3>1
      <3> QED
        BY <3>1, <3>2 DEF Recorrido
    <2> QED
      BY <2>3, <2>4, <2>5, <2>6, <2>7
  <1>22. ASSUME NEW h \in Hilos, LimpiarSigue(h) PROVE IInv'
    <2> USE <1>22 DEF LimpiarSigue
    <2>1. Recorrido'
      <3> SUFFICES ASSUME NEW x \in Hilos, pc'[x] = "recorre",
                          NEW i \in 1 .. Len(cola'), i < nodo'[x]
                   PROVE  ~Coincide(cola'[i], borrar'[x])
        BY DEF Recorrido
      <3>1. x = h
        BY DEF TypeOK, EnMutex, Exclusion
      <3>2. i < nodo[h] \/ i = nodo[h]
        BY <3>1 DEF TypeOK
      <3> QED
        BY <3>1, <3>2 DEF Recorrido
    <2>2. TypeOK' /\ Exclusion' /\ Marco' /\ Tablas'
      BY DEF TypeOK, Lugares, EnMutex, Exclusion, Marco, Tablas
    <2>3. Registros' /\ Conservacion' /\ Servibles' /\ Despertar'
      BY DEF TypeOK, Registros, Valida, Conservacion, Servibles, Despertar
    <2> QED
      BY <2>1, <2>2, <2>3
  <1>23. ASSUME NEW h \in Hilos, LimpiarTermina(h) PROVE IInv'
    <2> USE <1>23 DEF LimpiarTermina
    <2>1. TypeOK' /\ Exclusion' /\ Marco' /\ Tablas'
      BY DEF TypeOK, Lugares, EnMutex, Exclusion, Marco, Tablas
    <2>2. Registros' /\ Conservacion' /\ Servibles' /\ Despertar' /\ Recorrido'
      BY DEF TypeOK, Registros, Valida, Conservacion, Servibles, Despertar, Recorrido
    <2> QED
      BY <2>1, <2>2
  <1>24. CASE UNCHANGED vars
    BY <1>24 DEF vars, TypeOK, Exclusion, Marco, Registros, Tablas, Conservacion, Servibles, Despertar, Recorrido,
                  CabeElPrimero, Valida, EnMutex, Coincide
  <1> QED
    BY <1>1, <1>2, <1>3, <1>4, <1>5, <1>6, <1>7, <1>8, <1>9, <1>10, <1>11, <1>12,
       <1>13, <1>14, <1>15, <1>16, <1>17, <1>18, <1>19, <1>20, <1>21, <1>22, <1>23, <1>24
    DEF Next, Paso, Llamada
--------------------------------------------------------------------------------
(* The inductive invariant holds in every reachable state of the resource. *)
LEMMA Invariante == Spec => []IInv
  BY Inicio, Induccion, PTL DEF Spec

(***************************************************************************)
(* Whatever the threads do, every variable of the resource keeps its type. *)
(***************************************************************************)
THEOREM Tipado == Spec => []TypeOK
  BY Invariante, PTL DEF IInv

(***************************************************************************)
(* The units of a resource are conserved under any interleaving of the     *)
(* workers and any amounts in the RELEASE messages: reserve_resource and   *)
(* release_resource keep available_amount within 0..total_amount.          *)
(***************************************************************************)
THEOREM UnidadesConservadas == Spec => []Conservacion
  BY Invariante, PTL DEF IInv

(***************************************************************************)
(* No request waits for a wake-up that cannot come: with the mutex free, a *)
(* non-empty queue means that some unit is still lent.                     *)
(***************************************************************************)
THEOREM NadieEsperaEnVano == Spec => []SinDespertarPerdido
  <1>1. IInv => SinDespertarPerdido
    <2> SUFFICES ASSUME IInv, mutex = Nadie, cola # << >> PROVE prestado > 0
      BY DEF SinDespertarPerdido
    <2>1. \A h \in Hilos : pc[h] # "atiende"
      BY Supuestos DEF IInv, Exclusion, EnMutex
    <2>2. available < Total
      BY <2>1 DEF IInv, Despertar
    <2>3. available \in 0 .. Total /\ prestado \in Int /\ available + prestado = Total
      BY DEF IInv, TypeOK, Conservacion
    <2> QED
      BY <2>2, <2>3, Supuestos
  <1> QED
    BY <1>1, Invariante, PTL

(***************************************************************************)
(* The walks of queue_delete_by_job_id and queue_delete_by_conn leave no   *)
(* request of what they delete.                                            *)
(***************************************************************************)
THEOREM PurgaCompleta == Spec => []LimpiezaCompleta
  <1>1. IInv => LimpiezaCompleta
    BY DEF IInv, TypeOK, Recorrido, LimpiezaCompleta
  <1> QED
    BY <1>1, Invariante, PTL

(***************************************************************************)
(* release_resource touches the jobs table only with its lock held, with   *)
(* take_lock and without.                                                  *)
(***************************************************************************)
THEOREM TablaConCandado == Spec => []TablaProtegida
  <1>1. IInv => TablaProtegida
    BY DEF IInv, Tablas, TablaProtegida
  <1> QED
    BY <1>1, Invariante, PTL
--------------------------------------------------------------------------------
(* The refinement mapping, written out. *)
Sirviendo == \E h \in Hilos : pc[h] = "atiende"

(* Inside the critical section of another place, no serving round is open. *)
LEMMA SinRonda ==
  ASSUME IInv, NEW h \in Hilos, pc[h] \in EnMutex \ {"atiende"}
  PROVE  ~Sirviendo
  BY DEF IInv, Exclusion, EnMutex, Sirviendo

(* Steps that leave the counter, the queue and the serving rounds alone. *)
LEMMA Tartamudeo ==
  ASSUME TypeOK, NEW h \in Hilos, NEW l \in Lugares,
         pc[h] # "atiende", l # "atiende",
         pc' = [pc EXCEPT ![h] = l] \/ pc' = pc,
         UNCHANGED <<available, cola>>
  PROVE  UNCHANGED Abstracto!abs
  <1>1. Sirviendo' <=> Sirviendo
    BY DEF Sirviendo, TypeOK
  <1> QED
    BY <1>1 DEF Abstracto!abs, Sirviendo

(* Every step of a thread is a step of the abstract resource or none. *)
LEMMA PasoAbstracto ==
  IInv /\ IInv' /\ [Next]_vars => [Abstracto!Next]_(Abstracto!abs)
  <1> SUFFICES ASSUME IInv, IInv', [Next]_vars
               PROVE  Abstracto!Next \/ UNCHANGED Abstracto!abs
    OBVIOUS
  <1>0. TypeOK /\ TypeOK'
    BY DEF IInv
  <1>1. ASSUME NEW h \in Hilos, ReserveResta(h) PROVE Abstracto!Next
    <2>1. pedido[h] \in Pedidos /\ pedido[h].amount <= available /\ leido[h] = available
      BY <1>1 DEF ReserveResta, IInv, Marco, Registros
    <2>2. ~Sirviendo /\ ~Sirviendo'
      BY <1>1, SinRonda, <1>0 DEF ReserveResta, EnMutex, TypeOK, Sirviendo
    <2>3. Abstracto!Otorgar(pedido[h])
      BY <1>1, <2>1, <2>2 DEF ReserveResta, Abstracto!Otorgar, Sirviendo
    <2> QED
      BY <2>1, <2>3 DEF Abstracto!Next
  <1>2. ASSUME NEW h \in Hilos, ReserveEncola(h) PROVE Abstracto!Next
    <2>1. pedido[h] \in Pedidos
      BY <1>2 DEF ReserveEncola, IInv, Marco
    <2>2. ~Sirviendo /\ ~Sirviendo'
      BY <1>2, SinRonda, <1>0 DEF ReserveEncola, EnMutex, TypeOK, Sirviendo
    <2>3. pedido[h].amount <= Total
      BY <1>2, <2>1, Supuestos DEF ReserveEncola, Pedidos
    <2>4. Abstracto!Encolar(pedido[h])
      BY <1>2, <2>2, <2>3 DEF ReserveEncola, Abstracto!Encolar, Sirviendo
    <2> QED
      BY <2>1, <2>4 DEF Abstracto!Next
  <1>3. ASSUME NEW h \in Hilos, ReleaseSuma(h) PROVE Abstracto!Next
    <2>1. leido[h] = available /\ Valida(available, monto[h])
      BY <1>3 DEF ReleaseSuma, IInv, Registros
    <2>2. ~Sirviendo /\ Sirviendo'
      BY <1>3, SinRonda, <1>0 DEF ReleaseSuma, EnMutex, TypeOK, Sirviendo
    <2>3. monto[h] \in 0 .. Total
      BY <2>1, <1>0, Supuestos DEF Valida, IInv, Conservacion, TypeOK
    <2>4. PICK m \in 0 .. Total : m = monto[h]
      BY <2>3
    <2>5. Abstracto!Devolver(m)
      BY <1>3, <2>1, <2>2, <2>4 DEF ReleaseSuma, Valida, Abstracto!Devolver, Sirviendo
    <2> QED
      BY <2>5 DEF Abstracto!Next
  <1>4. ASSUME NEW h \in Hilos, ReleaseDesencola(h) PROVE Abstracto!Next
    <2>1. Sirviendo /\ Sirviendo'
      BY <1>4 DEF ReleaseDesencola, Sirviendo
    <2>2. Head(cola) \in Pedidos
      BY <1>4, <1>0, ColaCabeza DEF ReleaseDesencola, CabeElPrimero, TypeOK
    <2>3. Head(cola).amount <= available
      BY <1>4, <1>0, <2>2, Supuestos DEF ReleaseDesencola, CabeElPrimero, Pedidos, TypeOK
    <2>4. Abstracto!Servir
      BY <1>4, <2>1, <2>3 DEF ReleaseDesencola, CabeElPrimero, Abstracto!Servir, Sirviendo
    <2> QED
      BY <2>4 DEF Abstracto!Next
  <1>5. ASSUME NEW h \in Hilos, ReleaseTermina(h) PROVE Abstracto!Next
    <2>1. Sirviendo /\ ~Sirviendo'
      BY <1>5, <1>0 DEF ReleaseTermina, Sirviendo, IInv, Exclusion, EnMutex, TypeOK
    <2>2. cola = << >> \/ available < Head(cola).amount
      <3> SUFFICES ASSUME cola # << >> PROVE available < Head(cola).amount
        OBVIOUS
      <3>1. Head(cola) \in Pedidos
        BY <1>0, ColaCabeza DEF TypeOK
      <3>2. Head(cola).amount \in Int
        BY <3>1, MontoDePedido
      <3> QED
        BY <1>5, <1>0, <3>2 DEF ReleaseTermina, CabeElPrimero, TypeOK
    <2>3. Abstracto!FinDeRonda
      BY <1>5, <2>1, <2>2 DEF ReleaseTermina, Abstracto!FinDeRonda, Sirviendo
    <2> QED
      BY <2>3 DEF Abstracto!Next
  <1>6. ASSUME NEW h \in Hilos, LimpiarBorra(h) PROVE Abstracto!Next
    <2>1. ~Sirviendo /\ ~Sirviendo'
      BY <1>6, SinRonda, <1>0 DEF LimpiarBorra, EnMutex, TypeOK, Sirviendo
    <2>2. nodo[h] \in 1 .. Len(cola)
      BY <1>6, <1>0 DEF LimpiarBorra, TypeOK
    <2>3. Abstracto!Retirar(nodo[h])
      BY <1>6, <2>1 DEF LimpiarBorra, SinElemento, Abstracto!SinElemento,
                        Abstracto!Retirar, Sirviendo
    <2> QED
      BY <2>2, <2>3 DEF Abstracto!Next
  <1>7. ASSUME NEW h \in Hilos,
               \/ TomarTabla(h) \/ DejarTabla(h) \/ Unlock(h) \/ UnlockTabla(h)
               \/ \E p \in Pedidos : Reserve(h, p)
               \/ \E m \in Devoluciones : Release(h, m)
               \/ \E c \in Criterios : Limpiar(h, c)
               \/ ReserveLock(h) \/ ReserveOtorga(h) \/ ReserveNiega(h)
               \/ ReleaseTabla(h) \/ ReleaseLock(h) \/ ReleaseAcepta(h)
               \/ ReleaseIgnora(h) \/ LimpiarLock(h) \/ LimpiarSigue(h)
               \/ LimpiarTermina(h)
        PROVE  UNCHANGED Abstracto!abs
    <2>1. /\ pc[h] # "atiende" /\ UNCHANGED <<available, cola>>
          /\ \/ pc' = pc
             \/ \E l \in Lugares \ {"atiende"} : pc' = [pc EXCEPT ![h] = l]
      BY <1>7, Zenon
         DEF Lugares, TomarTabla, DejarTabla, Unlock, UnlockTabla, Reserve, Release,
             Limpiar, ReserveLock, ReserveOtorga, ReserveNiega, ReleaseTabla,
             ReleaseLock, ReleaseAcepta, ReleaseIgnora, LimpiarLock, LimpiarSigue,
             LimpiarTermina, Lock
    <2> QED
      BY <2>1, <1>0, Tartamudeo DEF Lugares
  <1>8. CASE UNCHANGED vars
    BY <1>8 DEF vars, Abstracto!abs
  <1> QED
    BY <1>1, <1>2, <1>3, <1>4, <1>5, <1>6, <1>7, <1>8 DEF Next, Paso, Llamada

(***************************************************************************)
(* The locked, multi-threaded resource implements the sequential one of    *)
(* RecursoAbs: each grant, queueing, return and withdrawal takes effect in *)
(* one step, and no other one comes inside a serving round.                *)
(***************************************************************************)
THEOREM Refinamiento == Spec => ImplementaAbs
  <1>1. Init => Abstracto!Init
    BY DEF Init, Abstracto!Init
  <1> QED
    BY <1>1, Invariante, PasoAbstracto, PTL DEF Spec, ImplementaAbs, Abstracto!Spec
================================================================================
