--------------------------- MODULE TablaNodosProofs ---------------------------
(***************************************************************************)
(* Proofs about TablaNodos, for any nodes, periods, delays and losses.     *)
(***************************************************************************)
EXTENDS TablaNodos, TLAPS

(* The longest time between two announcements of a node. *)
Ciclo == Periodo + Demora

(* Nobody's turn, and no datagram, is overdue; times are not in the future. *)
Puntual ==
  /\ \A n \in vivos : ahora <= emite[n] + Pausa(n) + Demora
  /\ \A n \in Nodos : emite[n] <= ahora
  /\ \A n \in Nodos : llego[n] # NULL => llego[n] <= ahora
  /\ \A n \in Nodos : visto[n] # NULL =>
       /\ fase[Yo] = "loop" /\ visto[n] <= ahora
       /\ llego[n] # NULL => ahora <= llego[n] + Lectura

(* What is known of a live node that was heard of in this life: the losses *)
(* since then account for the time that passed.                            *)
Racha ==
  \A n \in vivos : visto[n] # NULL /\ visto[n] >= desde[n] =>
    /\ llego[n] = NULL => emite[n] <= visto[n] + perdidas[n] * Ciclo
    /\ llego[n] # NULL => llego[n] <= visto[n] + Silencio

(* A dead node's datagrams are from before its death, and read soon after. *)
Restos ==
  \A n \in Nodos \ vivos :
    /\ llego[n] # NULL => llego[n] <= murio[n]
    /\ llego[n] # NULL /\ fase[Yo] = "loop" => ahora <= murio[n] + Inicio + Demora + Lectura
    /\ visto[n] # NULL => visto[n] <= murio[n] + Inicio + Demora + Lectura

(* While main sleeps, this agent has just started and nobody died before. *)
Comienzo ==
  /\ Periodo <= ahora
  /\ fase[Yo] = "main" => emite[Yo] = Periodo
  /\ \A n \in Nodos \ vivos : Periodo <= murio[n]

(* The last purge left nothing older than the limit. *)
Barrida ==
  fase[Yo] = "loop" => \A n \in Nodos : visto[n] # NULL => emite[Yo] <= visto[n] + Vence

IInv == TypeOK /\ Puntual /\ Racha /\ Restos /\ Comienzo /\ Barrida
-------------------------------------------------------------------------------
(* What the products are worth. *)
LEMMA Producto ==
  ASSUME NEW k \in 0 .. MaxPerdidas
  PROVE  /\ Ciclo \in Nat /\ k * Ciclo \in Nat /\ Silencio \in Nat
         /\ (k + 1) * Ciclo = k * Ciclo + Ciclo
         /\ k * Ciclo + Ciclo <= Silencio
  <1>1. Ciclo \in Nat /\ MaxPerdidas \in Nat /\ k \in Nat /\ k <= MaxPerdidas
    BY Supuestos DEF Ciclo
  <1>2. Silencio = (MaxPerdidas + 1) * Ciclo
    BY DEF Silencio, Ciclo
  <1>3. ASSUME NEW c \in Nat, NEW m \in Nat, NEW j \in Nat, j <= m
        PROVE  /\ j * c \in Nat /\ (m + 1) * c \in Nat /\ (j + 1) * c = j * c + c
               /\ j * c + c <= (m + 1) * c
    BY <1>3, Z3
  <1> QED
    BY <1>1, <1>2, <1>3

(* The constants. *)
LEMMA Constantes ==
  /\ Yo \in Nodos /\ Periodo \in Nat \ {0} /\ Inicio \in Nat /\ Inicio <= Periodo
  /\ Vence \in Nat /\ Demora \in Nat /\ Lectura \in Nat /\ MaxPerdidas \in Nat
  /\ NULL = -1 /\ NULL \notin Nat
  BY Supuestos DEF NULL

LEMMA Inicial == Init => IInv
  <1> SUFFICES ASSUME Init PROVE IInv
    OBVIOUS
  <1> USE Constantes
  <1>1. TypeOK
    BY DEF Init, TypeOK
  <1>2. Puntual
    BY DEF Init, Puntual, Pausa
  <1>3. Racha /\ Restos /\ Barrida
    BY DEF Init, Racha, Restos, Barrida
  <1>4. Comienzo
    BY DEF Init, Comienzo
  <1> QED
    BY <1>1, <1>2, <1>3, <1>4 DEF IInv

LEMMA Tipos == TypeOK /\ [Next]_vars => TypeOK'
  <1> SUFFICES ASSUME TypeOK, [Next]_vars PROVE TypeOK'
    OBVIOUS
  <1> USE Constantes DEF TypeOK
  <1>1. CASE Tic
    BY <1>1 DEF Tic
  <1>2. ASSUME NEW n \in Nodos, broadcast_loop(n) PROVE TypeOK'
    BY <1>2 DEF broadcast_loop, send_udp_broadcast, tabla_nodos_purge
  <1>3. ASSUME NEW n \in Nodos, handle_udp_read(n) PROVE TypeOK'
    BY <1>3 DEF handle_udp_read, tabla_nodos_insert_or_update
  <1>4. ASSUME NEW n \in Nodos, Caer(n) PROVE TypeOK'
    BY <1>4 DEF Caer
  <1>5. ASSUME NEW n \in Nodos, Arrancar(n) PROVE TypeOK'
    BY <1>5 DEF Arrancar, send_udp_broadcast
  <1>6. CASE UNCHANGED vars
    BY <1>6 DEF vars
  <1> QED
    BY <1>1, <1>2, <1>3, <1>4, <1>5, <1>6 DEF Next

LEMMA PuntualSigue == IInv /\ TypeOK' /\ [Next]_vars => Puntual'
  <1> SUFFICES ASSUME IInv, TypeOK', [Next]_vars PROVE Puntual'
    OBVIOUS
  <1> USE Constantes DEF IInv, TypeOK, Puntual, Pausa
  <1>1. CASE Tic
    BY <1>1 DEF Tic
  <1>2. ASSUME NEW n \in Nodos, broadcast_loop(n) PROVE Puntual'
    BY <1>2 DEF broadcast_loop, send_udp_broadcast, tabla_nodos_purge
  <1>3. ASSUME NEW n \in Nodos, handle_udp_read(n) PROVE Puntual'
    BY <1>3 DEF handle_udp_read, tabla_nodos_insert_or_update
  <1>4. ASSUME NEW n \in Nodos, Caer(n) PROVE Puntual'
    BY <1>4 DEF Caer
  <1>5. ASSUME NEW n \in Nodos, Arrancar(n) PROVE Puntual'
    BY <1>5 DEF Arrancar, send_udp_broadcast
  <1>6. CASE UNCHANGED vars
    BY <1>6 DEF vars
  <1> QED
    BY <1>1, <1>2, <1>3, <1>4, <1>5, <1>6 DEF Next

(* How old the entry of a live node can be. *)
LEMMA Antiguedad ==
  ASSUME TypeOK, Puntual, Racha, NEW n \in vivos, visto[n] # NULL, visto[n] >= desde[n]
  PROVE  /\ llego[n] = NULL => ahora <= visto[n] + (perdidas[n] * Ciclo + Ciclo)
         /\ ahora <= visto[n] + Silencio + Lectura
  <1>1. /\ Ciclo \in Nat /\ perdidas[n] * Ciclo \in Nat /\ Silencio \in Nat
        /\ perdidas[n] * Ciclo + Ciclo <= Silencio
    BY Producto DEF TypeOK
  <1>2. n \in Nodos /\ emite[n] \in Nat /\ visto[n] \in Nat /\ ahora \in Nat
    BY DEF TypeOK
  <1>3. Pausa(n) + Demora <= Ciclo /\ Pausa(n) \in Nat
    BY Constantes DEF Pausa, Ciclo
  <1>4. ahora <= emite[n] + Ciclo
    BY <1>1, <1>2, <1>3, Constantes DEF Puntual
  <1>5. CASE llego[n] = NULL
    <2>1. emite[n] <= visto[n] + perdidas[n] * Ciclo
      BY <1>5 DEF Racha
    <2> QED
      BY <2>1, <1>1, <1>2, <1>4, Constantes
  <1>6. CASE llego[n] # NULL
    <2>1. llego[n] \in Nat /\ llego[n] <= visto[n] + Silencio /\ ahora <= llego[n] + Lectura
      BY <1>6, <1>2 DEF Racha, Puntual, TypeOK
    <2> QED
      BY <2>1, <1>6, <1>1, <1>2, Constantes
  <1> QED
    BY <1>5, <1>6

LEMMA RachaSigue == IInv /\ TypeOK' /\ [Next]_vars => Racha'
  <1> SUFFICES ASSUME IInv, TypeOK', [Next]_vars,
                      NEW m \in vivos', visto'[m] # NULL, visto'[m] >= desde'[m]
               PROVE  /\ llego'[m] = NULL => emite'[m] <= visto'[m] + perdidas'[m] * Ciclo
                      /\ llego'[m] # NULL => llego'[m] <= visto'[m] + Silencio
    BY DEF Racha
  <1> USE Constantes
  <1>1. /\ TypeOK /\ Puntual /\ Racha /\ m \in Nodos /\ ahora \in Nat
        /\ perdidas[m] \in 0 .. MaxPerdidas /\ perdidas'[m] \in 0 .. MaxPerdidas
    BY DEF IInv, TypeOK
  <1>2. /\ Ciclo \in Nat /\ Silencio \in Nat
        /\ perdidas[m] * Ciclo \in Nat /\ perdidas'[m] * Ciclo \in Nat
        /\ (perdidas[m] + 1) * Ciclo = perdidas[m] * Ciclo + Ciclo
        /\ perdidas[m] * Ciclo + Ciclo <= Silencio
    BY <1>1, Producto
  <1>3. \A x \in {llego[m], visto[m], llego'[m], visto'[m], emite[m], emite'[m]} : x # NULL => x \in Nat
    BY <1>1 DEF TypeOK
  (* Steps that leave what Racha says of m as it was. *)
  <1>4. CASE /\ m \in vivos /\ desde'[m] = desde[m] /\ visto'[m] = visto[m]
             /\ llego'[m] = llego[m] /\ emite'[m] = emite[m] /\ perdidas'[m] = perdidas[m]
    BY <1>1, <1>4 DEF Racha
  (* The announcement of a live m. *)
  <1>5. ASSUME m \in vivos, desde'[m] = desde[m], visto'[m] = visto[m], send_udp_broadcast(m)
        PROVE  /\ llego'[m] = NULL => emite'[m] <= visto'[m] + perdidas'[m] * Ciclo
               /\ llego'[m] # NULL => llego'[m] <= visto'[m] + Silencio
    <2>1. /\ llego[m] = NULL => ahora <= visto[m] + (perdidas[m] * Ciclo + Ciclo)
          /\ llego[m] # NULL => llego[m] <= visto[m] + Silencio
      BY <1>1, <1>5, Antiguedad DEF Racha
    <2>2. emite'[m] = ahora
      BY <1>1, <1>5 DEF send_udp_broadcast, TypeOK
    <2>3. CASE llego'[m] = llego[m] /\ perdidas'[m] = perdidas[m] + 1
      BY <2>1, <2>2, <2>3, <1>1, <1>2, <1>3, <1>5
    <2>4. CASE llego'[m] = IF llego[m] = NULL THEN ahora ELSE llego[m]
      BY <2>1, <2>2, <2>4, <1>1, <1>2, <1>3, <1>5
    <2> QED
      BY <2>3, <2>4, <1>1, <1>5 DEF send_udp_broadcast, TypeOK
  <1>6. CASE Tic
    BY <1>4, <1>6 DEF Tic
  <1>7. ASSUME NEW n \in Nodos, broadcast_loop(n)
        PROVE  /\ llego'[m] = NULL => emite'[m] <= visto'[m] + perdidas'[m] * Ciclo
               /\ llego'[m] # NULL => llego'[m] <= visto'[m] + Silencio
    <2>1. m \in vivos /\ desde'[m] = desde[m] /\ visto'[m] = visto[m]
      BY <1>1, <1>7 DEF broadcast_loop, tabla_nodos_purge, TypeOK
    <2>2. CASE n = m
      BY <2>1, <2>2, <1>5, <1>7 DEF broadcast_loop
    <2>3. CASE n # m
      BY <2>1, <2>3, <1>1, <1>4, <1>7 DEF broadcast_loop, send_udp_broadcast, TypeOK
    <2> QED
      BY <2>2, <2>3
  <1>8. ASSUME NEW n \in Nodos, handle_udp_read(n)
        PROVE  /\ llego'[m] = NULL => emite'[m] <= visto'[m] + perdidas'[m] * Ciclo
               /\ llego'[m] # NULL => llego'[m] <= visto'[m] + Silencio
    <2>1. CASE n = m
      <3>1. llego'[m] = NULL /\ emite'[m] = emite[m] /\ visto'[m] = ahora /\ emite[m] <= ahora
        BY <2>1, <1>1, <1>8 DEF handle_udp_read, tabla_nodos_insert_or_update, TypeOK, Puntual
      <3> QED
        BY <3>1, <1>1, <1>2, <1>3
    <2>2. CASE n # m
      BY <2>2, <1>1, <1>4, <1>8 DEF handle_udp_read, tabla_nodos_insert_or_update, TypeOK
    <2> QED
      BY <2>1, <2>2
  <1>9. ASSUME NEW n \in Nodos, Caer(n)
        PROVE  /\ llego'[m] = NULL => emite'[m] <= visto'[m] + perdidas'[m] * Ciclo
               /\ llego'[m] # NULL => llego'[m] <= visto'[m] + Silencio
    BY <1>4, <1>9 DEF Caer
  <1>10. ASSUME NEW n \in Nodos, Arrancar(n)
         PROVE  /\ llego'[m] = NULL => emite'[m] <= visto'[m] + perdidas'[m] * Ciclo
                /\ llego'[m] # NULL => llego'[m] <= visto'[m] + Silencio
    <2>1. CASE n = m
      <3>1. /\ emite'[m] = ahora /\ desde'[m] = ahora /\ visto'[m] = visto[m]
            /\ llego'[m] = llego[m] \/ llego'[m] = ahora
        BY <2>1, <1>1, <1>10 DEF Arrancar, send_udp_broadcast, TypeOK
      <3>2. llego[m] # NULL => llego[m] <= ahora
        BY <1>1 DEF Puntual
      <3> QED
        BY <3>1, <3>2, <1>1, <1>2, <1>3
    <2>2. CASE n # m
      BY <2>2, <1>1, <1>4, <1>10 DEF Arrancar, send_udp_broadcast, TypeOK
    <2> QED
      BY <2>1, <2>2
  <1>11. CASE UNCHANGED vars
    BY <1>4, <1>11 DEF vars
  <1> QED
    BY <1>6, <1>7, <1>8, <1>9, <1>10, <1>11 DEF Next

LEMMA RestosSigue == IInv /\ TypeOK' /\ [Next]_vars => Restos'
  <1> SUFFICES ASSUME IInv, TypeOK', [Next]_vars PROVE Restos'
    OBVIOUS
  <1> USE Constantes DEF IInv, TypeOK, Restos
  <1>1. CASE Tic
    BY <1>1 DEF Tic
  <1>2. ASSUME NEW n \in Nodos, broadcast_loop(n) PROVE Restos'
    <2>1. CASE n = Yo
      BY <1>2, <2>1
         DEF broadcast_loop, send_udp_broadcast, tabla_nodos_purge, Puntual, Comienzo, Pausa
    <2>2. CASE n # Yo
      BY <1>2, <2>2 DEF broadcast_loop, send_udp_broadcast
    <2> QED
      BY <2>1, <2>2
  <1>3. ASSUME NEW n \in Nodos, handle_udp_read(n) PROVE Restos'
    BY <1>3 DEF handle_udp_read, tabla_nodos_insert_or_update
  <1>4. ASSUME NEW n \in Nodos, Caer(n) PROVE Restos'
    BY <1>4 DEF Caer, Puntual
  <1>5. ASSUME NEW n \in Nodos, Arrancar(n) PROVE Restos'
    BY <1>5 DEF Arrancar, send_udp_broadcast
  <1>6. CASE UNCHANGED vars
    BY <1>6 DEF vars
  <1> QED
    BY <1>1, <1>2, <1>3, <1>4, <1>5, <1>6 DEF Next

LEMMA ResguardoSigue == IInv /\ TypeOK' /\ [Next]_vars => Comienzo' /\ Barrida'
  <1> SUFFICES ASSUME IInv, TypeOK', [Next]_vars PROVE Comienzo' /\ Barrida'
    OBVIOUS
  <1> USE Constantes DEF IInv, TypeOK, Comienzo, Barrida
  <1>1. CASE Tic
    BY <1>1 DEF Tic
  <1>2. ASSUME NEW n \in Nodos, broadcast_loop(n) PROVE Comienzo' /\ Barrida'
    BY <1>2 DEF broadcast_loop, send_udp_broadcast, tabla_nodos_purge
  <1>3. ASSUME NEW n \in Nodos, handle_udp_read(n) PROVE Comienzo' /\ Barrida'
    BY <1>3 DEF handle_udp_read, tabla_nodos_insert_or_update, Puntual
  <1>4. ASSUME NEW n \in Nodos, Caer(n) PROVE Comienzo' /\ Barrida'
    BY <1>4 DEF Caer
  <1>5. ASSUME NEW n \in Nodos, Arrancar(n) PROVE Comienzo' /\ Barrida'
    BY <1>5 DEF Arrancar, send_udp_broadcast
  <1>6. CASE UNCHANGED vars
    BY <1>6 DEF vars
  <1> QED
    BY <1>1, <1>2, <1>3, <1>4, <1>5, <1>6 DEF Next

LEMMA Inductiva == Spec => []IInv
  <1>1. IInv /\ [Next]_vars => IInv'
    BY Tipos, PuntualSigue, RachaSigue, RestosSigue, ResguardoSigue DEF IInv
  <1> QED
    BY Inicial, <1>1, PTL DEF Spec
-------------------------------------------------------------------------------
(***************************************************************************)
(* Every variable of the discovery keeps its type.                         *)
(***************************************************************************)
THEOREM Tipado == Spec => []TypeOK
  BY Inductiva, PTL DEF IInv

(***************************************************************************)
(* tabla_nodos_purge deletes the entry of a dead node within the limit, one*)
(* turn of broadcast_loop and the delays, whatever was unread when it died.*)
(***************************************************************************)
THEOREM MuertoOlvidado == Spec => []MuertoSeOlvida
  <1>1. IInv => MuertoSeOlvida
    <2> SUFFICES ASSUME IInv, NEW n \in Nodos \ vivos, visto[n] # NULL, fase[Yo] = "loop"
                 PROVE  ahora <= murio[n] + Inicio + Demora + Lectura + Vence + Periodo + Demora
      BY DEF MuertoSeOlvida
    <2>1. ahora <= emite[Yo] + Periodo + Demora
      BY DEF IInv, TypeOK, Puntual, Pausa
    <2>2. emite[Yo] <= visto[n] + Vence /\ visto[n] <= murio[n] + Inicio + Demora + Lectura
      BY DEF IInv, Barrida, Restos
    <2>3. /\ ahora \in Nat /\ emite[Yo] \in Nat /\ visto[n] \in Nat /\ murio[n] \in Nat
      BY Constantes DEF IInv, TypeOK
    <2> QED
      BY <2>1, <2>2, <2>3, Constantes
  <1> QED
    BY <1>1, Inductiva, PTL

(***************************************************************************)
(* tabla_nodos_purge never deletes the entry of a live node when the limit *)
(* covers the longest silence that losses and delays can cause.            *)
(***************************************************************************)
THEOREM VivoRecordado ==
  ASSUME Silencio + Lectura <= Vence
  PROVE  Spec => VivoNoSeOlvida
  <1>1. ASSUME IInv, IInv', [Next]_vars, NEW n \in vivos, visto[n] # NULL, visto[n] >= desde[n]
        PROVE  visto'[n] # NULL
    <2> USE Constantes
    <2>1. ahora <= visto[n] + Silencio + Lectura
      BY <1>1, Antiguedad DEF IInv
    <2>2. /\ ahora \in Nat /\ visto[n] \in Nat /\ n \in Nodos /\ Silencio \in Nat
          /\ visto \in [Nodos -> Nat \cup {NULL}]
      BY <1>1, Producto DEF IInv, TypeOK
    <2>3. ~(ahora - visto[n] > Vence)
      BY <2>1, <2>2
    <2>4. ASSUME NEW m \in Nodos, broadcast_loop(m) PROVE visto'[n] # NULL
      BY <1>1, <2>2, <2>3, <2>4 DEF broadcast_loop, tabla_nodos_purge
    <2>5. ASSUME NEW m \in Nodos, handle_udp_read(m) PROVE visto'[n] # NULL
      BY <1>1, <2>2, <2>5 DEF handle_udp_read, tabla_nodos_insert_or_update
    <2> QED
      BY <1>1, <2>4, <2>5 DEF Next, vars, Tic, Caer, Arrancar
  <1>2. IInv /\ IInv' /\ [Next]_vars =>
          [\A n \in vivos : visto[n] # NULL /\ visto[n] >= desde[n] => visto'[n] # NULL]_vars
    BY <1>1
  <1> QED
    BY <1>2, Inductiva, PTL DEF Spec, VivoNoSeOlvida
===============================================================================
