------------------------------ MODULE TablaNodos ------------------------------
(***************************************************************************)
(* The nodes table of one agent (tabla_node_entry.c) and the UDP discovery *)
(* that keeps it: every agent announces itself from main and then from     *)
(* broadcast_loop, a worker of this one reads the datagrams, and its own   *)
(* broadcast_loop purges the nodes it has not heard of for too long.       *)
(*                                                                         *)
(* Time is counted in seconds, as time(NULL) does.  sleep never ends early,*)
(* and a loop or a worker gets its turn at most Demora or Lectura seconds  *)
(* late.  Datagrams may be lost, at most MaxPerdidas of a node in a row.   *)
(***************************************************************************)
EXTENDS Integers

CONSTANTS Nodos,         \* addresses; this agent hears its own announcements too
          Yo,            \* this agent
          Periodo,       \* sleep(5) in broadcast_loop
          Inicio,        \* sleep(2) in main
          Vence,         \* tabla_nodos_purge(15)
          Demora,        \* how late broadcast_loop may be
          Lectura,       \* how late a worker may read a datagram
          MaxPerdidas,   \* datagrams of a node lost in a row
          ConCaidas,     \* other nodes may die and start again
          MaxTiempo      \* bound on the clock

ASSUME Supuestos ==
  /\ Yo \in Nodos
  /\ Periodo \in Nat \ {0} /\ Inicio \in 0 .. Periodo /\ Vence \in Nat
  /\ Demora \in Nat /\ Lectura \in Nat /\ MaxPerdidas \in Nat /\ MaxTiempo \in Nat
  /\ ConCaidas \in BOOLEAN

NULL == -1

VARIABLES ahora,      \* the clock
          vivos,      \* nodes that are up
          fase,       \* fase[n]: "main" before the threads are started, then "loop"
          emite,      \* emite[n]: when n announced itself last
          perdidas,   \* perdidas[n]: its last announcements that were lost
          llego,      \* llego[n]: a datagram of n waits to be read since then, or NULL
          visto,      \* visto[n]: last_seen of its entry, or NULL
          desde,      \* history: when n was started last
          murio       \* history: when n died last

vars == <<ahora, vivos, fase, emite, perdidas, llego, visto, desde, murio>>

(* This agent has just sent the announcement of main; the others have been *)
(* running, and announced themselves some time ago.                        *)
Init ==
  /\ ahora = Periodo /\ vivos = Nodos
  /\ fase = [n \in Nodos |-> IF n = Yo THEN "main" ELSE "loop"]
  /\ emite \in [Nodos -> 0 .. Periodo] /\ emite[Yo] = Periodo
  /\ perdidas = [n \in Nodos |-> 0]
  /\ llego = [n \in Nodos |-> IF n = Yo THEN Periodo ELSE NULL]
  /\ visto = [n \in Nodos |-> NULL]
  /\ desde = [n \in Nodos |-> 0]
  /\ murio = [n \in Nodos |-> 0]

-------------------------------------------------------------------------------
(* How long n sleeps between this announcement and the next. *)
Pausa(n) == IF fase[n] = "main" THEN Inicio ELSE Periodo

(* The datagram of n is lost, or waits at this agent's socket. *)
send_udp_broadcast(n) ==
  /\ emite' = [emite EXCEPT ![n] = ahora]
  /\ \/ /\ perdidas[n] < MaxPerdidas
        /\ perdidas' = [perdidas EXCEPT ![n] = @ + 1]
        /\ UNCHANGED llego
     \/ /\ perdidas' = [perdidas EXCEPT ![n] = 0]
        /\ llego' = [llego EXCEPT ![n] = IF @ = NULL THEN ahora ELSE @]

(* Mutant: an entry of exactly the limit is deleted. *)
PurgarEnElLimite == visto' = [n \in Nodos |-> IF ahora - visto[n] >= Vence THEN NULL ELSE visto[n]]

(* Mutant: the sweep unlinks nothing. *)
PurgarNunca == UNCHANGED visto

tabla_nodos_purge == visto' = [n \in Nodos |-> IF ahora - visto[n] > Vence THEN NULL ELSE visto[n]]

(* One turn of the loop; the first starts when main is done sleeping, and  *)
(* with it the workers.  Only this agent's purge is about this table.      *)
broadcast_loop(n) ==
  /\ n \in vivos /\ ahora >= emite[n] + Pausa(n)
  /\ fase' = [fase EXCEPT ![n] = "loop"]
  /\ send_udp_broadcast(n)
  /\ \/ n = Yo /\ tabla_nodos_purge
     \/ n # Yo /\ UNCHANGED visto
  /\ UNCHANGED <<ahora, vivos, desde, murio>>

tabla_nodos_insert_or_update(n) == visto' = [visto EXCEPT ![n] = ahora]

(* A worker reads the datagram: handle_udp_read and process_announce. *)
handle_udp_read(n) ==
  /\ fase[Yo] = "loop" /\ llego[n] # NULL
  /\ tabla_nodos_insert_or_update(n)
  /\ llego' = [llego EXCEPT ![n] = NULL]
  /\ UNCHANGED <<ahora, vivos, fase, emite, perdidas, desde, murio>>

-------------------------------------------------------------------------------
Caer(n) ==
  /\ ConCaidas /\ n \in vivos \ {Yo}
  /\ vivos' = vivos \ {n} /\ murio' = [murio EXCEPT ![n] = ahora]
  /\ UNCHANGED <<ahora, fase, emite, perdidas, llego, visto, desde>>

(* main of a node that starts again. *)
Arrancar(n) ==
  /\ n \notin vivos
  /\ vivos' = vivos \cup {n} /\ fase' = [fase EXCEPT ![n] = "main"]
  /\ desde' = [desde EXCEPT ![n] = ahora]
  /\ send_udp_broadcast(n)
  /\ UNCHANGED <<ahora, visto, murio>>

(* Nobody's turn may be overdue. *)
Tic ==
  /\ ahora < MaxTiempo
  /\ \A n \in vivos : ahora < emite[n] + Pausa(n) + Demora
  /\ fase[Yo] = "loop" => \A n \in Nodos : llego[n] # NULL => ahora < llego[n] + Lectura
  /\ ahora' = ahora + 1
  /\ UNCHANGED <<vivos, fase, emite, perdidas, llego, visto, desde, murio>>

Next ==
  \/ Tic
  \/ \E n \in Nodos : broadcast_loop(n) \/ handle_udp_read(n) \/ Caer(n) \/ Arrancar(n)

Spec == Init /\ [][Next]_vars

-------------------------------------------------------------------------------
(* Clocks and time stamps: last_seen is NULL or a time that has been.      *)
TypeOK ==
  /\ ahora \in Nat /\ vivos \subseteq Nodos /\ Yo \in vivos
  /\ fase \in [Nodos -> {"main", "loop"}]
  /\ emite \in [Nodos -> Nat] /\ perdidas \in [Nodos -> 0 .. MaxPerdidas]
  /\ llego \in [Nodos -> Nat \cup {NULL}] /\ visto \in [Nodos -> Nat \cup {NULL}]
  /\ desde \in [Nodos -> Nat] /\ murio \in [Nodos -> Nat]

(* A node's announcement is heard at least this often. *)
Silencio == (MaxPerdidas + 1) * (Periodo + Demora)

(***************************************************************************)
(* A node that is up is not forgotten: tabla_nodos_purge never deletes the *)
(* entry of a live node, whatever announcements get lost and however late  *)
(* the loops and the workers run, if the longest silence fits in the limit *)
(* (Silencio + Lectura <= Vence).  The entry of a node that died and is up *)
(* again is about its earlier life until it is heard of.                   *)
(***************************************************************************)
VivoNoSeOlvida ==
  [][\A n \in vivos : visto[n] # NULL /\ visto[n] >= desde[n] => visto'[n] # NULL]_vars

(***************************************************************************)
(* A dead node is forgotten in time: its entry, from which JOB_REQUEST     *)
(* takes the port and GET_NODES the planner's choice, survives it by no    *)
(* more than the limit, one period and the delays, the datagram that was   *)
(* still unread when it died included.                                     *)
(***************************************************************************)
MuertoSeOlvida ==
  \A n \in Nodos \ vivos : visto[n] # NULL /\ fase[Yo] = "loop" =>
    ahora <= murio[n] + Inicio + Demora + Lectura + Vence + Periodo + Demora

(***************************************************************************)
(* main.c: "Retardo estructural para recibir topología preexistente antes  *)
(* de operar": when the workers start, every node that is up has been heard*)
(* of, if no announcement is lost or late.                                 *)
(***************************************************************************)
TopologiaConocida ==
  fase[Yo] = "loop" => \A n \in vivos : visto[n] # NULL \/ llego[n] # NULL
===============================================================================
