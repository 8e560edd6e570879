-------------------------------- MODULE Cluster --------------------------------
(***************************************************************************)
(* A cluster of C agents, each with its Erlang client: the handlers of     *)
(* Gestor composed over the connections between agents, the jobs as the    *)
(* Erlang job_handler sees them, and the ways a node goes away.            *)
(*                                                                         *)
(* A connection between two agents is a record                             *)
(*   de, a        who connected and to whom                                *)
(*   est          "conectando" until the handshake is over, then "abierta" *)
(*   ida, vuelta  messages on the way from `de' to `a' and back, in order  *)
(*   cerro        the ends that have destroyed their side                  *)
(***************************************************************************)
EXTENDS Gestor, FiniteSets

CONSTANTS Pedido,       \* Pedido[j]: the items of the job's JOB_REQUEST, in order
          Rafagas,      \* Rafagas[n]: the bursts of jobs of n's Erlang client
          Visibles,     \* what the nodes table may show: sets of addresses
          ConTimeout,   \* whether the 30 s of job_handler may run out
          MaxCaidas,    \* bound: agents that die
          MaxErlang     \* bound: Erlang clients that die

ASSUME PedidosBienFormados ==
  /\ \A j \in Jobs : \A i \in DOMAIN Pedido[j] :
       /\ Pedido[j][i].ip \in Nodos /\ Pedido[j][i].tipo \in Tipos
       /\ Pedido[j][i].monto \in Nat \ {0}
  /\ \A j \in Jobs : \E n \in Nodos : \E r \in DOMAIN Rafagas[n] :
       j \in ToSet(Rafagas[n][r])
  /\ Visibles \subseteq SUBSET Nodos /\ Visibles # {}
  /\ MaxCaidas \in Nat /\ MaxErlang \in Nat

VARIABLES nodo,    \* the manager of each agent
          red,     \* the connections between agents, by number
          erlTx,   \* erlTx[n]: what the Erlang client of n has sent
          erlRx,   \* erlRx[n]: what agent n has sent to it
          rafaga,  \* rafaga[n]: bursts already launched
          plan,    \* plan[j]: where job_handler(j) is
          vivo,    \* the agents that run
          erl      \* the Erlang clients: "vivo", "caido", or "cerrado" once the
                   \* agent has noticed

vars == <<nodo, red, erlTx, erlRx, rafaga, plan, vivo, erl>>

JobsDe(n) == UNION {ToSet(Rafagas[n][r]) : r \in DOMAIN Rafagas[n]}

Origen(j) == CHOOSE n \in Nodos : j \in JobsDe(n)

Init ==
  /\ nodo = [n \in Nodos |-> manager_init(n)]
  /\ red = << >>
  /\ erlTx = [n \in Nodos |-> << >>]
  /\ erlRx = [n \in Nodos |-> << >>]
  /\ rafaga = [n \in Nodos |-> 0]
  /\ plan = [j \in Jobs |-> "nuevo"]
  /\ vivo = Nodos
  /\ erl = [n \in Nodos |-> "vivo"]

--------------------------------------------------------------------------------
(* What a handler leaves behind it, put into the world. *)

Abierta(k, n) == n \notin red[k].cerro

(* A message is appended to the stream (enqueue_write, then the writes of  *)
(* handle_tcp_write; write_buf is taken to have room for it).  On a        *)
(* connection whose other end is gone it is lost.                          *)
Entregar(r, n, envio) ==
  LET k == envio.conn
      oye == IF n = r[k].de THEN r[k].a ELSE r[k].de
  IN  IF oye \in r[k].cerro THEN r
      ELSE IF n = r[k].de THEN [r EXCEPT ![k].ida = Append(@, envio.msg)]
      ELSE [r EXCEPT ![k].vuelta = Append(@, envio.msg)]

(* Agent n finishes a handler with manager nd, the connections being r. *)
Concluir(n, nd, r) ==
  LET nuevas == [i \in DOMAIN nd.abre |->
                   [de |-> n, a |-> nd.abre[i].ip, est |-> "conectando",
                    ida |-> << >>, vuelta |-> << >>, cerro |-> {}]]
      aErlang == SelectSeq(nd.tx, LAMBDA e : e.conn = ERL)
      aAgentes == SelectSeq(nd.tx, LAMBDA e : e.conn # ERL)
  IN  /\ nodo' = [nodo EXCEPT ![n] = [nd EXCEPT !.tx = << >>, !.abre = << >>]]
      /\ red' = FoldLeft(LAMBDA x, e : Entregar(x, n, e), r \o nuevas, aAgentes)
      /\ erlRx' = IF erl[n] = "vivo"
                  THEN [erlRx EXCEPT ![n] = @ \o [i \in DOMAIN aErlang |-> aErlang[i].msg]]
                  ELSE erlRx

--------------------------------------------------------------------------------
(* The Erlang client. *)

(* The handlers of the bursts so far are gone (HandlersMap is empty). *)
PuedeDisparar(n) ==
  \A r \in 1 .. rafaga[n] : \A j \in ToSet(Rafagas[n][r]) : plan[j] = "fin"

DispararRafaga(n) ==
  /\ erl[n] = "vivo" /\ rafaga[n] < Len(Rafagas[n])
  /\ PuedeDisparar(n)
  /\ LET js == Rafagas[n][rafaga[n] + 1]
     IN  /\ erlTx' = [erlTx EXCEPT ![n] =
                        @ \o [i \in DOMAIN js |-> Mensaje("JOB_REQUEST", js[i])]]
         /\ plan' = [j \in Jobs |-> IF j \in ToSet(js) THEN "esperando" ELSE plan[j]]
  /\ rafaga' = [rafaga EXCEPT ![n] = @ + 1]
  /\ UNCHANGED <<nodo, red, erlRx, vivo, erl>>

(* job_handler ends: the master sends its JOB_RELEASE. *)
Terminar(j) ==
  /\ plan' = [plan EXCEPT ![j] = "fin"]
  /\ erlTx' = [erlTx EXCEPT ![Origen(j)] = Append(@, Mensaje("JOB_RELEASE", j))]

(* masterloop reads an answer: it goes to the job's handler, or nowhere. *)
RecibirRespuesta(n) ==
  /\ erl[n] = "vivo" /\ erlRx[n] # << >>
  /\ erlRx' = [erlRx EXCEPT ![n] = Tail(@)]
  /\ LET m == Head(erlRx[n])
     IN  \/ /\ plan[m.job] = "esperando" /\ m.clase = "JOB_GRANTED"
            /\ plan' = [plan EXCEPT ![m.job] = "trabajando"]
            /\ UNCHANGED erlTx
         \/ /\ plan[m.job] = "esperando" /\ m.clase = "JOB_DENIED"
            /\ Terminar(m.job)
         \/ /\ plan[m.job] # "esperando"
            /\ UNCHANGED <<plan, erlTx>>
  /\ UNCHANGED <<nodo, red, rafaga, vivo, erl>>

(* The work of a granted job is over. *)
TerminarTrabajo(j) ==
  /\ erl[Origen(j)] = "vivo" /\ plan[j] = "trabajando"
  /\ Terminar(j)
  /\ UNCHANGED <<nodo, red, erlRx, rafaga, vivo, erl>>

(* `after 30000' in job_handler. *)
AgotarEspera(j) ==
  /\ ConTimeout
  /\ erl[Origen(j)] = "vivo" /\ plan[j] = "esperando"
  /\ Terminar(j)
  /\ UNCHANGED <<nodo, red, erlRx, rafaga, vivo, erl>>

--------------------------------------------------------------------------------
(* process_message at agent n. *)

RecibirDeErlang(n) ==
  /\ n \in vivo /\ erlTx[n] # << >>
  /\ LET m == Head(erlTx[n])
     IN  \/ /\ m.clase = "JOB_REQUEST"
            /\ \E vis \in Visibles :
                 Concluir(n, JOB_REQUEST(nodo[n], m.job, Pedido[m.job], vis,
                                         Len(red) + 1), red)
         \/ /\ m.clase = "JOB_RELEASE"
            /\ Concluir(n, JOB_RELEASE(nodo[n], m.job), red)
  /\ erlTx' = [erlTx EXCEPT ![n] = Tail(@)]
  /\ UNCHANGED <<rafaga, plan, vivo, erl>>

(* A message that came in on a connection the other agent opened. *)
RecibirIda(k) ==
  /\ red[k].a \in vivo /\ Abierta(k, red[k].a)
  /\ red[k].est = "abierta" /\ red[k].ida # << >>
  /\ LET m == Head(red[k].ida)
         n == red[k].a
         r == [red EXCEPT ![k].ida = Tail(@)]
     IN  \/ m.clase = "RESERVE" /\ Concluir(n, RESERVE(nodo[n], k, m), r)
         \/ m.clase = "RELEASE" /\ Concluir(n, RELEASE(nodo[n], k, m), r)
  /\ UNCHANGED <<erlTx, rafaga, plan, vivo, erl>>

(* An answer on a connection this agent opened. *)
RecibirVuelta(k) ==
  /\ red[k].de \in vivo /\ Abierta(k, red[k].de)
  /\ red[k].vuelta # << >>
  /\ LET m == Head(red[k].vuelta)
         n == red[k].de
         r == [red EXCEPT ![k].vuelta = Tail(@)]
     IN  \/ m.clase = "GRANTED" /\ Concluir(n, GRANTED(nodo[n], k, m), r)
         \/ m.clase = "DENIED" /\ Concluir(n, DENIED(nodo[n], k, m), r)
  /\ UNCHANGED <<erlTx, rafaga, plan, vivo, erl>>

--------------------------------------------------------------------------------
(* Connections come up, fail and go away. *)

(* handle_outgoing_connection_event with no socket error. *)
ConexionLista(k) ==
  /\ red[k].est = "conectando" /\ red[k].de \in vivo /\ red[k].a \in vivo
  /\ Abierta(k, red[k].de)
  /\ LET n == red[k].de
     IN  Concluir(n, process_connection_ready(nodo[n], k),
                  [red EXCEPT ![k].est = "abierta"])
  /\ UNCHANGED <<erlTx, rafaga, plan, vivo, erl>>

(* Agent n destroys its end of connection k after handling its loss. *)
Cerrar(k, n, nd) == Concluir(n, nd, [red EXCEPT ![k].cerro = @ \cup {n}])

(* The handshake fails: the event is an error on the socket, for which     *)
(* worker_thread_loop calls process_disconnect, or only a writable socket  *)
(* with SO_ERROR set, for which process_connection_failed is called.       *)
ConexionFallida(k) ==
  /\ red[k].est = "conectando" /\ red[k].de \in vivo /\ red[k].a \notin vivo
  /\ Abierta(k, red[k].de)
  /\ LET n == red[k].de
     IN  \/ Cerrar(k, n, process_connection_failed(nodo[n], k))
         \/ Cerrar(k, n, process_disconnect(nodo[n], k))
  /\ UNCHANGED <<erlTx, rafaga, plan, vivo, erl>>

(* The other end is gone: end of file or error on the socket.  What had not*)
(* been read may be lost: an error event is handled before a read.         *)
Desconectar(k, n) ==
  /\ red[k].est = "abierta" /\ n \in {red[k].de, red[k].a} /\ n \in vivo
  /\ Abierta(k, n) /\ {red[k].de, red[k].a} \ {n} \subseteq red[k].cerro
  /\ Cerrar(k, n, process_disconnect(nodo[n], k))
  /\ UNCHANGED <<erlTx, rafaga, plan, vivo, erl>>

(* The agent of n dies, and its Erlang client stops with it. *)
CaeAgente(n) ==
  /\ n \in vivo /\ Cardinality(Nodos \ vivo) < MaxCaidas
  /\ vivo' = vivo \ {n}
  /\ erl' = [erl EXCEPT ![n] = "cerrado"]
  /\ nodo' = [nodo EXCEPT ![n] = manager_init(n)]
  /\ red' = [k \in DOMAIN red |->
              IF n \in {red[k].de, red[k].a}
              THEN [red[k] EXCEPT !.cerro = @ \cup {n}] ELSE red[k]]
  /\ plan' = [j \in Jobs |-> IF j \in JobsDe(n) THEN "fin" ELSE plan[j]]
  /\ erlTx' = [erlTx EXCEPT ![n] = << >>]
  /\ erlRx' = [erlRx EXCEPT ![n] = << >>]
  /\ UNCHANGED rafaga

(* The Erlang client of n dies. *)
CaeErlang(n) ==
  /\ n \in vivo /\ erl[n] = "vivo"
  /\ Cardinality({x \in vivo : erl[x] # "vivo"}) < MaxErlang
  /\ erl' = [erl EXCEPT ![n] = "caido"]
  /\ plan' = [j \in Jobs |-> IF j \in JobsDe(n) THEN "fin" ELSE plan[j]]
  /\ erlRx' = [erlRx EXCEPT ![n] = << >>]
  /\ UNCHANGED <<nodo, red, erlTx, rafaga, vivo>>

(* Its agent notices; requests it had not read may be lost. *)
DesconectarErlang(n) ==
  /\ n \in vivo /\ erl[n] = "caido"
  /\ erl' = [erl EXCEPT ![n] = "cerrado"]
  /\ erlTx' = [erlTx EXCEPT ![n] = << >>]
  /\ Concluir(n, process_disconnect(nodo[n], ERL), red)
  /\ UNCHANGED <<rafaga, plan, vivo>>

--------------------------------------------------------------------------------
PasoErlang ==
  \/ \E n \in Nodos : DispararRafaga(n) \/ RecibirRespuesta(n)
  \/ \E j \in Jobs : TerminarTrabajo(j)

PasoAgente ==
  \/ \E n \in Nodos : RecibirDeErlang(n) \/ DesconectarErlang(n)
  \/ \E k \in DOMAIN red :
       \/ RecibirIda(k) \/ RecibirVuelta(k)
       \/ ConexionLista(k) \/ ConexionFallida(k)
       \/ \E n \in Nodos : Desconectar(k, n)

Percance ==
  \/ \E j \in Jobs : AgotarEspera(j)
  \/ \E n \in Nodos : CaeAgente(n) \/ CaeErlang(n)

Next == PasoErlang \/ PasoAgente \/ Percance

Spec == Init /\ [][Next]_vars

(***************************************************************************)
(* Fairness: a worker, or an Erlang process, that has something to do gets *)
(* to do it.  This is weak fairness of PasoAgente and of PasoErlang, with  *)
(* the states in which they are enabled written out: every handler runs to *)
(* its end from every state, so a step is possible exactly when there is   *)
(* a message to read, a connection to settle or a job to go on with.       *)
(***************************************************************************)
AgentePuede ==
  \/ \E n \in vivo : erlTx[n] # << >> \/ erl[n] = "caido"
  \/ \E k \in DOMAIN red :
       \/ /\ red[k].de \in vivo /\ Abierta(k, red[k].de)
          /\ red[k].est = "conectando" \/ red[k].vuelta # << >> \/ red[k].a \in red[k].cerro
       \/ /\ red[k].a \in vivo /\ Abierta(k, red[k].a) /\ red[k].est = "abierta"
          /\ red[k].ida # << >> \/ red[k].de \in red[k].cerro

ErlangPuede ==
  \E n \in Nodos :
    /\ erl[n] = "vivo"
    /\ \/ erlRx[n] # << >>
       \/ \E j \in JobsDe(n) : plan[j] = "trabajando"
       \/ rafaga[n] < Len(Rafagas[n]) /\ PuedeDisparar(n)

FairSpec ==
  /\ Spec
  /\ []<>~AgentePuede \/ []<><<PasoAgente>>_vars
  /\ []<>~ErlangPuede \/ []<><<PasoErlang>>_vars

--------------------------------------------------------------------------------
(* Counting, for the properties. *)

Cuantos(s, Es(_)) == Cardinality({i \in DOMAIN s : Es(s[i])})

Suma(s, Monto(_)) == FoldLeft(LAMBDA x, e : x + Monto(e), 0, s)

(* What job j asks of type t at node n. *)
Pide(j, n, t) ==
  Suma(Pedido[j], LAMBDA it : IF it.ip = n /\ it.tipo = t THEN it.monto ELSE 0)

(* No agent and no client has anything to do: what is left is to wait. *)
Quieto == ~AgentePuede /\ ~ErlangPuede

(* Every agent's record keeps its shape and its amounts stay natural.      *)
TypeOK ==
  /\ vivo \subseteq Nodos
  /\ erl \in [Nodos -> {"vivo", "caido", "cerrado"}]
  /\ plan \in [Jobs -> {"nuevo", "esperando", "trabajando", "fin"}]
  /\ rafaga \in [Nodos -> Nat]
  /\ \A n \in Nodos :
       /\ nodo[n].tx = << >> /\ nodo[n].abre = << >>
       /\ \A t \in Tipos : nodo[n].rec[t].libre \in 0 .. Total[n][t]
       /\ \A i \in DOMAIN nodo[n].tabla : nodo[n].tabla[i].job \in Jobs
       /\ \A i \in DOMAIN nodo[n].conns : nodo[n].conns[i].conn \in DOMAIN red
  /\ \A k \in DOMAIN red :
       /\ {red[k].de, red[k].a} \subseteq Nodos /\ red[k].cerro \subseteq Nodos
       /\ red[k].est \in {"conectando", "abierta"}

(***************************************************************************)
(* A job that works has all it asked for and no more: when masterloop logs *)
(* "Recursos reservados correctamente." every agent of its request that is *)
(* still up holds exactly the requested units for it, although JOB_GRANTED *)
(* is decided from answers that name no resource type, at three places.    *)
(***************************************************************************)
OtorgadoCompleto ==
  \A j \in Jobs : plan[j] = "trabajando" =>
    \A n \in vivo : \A t \in Tipos : nodo[n].tiene[t][j] = Pide(j, n, t)

(***************************************************************************)
(* tabla_jobs.h on the fields of Job: `confirmadas' are "Recursos con      *)
(* GRANTED hecho", which JOB_RELEASE gives back.  No job gives back what   *)
(* it was not granted, for that would hand another job's units out twice.  *)
(***************************************************************************)
NadieDevuelveDeMas ==
  \A n \in Nodos : \A t \in Tipos : \A j \in Jobs : nodo[n].tiene[t][j] >= 0

(* The job asks each other agent for one thing at most: with a single      *)
(* request outstanding there, a GRANTED that names no type is no riddle.   *)
UnaCosaPorAgente(j) ==
  \A i, k \in DOMAIN Pedido[j] :
    Pedido[j][i].ip = Pedido[j][k].ip /\ Pedido[j][i].ip # Origen(j) => i = k

(***************************************************************************)
(* A job abandoned by its agent leaves nothing in that agent: once it is   *)
(* not in the jobs table (JOB_REQUEST gave up half way, it was denied, it  *)
(* was released or lost a connection) none of its local units stays lent,  *)
(* none is given back that it had not got but only waited for, and no local*)
(* request of it is queued.  Of instances where each job asks each other   *)
(* agent for one thing: a wrong type that comes back (NadieDevuelveDeMas)  *)
(* can make the right one be refused.                                      *)
(***************************************************************************)
SinRestoLocal ==
  (\A k \in Jobs : UnaCosaPorAgente(k)) =>
    \A n \in vivo : \A j \in JobsDe(n) :
      tabla_jobs_buscar_por_id(nodo[n], j) = 0 =>
        \A t \in Tipos :
          nodo[n].tiene[t][j] = 0 /\ DeJob(nodo[n].rec[t].cola, j) = {}

(***************************************************************************)
(* A job is answered at most once, although JOB_GRANTED and JOB_DENIED are *)
(* sent from JOB_REQUEST, GRANTED, DENIED and release_resource: no second  *)
(* answer is on its way to the client, and none to a job that works.       *)
(***************************************************************************)
UnaRespuesta ==
  \A j \in Jobs :
    Cuantos(erlRx[Origen(j)], LAMBDA m : m.job = j)
      <= IF plan[j] \in {"nuevo", "trabajando"} THEN 0 ELSE 1

(* What job x of agent n has somewhere between n and b: waiting for its    *)
(* connection, on its way as RESERVE, in b's queues, or on its way back.   *)
EnCamino(n, x, b) ==
  LET De(m) == m.job = x.job
      ks == {k \in DOMAIN red : red[k].de = n /\ red[k].a = b}
  IN  FoldSet(LAMBDA k, s : s
        + Cuantos(x.pendientes, LAMBDA r : r.conn = k /\ red[k].est = "conectando")
        + Cuantos(red[k].ida, LAMBDA m : De(m) /\ m.clase = "RESERVE")
        + Cuantos(red[k].vuelta, De), 0, ks)
      + FoldSet(LAMBDA t, s : s + Cuantos(nodo[b].rec[t].cola, De), 0, Tipos)

Pendientes(x, b) == Cuantos(x.pendientes, LAMBDA r : r.ip = b)

(***************************************************************************)
(* tabla_jobs.h: `pendientes' are "Recursos con GRANTED pendiente".  Each  *)
(* pending request of a job is on its way, waiting or being answered, and  *)
(* nothing else is anywhere in the name of the job.                        *)
(***************************************************************************)
TodosEnCamino ==
  \A n \in vivo : \A i \in DOMAIN nodo[n].tabla : \A b \in vivo \ {n} :
    Pendientes(nodo[n].tabla[i], b) = EnCamino(n, nodo[n].tabla[i], b)

(* All the job asked of b goes over the same connection.                   *)
UnaConexion(x, b) ==
  Cardinality({r.conn : r \in {y \in ToSet(x.pendientes) : y.ip = b}}
              \cup {a.conn : a \in {y \in ToSet(x.confirmadas) :
                                     y.lado = "REMOTE" /\ y.ip = b}}) <= 1

(***************************************************************************)
(* The same of a job and an agent that it asked over one connection, and   *)
(* only then (two items for an agent not yet connected open two, of which  *)
(* TodosEnCamino is false): RESERVE, queueing, serving, GRANTED, DENIED,   *)
(* RELEASE and the purges neither lose a request of a job in the table nor *)
(* make a second one, although a GRANTED does not name the request.        *)
(***************************************************************************)
PendientesEnCamino ==
  \A n \in vivo : \A i \in DOMAIN nodo[n].tabla : \A b \in vivo \ {n} :
    LET x == nodo[n].tabla[i]
    IN  UnaConexion(x, b) => Pendientes(x, b) = EnCamino(n, x, b)

(***************************************************************************)
(* When nothing of a job is pending at an agent any more, its confirmed    *)
(* allocations there are, type by type, the units that agent has lent it:  *)
(* what JOB_RELEASE will give back is what is lent, although each GRANTED  *)
(* confirmed the newest request and not the one that was granted.          *)
(***************************************************************************)
ConfirmadasExactas ==
  \A n \in vivo : \A i \in DOMAIN nodo[n].tabla : \A b \in vivo \ {n} :
    LET x == nodo[n].tabla[i]
    IN  Pendientes(x, b) = 0 =>
          \A t \in Tipos :
            nodo[b].tiene[t][x.job] =
              Suma(x.confirmadas,
                   LAMBDA a : IF a.lado = "REMOTE" /\ a.ip = b /\ a.tipo = t
                              THEN a.monto ELSE 0)

(***************************************************************************)
(* tabla_jobs.h on the fields of Job: `confirmadas' are "Recursos con      *)
(* GRANTED hecho".  An allocation in the list is held by the job at the    *)
(* agent it names.                                                         *)
(***************************************************************************)
ConfirmadaEsOtorgada ==
  \A n \in vivo : \A i \in DOMAIN nodo[n].tabla :
    \A a \in ToSet(nodo[n].tabla[i].confirmadas) :
      a.lado = "REMOTE" /\ a.ip \in vivo =>
        nodo[a.ip].tiene[a.tipo][nodo[n].tabla[i].job] >= a.monto

(***************************************************************************)
(* Nothing refers to a connection that has been destroyed: after           *)
(* process_disconnect or process_connection_failed the server frees the    *)
(* connection_t, and the queues, the jobs and the connections table of the *)
(* agent hold no pointer to it.                                            *)
(***************************************************************************)
SinConexionesColgadas ==
  \A n \in vivo :
    LET Viva(c) == IF c = ERL THEN erl[n] # "cerrado" ELSE Abierta(c, n)
        En(s) == \A i \in DOMAIN s : Viva(s[i].conn)
    IN  /\ En(nodo[n].conns) /\ En(nodo[n].tabla)
        /\ \A t \in Tipos : En(nodo[n].rec[t].cola)
        /\ \A i \in DOMAIN nodo[n].tabla :
             En(nodo[n].tabla[i].confirmadas) /\ En(nodo[n].tabla[i].pendientes)

(***************************************************************************)
(* tabla_conns_lookup returns "la conexión externa si fue exitosa": while  *)
(* an agent has a connection of its own to another in its table, looking   *)
(* for that agent's address finds one, and JOB_REQUEST opens no other.     *)
(***************************************************************************)
ConexionEncontrada ==
  \A n \in vivo : \A k \in DOMAIN red :
    red[k].de = n /\ tabla_conns_conoce(nodo[n], k) =>
      tabla_conns_lookup(nodo[n], red[k].a) # NULL

(***************************************************************************)
(* Nothing leaks: once every job is over and every message handled, each   *)
(* agent has all its units back, no job and nobody waiting.                *)
(***************************************************************************)
SinFugas ==
  Quieto /\ (\A j \in Jobs : plan[j] = "fin") =>
    \A n \in vivo :
      /\ nodo[n].tabla = << >>
      /\ \A t \in Tipos : nodo[n].rec[t] = [libre |-> Total[n][t], cola |-> << >>]

(***************************************************************************)
(* Nobody waits for ever: when there is nothing left to do, no job is      *)
(* still waiting for its answer.                                           *)
(***************************************************************************)
SinEsperaEterna == Quieto => \A j \in Jobs : plan[j] # "esperando"

(***************************************************************************)
(* Every job that is asked for ends, granted or denied, without a timeout: *)
(* the loop of release_resource, GRANTED and JOB_GRANTED pass the units of *)
(* each finished job on to those that wait.                                *)
(***************************************************************************)
TodosTerminan == \A j \in Jobs : plan[j] = "esperando" ~> plan[j] = "fin"
================================================================================
