-------------------------------- MODULE Gestor --------------------------------
(***************************************************************************)
(* The resource manager of one C agent (agente_c/src/resource_manager.c    *)
(* with tabla_jobs.c, tabla_conns.c and pending_request.c): the state it   *)
(* keeps, and every handler as a function of that state and of the message *)
(* or event it handles.                                                    *)
(*                                                                         *)
(* A manager is a record with fields                                       *)
(*   ip     the node's own address (g_ip)                                  *)
(*   rec    for each type, [libre, cola]: available_amount and the queue   *)
(*   tabla  the jobs table, newest job first                               *)
(*   conns  the connections table, newest entry first                      *)
(*   tx     what the handler sends: [conn, msg], in order                  *)
(*   abre   the connections the handler starts: [conn, ip], in order       *)
(*   tiene  history: for each type and job, the units granted to the job   *)
(*          and not given back in its name                                 *)
(* Connections are numbers: ERL is the local Erlang client, the others the *)
(* TCP connections between agents, the same number at both ends.  The      *)
(* handlers are atomic here; the module Recurso opens up their locking.    *)
(***************************************************************************)
EXTENDS Integers, Sequences, SequencesExt

CONSTANTS Nodos,   \* addresses of the agents
          Tipos,   \* resource types: cpu, mem, gpu
          Jobs,    \* job ids
          Total,   \* Total[n][t]: what node n was started with
          Corte    \* Corte[n]: what the 15 bytes of OutRequest.ip keep of n's address

ASSUME TotalNatural == Total \in [Nodos -> [Tipos -> Nat]]

ASSUME CorteDeCadaNodo == DOMAIN Corte = Nodos

ERL == 0
NULL == -1

manager_init(n) ==
  [ip |-> n, tabla |-> << >>, conns |-> << >>, tx |-> << >>, abre |-> << >>,
   rec |-> [t \in Tipos |-> [libre |-> Total[n][t], cola |-> << >>]],
   tiene |-> [t \in Tipos |-> [j \in Jobs |-> 0]]]

send_message(nd, c, m) == [nd EXCEPT !.tx = Append(@, [conn |-> c, msg |-> m])]

Mensaje(clase, j) == [clase |-> clase, job |-> j]

MensajeRecurso(clase, j, t, m) == [clase |-> clase, job |-> j, tipo |-> t, monto |-> m]

-------------------------------------------------------------------------------
(* The lists: what is left of s, in order, without what is out. *)
Sin(s, fuera) == FoldLeft(LAMBDA r, x : IF x \in fuera THEN r ELSE Append(r, x), << >>, s)

(* The waiting queues. *)

DeJob(cola, j) == {p \in ToSet(cola) : p.job = j}

DeConn(cola, c) == {p \in ToSet(cola) : p.conn = c}

limpiar_colas_por_id(nd, j) ==
  [nd EXCEPT !.rec = [t \in Tipos |-> [nd.rec[t] EXCEPT !.cola = Sin(@, DeJob(@, j))]]]

limpiar_colas_por_conn(nd, c) ==
  [nd EXCEPT !.rec = [t \in Tipos |-> [nd.rec[t] EXCEPT !.cola = Sin(@, DeConn(@, c))]]]

-------------------------------------------------------------------------------
(* The connections table: outgoing connections by address. *)

tabla_conns_lookup(nd, ip) ==
  LET k == SelectInSeq(nd.conns, LAMBDA e : e.ip = ip)
  IN  IF k = 0 THEN NULL ELSE nd.conns[k].conn

tabla_conns_insert(nd, ip, c) ==
  [nd EXCEPT !.conns = <<[ip |-> ip, conn |-> c]>> \o @]

tabla_conns_conoce(nd, c) == \E k \in DOMAIN nd.conns : nd.conns[k].conn = c

tabla_conns_get_ip_by_conn(nd, c) ==
  nd.conns[SelectInSeq(nd.conns, LAMBDA e : e.conn = c)].ip

tabla_conns_delete_by_conn(nd, c) ==
  [nd EXCEPT !.conns = RemoveFirstMatch(@, LAMBDA e : e.conn = c)]

-------------------------------------------------------------------------------
(* The jobs table. *)

(* Position of a job in the table, 0 if it is not there. *)
tabla_jobs_buscar_por_id(nd, j) == SelectInSeq(nd.tabla, LAMBDA x : x.job = j)

tabla_jobs_insertar_job(nd, job) == [nd EXCEPT !.tabla = <<job>> \o @]

(* The table without the job; the caller has found it at k. *)
tabla_jobs_extract_by_id(nd, k) == [nd EXCEPT !.tabla = RemoveAt(@, k)]

(* The pending requests made for a connection, each with its job, in the   *)
(* order of the list built from copies: last job of the table first.       *)
tabla_jobs_get_pendientes_by_conn(nd, c) ==
  LET DelJob(x) ==
        LET suyas == Sin(x.pendientes, ToSet(x.pendientes) \ DeConn(x.pendientes, c))
        IN  [i \in DOMAIN suyas |-> [job |-> x.job, ip |-> suyas[i].ip,
                                     tipo |-> suyas[i].tipo, monto |-> suyas[i].monto]]
  IN  Reverse(FoldLeft(LAMBDA s, x : s \o DelJob(x), << >>, nd.tabla))

(* Mutant: only the requests to other nodes are looked at. *)
VerificarSoloPendientes(nd, j) ==
  LET k == tabla_jobs_buscar_por_id(nd, j)
  IN  k # 0 /\ nd.tabla[k].pendientes = << >>

(* Nothing of the job is pending at another node or queued at this one. *)
tabla_jobs_verificar(nd, j) ==
  LET k == tabla_jobs_buscar_por_id(nd, j)
  IN  /\ k # 0
      /\ nd.tabla[k].pendientes = << >>
      /\ \A i \in DOMAIN nd.tabla[k].confirmadas :
           LET a == nd.tabla[k].confirmadas[i]
           IN  ~(a.lado = "LOCAL" /\ a.result = "RM_QUEUED")

(* The first local allocation of that type becomes granted. *)
Otorgado(job, c, t) ==
  LET i == SelectInSeq(job.confirmadas,
                       LAMBDA a : a.lado = "LOCAL" /\ a.conn = c /\ a.tipo = t)
  IN  IF i = 0 THEN job ELSE [job EXCEPT !.confirmadas[i].result = "RM_GRANTED"]

tabla_jobs_cambio_alloc(nd, j, c, t) ==
  LET k == tabla_jobs_buscar_por_id(nd, j)
  IN  IF k = 0 THEN nd ELSE [nd EXCEPT !.tabla[k] = Otorgado(@, c, t)]

(* Mutant: a GRANTED confirms all that is pending at the address. *)
ConfirmarTodas(nd, k, ip) ==
  LET suyas == SelectSeq(nd.tabla[k].pendientes, LAMBDA r : r.ip = ip)
      Nueva(r) == [tipo |-> r.tipo, monto |-> r.monto, lado |-> "REMOTE", ip |-> r.ip,
                   result |-> "RM_GRANTED", conn |-> r.conn]
  IN  [nd EXCEPT !.tabla[k].pendientes = Sin(@, ToSet(suyas)),
                 !.tabla[k].confirmadas = [i \in DOMAIN suyas |-> Nueva(suyas[i])] \o @]

(* GRANTED names no type: the first pending request to that address in the *)
(* list, which is the one made last, becomes an allocation.                *)
job_confirmar(nd, k, ip) ==
  LET job == nd.tabla[k]
      i == SelectInSeq(job.pendientes, LAMBDA r : r.ip = ip)
      r == job.pendientes[i]
      nueva == [tipo |-> r.tipo, monto |-> r.monto, lado |-> "REMOTE", ip |-> r.ip,
                result |-> "RM_GRANTED", conn |-> r.conn]
  IN  IF i = 0 THEN nd
      ELSE [nd EXCEPT !.tabla[k].pendientes = RemoveAt(@, i),
                      !.tabla[k].confirmadas = <<nueva>> \o @]

-------------------------------------------------------------------------------
(* reserve_resource: what it answers and the manager it leaves. *)
reserve_resource(nd, t, m, j, c, origen) ==
  IF nd.rec[t].libre >= m
  THEN [result |-> "RM_GRANTED",
        nd |-> [nd EXCEPT !.rec[t].libre = @ - m, !.tiene[t][j] = @ + m]]
  ELSE IF Total[nd.ip][t] < m
  THEN [result |-> "RM_DENIED", nd |-> nd]
  ELSE [result |-> "RM_QUEUED",
        nd |-> [nd EXCEPT !.rec[t].cola =
                 Append(@, [job |-> j, monto |-> m, conn |-> c, origen |-> origen])]]

(* One turn of the loop of release_resource: the head p is served. *)
Desencolar(nd, t, p) ==
  LET servido == [nd EXCEPT !.rec[t].libre = @ - p.monto, !.rec[t].cola = Tail(@),
                            !.tiene[t][p.job] = @ + p.monto]
      marcado == tabla_jobs_cambio_alloc(servido, p.job, p.conn, t)
  IN  IF p.origen = "REMOTE"
      THEN send_message(marcado, p.conn, Mensaje("GRANTED", p.job))
      ELSE IF tabla_jobs_verificar(marcado, p.job)
      THEN send_message(marcado, p.conn, Mensaje("JOB_GRANTED", p.job))
      ELSE marcado

(* Mutant: the queue is not looked at. *)
DevolverSinAtender(nd, t, m, j) ==
  IF m >= 0 /\ nd.rec[t].libre + m <= Total[nd.ip][t]
  THEN [nd EXCEPT !.rec[t].libre = @ + m, !.tiene[t][j] = @ - m]
  ELSE nd

(* The loop: the queue is served from its head while the head fits. *)
Atender(nd, t) ==
  LET Turno(acc, p) ==
        IF acc.sigue /\ acc.nd.rec[t].libre >= p.monto
        THEN [acc EXCEPT !.nd = Desencolar(@, t, p)]
        ELSE [acc EXCEPT !.sigue = FALSE]
  IN  FoldLeft(Turno, [nd |-> nd, sigue |-> TRUE], nd.rec[t].cola).nd

(* release_resource for job j; an invalid return is ignored. *)
release_resource(nd, t, m, j) ==
  IF m >= 0 /\ nd.rec[t].libre + m <= Total[nd.ip][t]
  THEN Atender([nd EXCEPT !.rec[t].libre = @ + m, !.tiene[t][j] = @ - m], t)
  ELSE nd

-------------------------------------------------------------------------------
(* The walk over a dead job's allocations: local units go back, and the    *)
(* remote ones are given back through the connection the table knows now.  *)
LiberarAllocs(nd, j, allocs) ==
  LET Uno(x, a) ==
        IF a.lado = "LOCAL"
        THEN IF a.result = "RM_GRANTED"
             THEN release_resource(x, a.tipo, a.monto, j) ELSE x
        ELSE LET c == tabla_conns_lookup(x, a.ip)
             IN  IF c = NULL THEN x
                 ELSE send_message(x, c, MensajeRecurso("RELEASE", j, a.tipo, a.monto))
  IN  FoldLeft(Uno, nd, allocs)

(* The same walk in JOB_RELEASE: through the connection the allocation was *)
(* made on, and with a purge for everything but granted local units.       *)
LiberarAllocsPropias(nd, j, allocs) ==
  LET Uno(x, a) ==
        IF a.lado = "LOCAL" /\ a.result = "RM_GRANTED"
        THEN release_resource(x, a.tipo, a.monto, j)
        ELSE LET y == limpiar_colas_por_id(x, j)
             IN  IF a.lado = "REMOTE"
                 THEN send_message(y, a.conn, MensajeRecurso("RELEASE", j, a.tipo, a.monto))
                 ELSE y
  IN  FoldLeft(Uno, nd, allocs)

tabla_jobs_remove(nd, j) ==
  LET k == tabla_jobs_buscar_por_id(nd, j)
  IN  IF k = 0 THEN nd
      ELSE LiberarAllocs([nd EXCEPT !.tabla = RemoveAt(@, k)], j,
                         nd.tabla[k].confirmadas)

-------------------------------------------------------------------------------
(* process_message, one operator per message. *)

RESERVE(nd, c, m) ==
  LET r == reserve_resource(nd, m.tipo, m.monto, m.job, c, "REMOTE")
  IN  CASE r.result = "RM_DENIED"  -> send_message(r.nd, c, Mensaje("DENIED", m.job))
        [] r.result = "RM_GRANTED" -> send_message(r.nd, c, Mensaje("GRANTED", m.job))
        [] OTHER -> r.nd

(* Mutant: everything the sender waits for is purged, not just the job. *)
ReleasePurgaConexion(nd, c, m) ==
  LET devuelto == IF m.monto = 0 THEN nd
                  ELSE release_resource(nd, m.tipo, m.monto, m.job)
  IN  limpiar_colas_por_conn(tabla_jobs_remove(devuelto, m.job), c)

RELEASE(nd, c, m) ==
  LET devuelto == IF m.monto = 0 THEN nd
                  ELSE release_resource(nd, m.tipo, m.monto, m.job)
  IN  limpiar_colas_por_id(tabla_jobs_remove(devuelto, m.job), m.job)

(* Mutant: the client is told at every grant. *)
GrantedSinVerificar(nd, c, m) ==
  LET k == tabla_jobs_buscar_por_id(nd, m.job)
  IN  IF k = 0 THEN nd
      ELSE send_message(job_confirmar(nd, k, tabla_conns_get_ip_by_conn(nd, c)),
                        nd.tabla[k].conn, Mensaje("JOB_GRANTED", m.job))

(* A grant for a job that is gone is answered with a return of nothing for *)
(* each type.                                                              *)
DevolverNada(nd, c, j) ==
  FoldLeft(LAMBDA x, t : send_message(x, c, MensajeRecurso("RELEASE", j, t, 0)),
           nd, SetToSeq(Tipos))

GRANTED(nd, c, m) ==
  LET k == tabla_jobs_buscar_por_id(nd, m.job)
      confirmado == job_confirmar(nd, k, tabla_conns_get_ip_by_conn(nd, c))
  IN  IF ~tabla_conns_conoce(nd, c) THEN nd
      ELSE IF k = 0 THEN DevolverNada(nd, c, m.job)
      ELSE IF confirmado # nd /\ tabla_jobs_verificar(confirmado, m.job)
      THEN send_message(confirmado, nd.tabla[k].conn, Mensaje("JOB_GRANTED", m.job))
      ELSE confirmado

DENIED(nd, c, m) ==
  LET k == tabla_jobs_buscar_por_id(nd, m.job)
      negado == IF k = 0 THEN nd
                ELSE send_message(tabla_jobs_remove(nd, m.job), nd.tabla[k].conn,
                                  Mensaje("JOB_DENIED", m.job))
  IN  limpiar_colas_por_id(negado, m.job)

(* Mutant: what was reserved before the refusal is kept. *)
AbortarSinSoltar(acc, j) ==
  [acc EXCEPT !.sigue = FALSE,
              !.nd = send_message(limpiar_colas_por_id(@, j), ERL,
                                  Mensaje("JOB_DENIED", j))]

(***************************************************************************)
(* JOB_REQUEST: the items in the order Erlang gives them, each at once: the*)
(* local ones reserved, the remote ones sent or left to a new connection.  *)
(* `visibles' are the addresses connect_remote_node can be tried on (the   *)
(* nodes table has their port), `n' the number of the next new connection. *)
(***************************************************************************)
AbortarPedido(acc, j) ==
  LET suelto == LiberarAllocs(limpiar_colas_por_id(acc.nd, j), j, acc.confirmadas)
  IN  [acc EXCEPT !.sigue = FALSE,
                  !.nd = send_message(suelto, ERL, Mensaje("JOB_DENIED", j))]

PedidoLocal(acc, j, it) ==
  LET r == reserve_resource(acc.nd, it.tipo, it.monto, j, ERL, "LOCAL")
      nueva == [tipo |-> it.tipo, monto |-> it.monto, lado |-> "LOCAL",
                ip |-> it.ip, result |-> r.result, conn |-> ERL]
  IN  IF r.result = "RM_DENIED" THEN AbortarPedido(acc, j)
      ELSE [acc EXCEPT !.nd = r.nd, !.confirmadas = <<nueva>> \o @]

(* The message to send is a function of the other fields and of the job. *)
crear_outrequest(ip, c, t, m) == [ip |-> Corte[ip], conn |-> c, tipo |-> t, monto |-> m]

PedidoRemoto(acc, j, it, visibles) ==
  LET c == tabla_conns_lookup(acc.nd, it.ip)
      Saliente(k) == crear_outrequest(it.ip, k, it.tipo, it.monto)
      m == MensajeRecurso("RESERVE", j, it.tipo, it.monto)
  IN  IF c # NULL
      THEN [acc EXCEPT !.nd = send_message(@, c, m),
                       !.pendientes = <<Saliente(c)>> \o @]
      ELSE IF it.ip \notin visibles THEN AbortarPedido(acc, j)
      ELSE [acc EXCEPT !.nd.abre = Append(@, [conn |-> acc.n, ip |-> it.ip]),
                       !.pendientes = <<Saliente(acc.n)>> \o @,
                       !.n = @ + 1]

JOB_REQUEST(nd, j, items, visibles, n) ==
  LET Item(acc, it) ==
        IF ~acc.sigue THEN acc
        ELSE IF it.ip = nd.ip THEN PedidoLocal(acc, j, it)
        ELSE PedidoRemoto(acc, j, it, visibles)
      fin == FoldLeft(Item, [nd |-> nd, confirmadas |-> << >>, pendientes |-> << >>,
                             sigue |-> TRUE, n |-> n], items)
      job == [job |-> j, conn |-> ERL, confirmadas |-> fin.confirmadas,
              pendientes |-> fin.pendientes]
      insertado == tabla_jobs_insertar_job(fin.nd, job)
  IN  IF tabla_jobs_buscar_por_id(nd, j) # 0 THEN nd
      ELSE IF ~fin.sigue THEN fin.nd
      ELSE IF tabla_jobs_verificar(insertado, j)
      THEN send_message(insertado, ERL, Mensaje("JOB_GRANTED", j))
      ELSE insertado

(* Mutant: the job is looked up but not taken out of the table. *)
JobReleaseSinExtraer(nd, j) ==
  LET k == tabla_jobs_buscar_por_id(nd, j)
  IN  IF k = 0 THEN nd
      ELSE limpiar_colas_por_id(
             LiberarAllocsPropias(nd, j, nd.tabla[k].confirmadas), j)

JOB_RELEASE(nd, j) ==
  LET k == tabla_jobs_buscar_por_id(nd, j)
  IN  IF k = 0 THEN nd
      ELSE limpiar_colas_por_id(
             LiberarAllocsPropias(tabla_jobs_extract_by_id(nd, k), j,
                                  nd.tabla[k].confirmadas), j)

-------------------------------------------------------------------------------
(* What the server calls when a connection comes up, fails or goes away. *)

(* Every pending request that waited for the connection is sent on it. *)
process_connection_ready(nd, c) ==
  LET Enviar(x, r) ==
        send_message(tabla_conns_insert(x, r.ip, c), c,
                     MensajeRecurso("RESERVE", r.job, r.tipo, r.monto))
  IN  FoldLeft(Enviar, nd, tabla_jobs_get_pendientes_by_conn(nd, c))

(* A job loses its allocations on the connection; it is taken out of the   *)
(* table if it came from it, waits on it, or has nothing left.             *)
SinAllocsDe(x, c) ==
  [x EXCEPT !.confirmadas = Sin(@, {a \in DeConn(@, c) : a.lado = "REMOTE"})]

Afectado(x, c) ==
  \/ x.conn = c
  \/ \E i \in DOMAIN x.pendientes : x.pendientes[i].conn = c
  \/ x.confirmadas = << >> /\ x.pendientes = << >>

tabla_jobs_extract_by_remote_conn(nd, c) ==
  LET podada == [i \in DOMAIN nd.tabla |-> SinAllocsDe(nd.tabla[i], c)]
      afectados == {x \in ToSet(podada) : Afectado(x, c)}
  IN  [nd |-> [nd EXCEPT !.tabla = Sin(podada, afectados)],
       extraidos |-> Reverse(Sin(podada, ToSet(podada) \ afectados))]

LiberarExtraidos(e) ==
  FoldLeft(LAMBDA x, job : LiberarAllocs(limpiar_colas_por_id(x, job.job), job.job,
                                         job.confirmadas),
           e.nd, e.extraidos)

process_connection_failed(nd, c) ==
  LiberarExtraidos(tabla_jobs_extract_by_remote_conn(nd, c))

(* Mutant: the queues keep the requests of the lost connection. *)
DesconexionSinPurga(nd, c) ==
  tabla_conns_delete_by_conn(
    LiberarExtraidos(tabla_jobs_extract_by_remote_conn(nd, c)), c)

process_disconnect(nd, c) ==
  tabla_conns_delete_by_conn(
    LiberarExtraidos(tabla_jobs_extract_by_remote_conn(limpiar_colas_por_conn(nd, c), c)),
    c)
===============================================================================
