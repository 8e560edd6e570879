----------------------------- MODULE GestorHilos ------------------------------
(***************************************************************************)
(* The handlers of one agent when several workers run them at once.  Gestor*)
(* has the handlers as atomic functions; here each one is the sequence of  *)
(* its critical sections, and the workers interleave between them.         *)
(*                                                                         *)
(* tabla.lock is held by JOB_REQUEST over the whole message, and by GRANTED*)
(* and DENIED, so these are split only where other locks let others in.    *)
(* JOB_RELEASE, JOB_TIMEOUT, RELEASE and process_disconnect let it go after*)
(* taking a job out of the table and then walk the job's allocations: what *)
(* they still have to do is a list of tasks, each one critical section.    *)
(*                                                                         *)
(* The agent is Yo and the other one Vecino.  Each connection is read by   *)
(* one worker: ERL by the one with the Erlang client's messages, Ida by the*)
(* one with Vecino's answers, Vuelta by the one with Vecino's own requests.*)
(* Who sends and answers is external, and kept to what the protocol allows.*)
(***************************************************************************)
EXTENDS Gestor, FiniteSets

CONSTANTS Yo, Vecino,   \* the two agents
          Pedido,       \* Pedido[j]: the items of a job of this agent's client
          Ajeno,        \* Ajeno[j]: the item a job of Vecino asks this agent for
          Abandono,     \* messages with which the client gives up a job that waits
          ConRechazo,   \* Vecino may deny
          Cierran       \* connections that may go away

Ida == 1
Vuelta == 2
Conexiones == {ERL, Ida, Vuelta}
Propios == DOMAIN Pedido
Ajenos == DOMAIN Ajeno

ASSUME Parametros ==
  /\ Yo \in Nodos /\ Vecino \in Nodos \ {Yo} /\ IsFiniteSet(Tipos)
  /\ Propios \subseteq Jobs /\ Ajenos \subseteq Jobs \ Propios
  /\ Cierran \subseteq Conexiones
  /\ \A j \in Propios : Pedido[j] \in Seq([ip : Nodos, tipo : Tipos, monto : Nat \ {0}])
  /\ \A j \in Ajenos : Ajeno[j] \in [ip : Nodos, tipo : Tipos, monto : Nat \ {0}]

(* The client asks this agent for each type at most once in a job. *)
UnoPorTipo ==
  \A j \in Propios : \A i, k \in DOMAIN Pedido[j] :
    /\ Pedido[j][i].ip = Yo /\ Pedido[j][k].ip = Yo
    /\ Pedido[j][i].tipo = Pedido[j][k].tipo
    => i = k

VARIABLES nd,        \* the manager, a record of Gestor
          lock,      \* who holds tabla.lock, or NULL
          hace,      \* hace[c]: what is left of the handler of c's worker
          armando,   \* nuevo_job of the JOB_REQUEST under way
          est,       \* est[c]: "abierta", "cerrando" or "liberada"
          cliente,   \* state of the client's jobs
          ajeno,     \* state of Vecino's jobs
          enVecino   \* enVecino[j]: RESERVEs of j Vecino has to answer

vars == <<nd, lock, hace, armando, est, cliente, ajeno, enVecino>>

Init ==
  /\ nd = [manager_init(Yo) EXCEPT !.conns = <<[ip |-> Vecino, conn |-> Ida]>>]
  /\ lock = NULL
  /\ hace = [c \in Conexiones |-> << >>]
  /\ armando = [confirmadas |-> << >>, pendientes |-> << >>]
  /\ est = [c \in Conexiones |-> "abierta"]
  /\ cliente = [j \in Propios |-> "nuevo"] /\ ajeno = [j \in Ajenos |-> "nuevo"]
  /\ enVecino = [j \in Propios |-> 0]

-------------------------------------------------------------------------------
(* The tasks of a handler. *)

devolver(t, m, j) == [op |-> "devolver", tipo |-> t, monto |-> m, job |-> j]
purgar(t, j) == [op |-> "purgar", tipo |-> t, job |-> j]
avisar(c, a, j) == [op |-> "avisar", conn |-> c, tipo |-> a.tipo, monto |-> a.monto, job |-> j]

(* limpiar_colas_por_id, one mutex after the other. *)
Purgas(j) == LET ts == SetToSeq(Tipos) IN [i \in DOMAIN ts |-> purgar(ts[i], j)]

(* The walk of JOB_RELEASE over the allocations of the job it took out. *)
TareasPropias(j, allocs) ==
  FlattenSeq([i \in DOMAIN allocs |->
    LET a == allocs[i]
    IN  IF a.lado = "LOCAL" /\ a.result = "RM_GRANTED"
        THEN <<devolver(a.tipo, a.monto, j)>>
        ELSE Purgas(j) \o IF a.lado = "REMOTE" THEN <<avisar(a.conn, a, j)>> ELSE << >>])

(* The walk of tabla_jobs_remove and process_disconnect, which look the    *)
(* connection up when they get there.                                      *)
Tareas(j, allocs) ==
  FlattenSeq([i \in DOMAIN allocs |->
    LET a == allocs[i]
    IN  IF a.lado = "REMOTE"
        THEN <<[op |-> "avisarA", ip |-> a.ip, tipo |-> a.tipo, monto |-> a.monto, job |-> j]>>
        ELSE IF a.result = "RM_GRANTED" THEN <<devolver(a.tipo, a.monto, j)>> ELSE << >>])

(* The messages of a step reach who they are for. *)
Entregar(x) ==
  LET Avisados(c, clase) == {e.msg.job : e \in {f \in ToSet(x.tx) :
                                                  f.conn = c /\ f.msg.clase = clase}}
  IN  /\ nd' = [x EXCEPT !.tx = << >>]
      /\ cliente' = [j \in Propios |->
                      IF cliente[j] # "esperando" THEN cliente[j]
                      ELSE IF j \in Avisados(ERL, "JOB_GRANTED") THEN "trabajando"
                      ELSE IF j \in Avisados(ERL, "JOB_DENIED") THEN "negado" ELSE cliente[j]]
      /\ ajeno' = [j \in Ajenos |->
                    IF j \in Avisados(Vuelta, "GRANTED") THEN "trabajando"
                    ELSE IF j \in Avisados(Vuelta, "DENIED") THEN "fin" ELSE ajeno[j]]

(* Worker c goes on with the tasks s. *)
Sigue(c, s) == hace' = [hace EXCEPT ![c] = s]

Libre(c) == est[c] = "abierta" /\ hace[c] = << >>

Toca(c, op) == hace[c] # << >> /\ Head(hace[c]).op = op

-------------------------------------------------------------------------------
(* JOB_REQUEST. *)

(* Mutant: tabla.lock is not taken. *)
PedirSinCandado(j) ==
  /\ Libre(ERL) /\ cliente[j] = "nuevo" /\ lock = NULL
  /\ armando' = [confirmadas |-> << >>, pendientes |-> << >>]
  /\ Sigue(ERL, [i \in 1 .. Len(Pedido[j]) + 1 |->
                  IF i > Len(Pedido[j]) THEN [op |-> "insertar", job |-> j]
                  ELSE [op |-> "item", job |-> j, it |-> Pedido[j][i]]])
  /\ cliente' = [cliente EXCEPT ![j] = "esperando"]
  /\ UNCHANGED <<nd, lock, est, ajeno, enVecino>>

(* A new job id, as the client's always are. *)
JobRequest(j) ==
  /\ Libre(ERL) /\ cliente[j] = "nuevo" /\ lock = NULL
  /\ lock' = ERL
  /\ armando' = [confirmadas |-> << >>, pendientes |-> << >>]
  /\ Sigue(ERL, [i \in 1 .. Len(Pedido[j]) + 1 |->
                  IF i > Len(Pedido[j]) THEN [op |-> "insertar", job |-> j]
                  ELSE [op |-> "item", job |-> j, it |-> Pedido[j][i]]])
  /\ cliente' = [cliente EXCEPT ![j] = "esperando"]
  /\ UNCHANGED <<nd, est, ajeno, enVecino>>

(* One item; an aborted job lets the lock go and answers JOB_DENIED.  No   *)
(* connection is opened here: Vecino is not in the nodes table.            *)
Item ==
  /\ Toca(ERL, "item")
  /\ LET h == Head(hace[ERL])
         acc == [nd |-> nd, confirmadas |-> armando.confirmadas,
                 pendientes |-> armando.pendientes, sigue |-> TRUE, n |-> 0]
         r == IF h.it.ip = Yo THEN PedidoLocal(acc, h.job, h.it)
              ELSE PedidoRemoto(acc, h.job, h.it, {})
     IN  /\ Entregar(r.nd)
         /\ armando' = [confirmadas |-> r.confirmadas, pendientes |-> r.pendientes]
         /\ enVecino' = [enVecino EXCEPT ![h.job] = @ + Len(r.pendientes) - Len(armando.pendientes)]
         /\ \/ r.sigue /\ Sigue(ERL, Tail(hace[ERL])) /\ UNCHANGED lock
            \/ ~r.sigue /\ Sigue(ERL, << >>) /\ lock' = NULL
  /\ UNCHANGED est

(* Mutant: the client is told without looking. *)
InsertarSinVerificar ==
  /\ Toca(ERL, "insertar")
  /\ LET j == Head(hace[ERL]).job
         x == tabla_jobs_insertar_job(nd, [job |-> j, conn |-> ERL,
                confirmadas |-> armando.confirmadas, pendientes |-> armando.pendientes])
     IN  Entregar(send_message(x, ERL, Mensaje("JOB_GRANTED", j)))
  /\ lock' = NULL /\ Sigue(ERL, << >>)
  /\ UNCHANGED <<armando, est, enVecino>>

(* tabla_jobs_insertar_job, tabla_jobs_verificar and the unlock. *)
Insertar ==
  /\ Toca(ERL, "insertar")
  /\ LET j == Head(hace[ERL]).job
         x == tabla_jobs_insertar_job(nd, [job |-> j, conn |-> ERL,
                confirmadas |-> armando.confirmadas, pendientes |-> armando.pendientes])
     IN  Entregar(IF tabla_jobs_verificar(x, j)
                  THEN send_message(x, ERL, Mensaje("JOB_GRANTED", j)) ELSE x)
  /\ lock' = NULL /\ Sigue(ERL, << >>)
  /\ UNCHANGED <<armando, est, enVecino>>

-------------------------------------------------------------------------------
(* The client ends a job that works or was denied, or gives it up. *)
Deja(j) ==
  \/ cliente[j] \in {"trabajando", "negado"}
  \/ "JOB_RELEASE" \in Abandono /\ cliente[j] = "esperando"

Cerrado(j) == IF cliente[j] = "esperando" THEN "abandonado" ELSE "fin"

JobRelease(j) ==
  /\ Libre(ERL) /\ Deja(j) /\ lock = NULL
  /\ cliente' = [cliente EXCEPT ![j] = Cerrado(j)]
  /\ LET k == tabla_jobs_buscar_por_id(nd, j)
     IN  \/ k = 0 /\ UNCHANGED <<nd, hace>>
         \/ /\ k # 0
            /\ nd' = tabla_jobs_extract_by_id(nd, k)
            /\ Sigue(ERL, TareasPropias(j, nd.tabla[k].confirmadas) \o Purgas(j))
  /\ UNCHANGED <<lock, armando, est, ajeno, enVecino>>

JobTimeout(j) ==
  /\ Libre(ERL) /\ "JOB_TIMEOUT" \in Abandono /\ cliente[j] = "esperando"
  /\ cliente' = [cliente EXCEPT ![j] = Cerrado(j)]
  /\ Sigue(ERL, <<[op |-> "quitar", job |-> j]>> \o Purgas(j))
  /\ UNCHANGED <<nd, lock, armando, est, ajeno, enVecino>>

-------------------------------------------------------------------------------
(* The messages of Vecino. *)

Reserve(j) ==
  /\ Libre(Vuelta) /\ ajeno[j] = "nuevo"
  /\ LET r == RESERVE([nd EXCEPT !.tx = << >>], Vuelta,
                      MensajeRecurso("RESERVE", j, Ajeno[j].tipo, Ajeno[j].monto))
         como == IF r.tx = << >> THEN "esperando"
                 ELSE IF r.tx[1].msg.clase = "GRANTED" THEN "trabajando" ELSE "fin"
     IN  nd' = [r EXCEPT !.tx = << >>] /\ ajeno' = [ajeno EXCEPT ![j] = como]
  /\ UNCHANGED <<lock, hace, armando, est, cliente, enVecino>>

Release(j) ==
  /\ Libre(Vuelta) /\ ajeno[j] = "trabajando"
  /\ Sigue(Vuelta, <<devolver(Ajeno[j].tipo, Ajeno[j].monto, j), [op |-> "quitar", job |-> j]>>
                   \o Purgas(j))
  /\ ajeno' = [ajeno EXCEPT ![j] = "fin"]
  /\ UNCHANGED <<nd, lock, armando, est, cliente, enVecino>>

Granted(j) ==
  /\ Libre(Ida) /\ enVecino[j] > 0 /\ lock = NULL
  /\ Entregar(GRANTED(nd, Ida, Mensaje("GRANTED", j)))
  /\ enVecino' = [enVecino EXCEPT ![j] = @ - 1]
  /\ UNCHANGED <<lock, hace, armando, est>>

Denied(j) ==
  /\ ConRechazo
  /\ Libre(Ida) /\ enVecino[j] > 0 /\ lock = NULL
  /\ Entregar(DENIED(nd, Ida, Mensaje("DENIED", j)))
  /\ enVecino' = [enVecino EXCEPT ![j] = @ - 1]
  /\ UNCHANGED <<lock, hace, armando, est>>

-------------------------------------------------------------------------------
(* Mutant: the queues keep the requests of the connection. *)
DesconectarSinPurga(c) ==
  /\ c \in Cierran /\ Libre(c)
  /\ est' = [est EXCEPT ![c] = "cerrando"]
  /\ Sigue(c, <<[op |-> "extraer"], [op |-> "borrar"]>>)
  /\ UNCHANGED <<nd, lock, armando, cliente, ajeno, enVecino>>

(* process_disconnect begins. *)
Desconectar(c) ==
  /\ c \in Cierran /\ Libre(c)
  /\ est' = [est EXCEPT ![c] = "cerrando"]
  /\ LET ts == SetToSeq(Tipos)
     IN  Sigue(c, [i \in DOMAIN ts |-> [op |-> "purgarConn", tipo |-> ts[i]]]
                  \o <<[op |-> "extraer"], [op |-> "borrar"]>>)
  /\ UNCHANGED <<nd, lock, armando, cliente, ajeno, enVecino>>

-------------------------------------------------------------------------------
(* The tasks. *)

(* Mutant: release_resource is told not to take tabla.lock. *)
DevolverSinCandado(c) ==
  /\ Toca(c, "devolver")
  /\ LET h == Head(hace[c]) IN Entregar(release_resource(nd, h.tipo, h.monto, h.job))
  /\ Sigue(c, Tail(hace[c]))
  /\ UNCHANGED <<lock, armando, est, enVecino>>

(* release_resource with take_lock. *)
Devolver(c) ==
  /\ Toca(c, "devolver") /\ lock = NULL
  /\ LET h == Head(hace[c]) IN Entregar(release_resource(nd, h.tipo, h.monto, h.job))
  /\ Sigue(c, Tail(hace[c]))
  /\ UNCHANGED <<lock, armando, est, enVecino>>

Purgar(c) ==
  /\ Toca(c, "purgar")
  /\ LET h == Head(hace[c])
     IN  nd' = [nd EXCEPT !.rec[h.tipo].cola = Sin(@, DeJob(@, h.job))]
  /\ Sigue(c, Tail(hace[c]))
  /\ UNCHANGED <<lock, armando, est, cliente, ajeno, enVecino>>

PurgarConn(c) ==
  /\ Toca(c, "purgarConn")
  /\ LET h == Head(hace[c])
     IN  nd' = [nd EXCEPT !.rec[h.tipo].cola = Sin(@, DeConn(@, c))]
  /\ Sigue(c, Tail(hace[c]))
  /\ UNCHANGED <<lock, armando, est, cliente, ajeno, enVecino>>

(* RELEASE on the connection of the allocation; Vecino takes it. *)
Avisar(c) ==
  /\ Toca(c, "avisar")
  /\ Sigue(c, Tail(hace[c]))
  /\ UNCHANGED <<nd, lock, armando, est, cliente, ajeno, enVecino>>

(* tabla_conns_lookup and RELEASE on what it finds. *)
AvisarA(c) ==
  /\ Toca(c, "avisarA")
  /\ LET h == Head(hace[c])
         k == tabla_conns_lookup(nd, h.ip)
     IN  Sigue(c, IF k = NULL THEN Tail(hace[c])
                  ELSE <<avisar(k, h, h.job)>> \o Tail(hace[c]))
  /\ UNCHANGED <<nd, lock, armando, est, cliente, ajeno, enVecino>>

(* The critical section of tabla_jobs_remove. *)
Quitar(c) ==
  /\ Toca(c, "quitar") /\ lock = NULL
  /\ LET j == Head(hace[c]).job
         k == tabla_jobs_buscar_por_id(nd, j)
     IN  \/ k = 0 /\ Sigue(c, Tail(hace[c])) /\ UNCHANGED nd
         \/ /\ k # 0
            /\ nd' = tabla_jobs_extract_by_id(nd, k)
            /\ Sigue(c, Tareas(j, nd.tabla[k].confirmadas) \o Tail(hace[c]))
  /\ UNCHANGED <<lock, armando, est, cliente, ajeno, enVecino>>

(* tabla_jobs_extract_by_remote_conn, and what is to be done for each job. *)
Extraer(c) ==
  /\ Toca(c, "extraer") /\ lock = NULL
  /\ LET e == tabla_jobs_extract_by_remote_conn(nd, c)
         xs == e.extraidos
     IN  /\ nd' = e.nd
         /\ Sigue(c, FlattenSeq([i \in DOMAIN xs |->
                       Purgas(xs[i].job) \o Tareas(xs[i].job, xs[i].confirmadas)])
                     \o Tail(hace[c]))
  /\ UNCHANGED <<lock, armando, est, cliente, ajeno, enVecino>>

(* tabla_conns_delete_by_conn; then the server closes and frees it. *)
Borrar(c) ==
  /\ Toca(c, "borrar")
  /\ nd' = tabla_conns_delete_by_conn(nd, c)
  /\ est' = [est EXCEPT ![c] = "liberada"]
  /\ Sigue(c, Tail(hace[c]))
  /\ UNCHANGED <<lock, armando, cliente, ajeno, enVecino>>

-------------------------------------------------------------------------------
Trabajador ==
  \/ Item \/ Insertar
  \/ \E c \in Conexiones :
       \/ Devolver(c) \/ Purgar(c) \/ PurgarConn(c) \/ Avisar(c) \/ AvisarA(c)
       \/ Quitar(c) \/ Extraer(c) \/ Borrar(c)

Mensajes ==
  \/ \E j \in Propios : JobRequest(j) \/ JobRelease(j) \/ Granted(j) \/ Denied(j)
  \/ \E j \in Ajenos : Reserve(j) \/ Release(j)

Percance ==
  \/ \E j \in Propios : JobTimeout(j)
  \/ \E c \in Conexiones : Desconectar(c)

Next == Trabajador \/ Mensajes \/ Percance

Spec == Init /\ [][Next]_vars

(* Some handler has a next step, or there is a message for an idle worker; *)
(* no client has to give up a job.                                         *)
Puede ==
  \/ \E c \in Conexiones : hace[c] # << >>
  \/ est[ERL] = "abierta" /\ \E j \in Propios : cliente[j] \in {"nuevo", "trabajando", "negado"}
  \/ est[Ida] = "abierta" /\ \E j \in Propios : enVecino[j] > 0
  \/ est[Vuelta] = "abierta" /\ \E j \in Ajenos : ajeno[j] \in {"nuevo", "trabajando"}

(***************************************************************************)
(* Fairness: workers go on, jobs that work end, Vecino answers.  A message *)
(* is handled at most once here, so some step as long as one is possible   *)
(* is enough.  This is weak fairness of Trabajador \/ Mensajes with the     *)
(* states in which a step is due written out: who holds the lock can go on,*)
(* and giving a job up is never due.                                       *)
(***************************************************************************)
FairSpec == Spec /\ ([]<>~Puede \/ []<><<Trabajador \/ Mensajes>>_vars)

-------------------------------------------------------------------------------
(* All handlers are over. *)
Reposo == \A c \in Conexiones : hace[c] = << >>

Pide(j, t) ==
  FoldLeft(LAMBDA s, it : IF it.ip = Yo /\ it.tipo = t THEN s + it.monto ELSE s, 0, Pedido[j])

Encolados(t, j) == Cardinality({i \in DOMAIN nd.rec[t].cola : nd.rec[t].cola[i].job = j})

(* The shape of the manager, of the streams and of the workers' calls.     *)
TypeOK ==
  /\ lock \in {NULL, ERL}
  /\ est \in [Conexiones -> {"abierta", "cerrando", "liberada"}]
  /\ cliente \in [Propios -> {"nuevo", "esperando", "trabajando", "negado", "fin", "abandonado"}]
  /\ ajeno \in [Ajenos -> {"nuevo", "esperando", "trabajando", "fin"}]
  /\ enVecino \in [Propios -> Nat] /\ nd.tx = << >>
  /\ \A t \in Tipos : nd.rec[t].libre \in 0 .. Total[Yo][t]

(***************************************************************************)
(* A job that works has all it asked this agent for, whatever other workers*)
(* served, purged or took out of the table between the steps of its        *)
(* JOB_REQUEST and of the grants that completed it.                        *)
(***************************************************************************)
OtorgadoCompleto ==
  \A j \in Propios : cliente[j] = "trabajando" /\ est[ERL] = "abierta" =>
    \A t \in Tipos : nd.tiene[t][j] = Pide(j, t)

(* The job is neither in the table nor to come. *)
Terminado(j) ==
  /\ tabla_jobs_buscar_por_id(nd, j) = 0
  /\ cliente[j] # "nuevo" \/ est[ERL] = "liberada"

SinRastro(j) == \A t \in Tipos : nd.tiene[t][j] = 0 /\ Encolados(t, j) = 0

(***************************************************************************)
(* Nothing is left of a job that is over: once all handlers have ended it  *)
(* has no units and no place in a queue, unless its client gave it up while*)
(* it waited.  And every job is taken apart once: JOB_RELEASE, JOB_TIMEOUT,*)
(* DENIED and process_disconnect may go for the same job from different    *)
(* workers, and never more is given back than it had.  Ida is taken to     *)
(* stay: a job that waits on it when it goes away may keep units as well   *)
(* (MCGestorHilosPerdida.cfg).                                             *)
(***************************************************************************)
SinHuerfanas ==
  Reposo => \A j \in Propios :
    /\ Terminado(j) /\ cliente[j] # "abandonado" => SinRastro(j)
    /\ \A t \in Tipos : nd.tiene[t][j] >= 0

(***************************************************************************)
(* "Elimina los jobs asociados al Job_id dado de las colas": nothing is    *)
(* left of a job given up while it waited either.  JOB_RELEASE and         *)
(* JOB_TIMEOUT take it out of the table first and purge the queues later,  *)
(* and what another worker serves in between stays lent.                   *)
(***************************************************************************)
AbandonadoSinRastro ==
  Reposo => \A j \in Propios :
    Terminado(j) /\ cliente[j] = "abandonado" => SinRastro(j)

(***************************************************************************)
(* The table and the queues agree whenever tabla.lock is free: a job in the*)
(* table has an allocation RM_QUEUED for each of its requests in a queue,  *)
(* except while process_disconnect purges the queues of its client.        *)
(***************************************************************************)
ColaYTabla ==
  lock = NULL /\ est[ERL] = "abierta" =>
    \A i \in DOMAIN nd.tabla : \A t \in Tipos :
      Encolados(t, nd.tabla[i].job) =
        Cardinality({k \in DOMAIN nd.tabla[i].confirmadas :
                       LET a == nd.tabla[i].confirmadas[k]
                       IN  a.lado = "LOCAL" /\ a.tipo = t /\ a.result = "RM_QUEUED"})

(***************************************************************************)
(* "Llamar antes de destruir el socket": when the server frees a connection*)
(* after process_disconnect, no queue, job, table entry or task of another *)
(* worker refers to it, although the other workers did not stop.           *)
(***************************************************************************)
SinConexionesColgadas ==
  LET Viva(s) == \A i \in DOMAIN s : est[s[i].conn] # "liberada"
  IN  /\ Viva(nd.conns) /\ Viva(nd.tabla) /\ Viva(armando.pendientes)
      /\ \A t \in Tipos : Viva(nd.rec[t].cola)
      /\ \A i \in DOMAIN nd.tabla :
           Viva(nd.tabla[i].confirmadas) /\ Viva(nd.tabla[i].pendientes)
      /\ \A c \in Conexiones : \A i \in DOMAIN hace[c] :
           hace[c][i].op = "avisar" => est[hace[c][i].conn] # "liberada"

(***************************************************************************)
(* Every job gets its answer while its client is there: no request is      *)
(* queued and served before the job is in the table, where the worker that *)
(* serves it would not find it.  A job that was given up and a neighbour   *)
(* that has gone may keep the units the others wait for, so nothing is said*)
(* once there is one.                                                      *)
(***************************************************************************)
TodosResponden ==
  \A j \in Propios :
    cliente[j] = "esperando" ~>
      \/ cliente[j] \in {"trabajando", "negado"}
      \/ est[ERL] # "abierta" \/ est[Vuelta] # "abierta"
      \/ \E k \in Propios : cliente[k] = "abandonado"
===============================================================================
