----------------------------- MODULE Planificador -----------------------------
(***************************************************************************)
(* The Erlang planner (planificador_erl/c_agent_client.erl): the master    *)
(* process, one job_handler process per job, their mailboxes, and the      *)
(* stream of lines to and from the C agent.  The agent is reduced to its   *)
(* jobs table: what it does with a line of the planner, and what it may    *)
(* answer; Cluster and GestorHilos say how it gets there.                  *)
(*                                                                         *)
(* A planner that is killed and started again is a new life: a connection  *)
(* of its own, no handlers, and unique_integer counting from the beginning.*)
(* The agent still reads what the earlier life had sent.                   *)
(***************************************************************************)
EXTENDS Integers, Sequences, SequencesExt

CONSTANTS RAFAGA,       \* requests in a burst
          Sufijo,       \* node_suffix()
          MaxRafagas,   \* bound: bursts, over all lives
          MaxVidas,     \* bound: times the planner is started
          ConCaida      \* whether the agent may die

ASSUME Parametros ==
  /\ RAFAGA \in Nat \ {0} /\ Sufijo \in 0 .. 255
  /\ MaxRafagas \in Nat \ {0} /\ MaxVidas \in Nat \ {0} /\ ConCaida \in BOOLEAN

nuevo_job_id(u) == u * 256 + Sufijo

Ids == {nuevo_job_id(u) : u \in 1 .. RAFAGA * MaxRafagas}

Vidas == 1 .. MaxVidas

VARIABLES vida,      \* the planner's life, which is also its connection
          fase,      \* where the master is: "tope" of masterloop, "nodos" in
                     \* get_nodes_recv, "rafaga" in disparar_rafaga, "bucle" in the
                     \* receives of masterloop, "fin"
          quedan,    \* requests left in this burst
          rafagas,   \* history: bursts launched, over all lives
          contador,  \* the last unique_integer of this life
          mapa,      \* the keys of HandlersMap
          handler,   \* handler[j]: its job_handler: "no", "espera", "trabaja" or "fin"
          buzon,     \* buzon[j]: the mailbox of that process
          correo,    \* the mailbox of the master: {release, j}
          tx, rx,    \* tx[v], rx[v]: lines to the agent and back on connection v
          cerrada,   \* connections whose end the agent has handled
          agente,    \* the agent runs
          tabla,     \* its jobs table: [job, conn, est]
          perdidos   \* history: jobs of this life the agent dropped without an answer

planificador == <<fase, quedan, rafagas, contador, mapa, handler, buzon, correo>>
vars == <<vida, planificador, tx, rx, cerrada, agente, tabla, perdidos>>

Linea(clase, j) == [clase |-> clase, job |-> j]

(* Nobody reads what is sent to an agent that has died. *)
enviar(m) == tx' = IF agente THEN [tx EXCEPT ![vida] = Append(@, m)] ELSE tx

(* start(): a fresh planner that has sent GET_NODES. *)
Init ==
  /\ vida = 1 /\ fase = "nodos" /\ quedan = 0 /\ rafagas = 0 /\ contador = 0
  /\ mapa = {} /\ handler = [j \in Ids |-> "no"] /\ buzon = [j \in Ids |-> << >>]
  /\ correo = << >>
  /\ tx = [v \in Vidas |-> IF v = 1 THEN <<Linea("GET_NODES", 0)>> ELSE << >>]
  /\ rx = [v \in Vidas |-> << >>]
  /\ cerrada = {} /\ agente = TRUE /\ tabla = {} /\ perdidos = {}

-------------------------------------------------------------------------------
(* The master. *)

(* Mutant: GET_NODES is sent again after a late message. *)
RecibirYRepetir ==
  /\ fase = "nodos" /\ rx[vida] # << >>
  /\ rx' = [rx EXCEPT ![vida] = Tail(@)]
  /\ \/ /\ Head(rx[vida]).clase = "NODES"
        /\ fase' = "rafaga" /\ quedan' = RAFAGA /\ rafagas' = rafagas + 1 /\ UNCHANGED tx
     \/ /\ Head(rx[vida]).clase = "SIN_NODOS"
        /\ fase' = "fin" /\ UNCHANGED <<quedan, rafagas, tx>>
     \/ /\ Head(rx[vida]).clase \notin {"NODES", "SIN_NODOS"}
        /\ enviar(Linea("GET_NODES", 0)) /\ UNCHANGED <<fase, quedan, rafagas>>
  /\ UNCHANGED <<vida, contador, mapa, handler, buzon, correo, cerrada, agente, tabla, perdidos>>

(* One line while waiting for the nodes: an empty list ends the program,   *)
(* any other message is late and is ignored.                               *)
get_nodes_recv ==
  /\ fase = "nodos" /\ rx[vida] # << >>
  /\ rx' = [rx EXCEPT ![vida] = Tail(@)]
  /\ \/ /\ Head(rx[vida]).clase = "NODES"
        /\ fase' = "rafaga" /\ quedan' = RAFAGA /\ rafagas' = rafagas + 1
     \/ /\ Head(rx[vida]).clase = "SIN_NODOS"
        /\ fase' = "fin" /\ UNCHANGED <<quedan, rafagas>>
     \/ /\ Head(rx[vida]).clase \notin {"NODES", "SIN_NODOS"}
        /\ UNCHANGED <<fase, quedan, rafagas>>
  /\ UNCHANGED <<vida, contador, mapa, handler, buzon, correo, tx, cerrada, agente, tabla, perdidos>>

(* One request of the burst: none when every amount drawn is 0, else a new *)
(* job with its handler.                                                   *)
disparar_rafaga ==
  /\ fase = "rafaga" /\ quedan > 0
  /\ quedan' = quedan - 1
  /\ \/ UNCHANGED <<contador, mapa, handler, tx>>
     \/ LET j == nuevo_job_id(contador + 1)
        IN  /\ contador' = contador + 1
            /\ enviar(Linea("JOB_REQUEST", j))
            /\ handler' = [handler EXCEPT ![j] = "espera"]
            /\ mapa' = mapa \cup {j}
  /\ UNCHANGED <<vida, fase, rafagas, buzon, correo, rx, cerrada, agente, tabla, perdidos>>

FinDeRafaga ==
  /\ fase = "rafaga" /\ quedan = 0
  /\ fase' = "bucle"
  /\ UNCHANGED <<vida, quedan, rafagas, contador, mapa, handler, buzon, correo, tx, rx,
                 cerrada, agente, tabla, perdidos>>

(* Mutant: the job stays in the map. *)
SoltarSinQuitar ==
  /\ fase = "bucle" /\ correo # << >>
  /\ enviar(Linea("JOB_RELEASE", Head(correo)))
  /\ correo' = Tail(correo) /\ fase' = "tope"
  /\ UNCHANGED <<vida, quedan, rafagas, contador, mapa, handler, buzon, rx, cerrada,
                 agente, tabla, perdidos>>

(* Mutant: the job leaves the map without JOB_RELEASE. *)
QuitarSinSoltar ==
  /\ fase = "bucle" /\ correo # << >>
  /\ correo' = Tail(correo) /\ mapa' = mapa \ {Head(correo)} /\ fase' = "tope"
  /\ UNCHANGED <<vida, quedan, rafagas, contador, handler, buzon, tx, rx, cerrada,
                 agente, tabla, perdidos>>

(* masterloop looks at its mailbox first. *)
masterloop_release ==
  /\ fase = "bucle" /\ correo # << >>
  /\ enviar(Linea("JOB_RELEASE", Head(correo)))
  /\ correo' = Tail(correo) /\ mapa' = mapa \ {Head(correo)} /\ fase' = "tope"
  /\ UNCHANGED <<vida, quedan, rafagas, contador, handler, buzon, rx, cerrada,
                 agente, tabla, perdidos>>

(* Mutant: an answer is handed to every handler of the map. *)
RepartirATodos ==
  /\ fase = "bucle" /\ correo = << >> /\ rx[vida] # << >>
  /\ LET m == Head(rx[vida])
     IN  buzon' = [j \in Ids |-> IF m.clase \in {"JOB_GRANTED", "JOB_DENIED"} /\ j \in mapa
                                THEN Append(buzon[j], m.clase) ELSE buzon[j]]
  /\ rx' = [rx EXCEPT ![vida] = Tail(@)] /\ fase' = "tope"
  /\ UNCHANGED <<vida, quedan, rafagas, contador, mapa, handler, correo, tx, cerrada,
                 agente, tabla, perdidos>>

(* Then it reads a line, and hands an answer to the handler of its job. *)
masterloop_recv ==
  /\ fase = "bucle" /\ correo = << >> /\ rx[vida] # << >>
  /\ LET m == Head(rx[vida])
     IN  buzon' = IF m.clase \in {"JOB_GRANTED", "JOB_DENIED"} /\ m.job \in mapa
                  THEN [buzon EXCEPT ![m.job] = Append(@, m.clase)] ELSE buzon
  /\ rx' = [rx EXCEPT ![vida] = Tail(@)] /\ fase' = "tope"
  /\ UNCHANGED <<vida, quedan, rafagas, contador, mapa, handler, correo, tx, cerrada,
                 agente, tabla, perdidos>>

(* Nothing came in 5 s, or the agent is gone and all it sent is read; an   *)
(* error in get_nodes_recv ends the program too.                           *)
recv_error ==
  /\ rx[vida] = << >>
  /\ \/ fase = "bucle" /\ correo = << >> /\ fase' = IF agente THEN "tope" ELSE "fin"
     \/ fase = "nodos" /\ ~agente /\ fase' = "fin"
  /\ UNCHANGED <<vida, quedan, rafagas, contador, mapa, handler, buzon, correo, tx, rx, cerrada,
                 agente, tabla, perdidos>>

(* Mutant: the burst counts as finished with one job left. *)
VolverConUno ==
  /\ fase = "tope"
  /\ IF \A j, k \in mapa : j = k
     THEN rafagas < MaxRafagas /\ fase' = "nodos" /\ enviar(Linea("GET_NODES", 0))
     ELSE fase' = "bucle" /\ UNCHANGED tx
  /\ UNCHANGED <<vida, quedan, rafagas, contador, mapa, handler, buzon, correo, rx, cerrada,
                 agente, tabla, perdidos>>

(* The top of the loop: with an empty map the burst is over. *)
masterloop ==
  /\ fase = "tope"
  /\ \/ /\ mapa = {} /\ rafagas < MaxRafagas
        /\ fase' = "nodos" /\ enviar(Linea("GET_NODES", 0))
     \/ /\ mapa # {}
        /\ fase' = "bucle" /\ UNCHANGED tx
  /\ UNCHANGED <<vida, quedan, rafagas, contador, mapa, handler, buzon, correo, rx, cerrada,
                 agente, tabla, perdidos>>

Maestro ==
  \/ get_nodes_recv \/ disparar_rafaga \/ FinDeRafaga \/ masterloop_release
  \/ masterloop_recv \/ recv_error \/ masterloop

-------------------------------------------------------------------------------
(* job_handler: one message, or none in 30 s, and then {release, j}. *)

(* Mutant: a handler whose time runs out just ends. *)
TerminarSinAvisar(j) ==
  /\ \/ handler[j] = "espera" /\ buzon[j] # << >> /\ Head(buzon[j]) # "JOB_GRANTED"
        /\ correo' = Append(correo, j)
     \/ handler[j] = "trabaja" /\ correo' = Append(correo, j)
     \/ handler[j] = "espera" /\ buzon[j] = << >> /\ UNCHANGED correo
  /\ handler' = [handler EXCEPT ![j] = "fin"]
  /\ UNCHANGED <<vida, fase, quedan, rafagas, contador, mapa, buzon, tx, rx, cerrada,
                 agente, tabla, perdidos>>

(* The work is done, the job was denied, or the time ran out. *)
job_handler_fin(j) ==
  /\ \/ handler[j] = "trabaja"
     \/ handler[j] = "espera" /\ buzon[j] # << >> /\ Head(buzon[j]) # "JOB_GRANTED"
     \/ handler[j] = "espera" /\ buzon[j] = << >>
  /\ handler' = [handler EXCEPT ![j] = "fin"]
  /\ correo' = Append(correo, j)
  /\ UNCHANGED <<vida, fase, quedan, rafagas, contador, mapa, buzon, tx, rx, cerrada,
                 agente, tabla, perdidos>>

job_handler_granted(j) ==
  /\ handler[j] = "espera" /\ buzon[j] # << >> /\ Head(buzon[j]) = "JOB_GRANTED"
  /\ handler' = [handler EXCEPT ![j] = "trabaja"]
  /\ UNCHANGED <<vida, fase, quedan, rafagas, contador, mapa, buzon, correo, tx, rx, cerrada,
                 agente, tabla, perdidos>>

job_handler(j) == job_handler_fin(j) \/ job_handler_granted(j)

-------------------------------------------------------------------------------
(* The agent.  It never sends JOB_TIMEOUT. *)

Conocido(j) == \E e \in tabla : e.job = j

(* A line for the planner of connection v; nobody reads one of a past life. *)
responder(v, m) == rx' = IF v = vida THEN [rx EXCEPT ![v] = Append(@, m)] ELSE rx

Siguiente(v, clase) ==
  /\ agente /\ tx[v] # << >> /\ Head(tx[v]).clase = clase
  /\ tx' = [tx EXCEPT ![v] = Tail(@)]
  /\ UNCHANGED <<vida, planificador, cerrada, agente, perdidos>>

AgenteNodos(v) ==
  /\ Siguiente(v, "GET_NODES")
  /\ \E clase \in {"NODES", "SIN_NODOS"} : responder(v, Linea(clase, 0))
  /\ UNCHANGED tabla

(* A known id is ignored; else the job is queued, granted or denied. *)
AgentePedido(v) ==
  /\ Siguiente(v, "JOB_REQUEST")
  /\ LET j == Head(tx[v]).job
     IN  \/ Conocido(j) /\ UNCHANGED <<tabla, rx>>
         \/ /\ ~Conocido(j)
            /\ \/ tabla' = tabla \cup {[job |-> j, conn |-> v, est |-> "pendiente"]} /\ UNCHANGED rx
               \/ /\ tabla' = tabla \cup {[job |-> j, conn |-> v, est |-> "otorgado"]}
                  /\ responder(v, Linea("JOB_GRANTED", j))
               \/ responder(v, Linea("JOB_DENIED", j)) /\ UNCHANGED tabla

AgenteSuelta(v) ==
  /\ Siguiente(v, "JOB_RELEASE")
  /\ tabla' = {e \in tabla : e.job # Head(tx[v]).job}
  /\ UNCHANGED rx

(* What comes of a pending job: the last grant, or a DENIED of another agent. *)
AgenteResuelve(e) ==
  /\ agente /\ e \in tabla /\ e.est = "pendiente"
  /\ \/ /\ tabla' = (tabla \ {e}) \cup {[e EXCEPT !.est = "otorgado"]}
        /\ responder(e.conn, Linea("JOB_GRANTED", e.job))
     \/ /\ tabla' = tabla \ {e}
        /\ responder(e.conn, Linea("JOB_DENIED", e.job))
  /\ UNCHANGED <<vida, planificador, tx, cerrada, agente, perdidos>>

(* A connection to another agent fails or is lost: no answer. *)
AgentePierde(e) ==
  /\ agente /\ e \in tabla
  /\ tabla' = tabla \ {e}
  /\ perdidos' = perdidos \cup (IF e.conn = vida THEN {e.job} ELSE {})
  /\ UNCHANGED <<vida, planificador, tx, rx, cerrada, agente>>

(* The planner's connection ended: process_disconnect.  After a reset, which *)
(* is handled before any read, the lines still unread are lost.            *)
AgenteDesconecta(v) ==
  /\ agente /\ v \notin cerrada
  /\ v < vida \/ (v = vida /\ fase = "fin")
  /\ cerrada' = cerrada \cup {v}
  /\ tx' = [tx EXCEPT ![v] = << >>]
  /\ tabla' = {e \in tabla : e.conn # v}
  /\ UNCHANGED <<vida, planificador, rx, agente, perdidos>>

AgenteCae ==
  /\ ConCaida /\ agente
  /\ agente' = FALSE /\ tabla' = {} /\ perdidos' = {}
  /\ tx' = [v \in Vidas |-> << >>]
  /\ UNCHANGED <<vida, planificador, rx, cerrada>>

Agente(v) == AgenteNodos(v) \/ AgentePedido(v) \/ AgenteSuelta(v)

-------------------------------------------------------------------------------
(* The planner is killed and started again, and connects. *)
Reiniciar ==
  /\ vida < MaxVidas /\ rafagas < MaxRafagas /\ agente
  /\ vida' = vida + 1
  /\ fase' = "nodos" /\ quedan' = 0 /\ contador' = 0
  /\ mapa' = {} /\ handler' = [j \in Ids |-> "no"] /\ buzon' = [j \in Ids |-> << >>]
  /\ correo' = << >> /\ perdidos' = {}
  /\ tx' = [tx EXCEPT ![vida + 1] = <<Linea("GET_NODES", 0)>>]
  /\ rx' = [rx EXCEPT ![vida] = << >>]
  /\ UNCHANGED <<rafagas, cerrada, agente, tabla>>

Next ==
  \/ Maestro \/ Reiniciar \/ AgenteCae
  \/ \E j \in Ids : job_handler(j)
  \/ \E v \in Vidas : Agente(v) \/ AgenteDesconecta(v)
  \/ \E e \in tabla : AgenteResuelve(e) \/ AgentePierde(e)

Spec == Init /\ [][Next]_vars

(* The Erlang scheduler runs every process and every timer; the agent's    *)
(* workers read what arrives.  What a job waits for need not come.         *)
FairSpec ==
  /\ Spec
  /\ WF_vars(Maestro)
  /\ \A j \in Ids : WF_vars(job_handler(j))
  /\ \A v \in Vidas : WF_vars(Agente(v))

-------------------------------------------------------------------------------
(* The types of the planner's processes, mailboxes and lines, and the      *)
(* bounds of a burst.                                                      *)
TypeOK ==
  /\ vida \in Vidas /\ fase \in {"tope", "nodos", "rafaga", "bucle", "fin"}
  /\ quedan \in 0 .. RAFAGA /\ rafagas \in 0 .. MaxRafagas
  /\ contador \in 0 .. RAFAGA * MaxRafagas
  /\ mapa \subseteq Ids /\ handler \in [Ids -> {"no", "espera", "trabaja", "fin"}]
  /\ buzon \in [Ids -> Seq({"JOB_GRANTED", "JOB_DENIED"})] /\ correo \in Seq(Ids)
  /\ tx \in [Vidas -> Seq([clase : {"GET_NODES", "JOB_REQUEST", "JOB_RELEASE"}, job : Ids \cup {0}])]
  /\ rx \in [Vidas -> Seq([clase : {"NODES", "SIN_NODOS", "JOB_GRANTED", "JOB_DENIED"},
                           job : Ids \cup {0}])]
  /\ cerrada \subseteq Vidas /\ agente \in BOOLEAN /\ perdidos \subseteq Ids
  /\ tabla \subseteq [job : Ids, conn : Vidas, est : {"pendiente", "otorgado"}]

(***************************************************************************)
(* "Si el mapa se vació, significa que la ráfaga anterior terminó":        *)
(* HandlersMap holds exactly the jobs whose job_handler still runs or whose*)
(* {release, j} the master has not read, so an empty map means that every  *)
(* handler of the burst is done and JOB_RELEASE has been sent for its job. *)
(***************************************************************************)
MapaExacto ==
  mapa = {j \in Ids : handler[j] \in {"espera", "trabaja"}} \cup ToSet(correo)

(***************************************************************************)
(* What get_nodes_recv throws away as late is of nobody: while the master  *)
(* waits for the nodes no handler runs that an unread answer could be for. *)
(***************************************************************************)
TardioEsDeNadie ==
  fase = "nodos" =>
    \A i \in DOMAIN rx[vida] : LET m == rx[vida][i]
                               IN  m.job \in Ids => handler[m.job] \notin {"espera", "trabaja"}

(***************************************************************************)
(* One GET_NODES is outstanding while the master waits for its answer, and *)
(* none otherwise: masterloop never takes a list of nodes for an unknown   *)
(* line, and get_nodes_recv never takes an old list for a new one.         *)
(***************************************************************************)
UnaConsulta ==
  LET preguntas == {i \in DOMAIN tx[vida] : tx[vida][i].clase = "GET_NODES"}
      listas == {i \in DOMAIN rx[vida] : rx[vida][i].clase \in {"NODES", "SIN_NODOS"}}
  IN  /\ \A i, k \in preguntas : i = k
      /\ \A i, k \in listas : i = k
      /\ preguntas = {} \/ listas = {}
      /\ agente => (fase = "nodos" <=> preguntas # {} \/ listas # {})

(***************************************************************************)
(* No job of this life is left behind in the agent: one in its table has a *)
(* handler in the planner's map, or its JOB_RELEASE is on the way.         *)
(***************************************************************************)
SoltadoEnCamino ==
  \A e \in tabla : e.conn = vida =>
    \/ e.job \in mapa
    \/ \E i \in DOMAIN tx[vida] : tx[vida][i] = Linea("JOB_RELEASE", e.job)
    \/ fase = "fin"

(***************************************************************************)
(* A handler works only while the agent holds its job as granted, unless   *)
(* the agent lost a connection the job used, or died.  A planner that was  *)
(* started again repeats ids, and a JOB_RELEASE of the earlier one may     *)
(* still arrive for them: this is said of its first life.                  *)
(***************************************************************************)
TrabajaConRecursos ==
  \A j \in Ids : vida = 1 /\ handler[j] = "trabaja" /\ agente /\ fase # "fin" =>
    [job |-> j, conn |-> vida, est |-> "otorgado"] \in tabla \/ j \in perdidos

(***************************************************************************)
(* "Genera un job_id único": a job that the agent knows, or will read of,  *)
(* by one of the planner's connections has not the id of a job of another. *)
(***************************************************************************)
IdUnico ==
  LET ids(v) == {e.job : e \in {x \in tabla : x.conn = v}}
                \cup {m.job : m \in {x \in ToSet(tx[v]) : x.clase # "GET_NODES"}}
  IN  \A v, w \in Vidas : v # w => ids(v) \cap ids(w) = {}

(***************************************************************************)
(* Burst after burst: as long as the agent reads its lines, the planner    *)
(* gets to the next burst or ends, even if no job is ever answered.        *)
(***************************************************************************)
RafagaTrasRafaga ==
  \A k \in 0 .. MaxRafagas - 1 : rafagas = k ~> (rafagas # k \/ fase = "fin")
===============================================================================
