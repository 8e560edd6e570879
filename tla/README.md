# Verification of the distributed resource manager

TLA+ models of the repository's C agent (`agente_c/`) and Erlang planner
(`planificador_erl/`), checked with TLC on small instances and, for the
multi-threaded resource and its linked list, the connection and its reader, the nodes
table and the planner, proved with TLAPS for every instance. Definitions carry the
names of the C functions where they model one whole function, and Spanish names,
like the source, where they model a part of one. `PROJECT.json` maps every
definition to the lines it models.

## 1. The system

Each node of the cluster runs one **agent**, a C process with four worker threads
on one `epoll` instance and a broadcast thread, and one **planner**, an Erlang
process connected to its agent over loopback. The agent owns the node's cpu, mem
and gpu units.

| part | state it keeps | operations |
|---|---|---|
| resources (`resource_manager.c`, `pending_request.c`) | per type: `available_amount`, `total_amount`, a FIFO list of waiting requests, a mutex | `reserve_resource`, `release_resource`, `limpiar_colas_por_id`, `limpiar_colas_por_conn` |
| message handlers (`resource_manager.c`) | none of their own | RESERVE, RELEASE, GRANTED, DENIED (agents); JOB_REQUEST, JOB_RELEASE, JOB_STATUS, GET_NODES, JOB_TIMEOUT (planner); `process_disconnect`, `process_connection_ready`, `process_connection_failed` |
| jobs table (`tabla_jobs.c`) | per job: client connection, `confirmadas` (allocations), `pendientes` (requests to other agents); one lock | insert, remove, extract, `job_confirmar`, `tabla_jobs_verificar`, `tabla_jobs_cambio_alloc` |
| connections table (`tabla_conns.c`) | address to outgoing connection | insert, lookup by address, address by connection, delete |
| nodes table (`tabla_node_entry.c`, `main.c`) | address to port, announced resources, last seen | update on UDP ANNOUNCE, port lookup, purge after 15 s |
| server (`server.c`) | per connection: type, read buffer, write buffer, `in_handler` | accept, connect, read lines, write, rearm (EPOLLONESHOT), destroy |
| planner (`c_agent_client.erl`) | handlers of the current burst | GET_NODES, burst of JOB_REQUESTs, answer to its `job_handler`, 30 s timeout, JOB_RELEASE |
| parsing (`parsing.c`) | none | text to records and back |

**How they interact.** A JOB_REQUEST lists items (address, type, amount). The
agent reserves the local ones at once and sends RESERVE for the others, over a
known connection or over a new one whose handshake is asynchronous. A request is
granted, queued or refused at the agent that owns the units; GRANTED and DENIED
name the job only. When nothing of a job is pending or queued, the client gets
JOB_GRANTED; at the end it sends JOB_RELEASE, units go back, and each return
serves the queue from its head. The tables are shared by the workers under the
jobs table's lock and one mutex per resource, always taken in that order.

**What is hard.** Jobs hold units at one agent while they wait at another;
grants race timeouts, disconnections and denials; answers carry less than the
questions; several connections to the same agent may be open; handlers release
the table's lock half way; one connection may be handled by two workers;
buffers are finite and full ones drop messages; announcements get lost; the planner
is restarted while the agent still reads its lines. `PROJECT.json` lists each of
these under `hazards` with its line and with the properties that cover it, or
says why none does yet.

**What makes each part correct.** Resources: units are neither invented nor lost,
and nobody waits for a wake-up that cannot come. Handlers and tables: a job works
only with everything it asked for, is answered once, gives back what it holds and
nothing else, and leaves nothing behind. Connections: one worker at a time, bytes in
order and all of them sent, lines whole and in order, no pointer to a destroyed
connection. Nodes table: the live nodes and, after a while, no dead one. Planner:
burst after burst, nothing left behind in the agent, requests that can be granted.
Cluster: no request gets lost between two agents, every job ends.

## 2. Modules

| module | what it is |
|---|---|
| `RecursoAbs` | what one resource promises: a pool and a queue with atomic operations and a serving round nothing can come between |
| `Recurso` | one entry of `manager.recursos[]` under any number of threads: every read and write of the counter, every lock and unlock and every node a purge visits is a step |
| `RecursoProofs` | the inductive invariant of `Recurso`, its theorems and the refinement of `RecursoAbs` |
| `Gestor` | the manager of one agent as a record, and each handler as a function of it |
| `Cluster` | agents, planners and the streams between them: one action per message read or connection event, the timeout, and the ways a process goes away |
| `GestorHilos`, `GestorHilosProofs` | the handlers of one agent under several workers: `Gestor`'s functions, cut at the locks; its proofs |
| `Conexion`, `ConexionProofs` | one `connection_t` under the workers: epoll mask, `in_handler`, write buffer, creation and destruction; its proofs |
| `Lectura`, `LecturaProofs` | the reader of `handle_tcp_read`, byte by byte; its proofs |
| `ColaAbs`, `ColaPunteros`, `ColaPunterosProofs` | the waiting list as a sequence, the linked list of `pending_request.c`, and the proof that it implements the sequence |
| `TablaNodos`, `TablaNodosProofs` | announcements, `last_seen` and the purge, on a clock; its proofs |
| `Planificador`, `PlanificadorProofs` | the master process of the planner, its `job_handler`s, mailboxes and lines, and the agent's jobs table; its proofs |
| `Formato` | what becomes of the amounts of an ANNOUNCE on the way through NODES, the planner's draw and JOB_REQUEST |
| `InduccionNat` | lemmas: induction over the naturals, what `FlattenSeq` and `FoldLeft` compute |
| `MC*` | instances for TLC; `MCCluster` and `MCGestorHilos` hold the scenarios (who asks whom for what) |

`Cluster` composes agents (`Gestor`), planners and connections. `GestorHilos` opens the
atomic handlers of `Cluster`; `Recurso` opens `release_resource` further, to the single
reads and writes; `ColaPunteros` opens the queue that both take for a sequence;
`Conexion` and `Lectura` open the ordered streams of `Cluster`; `Planificador` and
`Formato` open its planner, `TablaNodos` its choice `Visibles`.

### Recurso

`available` and `cola` are `available_amount` and the list from `top` on; `mutex`
and `tabla` name the holders of the resource's mutex and of the jobs table's lock;
`pc[h]` is where thread `h` stands, and `pedido`, `monto`, `propia`, `leido`,
`nodo`, `borrar` are arguments and locals of the call it is in. `prestado` is a
history variable: units granted and not returned. A thread outside calls
`reserve_resource` with any request, `release_resource` with any amount (a RELEASE
is whatever the peer wrote, so wrong and negative ones are included) or a purge. A
thread that holds the table's lock calls `release_resource` with `take_lock` false,
any other with `take_lock` true. `leido` makes the subtraction and the addition two
steps: were the mutex not there, an update would be lost (that is the mutant
`LockSinExclusion`). A purge that takes away the head does not serve the one behind
it even if it fits, as in the code: it waits for the next release, and
`SinDespertarPerdido` says that there is one to come.

Amounts of requests are positive because `parse_job_request`, the only origin of
RESERVE, drops the others (`c_amt > 0`, assumption `Supuestos`). What a dequeue does
to the jobs table and whom it tells are `Gestor`'s; here the point is that the
table's lock is held then (`TablaProtegida`, which is proved and in no run: `ColaYTabla`
shows what it is for; likewise `LimpiezaCompleta`, which `EsCola` shows of the real list).

### Gestor and Cluster

`Gestor` has one operator per function or message: `reserve_resource`,
`release_resource` with its serving loop (`Desencolar` is one turn),
`tabla_jobs_*`, `tabla_conns_*`, `job_confirmar`, `RESERVE`, `RELEASE`, `GRANTED`,
`DENIED`, `JOB_REQUEST`, `JOB_RELEASE` and the three `process_*` callbacks. Messages
a handler sends collect in `tx`, connections it starts in `abre`; `tiene[t][j]` is a
history of the units a job holds. The order of the source is kept where it shows:
lists grow at the front, `job_confirmar` takes the first pending request of the
address, JOB_RELEASE sends on the connection of the allocation while all other
releases look the address up again, connections are looked up newest first.

`Cluster` runs these handlers atomically. `RecibirDeErlang`, `RecibirIda` and
`RecibirVuelta` read one line from a stream and run `process_message`;
`ConexionLista` and `ConexionFallida` are the two results of an asynchronous
connect (a failed one shows up as an error event, which calls `process_disconnect`,
or as a writable socket with SO_ERROR, which calls `process_connection_failed`);
`Desconectar` and `DesconectarErlang` are a worker's reaction to a closed socket, in
which unread data may be lost because errors are handled before reads. The planner
is `DispararRafaga` (only when the previous burst is over, as `masterloop` does),
`RecibirRespuesta`, `TerminarTrabajo` and `AgotarEspera`. `CaeAgente` and `CaeErlang`
are deaths of processes; they are external to the code.

`Corte` is what `crear_outrequest` makes of an address: `OutRequest.ip` has 15 bytes, so
an address of 15 characters loses its last one, and the connection is stored under
what is left. Every run uses whole addresses; `MCClusterDireccion.cfg` does not.

Left out on purpose: text (messages are records), logging, hash buckets (one list),
the contents of the nodes table (`Visibles` chooses, at every lookup, whether an
address is known), JOB_STATUS and GET_NODES (they change nothing), job ids shared by
two nodes, restarts of an agent under the same address, and full buffers.

### GestorHilos

`nd` is a record of `Gestor`, `lock` the holder of the jobs table's lock and `hace[c]`
what is left of the handler of connection `c`'s worker: a list of tasks (return
units, purge one queue, send a RELEASE, take a job out, delete the connection's
entry), each of them one critical section of the source. JOB_REQUEST keeps the lock
from its first item to `tabla_jobs_insertar_job`, with each local reservation a step;
JOB_RELEASE, JOB_TIMEOUT, RELEASE and `process_disconnect` let it go after taking a
job out, which is where others come in. There is one worker per connection, which
is what EPOLLONESHOT is meant to give and, outside one window, does (`Conexion`). The other agent's side is external: it asks
for units, answers or denies, and goes away. Its connection is up from the start
(asynchronous connects are in `Cluster`).

### Conexion and Lectura

`Conexion` is one connection. `armado` is the mask registered in epoll, empty once
EPOLLONESHOT has fired; `pc[w]` and `ev[w]` are a worker's place in
`worker_thread_loop` and the events still to be looked at; `write_buf` is the first
`write_len` bytes of the buffer. Every critical section of `write_mutex` is a step, and
between `epoll_wait` and `in_handler = 1` anything may happen. `Emisores` are workers
that handle other connections and send on this one: they look it up in a table, let
the table's lock go and call `enqueue_write`. What was accepted, what was written and
how many messages were dropped are histories. After a use of a freed connection the
model stops: `SinUsoLiberado` says whether there is one. `epoll_ctl` is taken to succeed.
`ventana` is a history too. It becomes true when an `enqueue_write` arms the descriptor
after `epoll_wait` has returned it to a worker and before that worker has set
`in_handler` (`EnVentana`), and false again when the only worker left on the connection
rearms it. Every connection of the program is written to by workers that handle others
(answers, RESERVEs, RELEASEs), so none is free of that window, and in it two workers may
get one connection. `ExclusionSalvoVentana` and `SinManejoLiberado` say that there is no
other way, and that it ends.

`Lectura` is `handle_tcp_read` on bytes: the read at `read_pos`, the NUL, the search for
newlines, `process_message` per line and the compaction, each lock section a step.
A stream is a fixed sequence of lines, delivered in pieces of any size. `remaining` is
a `size_t`; when two workers drive it below zero the model goes to `"error"`.

### ColaPunteros

`mem`, `sig`, `top`, `bottom` and `amount` are the heap cells and the fields of
`ColaPendingRequest`. The two deletions are the source's walk with `curr` and `prev`,
one `paso_delete` per cell, in one action: the resource's mutex is held over it
(`Recurso` shows that). `EsCola` maps the list from `top` on to the sequence of `ColaAbs`.

### TablaNodos

Seconds, as `time(NULL)` counts them. `main` announces, sleeps 2 s and starts the workers
and `broadcast_loop`, which announces, purges and sleeps 5 s. A datagram is lost or
waits in the socket (`llego`) until a worker reads it. Loops run at most `Demora` and
workers at most `Lectura` seconds late, at most `MaxPerdidas` datagrams of a node are lost
in a row; nodes die and start again. The code has no such bounds: they are what the
15 s of the purge presuppose, and the theorem says how they have to add up.

### Planificador and Formato

`fase` is where the master is: at the top of `masterloop`, in `get_nodes_recv`, in
`disparar_rafaga`, in the two receives, or at the end. `mapa` is `HandlersMap`, `handler`,
`buzon` and `correo` are the processes and their mailboxes. The 30 s timeout of a
handler may run out at any time at which its mailbox is empty. The agent is its jobs
table: a known id is ignored, a new job is queued, granted or denied at once or later,
or lost without an answer. `Reiniciar` is a planner killed and started again, with a
new connection, while the agent reads on. The agent never sends JOB_TIMEOUT.

`Formato` follows amounts through the texts, each one the sequence of its tokens:
`parse_announce`, the NODES line with its limit of `BUFF_SIZE` characters, `armar_lista`,
the draw (any result of `rand:uniform`), the command and `parse_job_request`.
`PedidoExacto` compares the request with the announcement at the other end (the history
`fuente`).

## 3. Runs

| run | instance | shows |
|---|---|---|
| `recurso` | 2 threads, 2 jobs, 2 units, requests of 1..3, returns of -1, 1 and 2, at most 3 requests queued or about to be; 175k states | `TypeOK`, `Conservacion`, `SinDespertarPerdido`, no deadlock between the two locks, `ImplementaAbs` (refinement of `RecursoAbs`), `MutexSeLibera` (liveness) |
| `cola_punteros` | 3 cells (symmetric), 2 jobs, 2 connections, amounts 1 and 2 | `ListaBienFormada`, `EsCola` (refinement of `ColaAbs`) |
| `cluster` | 3 agents, 5 jobs, one of them denied, 2 types, no cycle of waiting; 4.6k states | `OtorgadoCompleto`, `ConfirmadasExactas`, `PendientesEnCamino`, `SinFugas`, and `TodosTerminan` (liveness) |
| `cluster_percances` | 2 agents, 2 types, 3 jobs that can deadlock and ask each other agent for one thing, timeouts at any time, an address that may be missing, one planner and one agent that may die; 442k states | `SinRestoLocal`, `UnaRespuesta`, `PendientesEnCamino`, `SinConexionesColgadas` |
| `hilos` | one agent, 3 workers, 3 jobs of its client, 2 of the neighbour, a job refused half way, denials, jobs given up while they wait (JOB_RELEASE, JOB_TIMEOUT), a client and a neighbour that may vanish; 594k states | `OtorgadoCompleto`, `ColaYTabla`, `SinConexionesColgadas`, `SinHuerfanas`, and `TodosResponden` (liveness) |
| `conexion` | 2 workers, one sender, a buffer of 3 bytes, messages of 1 and 2 bytes, a peer that may close, reset or refuse; 571k states | `DentroDelBuffer`, `FlujoEnOrden`, `EscrituraAvisada`, `ExclusionSalvoVentana`, `SinManejoLiberado`, and `TodoSeEnvia`, `CierreSeAtiende` (liveness) |
| `lectura` | a buffer of 6 bytes, lines of 2, 0, 4 and 1 bytes, every cut, read errors | `LineasEnOrden`, and `TodasSeProcesan` (liveness) |
| `planificador` | 2 bursts of 2 jobs, any answers and timeouts, a planner that may be started again, an agent that may die; 706k states | `MapaExacto`, `TardioEsDeNadie`, `UnaConsulta`, `TrabajaConRecursos`, `SoltadoEnCamino`, and `RafagaTrasRafaga` (liveness) |
| `tabla_nodos` | 2 agents, periods 5 and 2 s, limit 15 s, one loss in a row, loops up to 2 s and workers up to 1 s late (a silence of exactly 15 s), deaths and restarts, 33 s; 15M states | `MuertoSeOlvida`, `VivoNoSeOlvida` |
| `formato` | 3 hosts, 7 announcements (4 of them malformed), room for two or three entries, 2 nodes per request; 51k states | `PedidoExacto`, `NodesCabeYCompleta` |

Every module states a type invariant `TypeOK`. Run `recurso` checks it, and it is proved
for `Recurso`, `Conexion` and `TablaNodos`. The other runs spend their time on what may
go wrong; `TypeOK` holds on their instances too when it is added to the configuration.

Several properties of `Cluster` are stated with a condition, because the code breaks them
without it, in ways that the configurations below show. A GRANTED names neither the
request nor the type, so a job that asks one agent for two things has the wrong one in
`confirmadas` until all are granted. What is true then is `ConfirmadasExactas`: once
nothing is pending at an agent, the allocations confirmed there are what it has lent.
While something is pending, giving the job up returns the wrong type, and the next
holder's units with it (`MCClusterDevolucion`). `PendientesEnCamino` is about
what a job asks of an agent over one connection (`UnaConexion`). Two items for an agent
not yet connected open two, and one of the RESERVEs is never sent (`MCClusterDosTipos`).
`SinRestoLocal` says that a job dropped half way, denied, released or taken out by a lost
connection leaves nothing at its own agent, as long as no job asks another agent for two
things (`UnaCosaPorAgente`); what other agents grant it later is not covered by it
(`fuga`).

Two runs end in a violation, each one what a line of the repository says and the
code does not do:

| run | property | the line | what happens |
|---|---|---|---|
| `deadlock` | `SinEsperaEterna` | README.md:26 "Prevención de deadlocks por ordenación de recursos" | all RESERVEs of a job go out at once, so two jobs in the same order still wait for each other; only the timeout ends it |
| `fuga` | `SinFugas` | resource_manager.c:373 "tiene que solicitarse que suelte los recursos" | a late GRANTED is answered with RELEASE of 0 units, which returns nothing |

The other configurations each give one more counterexample of the same kind (run
`tlc -config X.cfg M`). They are not among the runs of `PROJECT.json`, and explain
why some properties above are stated with a condition:

| configuration | property | the line | what happens |
|---|---|---|---|
| `MCRecursoFIFO` | `SinAdelantamiento` | README.md:25 "colas FIFO" | `reserve_resource` does not look at the queue: a small request overtakes |
| `MCClusterFugaErlang` | `SinFugas` | c_agent_client.erl:150 "El agente C ya libera los recursos por su cuenta" | pending requests of a lost client are forgotten; what is granted later stays lent |
| `MCClusterConfirmadas` | `ConfirmadaEsOtorgada` | tabla_jobs.h:56 "Recursos con GRANTED hecho" | the type confirmed is not the type granted |
| `MCClusterDevolucion` | `NadieDevuelveDeMas` | tabla_jobs.h:56 "Recursos con GRANTED hecho" | cpu is granted, mem is confirmed; the job is given up and gives back mem, which another job holds |
| `MCClusterDosTipos` | `TodosEnCamino` | resource_manager.c:580 "el mensaje a enviar cuando se confirme que se haya hecho la conexión" | two connections to one agent, the first GRANTED confirms the request of the second, whose RESERVE is never sent |
| `MCClusterDireccion` | `ConexionEncontrada` | tabla_conns.h:36 "Se devuelve la conexión externa si fue exitosa" | an address of 15 characters is cut, its connection is never found again |
| `MCConexionExclusion` | `ExclusionMutua` | server.c:189 "EPOLLONESHOT garantiza exclusión mutua" | a message sent between `epoll_wait` and `in_handler = 1` rearms the descriptor, and a second worker takes the connection |
| `MCConexionUso` | `SinUsoLiberado` | server.h:73 "Thread-safe" | `enqueue_write` is called with a connection looked up before it was freed |
| `MCConexionDescarte` | `DescarteSoloLleno` | server.c:608 "Buffer de escritura lleno" | bytes already written count as full |
| `MCGestorHilosFuga` | `AbandonadoSinRastro` | resource_manager.c:94 "Elimina los jobs asociados al Job_id dado de las colas" | between the unlock of JOB_RELEASE and its purge another worker serves the queued request, for a job that is gone |
| `MCGestorHilosColgadas` | `SinConexionesColgadas` | server.c:500 "NOTIFICACIÓN ANTES DE DESTRUIR" | `process_disconnect` deletes the table's entry last; a JOB_REQUEST in between keeps the connection (run `hilos` ends only connections this agent did not open) |
| `MCGestorHilosPerdida` | `SinHuerfanas` | resource_manager.c:94 "Elimina los jobs asociados al Job_id dado de las colas" | when the connection to an agent is lost, `process_disconnect` takes the jobs that wait on it out of the table and purges their requests later; one that another worker serves in between stays lent, and the client is told nothing |
| `MCLecturaLarga` | `SoloCierraElOtro` | server.c:305 "El extremo remoto cerró la conexión" | a full buffer makes `read` return 0 |
| `MCLecturaDos` | `LineasEnOrden` | server.c:314 "bajo lock" | the lines are extracted without it; with two workers one is processed twice |
| `MCColaPunterosMaximo` | `NoSuperaElMaximo` | pending_request.h:55 "si es que no supera la cantidad máxima" | `max_amount` is not looked at |
| `MCTablaNodosInicio` | `TopologiaConocida` | main.c:72 "Retardo estructural para recibir topología preexistente" | 2 s of waiting for announcements that come every 5 s |
| `MCPlanificadorIds` | `IdUnico` | c_agent_client.erl:48 "Genera un job_id único" | unique within one run of the VM only |

**Why the bounds are enough.** `Recurso`: two units and requests of one, two and
three make every branch of `reserve_resource` and every exit of the serving loop
happen, including a head that fits exactly, two heads served in one round and a head
that does not fit behind others that would; three waiting requests put the purged
one at the top, at the bottom and next to another of the same job. Two threads
are one in the section and one at its door or with the table's lock; the safety and
the refinement are proved for any number in `RecursoProofs`. `Cluster`: the scenarios are chosen so
that requests queue locally and remotely, two answers cross on one connection, a
job is denied after part of it was granted and connections come up after their job
is gone; one job asks for different types at its own agent and at the other, so that a
type or an agent mixed up in a return would show; every action fires in some passing run. Scenarios are fixed requests
rather than all requests: that is a limit of these runs, not an argument that
others behave alike; the same holds for `GestorHilos`. `Conexion`: a buffer of three bytes is filled, written in
parts and overrun by messages of one and two; two workers and a sender are what the
race needs, and the safety is proved for any number. `Lectura`: the lines are one
that leaves a rest, an empty one, one that takes the whole buffer with its newline
and one after it; every way to cut them is tried. `ColaPunteros`: three cells are a
first, a last and one in between. `TablaNodos`: the code's own periods, and time for
a node to be heard of, die, be forgotten and come back; loss and delays add up to the
limit to the second, where one comparison decides. `Planificador`: two bursts are
what a late answer needs to meet the wrong one, two lives what an old id needs; the
two bursts are counted over both lives.
`Formato`: totals of 0, 1 to 5 and 40 draw nothing, at most one and up to two.

**Deadlock checking** is on where something can always go on (`Recurso`, the linked
list, `Formato`) and off where the work is finite and the
system comes to rest or the clock has a bound.

**Fairness.** `Recurso!FairSpec` is weak fairness of each thread inside a call: the
operating system runs it. With a mutex that is always let go, weak fairness per
thread is enough for `MutexSeLibera`; that every thread gets the mutex in the end is
not claimed, because pthread mutexes do not promise it. `Cluster!FairSpec` says that
while an agent has a message to read or a connection to settle some agent step
happens, and likewise for the planners. It is weak fairness of `PasoAgente` and
`PasoErlang` written without ENABLED, which TLC evaluates very slowly over these
handlers. It is weaker than fairness per connection and it suffices because
every scenario's work is finite. The timeout is never assumed to happen.
`GestorHilos!FairSpec` is of the same kind: workers go on, jobs that work end, the
neighbour answers, and no client has to give a job up. `Conexion!FairSpec` is weak fairness of each worker that has an
event, of some idle worker getting a reported event, and of the peer accepting and
reading (a peer that never reads fills the socket's buffer, and nothing is promised).
`Lectura!FairSpec`: bytes sent arrive and the worker runs. `Planificador!FairSpec`: the
Erlang scheduler runs the master and every handler, whose timer or work ends, and
the agent reads its lines; no job needs to be answered, and no line of the agent is
dropped. `TablaNodos` needs no fairness: its clock cannot pass a turn that is due.

## 4. Proofs

`RecursoProofs` proves, for any sets of threads, jobs and connections, any total
and any amounts allowed by `Supuestos`:

| theorem | states |
|---|---|
| `Tipado` | `Spec => []TypeOK` |
| `UnidadesConservadas` | `Spec => []Conservacion` |
| `NadieEsperaEnVano` | `Spec => []SinDespertarPerdido` |
| `PurgaCompleta` | `Spec => []LimpiezaCompleta` |
| `TablaConCandado` | `Spec => []TablaProtegida` |
| `Refinamiento` | `Spec => ImplementaAbs` |

None of the invariants is inductive alone. `IInv` adds: `Exclusion` (a thread
between lock and unlock is the holder of the mutex), `Marco` (the arguments fit the
place a thread is at), `Registros` (a thread about to write the counter has its
current value in `leido`, and what was tested on it still holds), `Tablas`
(who is in `release_resource` holds the jobs table's lock, and `propia` says who
took it), `Servibles` (no queued request asks for more than
the total), `Despertar` (outside a serving round a non-empty queue means that some
unit is lent) and `Recorrido` (what a purge has walked over has nothing it
should delete). `Inicio` and `Induccion` show it inductive, one step per action,
`Invariante` makes it temporal, and each theorem reads its property off it.

For the refinement, `libre` is `available`, `espera` is `cola` and `sirviendo` is
"some thread is in the serving loop". `PasoAbstracto` goes over the actions: the
write of the counter is the abstract grant or return, each turn of the loop and each
deletion is one abstract step, everything else stutters. `Exclusion` is what makes
the write agree with the earlier read.

A purge is modelled node by node, as the C walk is, and not with a filter over the
sequence: that is what the code does and it keeps the proofs within reach of the
provers.

`ConexionProofs` proves for any workers, senders, messages and buffer size:

| theorem | states |
|---|---|
| `Tipado`, `BufferAcotado`, `FlujoConservado` | `[]TypeOK`, `[]DentroDelBuffer`, `[]FlujoEnOrden`: also with two workers on the connection |
| `AvisoDeEscritura` | `[]EscrituraAvisada`, which is `NadaOlvidado` and `SinEsperaActiva` |
| `UnDuenioSalvoVentana` | `Spec => []ExclusionSalvoVentana` |
| `LiberadaSinManejo` | `Spec => []SinManejoLiberado` |

The invariant adds `Marca` (`in_handler` is set by a worker that has yet to rearm) and
`Nueva` (a connection starts with an empty buffer). That bytes stay in order is two
lemmas on sequences: appending a message, and moving `write_pos` over what was
written. The last two theorems are of every behaviour too, with
any number of senders that enqueue at any moment. Their invariant `ExInv` says that
outside a window the connection is `Ordenada`: no two workers have it, an armed descriptor
and a worker on it exclude each other (`ArmadoSinDuenio`), and a worker past its first
critical section has `in_handler` set (`Marcada`). `enqueue_write` arms only with
`in_handler` clear; then no worker is past that section, and unless the step opens a
window none is before it. The last worker's `rearm_conn` closes a window, since it leaves
the connection to nobody. What a window does is real (`MCConexionExclusion.cfg`), and so is
a sender that still points to a freed connection (`MCConexionUso.cfg`), which
`SinManejoLiberado` says nothing of.

`TablaNodosProofs` proves for any nodes, periods, delays, losses and clock bound:

| theorem | states |
|---|---|
| `Tipado` | `Spec => []TypeOK` |
| `MuertoOlvidado` | `Spec => []MuertoSeOlvida` |
| `VivoRecordado` | `Spec => VivoNoSeOlvida`, if `Silencio + Lectura <= Vence` |

Its invariant: `Puntual` (nothing is overdue), `Racha` (the announcements lost since a
node was last heard of account for the time that passed), `Restos` (a dead node's
datagrams are older than its death and read soon after), `Comienzo` (before the first
turn) and `Barrida` (the last purge left nothing older than the limit). With the
code's 5 s and 15 s the assumption allows two losses in a row only if nothing is
late, and one loss with up to 5 s of delays in all.

`PlanificadorProofs` proves for any burst size, any number of bursts (at least one) and
of restarts of the planner, with and without the death of the agent:

| theorem | states |
|---|---|
| `Tipos` | `Spec => []TypeOK` |
| `ElMapaEsExacto`, `LoTardioEsDeNadie` | `[]MapaExacto`, `[]TardioEsDeNadie` |
| `HayUnaConsulta` | `[]UnaConsulta` |
| `NadaQuedaEnElAgente` | `[]SoltadoEnCamino` |
| `QuienTrabajaTieneRecursos` | `[]TrabajaConRecursos` |

The invariant says what the streams and mailboxes may hold. `Cuenta` and `Frescos`: ids
are counted up, and one not yet made is nowhere. `SinNoticias`, `Lineas`, `Futuras`: no
handler of an old life is told anything, lines name jobs, lives to come have no
lines. `CorreoUnico`: a job's release is sent to the master once, after its handler
ended. `Consulta` is `UnaConsulta` in terms of the two streams. `Seguido`: an unread
JOB_REQUEST is of a job in the map or has its JOB_RELEASE behind it, which is what
makes `SoltadoEnCamino` inductive when a timeout overtakes the request. `Soltados`: only
an ended handler has a JOB_RELEASE on its way, and `Prometido` follows a grant from the
agent's table through the stream and the mailbox to the handler. `Induccion` has a
lemma per action.

`LecturaProofs` proves for any lines, buffer size, errors and cuts of the stream:

| theorem | states |
|---|---|
| `LasLineasEnOrden` | `UnSoloHilo => (Spec => []LineasEnOrden)` |
| `CierraElOtroSiCaben` | `UnSoloHilo /\ TodasCaben => (Spec => []SoloCierraElOtro)` |

`UnSoloHilo` (one worker in the reader) is what `ExclusionMutua` of `Conexion` gives outside its window;
`MCLecturaDos.cfg` shows that it is needed. `TodasCaben` (every line fits with its newline
and the NUL) is needed too: `MCLecturaLarga.cfg`. The invariant is `Sincronia` (the bytes
between the start of the current line and `read_pos` are those of the stream that
follow the last line handed on, and a NUL ends them in the loop) and `Resto` (after the loop less than a
line is left).

`ColaPunterosProofs` proves for a heap of any size, any jobs, connections and amounts,
from `HeapFinito` (the heap is finite, amounts are naturals, NULL is no cell):

| theorem | states |
|---|---|
| `Tipado` | `Spec => []TypeOK` |
| `LaListaSeConserva` | `Spec => []ListaBienFormada` |
| `ImplementaLaCola` | `Spec => EsCola` |

The invariant says that there is a sequence of cells for which `Forma` (distinct, the
cells in use, from `top` to `bottom` along `sig`) and `Suma` (`amount` is the sum) hold. It
does not mention the folds: `DesdeEs` shows that walking the list finds that sequence
(it needs that it is no longer than the heap) and `MontoEs` that adding it up gives
`amount`. Unlinking the cell at any position, from a given previous one, keeps `Forma`
(`Desenlazar`) and `Suma` (`RestaSuma`); a dequeue is that for the first one, and
the deletion loops are that at every cell, with the loop invariant `Enmedio`: the
cells up to `prev` were kept, the others are still to be seen. The same loop
invariant compares the loop with the abstract deletion `Sin`, for the refinement.

`GestorHilosProofs` proves for any finite set of types, any jobs, requests, totals and
connections that may go away, from `Parametros` (the agents are nodes, a request is a list
of items with positive amounts, the client's jobs are not the other agent's) and
`TotalNatural`:

| theorem | states |
|---|---|
| `Induccion` | `Spec => []IInv` |
| `Tipado` | `Spec => []TypeOK` |
| `NadieUsaLoLiberado` | if `Ida` does not go away, `Spec => []SinConexionesColgadas` |
| `OrdenSiempre` | if `UnoPorTipo`, `Spec => []KInv` |
| `ColasConTabla` | if `UnoPorTipo`, `Spec => []ColaYTabla` |
| `OtorgadoEntero` | if `UnoPorTipo`, `Spec => []OtorgadoCompleto` |

`Ida`, the connection this agent opened, is left out because the property is false for
it: `MCGestorHilosColgadas.cfg` is the counterexample. `SinConexionesColgadas` is not
inductive, since while `process_disconnect` runs the connection is still named in places,
and the other workers go on. `IInv` says for how long: `Pueden[t]` are the connections that
are open or have a purge of the queue of `t` to come, and only those are in that queue;
`Duenos` is the client's connection while it is open or has the extraction from the jobs
table to come, and only then are there jobs; pending requests, remote allocations and
RELEASEs to send name `Ida`; and `AlFinal` says that the entry is deleted in the last task,
so that a freed connection has no worker. The argument has two layers. `Managers(Q, E)` is
what a manager may hold when the connections in `Q[t]` may be in the queue of `t` and those
in `E` may own jobs, and the lemmas from `Envia` to `Extrae` show that every operator of
`Gestor` the workers call, loops included, stays in it for any `Q` and `E`. Then each action
has a lemma `Paso...`: a step of a worker takes from `Pueden` and `Duenos` at most what it has
just purged (`Avanza`), and a new request or job comes from an open connection. For this
the list operations of `Gestor` are folds (`Sin`, `Atender`, `DevolverNada`), which the
lemmas of `InduccionNat` unroll.

The last two need a second invariant, about how much and not only about who. `UnoPorTipo`
says that a job asks this agent for each type at most once. The Erlang client does so
(`armar_comando_ordenado` writes cpu, mem and gpu of a node once each) and the comment of
`tabla_jobs_cambio_alloc` counts on it ("una por tipo de recurso"). Without it the theorem
is false: with 3 units of cpu, one job that asks for 2 and another that asks for 2 and for
1, the function marks the first local allocation of the type, which may not be the one
that was served; the other stays RM_QUEUED and its job is never granted. `MCGestorHilos` checks that its requests satisfy the hypothesis.

`ColaYTabla` looks only at moments without a JOB_REQUEST and `OtorgadoCompleto` only at
clients that work, so neither is inductive. `KInv` says, while the client's connection is
open, `Orden`, the conjunction of

- `Cuadra(nd, Pedidos)`: for each job in the table and each type, what it asks is in the
  queue once and in the table as RM_QUEUED, or lent and in the table as RM_GRANTED, and
  queues and loans name only jobs the client asked for;
- `EnVilo`: the RESERVEs at the other agent are at most the job's pending requests, so
  that a GRANTED finds one;
- `Servidos`: a client that works has a job that waits for nothing, or asked nothing here;
- `EnCurso`: the JOB_REQUEST under way holds the table's lock, its first `p` items are in
  `armando`, and they agree with the queues as those of the table do;
- `Difuntos`: the releases and purges that are left to do are for jobs out of the table,
  except those of JOB_TIMEOUT before its second half. It is why a purge that comes late, after the
  other workers went on, takes no request of a job that is still waiting.

The argument again has two layers. The lemmas `...Bien` say that each operator of `Gestor`
keeps `Cuadra` and that the jobs it leaves in the table are no less served (`Progresa`, and
`Deriva` when it takes jobs out); the folds of LiberarAllocs, of the queue of release_resource
and of the RELEASEs of nothing go through `RecorreAllocs`, `RecorreCola` and `RecorreNada`,
which turn a property kept by one turn into one of the loop. The lemmas `Orden...`, one for each
action, then have to show the parts of `Orden` that the action can disturb, and
`Mantiene`, `MantieneTarea` and `MantieneQuieto` give the others.

`InduccionNat` holds what these proofs need about data. Its induction is on a set
(`PorInduccion`), because the provers cannot instantiate a lemma over an operator.
`Posiciones` says where each sequence is in a `FlattenSeq`. `HayPliegue` says that the
recursion of `FoldLeft` has a solution when its step is a function; the lemmas
`Pliegue*` of `ColaPunterosProofs` bring each fold of the model to it and unroll the
fold step by step. `HayPliegueEn` and `SeQueda` are the case that `GestorHilosProofs` needs:
a fold whose steps do not leave a set ends in it.

Only model-checked: the liveness properties (fairness is outside the prover's
reach); `SinHuerfanas` of `GestorHilos`; the properties of `Cluster`, some of which hold because
of the scenarios (GRANTED names no type, so who holds what depends on who asks whom); and
`Formato`, whose properties are checked on lines of bounded length.

## 5. Not modelled, and what is left to prove

Not modelled, and why:

- argument handling in `main.c`, `init_server_sockets`, logging, the destruction of the
  tables when the process ends, and the shell scripts: system calls in a row or no
  state of the system;
- malformed lines on TCP: the parsers return `valido = false` and the handler logs; the
  fixed sizes of `sscanf` fields are not modelled;
- signed overflow of `available_amount + amount`: agents return what they asked for;
- hash buckets: all tables are searched by key, and the order within the jobs and
  connections tables is kept where it shows (newest first);
- the units a dead agent had been granted by others: nothing in the code records
  them, so no action could return them;
- functions nobody calls (`tabla_jobs_confirmar`, `tabla_jobs_delete_by_conn`,
  `tabla_jobs_get_id`, `tabla_conns_delete`).

`SinHuerfanas` of `GestorHilos` is left to prove, for an `Ida` that does not go away
(`MCGestorHilosPerdida.cfg` is the counterexample otherwise). It needs three things `KInv`
does not say: that `release_resource` never ignores the return of a job, which is that the
units lent and free of a type add up to its total; the converse of `Difuntos`, that each unit
and each queue place of a job that left the table has its release or purge still to come,
unless the job was abandoned; and what is left of `Cuadra` while the client's connection
closes, when the requests are out of the queues and the table does not know it yet.
