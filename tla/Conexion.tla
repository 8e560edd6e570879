------------------------------- MODULE Conexion -------------------------------
(***************************************************************************)
(* One connection_t of server.c under the worker threads: the epoll mask   *)
(* with EPOLLONESHOT, in_handler, the write buffer, and the connection's   *)
(* creation and destruction.                                               *)
(*                                                                         *)
(* write_mutex is held over every access to in_handler and to the write    *)
(* buffer, so each of its critical sections is one step.  The three TCP    *)
(* types that use EPOLLONESHOT are OUTGOING until the handshake is over and*)
(* CLIENT afterwards (CONN_TCP_CLIENT_REMOTE and _LOCAL are treated alike).*)
(* A step of a thread on a freed connection is undefined: the model stops  *)
(* there, and SinUsoLiberado says whether it can come to that.  epoll_ctl  *)
(* does not fail.                                                          *)
(***************************************************************************)
EXTENDS Integers, Sequences

CONSTANTS Hilos,        \* the workers of worker_thread_loop
          Emisores,     \* workers busy with another connection that send on this one
          BUFF_SIZE,    \* size of write_buf
          Mensajes,     \* messages given to enqueue_write, sequences of bytes
          ConCierre,    \* whether the other end may close, reset or refuse
          MaxBytes      \* bound: bytes and lost messages in the histories

ASSUME Supuestos ==
  /\ BUFF_SIZE \in Nat \ {0} /\ MaxBytes \in Nat /\ ConCierre \in BOOLEAN
  /\ \A m \in Mensajes : m \in Seq(Int) /\ m # << >>

VARIABLES est,         \* "nada", "abierta" or "liberada": the connection_t
          tipo,        \* "OUTGOING" or "CLIENT"
          armado,      \* events registered in epoll; {} when disarmed by ONESHOT
          in_handler,
          write_buf,   \* the first write_len bytes of the buffer
          write_pos,
          enTablas,    \* a queue, job or connections table refers to it
          pc,          \* where each worker is in worker_thread_loop
          ev,          \* ev[w]: events[i].events still to be looked at
          apunta,      \* apunta[e]: the sender has looked the connection up
          ventana,     \* history: it was armed inside a window (see EnVentana) and
                       \* workers have had it ever since
          par,         \* the other end
          entrada,     \* there are bytes to read
          lleno,       \* the socket's send buffer is full
          aceptado,    \* history: bytes copied into the buffer
          enviado,     \* history: bytes written to the socket
          perdidos     \* history: messages that did not fit

buffer == <<write_buf, write_pos, aceptado, enviado, perdidos>>
socket == <<par, entrada, lleno>>
vars == <<est, tipo, armado, in_handler, enTablas, pc, ev, apunta, ventana,
          buffer, socket>>

write_len == Len(write_buf)

Pendiente == SubSeq(write_buf, write_pos + 1, write_len)

Init ==
  /\ est = "nada" /\ tipo = "CLIENT" /\ armado = {} /\ in_handler = FALSE
  /\ write_buf = << >> /\ write_pos = 0 /\ enTablas = FALSE
  /\ pc = [w \in Hilos |-> "libre"] /\ ev = [w \in Hilos |-> {}]
  /\ apunta = [e \in Emisores |-> FALSE] /\ ventana = FALSE
  /\ par = "vivo" /\ entrada = FALSE /\ lleno = FALSE
  /\ aceptado = << >> /\ enviado = << >> /\ perdidos = 0

-------------------------------------------------------------------------------
(* A worker that handles another descriptor, or thread, creates it. *)

handle_accept ==
  /\ est = "nada"
  /\ est' = "abierta" /\ tipo' = "CLIENT" /\ armado' = {"IN"}
  /\ UNCHANGED <<in_handler, enTablas, pc, ev, apunta, ventana, buffer, socket>>

(* The pending request of the job refers to the connection. *)
connect_remote_node ==
  /\ est = "nada"
  /\ est' = "abierta" /\ tipo' = "OUTGOING" /\ armado' = {"OUT"}
  /\ enTablas' = TRUE /\ par' = "conectando"
  /\ UNCHANGED <<in_handler, pc, ev, apunta, ventana, buffer, entrada, lleno>>

-------------------------------------------------------------------------------
(* Mutant: the bytes already written are taken to be free again. *)
CabeEnLoPendiente(m) == write_len - write_pos + Len(m) < BUFF_SIZE

Cabe(m) == write_len + Len(m) < BUFF_SIZE

(* Mutant: the descriptor is left as it is. *)
EncolarSinArmar(m) ==
  /\ \/ /\ Cabe(m)
        /\ write_buf' = write_buf \o m /\ aceptado' = aceptado \o m
        /\ UNCHANGED <<armado, perdidos>>
     \/ /\ ~Cabe(m)
        /\ perdidos' = perdidos + 1
        /\ UNCHANGED <<write_buf, armado, aceptado>>
  /\ UNCHANGED <<write_pos, enviado, ventana>>

(* The window: epoll_wait has returned the connection to a worker that has *)
(* not set in_handler yet (other events of the same batch come first).     *)
EnVentana == ~in_handler /\ \E w \in Hilos : pc[w] = "evento"

enqueue_write(m) ==
  /\ \/ /\ Cabe(m)
        /\ write_buf' = write_buf \o m /\ aceptado' = aceptado \o m
        /\ armado' = IF in_handler THEN armado ELSE {"IN", "OUT"}
        /\ ventana' = IF EnVentana THEN TRUE ELSE ventana
        /\ UNCHANGED perdidos
     \/ /\ ~Cabe(m)
        /\ perdidos' = perdidos + 1
        /\ UNCHANGED <<write_buf, armado, aceptado, ventana>>
  /\ UNCHANGED <<write_pos, enviado>>

(* Bound on the histories. *)
QuedaCupo == Len(aceptado) + perdidos < MaxBytes

-------------------------------------------------------------------------------
(* What the kernel has to report. *)
Listo ==
  {x \in {"IN", "OUT", "ERR"} :
     /\ par # "conectando"
     /\ x = "IN" => entrada \/ par \in {"cerro", "reset"}
     /\ x = "OUT" => ~lleno \/ par = "reset"
     /\ x = "ERR" => par = "reset"}

(* epoll_wait returns the connection to w and disarms it. *)
epoll_wait(w) ==
  /\ est = "abierta" /\ pc[w] = "libre" /\ armado # {}
  /\ LET hay == (armado \cup {"ERR"}) \cap Listo
     IN  hay # {} /\ ev' = [ev EXCEPT ![w] = hay]
  /\ armado' = {}
  /\ pc' = [pc EXCEPT ![w] = "evento"]
  /\ UNCHANGED <<est, tipo, in_handler, enTablas, apunta, ventana, buffer, socket>>

(* The next thing worker_thread_loop does with events E. *)
Siguiente(E) ==
  IF "IN" \in E THEN "leer" ELSE IF "OUT" \in E THEN "escribir" ELSE "rearmar"

(* Mutant: in_handler is not set. *)
TomarSinMarcar(w) ==
  /\ est = "abierta" /\ pc[w] = "evento"
  /\ pc' = [pc EXCEPT ![w] = IF "ERR" \in ev[w] THEN "destruir" ELSE Siguiente(ev[w])]
  /\ UNCHANGED <<est, tipo, armado, in_handler, enTablas, ev, apunta, ventana,
                 buffer, socket>>

Tomar(w) ==
  /\ est = "abierta" /\ pc[w] = "evento"
  /\ in_handler' = TRUE
  /\ pc' = [pc EXCEPT ![w] = IF "ERR" \in ev[w] THEN "destruir" ELSE Siguiente(ev[w])]
  /\ UNCHANGED <<est, tipo, armado, enTablas, ev, apunta, ventana, buffer, socket>>

(* Mutant: the write event is looked at only if there is no read event. *)
PasarSinEscribir(w, x) ==
  /\ ev' = [ev EXCEPT ![w] = {}]
  /\ pc' = [pc EXCEPT ![w] = "rearmar"]

(* w has done with event x. *)
Pasar(w, x) ==
  /\ ev' = [ev EXCEPT ![w] = @ \ {x}]
  /\ pc' = [pc EXCEPT ![w] = Siguiente(ev[w] \ {x})]

(* Mutant: the end of the stream is taken for an empty socket. *)
LeerSinFin(w) ==
  /\ est = "abierta" /\ pc[w] = "leer"
  /\ \/ /\ entrada
        /\ entrada' = FALSE /\ pc' = [pc EXCEPT ![w] = "procesar"] /\ UNCHANGED ev
     \/ /\ ~entrada
        /\ Pasar(w, "IN") /\ UNCHANGED entrada
  /\ UNCHANGED <<est, tipo, armado, in_handler, enTablas, apunta, ventana,
                 buffer, par, lleno>>

handle_tcp_read(w) ==
  /\ est = "abierta" /\ pc[w] = "leer"
  /\ \/ /\ entrada
        /\ entrada' = FALSE /\ pc' = [pc EXCEPT ![w] = "procesar"] /\ UNCHANGED ev
     \/ /\ ~entrada /\ par = "vivo"
        /\ Pasar(w, "IN") /\ UNCHANGED entrada
     \/ /\ ~entrada /\ par # "vivo"
        /\ pc' = [pc EXCEPT ![w] = "destruir"] /\ UNCHANGED <<ev, entrada>>
  /\ UNCHANGED <<est, tipo, armado, in_handler, enTablas, apunta, ventana,
                 buffer, par, lleno>>

(* process_message or process_connection_ready sends on this connection. *)
Responder(w) ==
  /\ est = "abierta" /\ pc[w] = "procesar" /\ QuedaCupo
  /\ \E m \in Mensajes : enqueue_write(m)
  /\ enTablas' = TRUE
  /\ UNCHANGED <<est, tipo, in_handler, pc, ev, apunta, socket>>

FinProcesar(w) ==
  /\ est = "abierta" /\ pc[w] = "procesar"
  /\ Pasar(w, IF "IN" \in ev[w] THEN "IN" ELSE "OUT")
  /\ UNCHANGED <<est, tipo, armado, in_handler, enTablas, apunta, ventana,
                 buffer, socket>>

(* Mutant: write_pos does not move. *)
AvanzarSinMover(n) ==
  IF write_pos + n = write_len THEN write_buf' = << >> /\ write_pos' = 0
  ELSE UNCHANGED <<write_buf, write_pos>>

(* n bytes have been written: the buffer is emptied once all are. *)
Avanzar(n) ==
  IF write_pos + n = write_len THEN write_buf' = << >> /\ write_pos' = 0
  ELSE write_pos' = write_pos + n /\ UNCHANGED write_buf

(* The socket takes some of the bytes; a short write means it is full. *)
EscribirBytes(w) ==
  /\ ~lleno
  /\ \E n \in 1 .. write_len - write_pos :
       /\ enviado' = enviado \o SubSeq(write_buf, write_pos + 1, write_pos + n)
       /\ Avanzar(n)
       /\ lleno' \in (IF n < write_len - write_pos THEN {TRUE} ELSE BOOLEAN)
  /\ Pasar(w, "OUT")
  /\ UNCHANGED <<aceptado, perdidos>>

handle_tcp_write(w) ==
  /\ est = "abierta" /\ pc[w] = "escribir" /\ tipo = "CLIENT"
  /\ \/ par # "reset" /\ EscribirBytes(w)
     \/ /\ Pendiente = << >> \/ (lleno /\ par # "reset")
        /\ Pasar(w, "OUT") /\ UNCHANGED <<buffer, lleno>>
     \/ /\ Pendiente # << >> /\ par = "reset"
        /\ pc' = [pc EXCEPT ![w] = "destruir"] /\ UNCHANGED <<ev, buffer, lleno>>
  /\ UNCHANGED <<est, tipo, armado, in_handler, enTablas, apunta, ventana, par,
                 entrada>>

(* The switch on the type, which is read without a lock. *)
EsSaliente(w) ==
  /\ est = "abierta" /\ pc[w] = "escribir" /\ tipo = "OUTGOING"
  /\ pc' = [pc EXCEPT ![w] = "conectar"]
  /\ UNCHANGED <<est, tipo, armado, in_handler, enTablas, ev, apunta, ventana,
                 buffer, socket>>

handle_outgoing_connection_event(w) ==
  /\ est = "abierta" /\ pc[w] = "conectar"
  /\ \/ /\ par = "reset"
        /\ pc' = [pc EXCEPT ![w] = "destruir"] /\ UNCHANGED tipo
     \/ /\ par # "reset"
        /\ tipo' = "CLIENT" /\ pc' = [pc EXCEPT ![w] = "procesar"]
  /\ UNCHANGED <<est, armado, in_handler, enTablas, ev, apunta, ventana,
                 buffer, socket>>

-------------------------------------------------------------------------------
Mascara == IF write_len > 0 THEN {"IN", "OUT"} ELSE {"IN"}

rearm_conn(w) ==
  /\ est = "abierta" /\ pc[w] = "rearmar"
  /\ in_handler' = FALSE /\ armado' = Mascara
  /\ pc' = [pc EXCEPT ![w] = "libre"] /\ ev' = [ev EXCEPT ![w] = {}]
  /\ ventana' = IF \E v \in Hilos \ {w} : pc[v] # "libre" THEN ventana ELSE FALSE
  /\ UNCHANGED <<est, tipo, enTablas, apunta, buffer, socket>>

(* Mutant: in_handler is cleared as soon as the manager has been told. *)
NotificarYSoltar(w) ==
  /\ est = "abierta" /\ pc[w] = "destruir"
  /\ enTablas' = FALSE /\ in_handler' = FALSE
  /\ pc' = [pc EXCEPT ![w] = "cerrar"]
  /\ UNCHANGED <<est, tipo, armado, ev, apunta, ventana, buffer, socket>>

(* process_disconnect or process_connection_failed: no table refers to it. *)
Notificar(w) ==
  /\ est = "abierta" /\ pc[w] = "destruir"
  /\ enTablas' = FALSE
  /\ pc' = [pc EXCEPT ![w] = "cerrar"]
  /\ UNCHANGED <<est, tipo, armado, in_handler, ev, apunta, ventana, buffer,
                 socket>>

(* close, pthread_mutex_destroy and free. *)
Cerrar(w) ==
  /\ est = "abierta" /\ pc[w] = "cerrar"
  /\ est' = "liberada" /\ armado' = {}
  /\ pc' = [pc EXCEPT ![w] = "libre"] /\ ev' = [ev EXCEPT ![w] = {}]
  /\ UNCHANGED <<tipo, in_handler, enTablas, apunta, ventana, buffer, socket>>

-------------------------------------------------------------------------------
(* A worker elsewhere takes the connection from a table (JOB_RELEASE and   *)
(* tabla_jobs_remove from an allocation or from the connections table, with*)
(* the lock let go before the send) and then sends on it.                  *)
Buscar(e) ==
  /\ est = "abierta" /\ enTablas /\ ~apunta[e] /\ QuedaCupo
  /\ apunta' = [apunta EXCEPT ![e] = TRUE]
  /\ UNCHANGED <<est, tipo, armado, in_handler, enTablas, pc, ev, ventana,
                 buffer, socket>>

Enviar(e) ==
  /\ est = "abierta" /\ apunta[e]
  /\ \E m \in Mensajes : enqueue_write(m)
  /\ apunta' = [apunta EXCEPT ![e] = FALSE]
  /\ UNCHANGED <<est, tipo, in_handler, enTablas, pc, ev, socket>>

-------------------------------------------------------------------------------
(* The other end and the network. *)

ParAcepta ==
  /\ par = "conectando" /\ par' = "vivo"
  /\ UNCHANGED <<est, tipo, armado, in_handler, enTablas, pc, ev, apunta,
                 ventana, buffer, entrada, lleno>>

ParEscribe ==
  /\ est = "abierta" /\ par = "vivo" /\ ~entrada /\ entrada' = TRUE
  /\ UNCHANGED <<est, tipo, armado, in_handler, enTablas, pc, ev, apunta,
                 ventana, buffer, par, lleno>>

ParLee ==
  /\ lleno /\ lleno' = FALSE
  /\ UNCHANGED <<est, tipo, armado, in_handler, enTablas, pc, ev, apunta,
                 ventana, buffer, par, entrada>>

ParTermina ==
  /\ ConCierre /\ est = "abierta"
  /\ \/ par = "vivo" /\ par' \in {"cerro", "reset"}
     \/ par \in {"cerro", "conectando"} /\ par' = "reset"
  /\ UNCHANGED <<est, tipo, armado, in_handler, enTablas, pc, ev, apunta,
                 ventana, buffer, entrada, lleno>>

Hilo(w) ==
  \/ Tomar(w) \/ handle_tcp_read(w) \/ FinProcesar(w) \/ handle_tcp_write(w)
  \/ EsSaliente(w) \/ handle_outgoing_connection_event(w)
  \/ rearm_conn(w) \/ Notificar(w) \/ Cerrar(w)

Next ==
  \/ handle_accept \/ connect_remote_node
  \/ \E w \in Hilos : epoll_wait(w) \/ Responder(w) \/ Hilo(w)
  \/ \E e \in Emisores : Buscar(e) \/ Enviar(e)
  \/ ParAcepta \/ ParEscribe \/ ParLee \/ ParTermina

Spec == Init /\ [][Next]_vars

(* The operating system runs a worker that has something to do, some idle  *)
(* worker gets a reported event, and the other end accepts and keeps       *)
(* reading.                                                                *)
FairSpec ==
  /\ Spec
  /\ \A w \in Hilos : WF_vars(Hilo(w))
  /\ WF_vars(\E w \in Hilos : epoll_wait(w))
  /\ WF_vars(ParAcepta) /\ WF_vars(ParLee)

-------------------------------------------------------------------------------
(* From epoll_wait's return until the rearm or the free. *)
EnManejo(w) == pc[w] # "libre"

(* The types of connection_t, of the workers' places and of the streams.   *)
TypeOK ==
  /\ est \in {"nada", "abierta", "liberada"} /\ tipo \in {"OUTGOING", "CLIENT"}
  /\ armado \subseteq {"IN", "OUT"} /\ in_handler \in BOOLEAN /\ enTablas \in BOOLEAN
  /\ write_buf \in Seq(Int) /\ aceptado \in Seq(Int) /\ enviado \in Seq(Int)
  /\ write_pos \in Nat /\ perdidos \in Nat
  /\ pc \in [Hilos -> {"libre", "evento", "leer", "procesar", "escribir", "conectar",
                       "rearmar", "destruir", "cerrar"}]
  /\ ev \in [Hilos -> SUBSET {"IN", "OUT", "ERR"}]
  /\ apunta \in [Emisores -> BOOLEAN] /\ ventana \in BOOLEAN
  /\ par \in {"conectando", "vivo", "cerro", "reset"}
  /\ entrada \in BOOLEAN /\ lleno \in BOOLEAN

(***************************************************************************)
(* memcpy in enqueue_write and write in handle_tcp_write stay inside       *)
(* write_buf, and after a write there is never an empty rest: write_pos is *)
(* behind write_len, or both have been set back to 0.                      *)
(***************************************************************************)
DentroDelBuffer ==
  /\ write_len < BUFF_SIZE
  /\ write_pos < write_len \/ (write_pos = 0 /\ write_len = 0)

(* Stream a is what is in e followed by what is in b from position p on. *)
EsFlujo(a, e, b, p) ==
  /\ Len(a) = Len(e) + (Len(b) - p)
  /\ \A i \in 1 .. Len(e) : e[i] = a[i]
  /\ \A i \in p + 1 .. Len(b) : b[i] = a[Len(e) + (i - p)]

(***************************************************************************)
(* What has been written to the socket, followed by what is still to be    *)
(* written, is what enqueue_write accepted: no byte is lost, repeated or   *)
(* out of order, whatever workers write and whoever appends in between.    *)
(***************************************************************************)
FlujoEnOrden == EsFlujo(aceptado, enviado, write_buf, write_pos)

(***************************************************************************)
(* No lost wake-up: bytes to be sent wait for a descriptor armed with      *)
(* EPOLLOUT, or for a worker that has the connection and will rearm it,    *)
(* although enqueue_write does not arm it while in_handler is set.         *)
(***************************************************************************)
NadaOlvidado ==
  est = "abierta" /\ write_len > 0 => "OUT" \in armado \/ \E w \in Hilos : EnManejo(w)

(***************************************************************************)
(* No busy waiting, the reason handle_tcp_write gives for emptying the     *)
(* buffer: with no worker on it an established connection has EPOLLOUT     *)
(* armed only if there is something to write.                              *)
(***************************************************************************)
SinEsperaActiva ==
  tipo = "CLIENT" /\ "OUT" \in armado /\ (\A w \in Hilos : ~EnManejo(w)) => write_len > 0

(***************************************************************************)
(* Both: an established connection that no worker has is armed for writing *)
(* exactly when bytes are to be sent, although enqueue_write, which adds   *)
(* them, and rearm_conn, which looks at the buffer, are called by different*)
(* workers and meet only in in_handler.                                    *)
(***************************************************************************)
EscrituraAvisada == NadaOlvidado /\ SinEsperaActiva

(***************************************************************************)
(* "EPOLLONESHOT garantiza exclusión mutua en el event loop multihilo": at *)
(* most one worker has the connection, from the return of epoll_wait until *)
(* it rearms or frees it.                                                  *)
(***************************************************************************)
ExclusionMutua == \A v, w \in Hilos : EnManejo(v) /\ EnManejo(w) => v = w

(***************************************************************************)
(* ExclusionMutua is false, and this is how far: two workers have the      *)
(* connection only after an enqueue_write in the window between epoll_wait *)
(* and in_handler = 1, and until no worker has it.  There is no other way, *)
(* although senders enqueue at every moment, and once all have let go of   *)
(* the connection it is exclusive again.                                   *)
(***************************************************************************)
ExclusionSalvoVentana == ~ventana => ExclusionMutua

(***************************************************************************)
(* Under the same condition no other worker has the connection, in the     *)
(* events epoll_wait gave it, when it is freed.                            *)
(***************************************************************************)
SinManejoLiberado ==
  ~ventana /\ est = "liberada" => \A w \in Hilos : ~EnManejo(w)

(***************************************************************************)
(* A connection is freed when nobody uses it: neither another worker, nor a*)
(* sender that is about to call enqueue_write with it.                     *)
(***************************************************************************)
SinUsoLiberado ==
  est = "liberada" =>
    (\A w \in Hilos : ~EnManejo(w)) /\ (\A e \in Emisores : ~apunta[e])

(***************************************************************************)
(* "Buffer de escritura lleno": enqueue_write drops a message only if it   *)
(* does not fit next to the bytes that are still to be written.            *)
(***************************************************************************)
DescarteSoloLleno ==
  [][perdidos' # perdidos =>
       \E m \in Mensajes : Len(Pendiente) + Len(m) >= BUFF_SIZE]_vars

(***************************************************************************)
(* Every byte accepted by enqueue_write is written in the end, if the other*)
(* end keeps reading and the connection is not closed: whatever is behind, *)
(* the writers catch up with what has been accepted.                       *)
(***************************************************************************)
TodoSeEnvia ==
  Len(enviado) < Len(aceptado) ~> enviado = aceptado \/ est = "liberada"

(***************************************************************************)
(* When the other end closes or resets the connection, or refuses it, the  *)
(* agent notices, tells the resource manager and frees it.                 *)
(***************************************************************************)
CierreSeAtiende == par \in {"cerro", "reset"} ~> est = "liberada"
===============================================================================
