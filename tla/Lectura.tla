-------------------------------- MODULE Lectura --------------------------------
(***************************************************************************)
(* handle_tcp_read (agente_c/src/server.c): how the bytes of a connection  *)
(* are cut into the lines process_message is called with.  TCP delivers    *)
(* the stream in pieces of any size; what follows the last newline stays in*)
(* read_buf for the next read.  The locked parts are one step each, and so *)
(* is a turn of the loop over the lines, which runs without the lock.      *)
(*                                                                         *)
(* A byte of line l is the number l; NL ends a line.                       *)
(***************************************************************************)
EXTENDS Integers, Sequences, SequencesExt

CONSTANTS BUFF_SIZE,   \* of read_buf
          Largos,      \* the lengths of the lines the peer sends
          Hilos,       \* workers that may be in the handler: one, or more when
                       \* Conexion's mutual exclusion fails
          ConErrores   \* whether a read may fail

ASSUME Medidas ==
  /\ BUFF_SIZE \in Nat /\ BUFF_SIZE > 1
  /\ Largos \in Seq(Nat)
  /\ Hilos # {} /\ ConErrores \in BOOLEAN

NL == 0      \* '\n'
NUL == -1    \* '\0'

Linea(l) == [k \in 1 .. Largos[l] |-> l]

(* All the bytes the peer sends. *)
Flujo == FlattenSeq([l \in DOMAIN Largos |-> Append(Linea(l), NL)])

VARIABLES enviados,    \* bytes of Flujo that have arrived
          leidos,      \* bytes the agent has read
          cerro,       \* the peer has closed its end
          est,         \* "abierta"; destroyed after a read of 0 bytes, "cerrada", or
                       \* after an error, "error"
          read_buf,    \* 0 .. BUFF_SIZE - 1
          read_pos,
          pc,          \* pc[w]: "fuera", "lineas" in the loop, "compacta" after it
          line_start,  \* line_start[w], an index of read_buf
          procesadas   \* history: what process_message was called with

vars == <<enviados, leidos, cerro, est, read_buf, read_pos, pc, line_start, procesadas>>

Init ==
  /\ enviados = 0 /\ leidos = 0 /\ cerro = FALSE /\ est = "abierta"
  /\ read_buf = [i \in 0 .. BUFF_SIZE - 1 |-> NUL] /\ read_pos = 0
  /\ pc = [w \in Hilos |-> "fuera"] /\ line_start = [w \in Hilos |-> 0]
  /\ procesadas = << >>

-------------------------------------------------------------------------------
(* The peer. *)

Llegan ==
  /\ ~cerro /\ est = "abierta"
  /\ enviados' \in enviados + 1 .. Len(Flujo)
  /\ UNCHANGED <<leidos, cerro, est, read_buf, read_pos, pc, line_start, procesadas>>

Cierra ==
  /\ ~cerro /\ enviados = Len(Flujo)
  /\ cerro' = TRUE
  /\ UNCHANGED <<enviados, leidos, est, read_buf, read_pos, pc, line_start, procesadas>>

-------------------------------------------------------------------------------
(* What read(2) returns when there is something to return, EOF included. *)
bytes_read ==
  LET cabe == BUFF_SIZE - read_pos - 1
      hay == enviados - leidos
  IN  IF hay < cabe THEN hay ELSE cabe

(* The event of a worker: bytes are appended, with a NUL after them. *)
handle_tcp_read(w) ==
  /\ est = "abierta" /\ pc[w] = "fuera"
  /\ enviados > leidos /\ bytes_read > 0
  /\ read_buf' = [i \in 0 .. BUFF_SIZE - 1 |->
                    CASE i \in read_pos .. read_pos + bytes_read - 1 ->
                           Flujo[leidos + 1 + (i - read_pos)]
                      [] i = read_pos + bytes_read -> NUL
                      [] OTHER -> read_buf[i]]
  /\ read_pos' = read_pos + bytes_read /\ leidos' = leidos + bytes_read
  /\ pc' = [pc EXCEPT ![w] = "lineas"] /\ line_start' = [line_start EXCEPT ![w] = 0]
  /\ UNCHANGED <<enviados, cerro, est, procesadas>>

(* read returns 0: the connection is destroyed. *)
fin_de_flujo(w) ==
  /\ est = "abierta" /\ pc[w] = "fuera"
  /\ enviados > leidos \/ cerro
  /\ bytes_read = 0
  /\ est' = "cerrada"
  /\ UNCHANGED <<enviados, leidos, cerro, read_buf, read_pos, pc, line_start, procesadas>>

(* read fails: the connection is destroyed as well. *)
error_de_lectura(w) ==
  /\ est = "abierta" /\ pc[w] = "fuera" /\ ConErrores
  /\ est' = "error"
  /\ UNCHANGED <<enviados, leidos, cerro, read_buf, read_pos, pc, line_start, procesadas>>

(* The newlines strchr can reach from line_start. *)
Saltos(w) ==
  {k \in line_start[w] .. BUFF_SIZE - 1 :
     read_buf[k] = NL /\ \A i \in line_start[w] .. k - 1 : read_buf[i] \notin {NL, NUL}}

(* Mutant: the next line starts at the newline of this one. *)
SeguirEnElSalto(w) ==
  /\ est = "abierta" /\ pc[w] = "lineas"
  /\ \/ \E k \in Saltos(w) :
          /\ procesadas' = Append(procesadas, [i \in 1 .. k - line_start[w] |->
                                                 read_buf[line_start[w] + i - 1]])
          /\ read_buf' = [read_buf EXCEPT ![k] = NUL]
          /\ line_start' = [line_start EXCEPT ![w] = k]
          /\ UNCHANGED pc
     \/ /\ Saltos(w) = {}
        /\ pc' = [pc EXCEPT ![w] = "compacta"]
        /\ UNCHANGED <<procesadas, read_buf, line_start>>
  /\ UNCHANGED <<enviados, leidos, cerro, est, read_pos>>

(* One turn of the loop, or its end. *)
extraccion(w) ==
  /\ est = "abierta" /\ pc[w] = "lineas"
  /\ \/ \E k \in Saltos(w) :
          /\ procesadas' = Append(procesadas, [i \in 1 .. k - line_start[w] |->
                                                 read_buf[line_start[w] + i - 1]])
          /\ read_buf' = [read_buf EXCEPT ![k] = NUL]
          /\ line_start' = [line_start EXCEPT ![w] = k + 1]
          /\ UNCHANGED pc
     \/ /\ Saltos(w) = {}
        /\ pc' = [pc EXCEPT ![w] = "compacta"]
        /\ UNCHANGED <<procesadas, read_buf, line_start>>
  /\ UNCHANGED <<enviados, leidos, cerro, est, read_pos>>

(* Mutant: what is left is not moved to the beginning. *)
CompactarSinMover(w) ==
  /\ est = "abierta" /\ pc[w] = "compacta"
  /\ read_pos' = read_pos - line_start[w]
  /\ pc' = [pc EXCEPT ![w] = "fuera"]
  /\ UNCHANGED <<enviados, leidos, cerro, est, read_buf, line_start, procesadas>>

(* What is left goes to the beginning.  remaining is a size_t: below 0,    *)
(* which takes more than one worker, it wraps and the memmove runs away.   *)
compactacion(w) ==
  /\ est = "abierta" /\ pc[w] = "compacta"
  /\ LET remaining == read_pos - line_start[w]
     IN  /\ read_buf' = [i \in 0 .. BUFF_SIZE - 1 |->
                           IF i < remaining THEN read_buf[line_start[w] + i] ELSE read_buf[i]]
         /\ read_pos' = IF remaining >= 0 THEN remaining ELSE read_pos
         /\ est' = IF remaining >= 0 THEN est ELSE "error"
  /\ pc' = [pc EXCEPT ![w] = "fuera"]
  /\ UNCHANGED <<enviados, leidos, cerro, line_start, procesadas>>

Trabajador(w) == handle_tcp_read(w) \/ fin_de_flujo(w) \/ extraccion(w) \/ compactacion(w)

Next == Llegan \/ Cierra \/ \E w \in Hilos : Trabajador(w) \/ error_de_lectura(w)

Spec == Init /\ [][Next]_vars

(* The worker runs, and the event of unread bytes or of EOF comes again    *)
(* when the descriptor is rearmed; the network delivers what the peer sent.*)
FairSpec == Spec /\ WF_vars(Llegan) /\ WF_vars(Cierra) /\ \A w \in Hilos : WF_vars(Trabajador(w))

-------------------------------------------------------------------------------
(* read_pos stays below BUFF_SIZE, so the NUL of handle_tcp_read has room, *)
(* and every byte of read_buf is one of the stream or a NUL.               *)
TypeOK ==
  /\ enviados \in 0 .. Len(Flujo) /\ leidos \in 0 .. enviados
  /\ cerro \in BOOLEAN /\ est \in {"abierta", "cerrada", "error"}
  /\ read_buf \in [0 .. BUFF_SIZE - 1 -> DOMAIN Largos \cup {NL, NUL}]
  /\ read_pos \in 0 .. BUFF_SIZE - 1
  /\ pc \in [Hilos -> {"fuera", "lineas", "compacta"}]
  /\ line_start \in [Hilos -> 0 .. BUFF_SIZE - 1]

(***************************************************************************)
(* The loop of handle_tcp_read calls process_message with exactly the lines*)
(* the peer sent, in order, however the stream was cut: none is split,     *)
(* joined to another, repeated or left out.                                *)
(***************************************************************************)
LineasEnOrden ==
  /\ Len(procesadas) <= Len(Largos)
  /\ \A k \in DOMAIN procesadas : procesadas[k] = Linea(k)

(***************************************************************************)
(* "EOF: El extremo remoto cerró la conexión de manera ordenada": a read   *)
(* of 0 bytes ends the connection only when the peer has closed it.        *)
(***************************************************************************)
SoloCierraElOtro == est = "cerrada" => cerro

(***************************************************************************)
(* Every line is processed in the end, if the connection does not fail.    *)
(***************************************************************************)
TodasSeProcesan == <>(Len(procesadas) = Len(Largos) \/ est = "error")
===============================================================================
