---------------------------- MODULE ConexionProofs ----------------------------
(***************************************************************************)
(* Proofs about Conexion, for any workers, senders, messages and buffer.   *)
(***************************************************************************)
EXTENDS Conexion, SequenceTheorems, TLAPS

(* in_handler is set by a worker that has not rearmed the connection yet. *)
Marca ==
  est = "abierta" /\ in_handler => \E w \in Hilos : pc[w] \notin {"libre", "evento"}

(* Before it is created the connection is as malloc and the inits leave it. *)
Nueva == est = "nada" => ~in_handler /\ write_len = 0

IInv ==
  /\ TypeOK /\ DentroDelBuffer /\ FlujoEnOrden
  /\ Nueva /\ Marca /\ NadaOlvidado /\ SinEsperaActiva
-------------------------------------------------------------------------------
(* Appending to the stream and to the buffer. *)
LEMMA FlujoCrece ==
  ASSUME NEW a \in Seq(Int), NEW e \in Seq(Int), NEW b \in Seq(Int), NEW m \in Seq(Int),
         NEW p \in Nat, p <= Len(b), EsFlujo(a, e, b, p)
  PROVE  EsFlujo(a \o m, e, b \o m, p)
  <1> DEFINE A == a \o m  B == b \o m
  <1>1. /\ Len(a) \in Nat /\ Len(e) \in Nat /\ Len(b) \in Nat /\ Len(m) \in Nat
        /\ Len(a) = Len(e) + (Len(b) - p)
        /\ \A i \in 1 .. Len(e) : e[i] = a[i]
        /\ \A i \in p + 1 .. Len(b) : b[i] = a[Len(e) + (i - p)]
    BY LenProperties DEF EsFlujo
  <1>2. /\ Len(A) = Len(a) + Len(m)
        /\ \A i \in 1 .. Len(a) + Len(m) : A[i] = IF i <= Len(a) THEN a[i] ELSE m[i - Len(a)]
    BY ConcatProperties
  <1>3. /\ Len(B) = Len(b) + Len(m)
        /\ \A i \in 1 .. Len(b) + Len(m) : B[i] = IF i <= Len(b) THEN b[i] ELSE m[i - Len(b)]
    BY ConcatProperties
  <1> HIDE DEF A, B
  <1>4. ASSUME NEW i \in 1 .. Len(e)
        PROVE  e[i] = A[i]
    <2>1. i \in 1 .. Len(a) + Len(m) /\ i <= Len(a)
      BY <1>1
    <2> QED
      BY <2>1, <1>1, <1>2
  <1>5. ASSUME NEW i \in p + 1 .. Len(B)
        PROVE  B[i] = A[Len(e) + (i - p)]
    <2> DEFINE k == Len(e) + (i - p)
    <2>1. i \in 1 .. Len(b) + Len(m) /\ k \in 1 .. Len(a) + Len(m)
      BY <1>1, <1>3
    <2>2. i <= Len(b) <=> k <= Len(a)
      BY <1>1, <2>1
    <2>3. i - Len(b) = k - Len(a)
      BY <1>1, <2>1
    <2>4. CASE i <= Len(b)
      <3>1. B[i] = b[i] /\ b[i] = a[k] /\ A[k] = a[k]
        BY <2>1, <2>2, <2>4, <1>1, <1>2, <1>3
      <3> QED
        BY <3>1
    <2>5. CASE ~(i <= Len(b))
      <3>1. B[i] = m[i - Len(b)]
        BY <2>1, <2>5, <1>3
      <3>2. A[k] = m[k - Len(a)]
        BY <2>1, <2>2, <2>5, <1>2
      <3> QED
        BY <3>1, <3>2, <2>3
    <2> QED
      BY <2>4, <2>5
  <1>6. Len(A) = Len(e) + (Len(B) - p)
    BY <1>1, <1>2, <1>3
  <1> QED
    BY <1>4, <1>5, <1>6 DEF EsFlujo, A, B

(* Writing the next n bytes of the buffer. *)
LEMMA FlujoAvanza ==
  ASSUME NEW a \in Seq(Int), NEW e \in Seq(Int), NEW b \in Seq(Int),
         NEW p \in Nat, NEW n \in Nat \ {0}, p + n <= Len(b), EsFlujo(a, e, b, p)
  PROVE  /\ e \o SubSeq(b, p + 1, p + n) \in Seq(Int)
         /\ EsFlujo(a, e \o SubSeq(b, p + 1, p + n), b, p + n)
  <1> DEFINE t == SubSeq(b, p + 1, p + n)  E == e \o t
  <1>1. /\ Len(a) \in Nat /\ Len(e) \in Nat /\ Len(b) \in Nat
        /\ Len(a) = Len(e) + (Len(b) - p)
        /\ \A i \in 1 .. Len(e) : e[i] = a[i]
        /\ \A i \in p + 1 .. Len(b) : b[i] = a[Len(e) + (i - p)]
    BY LenProperties DEF EsFlujo
  <1>2. /\ t \in Seq(Int) /\ Len(t) = n
        /\ \A i \in 1 .. n : t[i] = b[p + i]
    <2>1. p + 1 \in Int /\ p + n \in Int /\ p + 1 <= p + n /\ p + n - (p + 1) + 1 = n
      OBVIOUS
    <2>2. \A i \in p + 1 .. p + n : b[i] \in Int
      <3>1. \A i \in 1 .. Len(b) : b[i] \in Int
        BY LenProperties
      <3> QED
        BY <3>1, <1>1
    <2>3. t \in Seq(Int) /\ Len(t) = n
      BY <2>1, <2>2, SubSeqProperties
    <2>4. ASSUME NEW i \in 1 .. n
          PROVE  t[i] = b[p + i]
      <3>1. i \in 1 .. p + n - (p + 1) + 1 /\ p + 1 + i - 1 = p + i
        BY <2>1
      <3>2. t[i] = b[p + 1 + i - 1]
        BY <2>1, <2>2, <3>1, SubSeqProperties
      <3> QED
        BY <3>1, <3>2
    <2> QED
      BY <2>3, <2>4
  <1> HIDE DEF t
  <1>3. /\ E \in Seq(Int) /\ Len(E) = Len(e) + n
        /\ \A i \in 1 .. Len(e) + n : E[i] = IF i <= Len(e) THEN e[i] ELSE t[i - Len(e)]
    BY <1>2, ConcatProperties
  <1> HIDE DEF E
  <1>4. ASSUME NEW i \in 1 .. Len(E)
        PROVE  E[i] = a[i]
    <2>1. i \in 1 .. Len(e) + n
      BY <1>3
    <2>2. CASE i <= Len(e)
      <3>1. i \in 1 .. Len(e)
        BY <2>1, <2>2, <1>1
      <3>2. E[i] = e[i]
        BY <2>1, <2>2, <1>3
      <3> QED
        BY <3>1, <3>2, <1>1
    <2>3. CASE ~(i <= Len(e))
      <3> DEFINE j == i - Len(e)
      <3>1. j \in 1 .. n /\ p + j \in p + 1 .. Len(b) /\ Len(e) + ((p + j) - p) = i
        BY <2>1, <2>3, <1>1
      <3>2. E[i] = t[j]
        BY <2>1, <2>3, <1>3
      <3>3. t[j] = b[p + j]
        BY <3>1, <1>2
      <3>4. b[p + j] = a[Len(e) + ((p + j) - p)]
        BY <3>1, <1>1
      <3> QED
        BY <3>1, <3>2, <3>3, <3>4
    <2> QED
      BY <2>2, <2>3
  <1>5. ASSUME NEW i \in (p + n) + 1 .. Len(b)
        PROVE  b[i] = a[Len(E) + (i - (p + n))]
    <2>1. i \in p + 1 .. Len(b)
      BY <1>1
    <2>2. Len(e) + (i - p) = Len(E) + (i - (p + n))
      BY <1>1, <1>3
    <2> QED
      BY <2>1, <2>2, <1>1
  <1>6. Len(a) = Len(E) + (Len(b) - (p + n))
    BY <1>1, <1>3
  <1>7. EsFlujo(a, E, b, p + n)
    BY <1>4, <1>5, <1>6 DEF EsFlujo
  <1> QED
    BY <1>3, <1>7 DEF E, t

(* A buffer that has been written to its end may be emptied. *)
LEMMA FlujoVacio ==
  ASSUME NEW a \in Seq(Int), NEW e \in Seq(Int), NEW b \in Seq(Int), EsFlujo(a, e, b, Len(b))
  PROVE  EsFlujo(a, e, << >>, 0)
  BY EmptySeq, LenProperties DEF EsFlujo

-------------------------------------------------------------------------------
(* enqueue_write keeps the buffer within its bounds and the stream whole,  *)
(* and arms the descriptor unless a worker will.                           *)
LEMMA Encolado ==
  ASSUME IInv, NEW m \in Mensajes, enqueue_write(m),
         UNCHANGED <<est, tipo, in_handler, pc>>
  PROVE  /\ write_buf' \in Seq(Int) /\ aceptado' \in Seq(Int) /\ enviado' \in Seq(Int)
         /\ write_pos' \in Nat /\ perdidos' \in Nat /\ armado' \subseteq {"IN", "OUT"}
         /\ ventana' \in BOOLEAN
         /\ DentroDelBuffer' /\ FlujoEnOrden' /\ NadaOlvidado' /\ SinEsperaActiva'
  <1>1. m \in Seq(Int) /\ Len(m) \in Nat \ {0}
    BY Supuestos, EmptySeq
  <1>2. /\ write_buf \in Seq(Int) /\ aceptado \in Seq(Int) /\ enviado \in Seq(Int)
        /\ write_pos \in Nat /\ perdidos \in Nat /\ armado \subseteq {"IN", "OUT"}
        /\ Len(write_buf) \in Nat /\ write_pos <= Len(write_buf)
    BY LenProperties DEF IInv, TypeOK, DentroDelBuffer, write_len
  <1>0. ventana' \in BOOLEAN
    BY DEF enqueue_write, IInv, TypeOK
  <1>3. CASE ~Cabe(m)
    <2>1. /\ perdidos' = perdidos + 1
          /\ UNCHANGED <<write_buf, armado, aceptado, write_pos, enviado>>
      BY <1>3 DEF enqueue_write
    <2> QED
      BY <2>1, <1>0, <1>2
      DEF IInv, DentroDelBuffer, FlujoEnOrden, EsFlujo, NadaOlvidado, SinEsperaActiva,
          EnManejo, write_len
  <1>4. CASE Cabe(m)
    <2>1. /\ write_buf' = write_buf \o m /\ aceptado' = aceptado \o m
          /\ armado' = (IF in_handler THEN armado ELSE {"IN", "OUT"})
          /\ perdidos' = perdidos /\ write_pos' = write_pos /\ enviado' = enviado
      BY <1>4 DEF enqueue_write
    <2>2. /\ write_buf' \in Seq(Int) /\ Len(write_buf') = Len(write_buf) + Len(m)
          /\ aceptado' \in Seq(Int)
      BY <2>1, <1>1, <1>2, ConcatProperties
    <2>3. DentroDelBuffer'
      BY <2>1, <2>2, <1>1, <1>2, <1>4, Supuestos DEF DentroDelBuffer, Cabe, write_len
    <2>4. FlujoEnOrden'
      BY <2>1, <1>1, <1>2, FlujoCrece DEF IInv, FlujoEnOrden
    <2>5. NadaOlvidado'
      BY <2>1 DEF IInv, NadaOlvidado, Marca, EnManejo
    <2>6. SinEsperaActiva'
      BY <2>2, <1>1, <1>2 DEF SinEsperaActiva, write_len
    <2> QED
      BY <2>1, <2>2, <2>3, <2>4, <2>5, <2>6, <1>0, <1>2
  <1> QED
    BY <1>3, <1>4

(* So does a write of any number of the pending bytes. *)
LEMMA Escrito ==
  ASSUME TypeOK, DentroDelBuffer, FlujoEnOrden, NEW w \in Hilos, EscribirBytes(w)
  PROVE  /\ write_buf' \in Seq(Int) /\ enviado' \in Seq(Int) /\ write_pos' \in Nat
         /\ UNCHANGED <<aceptado, perdidos>> /\ lleno' \in BOOLEAN
         /\ DentroDelBuffer' /\ FlujoEnOrden'
  <1>1. PICK n \in 1 .. write_len - write_pos :
          /\ enviado' = enviado \o SubSeq(write_buf, write_pos + 1, write_pos + n)
          /\ Avanzar(n)
          /\ lleno' \in (IF n < write_len - write_pos THEN {TRUE} ELSE BOOLEAN)
    BY DEF EscribirBytes
  <1>2. /\ write_buf \in Seq(Int) /\ aceptado \in Seq(Int) /\ enviado \in Seq(Int)
        /\ write_pos \in Nat /\ Len(write_buf) \in Nat
    BY LenProperties DEF TypeOK
  <1>3. n \in Nat \ {0} /\ write_pos + n <= Len(write_buf)
    BY <1>2 DEF write_len
  <1>4. /\ enviado' \in Seq(Int)
        /\ EsFlujo(aceptado, enviado', write_buf, write_pos + n)
    BY <1>1, <1>2, <1>3, FlujoAvanza DEF FlujoEnOrden
  <1>5. UNCHANGED <<aceptado, perdidos>> /\ lleno' \in BOOLEAN
    BY <1>1 DEF EscribirBytes
  <1>6. CASE write_pos + n = write_len
    <2>1. write_buf' = << >> /\ write_pos' = 0 /\ Len(write_buf') = 0 /\ write_buf' \in Seq(Int)
      BY <1>1, <1>6, EmptySeq DEF Avanzar
    <2>2. FlujoEnOrden'
      BY <2>1, <1>2, <1>4, <1>5, <1>6, FlujoVacio DEF FlujoEnOrden, write_len
    <2> QED
      BY <2>1, <2>2, <1>4, <1>5, Supuestos DEF DentroDelBuffer, write_len
  <1>7. CASE write_pos + n # write_len
    <2>1. write_buf' = write_buf /\ write_pos' = write_pos + n
      BY <1>1, <1>7 DEF Avanzar
    <2>2. FlujoEnOrden'
      BY <2>1, <1>4, <1>5 DEF FlujoEnOrden
    <2> QED
      BY <2>1, <2>2, <1>2, <1>3, <1>4, <1>5, <1>7 DEF DentroDelBuffer, write_len
  <1> QED
    BY <1>6, <1>7

(* A step that leaves the buffer alone. *)
LEMMA BufferIgual ==
  ASSUME IInv, UNCHANGED buffer
  PROVE  /\ DentroDelBuffer' /\ FlujoEnOrden' /\ write_len' = write_len
         /\ write_buf' \in Seq(Int) /\ aceptado' \in Seq(Int) /\ enviado' \in Seq(Int)
         /\ write_pos' \in Nat /\ perdidos' \in Nat /\ write_len \in Nat
  <1>1. UNCHANGED <<write_buf, write_pos, aceptado, enviado, perdidos>>
    BY DEF buffer
  <1> QED
    BY <1>1, LenProperties DEF IInv, TypeOK, DentroDelBuffer, FlujoEnOrden, EsFlujo, write_len

LEMMA Inicio == Init => IInv
  <1> SUFFICES ASSUME Init PROVE IInv
    OBVIOUS
  <1>1. << >> \in Seq(Int) /\ Len(<< >>) = 0
    BY EmptySeq
  <1>2. TypeOK
    BY <1>1 DEF Init, TypeOK
  <1>3. DentroDelBuffer /\ FlujoEnOrden
    BY <1>1, Supuestos DEF Init, DentroDelBuffer, FlujoEnOrden, EsFlujo, write_len
  <1>4. Nueva /\ Marca /\ NadaOlvidado /\ SinEsperaActiva
    BY <1>1 DEF Init, Nueva, Marca, NadaOlvidado, SinEsperaActiva, write_len
  <1> QED
    BY <1>2, <1>3, <1>4 DEF IInv

(* Handling one event leaves the worker's event set within the possible events, *)
(* and the worker at one of the handler's places.                                *)
LEMMA PasarEventos ==
  ASSUME ev \in [Hilos -> SUBSET {"IN", "OUT", "ERR"}], NEW w \in Hilos, NEW x, Pasar(w, x)
  PROVE  ev' \in [Hilos -> SUBSET {"IN", "OUT", "ERR"}]
  <1>1. ev' = [ev EXCEPT ![w] = ev[w] \ {x}]
    BY DEF Pasar
  <1>2. ev[w] \in SUBSET {"IN", "OUT", "ERR"}
    OBVIOUS
  <1>3. ev[w] \ {x} \in SUBSET {"IN", "OUT", "ERR"}
    BY <1>2
  <1> QED
    BY <1>1, <1>3

LEMMA PasarLugar ==
  ASSUME NEW L, {"leer", "escribir", "rearmar"} \subseteq L, pc \in [Hilos -> L],
         NEW w \in Hilos, NEW x, Pasar(w, x)
  PROVE  pc' \in [Hilos -> L] /\ pc'[w] \in {"leer", "escribir", "rearmar"}
  <1>1. PICK l \in {"leer", "escribir", "rearmar"} : pc' = [pc EXCEPT ![w] = l]
    BY DEF Pasar, Siguiente
  <1> QED
    BY <1>1

(* The steps of a worker that change where it stands and not the buffer. *)
LEMMA PasoDeHilo ==
  ASSUME IInv, NEW w \in Hilos, Hilo(w) \/ epoll_wait(w), UNCHANGED buffer
  PROVE  IInv'
  <1> DEFINE Lugares == {"libre", "evento", "leer", "procesar", "escribir", "conectar",
                         "rearmar", "destruir", "cerrar"}
  <1>1. /\ DentroDelBuffer' /\ FlujoEnOrden' /\ write_len' = write_len
        /\ write_buf' \in Seq(Int) /\ aceptado' \in Seq(Int) /\ enviado' \in Seq(Int)
        /\ write_pos' \in Nat /\ perdidos' \in Nat /\ write_len \in Nat
    BY BufferIgual
  <1>2. CASE epoll_wait(w) \/ Tomar(w)
    <2>1. TypeOK'
      <3>1. CASE epoll_wait(w)
        BY <1>1, <3>1 DEF IInv, TypeOK, epoll_wait, Listo, socket
      <3>2. CASE Tomar(w)
        BY <1>1, <3>2 DEF IInv, TypeOK, Tomar, Siguiente, socket
      <3> QED
        BY <1>2, <3>1, <3>2
    <2>2. EnManejo(w)' /\ est' = "abierta"
      BY <1>2 DEF IInv, TypeOK, EnManejo, epoll_wait, Tomar, Siguiente
    <2>3. Marca'
      BY <1>2 DEF IInv, TypeOK, Marca, epoll_wait, Tomar, Siguiente
    <2> QED
      BY <1>1, <2>1, <2>2, <2>3 DEF IInv, Nueva, NadaOlvidado, SinEsperaActiva
  <1>3. CASE \/ handle_tcp_read(w) \/ FinProcesar(w) \/ handle_tcp_write(w) \/ EsSaliente(w)
             \/ handle_outgoing_connection_event(w) \/ Notificar(w)
    <2>0. /\ ev \in [Hilos -> SUBSET {"IN", "OUT", "ERR"}] /\ pc \in [Hilos -> Lugares]
          /\ {"leer", "escribir", "rearmar"} \subseteq Lugares
      BY DEF IInv, TypeOK
    <2>1. /\ UNCHANGED <<est, armado, in_handler, apunta, ventana>>
          /\ pc' \in [Hilos -> Lugares] /\ pc'[w] \notin {"libre", "evento"}
          /\ ev' \in [Hilos -> SUBSET {"IN", "OUT", "ERR"}]
          /\ tipo' \in {"OUTGOING", "CLIENT"} /\ enTablas' \in BOOLEAN
          /\ par' = par /\ entrada' \in BOOLEAN /\ lleno' \in BOOLEAN
      <3>1. CASE handle_tcp_read(w)
        <4>1. \/ Pasar(w, "IN")
              \/ pc' = [pc EXCEPT ![w] = "procesar"] /\ UNCHANGED ev
              \/ pc' = [pc EXCEPT ![w] = "destruir"] /\ UNCHANGED ev
          BY <3>1 DEF handle_tcp_read
        <4>2. /\ UNCHANGED <<est, tipo, armado, in_handler, enTablas, apunta, ventana, par, lleno>>
              /\ entrada' = FALSE \/ entrada' = entrada
          BY <3>1 DEF handle_tcp_read
        <4>3. ev' \in [Hilos -> SUBSET {"IN", "OUT", "ERR"}]
          BY <4>1, <2>0, PasarEventos
        <4>4. pc' \in [Hilos -> Lugares] /\ pc'[w] \notin {"libre", "evento"}
          BY <4>1, <2>0, PasarLugar
        <4> QED
          BY <4>2, <4>3, <4>4 DEF IInv, TypeOK
      <3>2. CASE FinProcesar(w)
        <4>1. /\ Pasar(w, "IN") \/ Pasar(w, "OUT")
              /\ UNCHANGED <<est, tipo, armado, in_handler, enTablas, apunta, ventana, par, entrada, lleno>>
          BY <3>2 DEF FinProcesar, socket
        <4>2. ev' \in [Hilos -> SUBSET {"IN", "OUT", "ERR"}]
          BY <4>1, <2>0, PasarEventos
        <4>3. pc' \in [Hilos -> Lugares] /\ pc'[w] \notin {"libre", "evento"}
          BY <4>1, <2>0, PasarLugar
        <4> QED
          BY <4>1, <4>2, <4>3 DEF IInv, TypeOK
      <3>3. CASE handle_tcp_write(w)
        <4>1. lleno' \in BOOLEAN
          BY <3>3, Escrito DEF IInv, TypeOK, handle_tcp_write
        <4>2. Pasar(w, "OUT") \/ (pc' = [pc EXCEPT ![w] = "destruir"] /\ UNCHANGED ev)
          BY <3>3 DEF handle_tcp_write, EscribirBytes
        <4>3. UNCHANGED <<est, tipo, armado, in_handler, enTablas, apunta, ventana, par, entrada>>
          BY <3>3 DEF handle_tcp_write
        <4>4. ev' \in [Hilos -> SUBSET {"IN", "OUT", "ERR"}]
          BY <4>2, <2>0, PasarEventos
        <4>5. pc' \in [Hilos -> Lugares] /\ pc'[w] \notin {"libre", "evento"}
          BY <4>2, <2>0, PasarLugar
        <4> QED
          BY <4>1, <4>3, <4>4, <4>5 DEF IInv, TypeOK
      <3>4. CASE EsSaliente(w)
        BY <3>4 DEF IInv, TypeOK, EsSaliente, socket
      <3>5. CASE handle_outgoing_connection_event(w)
        BY <3>5 DEF IInv, TypeOK, handle_outgoing_connection_event, socket
      <3>6. CASE Notificar(w)
        BY <3>6 DEF IInv, TypeOK, Notificar, socket
      <3> QED
        BY <1>3, <3>1, <3>2, <3>3, <3>4, <3>5, <3>6
    <2>2. TypeOK'
      BY <1>1, <2>1 DEF IInv, TypeOK
    <2>3. EnManejo(w)' /\ est' # "nada"
      BY <1>3, <2>1 DEF EnManejo, handle_tcp_read, FinProcesar, handle_tcp_write, EsSaliente,
           handle_outgoing_connection_event, Notificar
    <2> QED
      BY <1>1, <2>1, <2>2, <2>3 DEF IInv, Nueva, Marca, NadaOlvidado, SinEsperaActiva
  <1>4. CASE rearm_conn(w)
    <2>1. TypeOK'
      BY <1>1, <1>4 DEF IInv, TypeOK, rearm_conn, Mascara, socket
    <2>2. est' # "nada" /\ in_handler' = FALSE /\ ("OUT" \in armado' <=> write_len > 0)
      BY <1>4 DEF rearm_conn, Mascara
    <2> QED
      BY <1>1, <2>1, <2>2 DEF IInv, Nueva, Marca, NadaOlvidado, SinEsperaActiva
  <1>5. CASE Cerrar(w)
    <2>1. TypeOK'
      BY <1>1, <1>5 DEF IInv, TypeOK, Cerrar, socket
    <2>2. est' = "liberada" /\ armado' = {}
      BY <1>5 DEF Cerrar
    <2> QED
      BY <1>1, <2>1, <2>2 DEF IInv, Nueva, Marca, NadaOlvidado, SinEsperaActiva
  <1> QED
    BY <1>2, <1>3, <1>4, <1>5 DEF Hilo

(* The invariant is kept by every step. *)
LEMMA Induccion ==
  ASSUME IInv, [Next]_vars
  PROVE  IInv'
  <1>1. CASE UNCHANGED vars
    <2>1. UNCHANGED buffer
          /\ UNCHANGED <<est, tipo, armado, in_handler, enTablas, pc, ev, apunta, ventana, socket>>
      BY <1>1 DEF vars
    <2> QED
      BY <2>1, BufferIgual
      DEF IInv, TypeOK, socket, Nueva, Marca, NadaOlvidado, SinEsperaActiva, EnManejo
  <1>2. CASE handle_accept \/ connect_remote_node
    <2>1. UNCHANGED buffer /\ UNCHANGED <<pc, ev, apunta, ventana, in_handler>> /\ est = "nada"
          /\ est' = "abierta" /\ (armado' = {"IN"} \/ tipo' = "OUTGOING")
      BY <1>2 DEF handle_accept, connect_remote_node
    <2>2. TypeOK'
      BY <1>2, <2>1, BufferIgual DEF IInv, TypeOK, handle_accept, connect_remote_node, socket
    <2>3. ~in_handler' /\ write_len' = 0
      BY <2>1, BufferIgual DEF IInv, Nueva
    <2> QED
      BY <2>1, <2>2, <2>3, BufferIgual DEF IInv, Nueva, Marca, NadaOlvidado, SinEsperaActiva
  <1>3. ASSUME NEW w \in Hilos, Hilo(w) \/ epoll_wait(w)
        PROVE  IInv'
    <2>1. CASE UNCHANGED buffer
      BY <1>3, <2>1, PasoDeHilo
    <2>2. CASE ~UNCHANGED buffer
      <3>1. handle_tcp_write(w)
        BY <1>3, <2>2
        DEF Hilo, epoll_wait, Tomar, handle_tcp_read, FinProcesar, EsSaliente,
            handle_outgoing_connection_event, rearm_conn, Notificar, Cerrar
      <3>2. EscribirBytes(w)
        BY <2>2, <3>1 DEF handle_tcp_write
      <3>3. /\ est = "abierta" /\ Pasar(w, "OUT")
            /\ UNCHANGED <<est, tipo, armado, in_handler, enTablas, apunta, ventana, par, entrada>>
        BY <3>1, <3>2 DEF handle_tcp_write, EscribirBytes
      <3>4. TypeOK'
        BY <3>2, <3>3, Escrito DEF IInv, TypeOK, Pasar, Siguiente
      <3>5. EnManejo(w)' /\ pc'[w] \notin {"libre", "evento"}
        BY <3>3 DEF IInv, TypeOK, Pasar, Siguiente, EnManejo
      <3> QED
        BY <3>2, <3>3, <3>4, <3>5, Escrito DEF IInv, Nueva, Marca, NadaOlvidado, SinEsperaActiva
    <2> QED
      BY <2>1, <2>2
  <1>4. ASSUME \/ \E w \in Hilos : Responder(w)
               \/ \E e \in Emisores : Enviar(e)
        PROVE  IInv'
    <2>1. /\ \E m \in Mensajes : enqueue_write(m)
          /\ est = "abierta" /\ UNCHANGED <<est, tipo, in_handler, pc, ev, socket>>
      BY <1>4 DEF Responder, Enviar
    <2>2. enTablas' \in BOOLEAN /\ apunta' \in [Emisores -> BOOLEAN]
      BY <1>4 DEF Responder, Enviar, IInv, TypeOK
    <2>3. TypeOK'
      BY <2>1, <2>2, Encolado DEF IInv, TypeOK, socket
    <2> QED
      BY <2>1, <2>3, Encolado DEF IInv, Nueva, Marca
  <1>5. CASE \/ \E e \in Emisores : Buscar(e)
             \/ ParAcepta \/ ParEscribe \/ ParLee \/ ParTermina
    <2>1. UNCHANGED buffer /\ UNCHANGED <<est, tipo, armado, in_handler, enTablas, pc, ev, ventana>>
      BY <1>5 DEF Buscar, ParAcepta, ParEscribe, ParLee, ParTermina
    <2>2. /\ apunta' \in [Emisores -> BOOLEAN] /\ entrada' \in BOOLEAN /\ lleno' \in BOOLEAN
          /\ par' \in {"conectando", "vivo", "cerro", "reset"}
      BY <1>5 DEF IInv, TypeOK, Buscar, ParAcepta, ParEscribe, ParLee, ParTermina, socket
    <2>3. TypeOK'
      BY <2>1, <2>2, BufferIgual DEF IInv, TypeOK
    <2> QED
      BY <2>1, <2>3, BufferIgual
      DEF IInv, Nueva, Marca, NadaOlvidado, SinEsperaActiva, EnManejo
  <1> QED
    BY <1>1, <1>2, <1>3, <1>4, <1>5 DEF Next

LEMMA Invariante == Spec => []IInv
  BY Inicio, Induccion, PTL DEF Spec

-------------------------------------------------------------------------------
(* Every field of the connection_t and every worker keeps its type. *)
THEOREM Tipado == Spec => []TypeOK
  <1>1. IInv => TypeOK
    BY DEF IInv
  <1> QED
    BY <1>1, Invariante, PTL

(* enqueue_write and handle_tcp_write stay inside write_buf. *)
THEOREM BufferAcotado == Spec => []DentroDelBuffer
  <1>1. IInv => DentroDelBuffer
    BY DEF IInv
  <1> QED
    BY <1>1, Invariante, PTL

(* No accepted byte is lost, repeated or reordered on its way to the socket, *)
(* even when two workers handle the connection at once.                      *)
THEOREM FlujoConservado == Spec => []FlujoEnOrden
  <1>1. IInv => FlujoEnOrden
    BY DEF IInv
  <1> QED
    BY <1>1, Invariante, PTL

(* A connection that no worker has is armed for writing exactly when it has *)
(* something to write: no wake-up is lost between enqueue_write and         *)
(* rearm_conn, and epoll_wait does not return for nothing.                  *)
THEOREM AvisoDeEscritura == Spec => []EscrituraAvisada
  <1>1. IInv => EscrituraAvisada
    BY DEF IInv, EscrituraAvisada
  <1> QED
    BY <1>1, Invariante, PTL

-------------------------------------------------------------------------------
(***************************************************************************)
(* Outside a window, with any number of senders: a descriptor is armed only*)
(* when no worker has the connection, and a worker past its first critical *)
(* section has in_handler set, so that neither its own answers nor those of*)
(* others arm it.                                                          *)
(***************************************************************************)
ArmadoSinDuenio == armado # {} \/ est = "nada" => \A w \in Hilos : ~EnManejo(w)

Marcada ==
  est = "abierta" => \A w \in Hilos : pc[w] \notin {"libre", "evento"} => in_handler

Ordenada == ArmadoSinDuenio /\ Marcada /\ ExclusionMutua

ExInv == IInv /\ (~ventana => Ordenada) /\ SinManejoLiberado

LEMMA InicioExclusion == Init => ExInv
  BY Inicio
  DEF Init, ExInv, Ordenada, ArmadoSinDuenio, Marcada, ExclusionMutua, SinManejoLiberado, EnManejo

(* enqueue_write arms the descriptor only with in_handler clear: then no   *)
(* worker is past "evento", by Marcada, and none is at it outside a window.*)
LEMMA EncoladoOrdenado ==
  ASSUME ExInv, est = "abierta", NEW m \in Mensajes, enqueue_write(m),
         UNCHANGED <<est, in_handler, pc>>
  PROVE  (~ventana => Ordenada)' /\ SinManejoLiberado'
  <1>1. SinManejoLiberado'
    BY DEF SinManejoLiberado
  <1>2. ASSUME ~ventana'
        PROVE  Ordenada'
    <2>1. ~ventana
      BY <1>2 DEF enqueue_write
    <2>2. CASE armado' = armado
      BY <2>1, <2>2 DEF ExInv, Ordenada, ArmadoSinDuenio, Marcada, ExclusionMutua, EnManejo
    <2>3. CASE armado' # armado
      <3>1. ~in_handler /\ ~EnVentana
        BY <1>2, <2>3 DEF enqueue_write
      <3>2. \A w \in Hilos : pc[w] = "libre"
        BY <2>1, <3>1 DEF EnVentana, ExInv, Ordenada, Marcada
      <3> QED
        BY <3>2 DEF Ordenada, ArmadoSinDuenio, Marcada, ExclusionMutua, EnManejo
    <2> QED
      BY <2>2, <2>3
  <1> QED
    BY <1>1, <1>2

LEMMA InduccionExclusion ==
  ASSUME ExInv, [Next]_vars
  PROVE  ExInv'
  <1>1. IInv'
    BY Induccion DEF ExInv
  <1> USE DEF ExInv, Ordenada, ArmadoSinDuenio, Marcada, ExclusionMutua, SinManejoLiberado,
              EnManejo
  <1>2. CASE UNCHANGED vars
    BY <1>1, <1>2 DEF vars
  <1>3. CASE handle_accept \/ connect_remote_node
    BY <1>1, <1>3 DEF handle_accept, connect_remote_node
  <1>4. ASSUME NEW w \in Hilos, epoll_wait(w)
        PROVE  ExInv'
    BY <1>1, <1>4 DEF epoll_wait, IInv, TypeOK
  <1>5. ASSUME NEW w \in Hilos, Tomar(w)
        PROVE  ExInv'
    BY <1>1, <1>5 DEF Tomar, Siguiente, IInv, TypeOK
  <1>6. ASSUME NEW w \in Hilos, rearm_conn(w)
        PROVE  ExInv'
    <2>1. /\ est = "abierta" /\ est' = est /\ pc[w] = "rearmar"
          /\ pc' = [pc EXCEPT ![w] = "libre"]
          /\ ventana' = IF \E v \in Hilos \ {w} : pc[v] # "libre" THEN ventana ELSE FALSE
      BY <1>6 DEF rearm_conn
    <2>2. ASSUME ~ventana'
          PROVE  \A v \in Hilos : pc'[v] = "libre"
      BY <2>1, <2>2 DEF IInv, TypeOK
    <2> QED
      BY <1>1, <2>1, <2>2
  <1>7. ASSUME NEW w \in Hilos, Cerrar(w)
        PROVE  ExInv'
    BY <1>1, <1>7 DEF Cerrar, IInv, TypeOK
  <1>8. ASSUME NEW w \in Hilos,
               \/ handle_tcp_read(w) \/ FinProcesar(w) \/ handle_tcp_write(w) \/ EsSaliente(w)
               \/ handle_outgoing_connection_event(w) \/ Notificar(w)
        PROVE  ExInv'
    <2>1. /\ pc[w] \notin {"libre", "evento"} /\ est = "abierta"
          /\ UNCHANGED <<est, armado, in_handler, ventana>>
      BY <1>8 DEF handle_tcp_read, FinProcesar, handle_tcp_write, EsSaliente,
           handle_outgoing_connection_event, Notificar
    <2>2. \A v \in Hilos : v # w => pc'[v] = pc[v]
      BY <1>8 DEF handle_tcp_read, FinProcesar, handle_tcp_write, EscribirBytes, EsSaliente,
           handle_outgoing_connection_event, Notificar, Pasar, IInv, TypeOK
    <2> QED
      BY <1>1, <2>1, <2>2
  <1>9. ASSUME \/ \E w \in Hilos : Responder(w)
               \/ \E e \in Emisores : Enviar(e)
        PROVE  ExInv'
    <2>1. /\ est = "abierta" /\ UNCHANGED <<est, in_handler, pc>>
          /\ \E m \in Mensajes : enqueue_write(m)
      BY <1>9 DEF Responder, Enviar
    <2> QED
      BY <1>1, <2>1, EncoladoOrdenado
  <1>10. CASE \/ \E e \in Emisores : Buscar(e)
              \/ ParAcepta \/ ParEscribe \/ ParLee \/ ParTermina
    BY <1>1, <1>10 DEF Buscar, ParAcepta, ParEscribe, ParLee, ParTermina
  <1> QED
    BY <1>2, <1>3, <1>4, <1>5, <1>6, <1>7, <1>8, <1>9, <1>10 DEF Next, Hilo

LEMMA InvarianteExclusion == Spec => []ExInv
  BY InicioExclusion, InduccionExclusion, PTL DEF Spec

(* EPOLLONESHOT, in_handler and rearm_conn give each connection to one     *)
(* worker at a time, with any workers and any senders elsewhere, but after *)
(* an enqueue_write between the return of epoll_wait and in_handler = 1,   *)
(* and until no worker has the connection.                                 *)
THEOREM UnDuenioSalvoVentana == Spec => []ExclusionSalvoVentana
  <1>1. ExInv => ExclusionSalvoVentana
    BY DEF ExInv, Ordenada, ExclusionSalvoVentana
  <1> QED
    BY <1>1, InvarianteExclusion, PTL

(* Under the same condition the worker that frees a connection is the last *)
(* one to have it, although senders may still be about to use it.          *)
THEOREM LiberadaSinManejo == Spec => []SinManejoLiberado
  <1>1. ExInv => SinManejoLiberado
    BY DEF ExInv
  <1> QED
    BY <1>1, InvarianteExclusion, PTL
===============================================================================
