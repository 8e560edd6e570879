----------------------------- MODULE LecturaProofs -----------------------------
(***************************************************************************)
(* Proofs about Lectura, for one worker in the handler (what Conexion's    *)
(* mutual exclusion gives), lines of any number and length, a buffer of any*)
(* size and a stream cut anywhere.                                         *)
(***************************************************************************)
EXTENDS Lectura, InduccionNat

UnSoloHilo == \A v, w \in Hilos : v = w

(* Every line fits in read_buf with its newline and the NUL. *)
TodasCaben == \A l \in DOMAIN Largos : Largos[l] + 1 < BUFF_SIZE

Bytes == DOMAIN Largos \cup {NL}

Enteras == [l \in DOMAIN Largos |-> Append(Linea(l), NL)]

(* b[l] is the place in Flujo of the newline that ends line l. *)
EsBase(b) ==
  /\ b \in [0 .. Len(Largos) -> Nat] /\ b[0] = 0 /\ b[Len(Largos)] = Len(Flujo)
  /\ \A l \in 1 .. Len(Largos) :
       /\ b[l] = b[l - 1] + Largos[l] + 1 /\ b[l] <= Len(Flujo) /\ Flujo[b[l]] = NL
       /\ \A i \in 1 .. Largos[l] : Flujo[b[l - 1] + i] = l

Base == CHOOSE b : EsBase(b)

(* Where the bytes not yet handed on begin. *)
Desde(w) == IF pc[w] = "fuera" THEN 0 ELSE line_start[w]

Procesadas == procesadas \in Seq(Seq(Nat))

(* The bytes from there on are those of the stream that follow the last    *)
(* line handed to process_message, and a NUL ends them in the loop.        *)
Sincronia ==
  \A w \in Hilos :
    /\ Desde(w) <= read_pos /\ leidos = Base[Len(procesadas)] + (read_pos - Desde(w))
    /\ \A i \in Desde(w) .. read_pos - 1 : read_buf[i] = Flujo[(leidos - read_pos) + (i + 1)]
    /\ pc[w] # "fuera" => read_buf[read_pos] = NUL

(* After the loop less than a line is left. *)
Resto ==
  \A w \in Hilos : pc[w] # "lineas" =>
    IF Len(procesadas) < Len(Largos)
    THEN read_pos - Desde(w) <= Largos[Len(procesadas) + 1] ELSE read_pos = Desde(w)

IInv == TypeOK /\ Procesadas /\ LineasEnOrden /\ Sincronia /\ Resto
--------------------------------------------------------------------------------
(* Where the lines are in the stream. *)
LEMMA ElFlujo == Flujo \in Seq(Bytes) /\ Len(Flujo) \in Nat /\ EsBase(Base)
  <1>1. /\ Largos \in Seq(Nat) /\ Len(Largos) \in Nat /\ DOMAIN Largos = 1 .. Len(Largos)
        /\ \A l \in 1 .. Len(Largos) : Largos[l] \in Nat
    BY Medidas, LenProperties, ElementOfSeq
  <1>2. ASSUME NEW l \in 1 .. Len(Largos)
        PROVE  /\ Append(Linea(l), NL) \in Seq(Bytes) /\ Len(Append(Linea(l), NL)) = Largos[l] + 1
               /\ Append(Linea(l), NL)[Largos[l] + 1] = NL
               /\ \A i \in 1 .. Largos[l] : Append(Linea(l), NL)[i] = l
    <2>1. Largos[l] \in Nat /\ l \in Bytes /\ NL \in Bytes
      BY <1>1 DEF Bytes
    <2>2. Linea(l) \in Seq(Bytes) /\ Len(Linea(l)) = Largos[l] /\ \A i \in 1 .. Largos[l] : Linea(l)[i] = l
      BY <2>1 DEF Linea
    <2> QED
      BY <2>1, <2>2, AppendProperties
  <1>3. Enteras \in Seq(Seq(Bytes)) /\ Len(Enteras) = Len(Largos)
    BY <1>1, <1>2 DEF Enteras
  <1>4. \A l \in 1 .. Len(Largos) : Enteras[l] = Append(Linea(l), NL)
    BY <1>1 DEF Enteras
  <1>5. Flujo = FlattenSeq(Enteras)
    BY DEF Flujo, Enteras
  <1>6. Flujo \in Seq(Bytes)
    BY <1>3, <1>5, Posiciones
  <1>7. PICK b \in [0 .. Len(Enteras) -> Nat] :
             /\ b[0] = 0 /\ Len(Flujo) = b[Len(Enteras)]
             /\ \A l \in 1 .. Len(Enteras) :
                  /\ b[l] = b[l - 1] + Len(Enteras[l]) /\ b[l] <= b[Len(Enteras)]
                  /\ \A i \in 1 .. Len(Enteras[l]) : Flujo[b[l - 1] + i] = Enteras[l][i]
    BY <1>3, <1>5, Posiciones
  <1> HIDE DEF Enteras
  <1>8. ASSUME NEW l \in 1 .. Len(Largos)
        PROVE  /\ b[l] = b[l - 1] + Largos[l] + 1 /\ b[l] <= Len(Flujo) /\ Flujo[b[l]] = NL
               /\ \A i \in 1 .. Largos[l] : Flujo[b[l - 1] + i] = l
    <2>1. /\ Len(Enteras[l]) = Largos[l] + 1 /\ Enteras[l][Largos[l] + 1] = NL
          /\ \A i \in 1 .. Largos[l] : Enteras[l][i] = l
      BY <1>2, <1>4
    <2>2. l \in 1 .. Len(Enteras) /\ l - 1 \in 0 .. Len(Enteras) /\ l \in 0 .. Len(Enteras)
      BY <1>1, <1>3
    <2>3. b[l - 1] \in Nat /\ b[l] \in Nat
      BY <2>2
    <2>4. /\ b[l] = b[l - 1] + Len(Enteras[l]) /\ b[l] <= Len(Flujo)
          /\ \A i \in 1 .. Len(Enteras[l]) : Flujo[b[l - 1] + i] = Enteras[l][i]
      BY <1>7, <2>2, Zenon
    <2> DEFINE e == Enteras[l]
               k == b[l - 1]
               n == Largos[l]
    <2>5. /\ n \in Nat /\ k \in Nat /\ b[l] = k + Len(e) /\ Len(e) = n + 1 /\ e[n + 1] = NL
          /\ \A i \in 1 .. n : e[i] = l
          /\ \A i \in 1 .. Len(e) : Flujo[k + i] = e[i]
      BY <1>1, <2>1, <2>3, <2>4
    <2> HIDE DEF e, k, n
    <2>6. b[l] = k + n + 1 /\ Flujo[b[l]] = NL /\ \A i \in 1 .. n : Flujo[k + i] = l
      BY <2>5, SMTT(30)
    <2> QED
      BY <2>4, <2>6 DEF k, n
  <1>9. EsBase(b)
    BY <1>3, <1>7, <1>8 DEF EsBase
  <1>10. EsBase(Base)
    BY <1>9 DEF Base
  <1> QED
    BY <1>6, <1>10, LenProperties

(* The place p of the stream where line p has ended, and the line after it. *)
LEMMA Lugares ==
  ASSUME NEW p \in 0 .. Len(Largos)
  PROVE  /\ p \in Nat /\ Base[p] \in Nat /\ Base[p] <= Len(Flujo)
         /\ p = Len(Largos) => Base[p] = Len(Flujo)
         /\ p < Len(Largos) =>
              /\ p + 1 \in 1 .. Len(Largos) /\ Largos[p + 1] \in Nat
              /\ Base[p + 1] = Base[p] + Largos[p + 1] + 1 /\ Base[p + 1] <= Len(Flujo)
              /\ Flujo[Base[p] + (Largos[p + 1] + 1)] = NL
              /\ \A i \in 1 .. Largos[p + 1] : Flujo[Base[p] + i] = p + 1
  <1>1. Len(Largos) \in Nat /\ Len(Flujo) \in Nat /\ \A l \in 1 .. Len(Largos) : Largos[l] \in Nat
    BY Medidas, LenProperties, ElementOfSeq, ElFlujo
  <1>2. /\ Base \in [0 .. Len(Largos) -> Nat] /\ Base[0] = 0 /\ Base[Len(Largos)] = Len(Flujo)
        /\ \A l \in 1 .. Len(Largos) :
             /\ Base[l] = Base[l - 1] + Largos[l] + 1 /\ Base[l] <= Len(Flujo) /\ Flujo[Base[l]] = NL
             /\ \A i \in 1 .. Largos[l] : Flujo[Base[l - 1] + i] = l
    BY ElFlujo DEF EsBase
  <1>3. p \in Nat /\ Base[p] \in Nat
    BY <1>1, <1>2, SMTT(30)
  <1>4. Base[p] <= Len(Flujo)
    <2>1. CASE p = 0
      BY <2>1, <1>1, <1>2
    <2>2. CASE p # 0
      BY <2>2, <1>1, <1>2
    <2> QED
      BY <2>1, <2>2
  <1>5. ASSUME p < Len(Largos)
        PROVE  /\ p + 1 \in 1 .. Len(Largos) /\ Largos[p + 1] \in Nat
               /\ Base[p + 1] = Base[p] + Largos[p + 1] + 1 /\ Base[p + 1] <= Len(Flujo)
               /\ Flujo[Base[p] + (Largos[p + 1] + 1)] = NL
               /\ \A i \in 1 .. Largos[p + 1] : Flujo[Base[p] + i] = p + 1
    <2>1. p + 1 \in 1 .. Len(Largos) /\ Largos[p + 1] \in Nat /\ (p + 1) - 1 = p
      BY <1>1, <1>3, <1>5
    <2>2. /\ Base[p + 1] = Base[p] + Largos[p + 1] + 1 /\ Base[p + 1] <= Len(Flujo)
          /\ Flujo[Base[p + 1]] = NL
          /\ \A i \in 1 .. Largos[p + 1] : Flujo[Base[p] + i] = p + 1
      BY <1>2, <2>1
    <2>3. Base[p + 1] = Base[p] + (Largos[p + 1] + 1)
      <3>1. \A x, y \in Nat : x + y + 1 = x + (y + 1)
        OBVIOUS
      <3> QED
        BY <3>1, <1>3, <2>1, <2>2
    <2> QED
      BY <2>1, <2>2, <2>3
  <1> QED
    BY <1>2, <1>3, <1>4, <1>5

(* A byte of the stream is never a NUL, and that of a line no newline. *)
LEMMA SinNul ==
  /\ \A i \in 1 .. Len(Flujo) : Flujo[i] \in Bytes /\ Flujo[i] # NUL
  /\ \A l \in 1 .. Len(Largos) : l # NL
  <1>1. DOMAIN Largos = 1 .. Len(Largos) /\ Len(Largos) \in Nat
    BY Medidas, LenProperties
  <1>2. \A i \in 1 .. Len(Flujo) : Flujo[i] \in Bytes
    BY ElFlujo, ElementOfSeq
  <1> QED
    BY <1>1, <1>2 DEF Bytes, NL, NUL

(* What the worker w sees of the stream in the loop. *)
LEMMA Ventana ==
  ASSUME IInv, NEW w \in Hilos
  PROVE  /\ Len(procesadas) \in 0 .. Len(Largos) /\ Len(Largos) \in Nat
         /\ Base[Len(procesadas)] \in Nat
         /\ BUFF_SIZE \in Nat /\ read_pos \in Nat /\ read_pos < BUFF_SIZE
         /\ Desde(w) \in Nat /\ Desde(w) <= read_pos
         /\ leidos \in Nat /\ leidos <= Len(Flujo) /\ Len(Flujo) \in Nat
         /\ leidos = Base[Len(procesadas)] + (read_pos - Desde(w))
         /\ \A i \in Desde(w) .. read_pos - 1 :
              /\ read_buf[i] = Flujo[Base[Len(procesadas)] + ((i - Desde(w)) + 1)]
              /\ read_buf[i] # NUL
  <1>1. /\ Len(procesadas) \in Nat /\ Len(Largos) \in Nat /\ Len(procesadas) <= Len(Largos)
        /\ BUFF_SIZE \in Nat
    BY Medidas, LenProperties DEF IInv, Procesadas, LineasEnOrden
  <1>2. /\ leidos \in 0 .. enviados /\ enviados \in 0 .. Len(Flujo) /\ Len(Flujo) \in Nat
        /\ read_pos \in 0 .. BUFF_SIZE - 1 /\ Desde(w) \in Nat
    BY ElFlujo, Medidas DEF IInv, TypeOK, Desde
  <1>3. Base[Len(procesadas)] \in Nat
    BY <1>1, Lugares
  <1>4. /\ Desde(w) <= read_pos /\ leidos = Base[Len(procesadas)] + (read_pos - Desde(w))
        /\ \A i \in Desde(w) .. read_pos - 1 : read_buf[i] = Flujo[(leidos - read_pos) + (i + 1)]
    BY DEF IInv, Sincronia
  <1>5. ASSUME NEW i \in Desde(w) .. read_pos - 1
        PROVE  /\ read_buf[i] = Flujo[Base[Len(procesadas)] + ((i - Desde(w)) + 1)]
               /\ read_buf[i] # NUL
    <2> DEFINE b == Base[Len(procesadas)]
               d == Desde(w)
               m == Len(Flujo)
    <2>1. /\ (leidos - read_pos) + (i + 1) = b + ((i - d) + 1)
          /\ (leidos - read_pos) + (i + 1) \in 1 .. m
      <3>1. /\ leidos \in Nat /\ leidos <= m /\ m \in Nat /\ read_pos \in Nat /\ d \in Nat /\ b \in Nat
            /\ leidos = b + (read_pos - d) /\ i \in d .. read_pos - 1
        <4>1. leidos = b + (read_pos - d) /\ i \in d .. read_pos - 1
          BY <1>4
        <4>2. leidos \in Nat /\ leidos <= m /\ m \in Nat
          BY <1>2
        <4> QED
          BY <1>2, <1>3, <4>1, <4>2
      <3> HIDE DEF b, d, m
      <3> QED
        BY <3>1
    <2> QED
      BY <1>4, <2>1, SinNul
  <1> QED
    BY <1>1, <1>2, <1>3, <1>4, <1>5

(* strchr finds the newline of the next line, and nothing else. *)
LEMMA ElSalto ==
  ASSUME IInv, NEW w \in Hilos, pc[w] = "lineas", NEW k \in Saltos(w)
  PROVE  /\ Len(procesadas) < Len(Largos) /\ k \in Nat /\ k < read_pos /\ line_start[w] <= k
         /\ line_start[w] \in Nat
         /\ k - line_start[w] = Largos[Len(procesadas) + 1]
         /\ \A i \in line_start[w] .. k - 1 : read_buf[i] = Len(procesadas) + 1
  <1> DEFINE p == Len(procesadas)
             d == line_start[w]
             n == Largos[p + 1]
             o == (k - d) + 1
  <1>1. Desde(w) = d /\ read_buf[read_pos] = NUL
    BY DEF Desde, IInv, Sincronia
  <1>2. /\ p \in 0 .. Len(Largos) /\ Len(Largos) \in Nat /\ Base[p] \in Nat
        /\ read_pos \in Nat /\ d \in Nat /\ d <= read_pos
        /\ leidos \in Nat /\ leidos <= Len(Flujo) /\ Len(Flujo) \in Nat
        /\ leidos = Base[p] + (read_pos - d)
        /\ \A i \in d .. read_pos - 1 : read_buf[i] = Flujo[Base[p] + ((i - d) + 1)]
    BY <1>1, Ventana
  <1>3. k \in d .. BUFF_SIZE - 1 /\ read_buf[k] = NL /\ \A i \in d .. k - 1 : read_buf[i] \notin {NL, NUL}
    BY DEF Saltos
  <1>4. k \in Nat /\ d <= k /\ k < read_pos
    <2>1. k \in Nat /\ d <= k
      BY <1>2, <1>3, Medidas
    <2>2. k # read_pos
      BY <1>1, <1>3 DEF NL, NUL
    <2>3. ~(read_pos < k)
      BY <1>1, <1>2, <1>3, <2>1
    <2> QED
      BY <1>2, <2>1, <2>2, <2>3
  <1>5. /\ p \in Nat /\ p = Len(Largos) => Base[p] = Len(Flujo)
        /\ p < Len(Largos) =>
              /\ p + 1 \in 1 .. Len(Largos) /\ n \in Nat
              /\ Flujo[Base[p] + (n + 1)] = NL
              /\ \A i \in 1 .. n : Flujo[Base[p] + i] = p + 1
    BY <1>2, Lugares
  <1>6. p < Len(Largos)
    <2>1. p # Len(Largos)
      BY <1>2, <1>4, <1>5
    <2> QED
      BY <1>2, <2>1
  <1>12. /\ p \in Nat /\ d \in Nat /\ n \in Nat /\ k \in Nat /\ d <= k /\ k < read_pos
          /\ read_pos \in Nat /\ Base[p] \in Nat
    BY <1>2, <1>4, <1>5, <1>6
  <1>7. o \in Nat /\ o >= 1 /\ Flujo[Base[p] + o] = NL
    BY <1>2, <1>3, <1>4, SMTT(30)
  <1>8. ~(o <= n)
    <2> SUFFICES ASSUME o <= n PROVE FALSE
      OBVIOUS
    <2>1. Flujo[Base[p] + o] = p + 1
      BY <1>5, <1>6, <1>7
    <2> QED
      BY <1>5, <1>6, <1>7, <2>1, SinNul
  <1>9. ~(n + 1 < o)
    <2> SUFFICES ASSUME n + 1 < o PROVE FALSE
      OBVIOUS
    <2>1. d + n \in d .. k - 1 /\ d + n \in d .. read_pos - 1 /\ ((d + n) - d) + 1 = n + 1
      <3> HIDE DEF p, d, n
      <3> QED
        BY <1>12
    <2>2. read_buf[d + n] = Flujo[Base[p] + (((d + n) - d) + 1)]
      BY <1>2, <2>1
    <2>3. read_buf[d + n] = NL
      BY <2>1, <2>2, <1>5, <1>6
    <2> QED
      BY <1>3, <2>1, <2>3
  <1>10. k - d = n
    <2> HIDE DEF p, d, n
    <2> QED
      BY <1>12, <1>8, <1>9
  <1>11. ASSUME NEW i \in d .. k - 1 PROVE read_buf[i] = p + 1
    <2>1. i \in d .. read_pos - 1 /\ (i - d) + 1 \in 1 .. n
      <3> HIDE DEF p, d, n
      <3> QED
        BY <1>12, <1>10
    <2> QED
      BY <2>1, <1>2, <1>5, <1>6
  <1> QED
    BY <1>2, <1>4, <1>6, <1>10, <1>11

(* When it finds none, less than a line is left. *)
LEMMA SinSalto ==
  ASSUME IInv, NEW w \in Hilos, pc[w] = "lineas", Saltos(w) = {}
  PROVE  IF Len(procesadas) < Len(Largos)
         THEN read_pos - line_start[w] <= Largos[Len(procesadas) + 1]
         ELSE read_pos = line_start[w]
  <1> DEFINE p == Len(procesadas)
             d == line_start[w]
             n == Largos[p + 1]
  <1>1. Desde(w) = d
    BY DEF Desde
  <1>2. /\ p \in 0 .. Len(Largos) /\ Len(Largos) \in Nat /\ Base[p] \in Nat
        /\ BUFF_SIZE \in Nat /\ read_pos \in Nat /\ read_pos < BUFF_SIZE
        /\ d \in Nat /\ d <= read_pos
        /\ leidos \in Nat /\ leidos <= Len(Flujo) /\ Len(Flujo) \in Nat
        /\ leidos = Base[p] + (read_pos - d)
        /\ \A i \in d .. read_pos - 1 :
             read_buf[i] = Flujo[Base[p] + ((i - d) + 1)] /\ read_buf[i] # NUL
    BY <1>1, Ventana
  <1>3. /\ p \in Nat /\ p = Len(Largos) => Base[p] = Len(Flujo)
        /\ p < Len(Largos) =>
              /\ p + 1 \in 1 .. Len(Largos) /\ n \in Nat
              /\ Flujo[Base[p] + (n + 1)] = NL
              /\ \A i \in 1 .. n : Flujo[Base[p] + i] = p + 1
    BY <1>2, Lugares
  <1>4. CASE ~(p < Len(Largos))
    BY <1>2, <1>3, <1>4
  <1>5. CASE p < Len(Largos)
    <2> SUFFICES ASSUME n < read_pos - d PROVE d + n \in Saltos(w)
      BY <1>2, <1>3, <1>5
    <2>0. p \in Nat /\ n \in Nat /\ d \in Nat /\ read_pos \in Nat /\ read_pos < BUFF_SIZE /\ BUFF_SIZE \in Nat
      BY <1>2, <1>3, <1>5
    <2>1. d + n \in d .. read_pos - 1 /\ d + n \in d .. BUFF_SIZE - 1 /\ ((d + n) - d) + 1 = n + 1
      <3> HIDE DEF p, d, n
      <3> QED
        BY <2>0
    <2>2. read_buf[d + n] = NL
      <3>1. read_buf[d + n] = Flujo[Base[p] + (((d + n) - d) + 1)]
        BY <1>2, <2>1
      <3> QED
        BY <2>1, <3>1, <1>3, <1>5
    <2>3. ASSUME NEW i \in d .. (d + n) - 1 PROVE read_buf[i] \notin {NL, NUL}
      <3>1. i \in d .. read_pos - 1 /\ (i - d) + 1 \in 1 .. n
        <4> HIDE DEF p, d, n
        <4> QED
          BY <2>0, <2>1
      <3>2. read_buf[i] = p + 1 /\ read_buf[i] # NUL
        BY <3>1, <1>2, <1>3, <1>5
      <3> QED
        BY <3>2, <1>3, <1>5, SinNul
    <2> QED
      BY <2>1, <2>2, <2>3 DEF Saltos
  <1> QED
    BY <1>4, <1>5

--------------------------------------------------------------------------------
LEMMA Inicio == Init => IInv
  <1> SUFFICES ASSUME Init PROVE IInv
    OBVIOUS
  <1>1. /\ procesadas = << >> /\ Len(procesadas) = 0 /\ procesadas \in Seq(Seq(Nat))
        /\ enviados = 0 /\ leidos = 0 /\ read_pos = 0 /\ Len(Largos) \in Nat /\ Len(Flujo) \in Nat
        /\ BUFF_SIZE \in Nat /\ BUFF_SIZE > 1
    BY Medidas, LenProperties, ElFlujo DEF Init
  <1>2. TypeOK
    <2>1. read_buf \in [0 .. BUFF_SIZE - 1 -> DOMAIN Largos \cup {NL, NUL}]
      BY DEF Init
    <2>2. \A w \in Hilos : 0 \in 0 .. BUFF_SIZE - 1
      BY <1>1
    <2> QED
      BY <2>1, <2>2, <1>1 DEF Init, TypeOK
  <1>3. LineasEnOrden
    BY <1>1 DEF LineasEnOrden
  <1>4. \A w \in Hilos : Desde(w) = 0 /\ pc[w] = "fuera"
    BY DEF Desde, Init
  <1>5. Base[0] = 0
    BY ElFlujo DEF EsBase
  <1>6. Sincronia
    BY <1>1, <1>4, <1>5 DEF Sincronia
  <1>7. Resto
    <2>1. 0 < Len(Largos) => Largos[0 + 1] \in Nat
      BY <1>1, Lugares
    <2> QED
      BY <2>1, <1>1, <1>4 DEF Resto
  <1> QED
    BY <1>1, <1>2, <1>3, <1>6, <1>7 DEF IInv, Procesadas

(* The peer, and the ways a connection ends, touch none of the buffer. *)
LEMMA PasoAjeno ==
  ASSUME IInv, TypeOK', UNCHANGED <<leidos, read_buf, read_pos, pc, line_start, procesadas>>
  PROVE  IInv'
  BY DEF IInv, Procesadas, LineasEnOrden, Sincronia, Resto, Desde

LEMMA PasoLlegan == IInv /\ Llegan => IInv'
  <1> SUFFICES ASSUME IInv, Llegan PROVE IInv'
    OBVIOUS
  <1>1. enviados' \in 0 .. Len(Flujo) /\ leidos \in 0 .. enviados'
    BY ElFlujo DEF Llegan, IInv, TypeOK
  <1>2. TypeOK'
    BY <1>1 DEF Llegan, IInv, TypeOK
  <1> QED
    BY <1>2, PasoAjeno DEF Llegan

LEMMA PasoFin == ASSUME IInv, NEW w \in Hilos, Cierra \/ fin_de_flujo(w) \/ error_de_lectura(w) PROVE IInv'
  <1>1. TypeOK'
    BY DEF Cierra, fin_de_flujo, error_de_lectura, IInv, TypeOK
  <1> QED
    BY <1>1, PasoAjeno DEF Cierra, fin_de_flujo, error_de_lectura

LEMMA PasoLee == ASSUME UnSoloHilo, IInv, NEW w \in Hilos, handle_tcp_read(w) PROVE IInv'
  <1> DEFINE n == bytes_read
             b == Base[Len(procesadas)]
  <1>1. /\ pc[w] = "fuera" /\ enviados > leidos /\ n > 0
        /\ read_buf' = [i \in 0 .. BUFF_SIZE - 1 |->
                          CASE i \in read_pos .. read_pos + n - 1 -> Flujo[leidos + 1 + (i - read_pos)]
                            [] i = read_pos + n -> NUL
                            [] OTHER -> read_buf[i]]
        /\ read_pos' = read_pos + n /\ leidos' = leidos + n
        /\ pc' = [pc EXCEPT ![w] = "lineas"] /\ line_start' = [line_start EXCEPT ![w] = 0]
        /\ UNCHANGED <<enviados, cerro, est, procesadas>>
    BY DEF handle_tcp_read
  <1>2. /\ BUFF_SIZE \in Nat /\ read_pos \in 0 .. BUFF_SIZE - 1 /\ Len(Flujo) \in Nat
        /\ enviados \in 0 .. Len(Flujo) /\ leidos \in 0 .. enviados
    BY Medidas, ElFlujo DEF IInv, TypeOK
  <1>3. n \in Nat /\ n <= BUFF_SIZE - read_pos - 1 /\ n <= enviados - leidos
    BY <1>1, <1>2 DEF bytes_read
  <1>4. /\ leidos' \in 0 .. enviados /\ read_pos' \in 0 .. BUFF_SIZE - 1 /\ read_pos' \in Nat
        /\ leidos' - read_pos' = leidos - read_pos
    <2> HIDE DEF n
    <2> QED
      BY <1>1, <1>2, <1>3
  <1>5. Desde(w) = 0 /\ pc'[w] = "lineas" /\ line_start'[w] = 0 /\ \A v \in Hilos : v = w
    BY <1>1 DEF Desde, UnSoloHilo, IInv, TypeOK
  <1>6. Desde(w)' = 0
    BY <1>5 DEF Desde
  <1>7. b \in Nat /\ leidos = b + read_pos /\ \A i \in 0 .. read_pos - 1 : read_buf[i] = Flujo[(leidos - read_pos) + (i + 1)]
    <2>1. b \in Nat /\ leidos = b + (read_pos - 0)
      BY <1>5, Ventana
    <2>2. \A i \in 0 .. read_pos - 1 : read_buf[i] = Flujo[(leidos - read_pos) + (i + 1)]
      BY <1>5 DEF IInv, Sincronia
    <2> HIDE DEF b
    <2> QED
      BY <1>2, <2>1, <2>2
  <1>8. ASSUME NEW i \in 0 .. read_pos' - 1
        PROVE  read_buf'[i] = Flujo[(leidos' - read_pos') + (i + 1)] /\ read_buf'[i] \in Bytes
    <2> HIDE DEF n
    <2>1. CASE i < read_pos
      <3>1. i \in 0 .. read_pos - 1 /\ i \in 0 .. BUFF_SIZE - 1 /\ i \notin read_pos .. read_pos + n - 1
            /\ i # read_pos + n
        BY <2>1, <1>2, <1>3
      <3>2. read_buf'[i] = read_buf[i]
        BY <3>1, <1>1
      <3>3. (leidos - read_pos) + (i + 1) \in 1 .. Len(Flujo)
        <4> HIDE DEF b
        <4> QED
          BY <3>1, <1>2, <1>7
      <3> QED
        BY <3>1, <3>2, <3>3, <1>4, <1>7, SinNul
    <2>2. CASE ~(i < read_pos)
      <3>1. i \in read_pos .. read_pos + n - 1 /\ i \in 0 .. BUFF_SIZE - 1
            /\ leidos + 1 + (i - read_pos) = (leidos - read_pos) + (i + 1)
            /\ leidos + 1 + (i - read_pos) \in 1 .. Len(Flujo)
        <4>1. i \in Nat /\ i < read_pos + n /\ n \in Nat
          BY <1>1, <1>2, <1>3
        <4>2. i \in read_pos .. read_pos + n - 1 /\ i \in 0 .. BUFF_SIZE - 1
          BY <4>1, <2>2, <1>2, <1>3
        <4> QED
          BY <4>1, <4>2, <2>2, <1>2, <1>3
      <3>2. read_buf'[i] = Flujo[leidos + 1 + (i - read_pos)]
        BY <3>1, <1>1
      <3> QED
        BY <3>1, <3>2, <1>4, SinNul
    <2> QED
      BY <2>1, <2>2
  <1>9. read_buf'[read_pos'] = NUL
    <2> HIDE DEF n
    <2>1. read_pos + n \in 0 .. BUFF_SIZE - 1 /\ read_pos + n \notin read_pos .. read_pos + n - 1
      BY <1>1, <1>2, <1>3
    <2> QED
      BY <2>1, <1>1
  <1>10. read_buf' \in [0 .. BUFF_SIZE - 1 -> DOMAIN Largos \cup {NL, NUL}]
    <2> HIDE DEF n
    <2>1. ASSUME NEW i \in 0 .. BUFF_SIZE - 1 PROVE read_buf'[i] \in DOMAIN Largos \cup {NL, NUL}
      <3>1. CASE i \in 0 .. read_pos' - 1
        BY <3>1, <1>8 DEF Bytes
      <3>2. CASE i = read_pos'
        BY <3>2, <1>9
      <3>3. CASE i \notin 0 .. read_pos' - 1 /\ i # read_pos'
        <4>1. i \notin read_pos .. read_pos + n - 1 /\ i # read_pos + n
          BY <3>3, <1>1, <1>2, <1>3
        <4>2. read_buf'[i] = read_buf[i]
          BY <4>1, <1>1
        <4> QED
          BY <4>2 DEF IInv, TypeOK
      <3> QED
        BY <3>1, <3>2, <3>3
    <2> QED
      BY <2>1, <1>1
  <1>11. TypeOK'
    <2>1. line_start' \in [Hilos -> 0 .. BUFF_SIZE - 1] /\ pc' \in [Hilos -> {"fuera", "lineas", "compacta"}]
      <3>1. 0 \in 0 .. BUFF_SIZE - 1
        BY <1>2
      <3> QED
        BY <3>1, <1>1 DEF IInv, TypeOK
    <2> QED
      BY <2>1, <1>1, <1>4, <1>10 DEF IInv, TypeOK
  <1>12. Procesadas' /\ LineasEnOrden'
    BY <1>1 DEF IInv, Procesadas, LineasEnOrden
  <1>13. Sincronia'
    <2>1. leidos' = b + (read_pos' - 0) /\ 0 <= read_pos'
      <3> HIDE DEF b, n
      <3> QED
        BY <1>1, <1>2, <1>3, <1>7
    <2>2. Len(procesadas)' = Len(procesadas)
      BY <1>1
    <2> QED
      BY <2>1, <2>2, <1>5, <1>6, <1>8, <1>9 DEF Sincronia
  <1>14. Resto'
    BY <1>5 DEF Resto
  <1> QED
    BY <1>11, <1>12, <1>13, <1>14 DEF IInv

LEMMA PasoExtrae == ASSUME UnSoloHilo, IInv, NEW w \in Hilos, extraccion(w) PROVE IInv'
  <1> DEFINE p == Len(procesadas)
             d == line_start[w]
  <1>1. /\ pc[w] = "lineas" /\ Desde(w) = d /\ \A v \in Hilos : v = w
        /\ UNCHANGED <<enviados, leidos, cerro, est, read_pos>>
    BY DEF extraccion, Desde, UnSoloHilo
  <1>2. /\ procesadas \in Seq(Seq(Nat)) /\ BUFF_SIZE \in Nat /\ read_pos \in 0 .. BUFF_SIZE - 1
        /\ read_buf \in [0 .. BUFF_SIZE - 1 -> DOMAIN Largos \cup {NL, NUL}]
        /\ pc \in [Hilos -> {"fuera", "lineas", "compacta"}]
        /\ line_start \in [Hilos -> 0 .. BUFF_SIZE - 1]
    BY Medidas DEF IInv, TypeOK, Procesadas
  <1>3. /\ p \in 0 .. Len(Largos) /\ Len(Largos) \in Nat /\ Base[p] \in Nat
        /\ d \in Nat /\ d <= read_pos /\ leidos = Base[p] + (read_pos - d)
    BY <1>1, Ventana
  <1>4. /\ \A i \in d .. read_pos - 1 : read_buf[i] = Flujo[(leidos - read_pos) + (i + 1)]
        /\ read_buf[read_pos] = NUL
    BY <1>1 DEF IInv, Sincronia
  <1>5. CASE Saltos(w) = {}
    <2>1. pc' = [pc EXCEPT ![w] = "compacta"] /\ UNCHANGED <<procesadas, read_buf, line_start>>
      BY <1>5 DEF extraccion
    <2>2. pc'[w] = "compacta" /\ Desde(w)' = d
      BY <2>1, <1>2 DEF Desde
    <2>3. TypeOK' /\ Procesadas' /\ LineasEnOrden'
      BY <2>1, <1>1, <1>2 DEF IInv, TypeOK, Procesadas, LineasEnOrden
    <2>4. Sincronia'
      BY <2>1, <2>2, <1>1, <1>3, <1>4 DEF Sincronia
    <2>5. Resto'
      <3>1. IF p < Len(Largos) THEN read_pos - d <= Largos[p + 1] ELSE read_pos = d
        BY <1>1, <1>5, SinSalto
      <3> QED
        BY <3>1, <2>1, <2>2, <1>1 DEF Resto
    <2> QED
      BY <2>3, <2>4, <2>5 DEF IInv
  <1>6. CASE Saltos(w) # {}
    <2>1. PICK k \in Saltos(w) :
             /\ procesadas' = Append(procesadas, [i \in 1 .. k - d |-> read_buf[d + i - 1]])
             /\ read_buf' = [read_buf EXCEPT ![k] = NUL]
             /\ line_start' = [line_start EXCEPT ![w] = k + 1] /\ pc' = pc
      BY <1>6 DEF extraccion
    <2>2. /\ p < Len(Largos) /\ k \in Nat /\ k < read_pos /\ d <= k /\ k - d = Largos[p + 1]
          /\ \A i \in d .. k - 1 : read_buf[i] = p + 1
      BY <1>1, ElSalto
    <2>3. /\ p \in Nat /\ p + 1 \in 1 .. Len(Largos) /\ Largos[p + 1] \in Nat
          /\ Base[p + 1] = Base[p] + Largos[p + 1] + 1
      BY <1>3, <2>2, Lugares
    <2>4. [i \in 1 .. k - d |-> read_buf[d + i - 1]] = Linea(p + 1)
      <3>1. ASSUME NEW i \in 1 .. k - d PROVE read_buf[d + i - 1] = p + 1
        <4>1. d + i - 1 \in d .. k - 1
          <5> HIDE DEF d, p
          <5> QED
            BY <1>3, <2>2
        <4> QED
          BY <4>1, <2>2
      <3> QED
        BY <3>1, <2>2 DEF Linea
    <2>5. Linea(p + 1) \in Seq(Nat)
      BY <2>3 DEF Linea
    <2>6. /\ procesadas' \in Seq(Seq(Nat)) /\ Len(procesadas') = p + 1
          /\ \A i \in 1 .. p : procesadas'[i] = procesadas[i]
          /\ procesadas'[p + 1] = Linea(p + 1) /\ DOMAIN procesadas' = 1 .. p + 1
          /\ DOMAIN procesadas = 1 .. p
      <3>1. procesadas' = Append(procesadas, Linea(p + 1))
        BY <2>1, <2>4
      <3> QED
        BY <3>1, <2>5, <1>2, AppendProperties, LenProperties
    <2>7. LineasEnOrden'
      <3>1. ASSUME NEW i \in DOMAIN procesadas' PROVE procesadas'[i] = Linea(i)
        <4>1. i \in 1 .. p \/ i = p + 1
          BY <2>3, <2>6
        <4> QED
          BY <4>1, <2>6 DEF IInv, LineasEnOrden
      <3> QED
        BY <3>1, <2>3, <2>6 DEF LineasEnOrden, Linea
    <2>8. k \in 0 .. BUFF_SIZE - 1 /\ k + 1 \in 0 .. BUFF_SIZE - 1 /\ k + 1 <= read_pos
      BY <1>2, <2>2
    <2>9. TypeOK'
      <3>1. read_buf' \in [0 .. BUFF_SIZE - 1 -> DOMAIN Largos \cup {NL, NUL}]
        BY <1>2, <2>1, <2>8
      <3>2. line_start' \in [Hilos -> 0 .. BUFF_SIZE - 1]
        BY <1>2, <2>1, <2>8
      <3> QED
        BY <3>1, <3>2, <1>1, <2>1 DEF IInv, TypeOK
    <2>10. Desde(w)' = k + 1 /\ pc'[w] = "lineas"
      BY <1>1, <1>2, <2>1 DEF Desde
    <2>11. leidos = Base[p + 1] + (read_pos - (k + 1))
      <3> DEFINE n == Largos[p + 1]
                 b == Base[p]
      <3>1. /\ n \in Nat /\ b \in Nat /\ Base[p + 1] = b + n + 1 /\ k - d = n /\ read_pos \in Nat
            /\ leidos = b + (read_pos - d) /\ d \in Nat /\ k \in Nat
        BY <1>2, <1>3, <2>2, <2>3
      <3> HIDE DEF n, b, d
      <3> QED
        BY <3>1
    <2>12. ASSUME NEW i \in k + 1 .. read_pos - 1
           PROVE  read_buf'[i] = Flujo[(leidos - read_pos) + (i + 1)]
      <3>1. i \in d .. read_pos - 1 /\ i # k /\ i \in 0 .. BUFF_SIZE - 1
        <4> HIDE DEF d
        <4> QED
          BY <1>2, <1>3, <2>2
      <3> QED
        BY <3>1, <1>2, <1>4, <2>1
    <2>13. read_buf'[read_pos] = NUL
      BY <1>2, <1>4, <2>1, <2>2
    <2>14. Sincronia'
      BY <1>1, <2>6, <2>8, <2>10, <2>11, <2>12, <2>13 DEF Sincronia
    <2>15. Resto' /\ Procesadas'
      BY <1>1, <2>6, <2>10 DEF Resto, Procesadas
    <2> QED
      BY <2>7, <2>9, <2>14, <2>15 DEF IInv
  <1> QED
    BY <1>5, <1>6

LEMMA PasoCompacta == ASSUME UnSoloHilo, IInv, NEW w \in Hilos, compactacion(w) PROVE IInv'
  <1> DEFINE p == Len(procesadas)
             d == line_start[w]
             r == read_pos - d
  <1>1. /\ pc[w] = "compacta" /\ Desde(w) = d /\ \A v \in Hilos : v = w
        /\ pc' = [pc EXCEPT ![w] = "fuera"]
        /\ UNCHANGED <<enviados, leidos, cerro, line_start, procesadas>>
    BY DEF compactacion, Desde, UnSoloHilo
  <1>2. /\ BUFF_SIZE \in Nat /\ read_pos \in 0 .. BUFF_SIZE - 1
        /\ read_buf \in [0 .. BUFF_SIZE - 1 -> DOMAIN Largos \cup {NL, NUL}]
        /\ pc \in [Hilos -> {"fuera", "lineas", "compacta"}]
    BY Medidas DEF IInv, TypeOK
  <1>3. /\ Base[p] \in Nat /\ d \in Nat /\ d <= read_pos /\ leidos \in Nat
        /\ leidos = Base[p] + (read_pos - d)
    BY <1>1, Ventana
  <1>4. \A i \in d .. read_pos - 1 : read_buf[i] = Flujo[(leidos - read_pos) + (i + 1)]
    BY <1>1 DEF IInv, Sincronia
  <1>5. r \in 0 .. BUFF_SIZE - 1 /\ r >= 0
    BY <1>2, <1>3
  <1>6. /\ read_buf' = [i \in 0 .. BUFF_SIZE - 1 |-> IF i < r THEN read_buf[d + i] ELSE read_buf[i]]
        /\ read_pos' = r /\ est' = est
    BY <1>5 DEF compactacion
  <1>7. pc'[w] = "fuera" /\ Desde(w)' = 0
    BY <1>1, <1>2 DEF Desde
  <1>8. ASSUME NEW i \in 0 .. r - 1
        PROVE  read_buf'[i] = Flujo[(leidos - r) + (i + 1)] /\ d + i \in 0 .. BUFF_SIZE - 1
    <2>1. /\ d + i \in d .. read_pos - 1 /\ i < r /\ i \in 0 .. BUFF_SIZE - 1
          /\ (leidos - read_pos) + ((d + i) + 1) = (leidos - r) + (i + 1)
          /\ d + i \in 0 .. BUFF_SIZE - 1
      <3> HIDE DEF d
      <3> QED
        BY <1>2, <1>3, <1>5
    <2>2. read_buf'[i] = read_buf[d + i]
      BY <2>1, <1>6
    <2> QED
      BY <2>1, <2>2, <1>4
  <1>9. TypeOK'
    <2>1. ASSUME NEW i \in 0 .. BUFF_SIZE - 1 PROVE read_buf'[i] \in DOMAIN Largos \cup {NL, NUL}
      <3>1. CASE i < r
        <4>1. i \in 0 .. r - 1
          BY <3>1, <1>2, <1>5
        <4>2. d + i \in 0 .. BUFF_SIZE - 1
          BY <4>1, <1>8
        <4> QED
          BY <3>1, <4>2, <1>2, <1>6
      <3>2. CASE ~(i < r)
        BY <3>2, <1>2, <1>6
      <3> QED
        BY <3>1, <3>2
    <2>2. read_buf' \in [0 .. BUFF_SIZE - 1 -> DOMAIN Largos \cup {NL, NUL}]
      BY <2>1, <1>6
    <2> QED
      BY <2>2, <1>1, <1>2, <1>5, <1>6 DEF IInv, TypeOK
  <1>10. Procesadas' /\ LineasEnOrden'
    BY <1>1 DEF IInv, Procesadas, LineasEnOrden
  <1>11. Sincronia'
    <2>1. leidos = Base[p] + (r - 0) /\ 0 <= r
      BY <1>2, <1>3, <1>5
    <2>2. /\ Len(procesadas)' = p /\ leidos' = Base[p] + (read_pos' - 0) /\ 0 <= read_pos'
          /\ \A i \in 0 .. read_pos' - 1 : read_buf'[i] = Flujo[(leidos' - read_pos') + (i + 1)]
      BY <2>1, <1>1, <1>6, <1>8
    <2> QED
      BY <2>2, <1>1, <1>7 DEF Sincronia
  <1>12. Resto'
    <2>1. IF p < Len(Largos) THEN r <= Largos[p + 1] ELSE read_pos = d
      BY <1>1 DEF IInv, Resto
    <2>2. r = r - 0 /\ (read_pos = d => r = 0)
      BY <1>2, <1>3
    <2> QED
      BY <2>1, <2>2, <1>1, <1>6, <1>7 DEF Resto
  <1> QED
    BY <1>9, <1>10, <1>11, <1>12 DEF IInv

LEMMA Paso == UnSoloHilo /\ IInv /\ [Next]_vars => IInv'
  <1> SUFFICES ASSUME UnSoloHilo, IInv, [Next]_vars PROVE IInv'
    OBVIOUS
  <1>1. CASE Llegan
    BY <1>1, PasoLlegan
  <1>2. CASE Cierra
    <2>1. PICK w \in Hilos : TRUE
      BY Medidas
    <2> QED
      BY <1>2, <2>1, PasoFin
  <1>3. CASE \E w \in Hilos : Trabajador(w) \/ error_de_lectura(w)
    BY <1>3, PasoLee, PasoFin, PasoExtrae, PasoCompacta DEF Trabajador
  <1>4. CASE UNCHANGED vars
    <2>1. TypeOK'
      BY <1>4 DEF vars, IInv, TypeOK
    <2> QED
      BY <1>4, <2>1, PasoAjeno DEF vars
  <1> QED
    BY <1>1, <1>2, <1>3, <1>4 DEF Next

(***************************************************************************)
(* With one worker in handle_tcp_read, read_pos stays below BUFF_SIZE, the *)
(* loop never starts a line past it, and the buffer, the stream and the    *)
(* lines handed on stay in step.                                           *)
(***************************************************************************)
THEOREM Induccion == UnSoloHilo => (Spec => []IInv)
  <1> SUFFICES ASSUME UnSoloHilo PROVE Spec => []IInv
    OBVIOUS
  <1>1. IInv /\ [Next]_vars => IInv'
    BY Paso
  <1> QED
    BY <1>1, Inicio, PTL DEF Spec

(***************************************************************************)
(* With one worker in handle_tcp_read, process_message is called with the  *)
(* lines the peer sent, in order, for any lengths, any buffer and any way  *)
(* the stream is cut.                                                      *)
(***************************************************************************)
THEOREM LasLineasEnOrden == UnSoloHilo => (Spec => []LineasEnOrden)
  <1>1. IInv => LineasEnOrden
    BY DEF IInv
  <1> QED
    BY <1>1, Induccion, PTL

(***************************************************************************)
(* A read of 0 bytes means that the peer closed, as handle_tcp_read takes  *)
(* it, if every line fits in read_buf: with a longer one there is no room  *)
(* left to read into, and read returns 0 for that.                         *)
(***************************************************************************)
THEOREM CierraElOtroSiCaben == UnSoloHilo /\ TodasCaben => (Spec => []SoloCierraElOtro)
  <1> SUFFICES ASSUME UnSoloHilo, TodasCaben PROVE Spec => []SoloCierraElOtro
    OBVIOUS
  <1>1. Init => SoloCierraElOtro
    BY DEF Init, SoloCierraElOtro
  <1>2. ASSUME IInv, SoloCierraElOtro, [Next]_vars PROVE SoloCierraElOtro'
    <2>1. CASE \E w \in Hilos : fin_de_flujo(w)
      <3>1. PICK w \in Hilos : fin_de_flujo(w)
        BY <2>1
      <3> SUFFICES ASSUME ~cerro PROVE FALSE
        BY <3>1 DEF fin_de_flujo, SoloCierraElOtro
      <3>2. enviados > leidos /\ bytes_read = 0 /\ pc[w] = "fuera" /\ Desde(w) = 0
        BY <3>1 DEF fin_de_flujo, Desde
      <3>3. /\ enviados \in Nat /\ leidos \in Nat /\ read_pos \in Nat /\ BUFF_SIZE \in Nat
            /\ BUFF_SIZE > 1 /\ Len(Flujo) \in Nat
        BY <1>2, ElFlujo, Medidas DEF IInv, TypeOK
      <3>4. read_pos = BUFF_SIZE - 1
        BY <3>2, <3>3 DEF bytes_read
      <3>5. /\ Len(procesadas) \in 0 .. Len(Largos) /\ Len(Largos) \in Nat
            /\ IF Len(procesadas) < Len(Largos)
               THEN read_pos - 0 <= Largos[Len(procesadas) + 1] ELSE read_pos = 0
        BY <1>2, <3>2, Ventana DEF IInv, Resto
      <3>6. CASE Len(procesadas) < Len(Largos)
        <4>1. Len(procesadas) + 1 \in 1 .. Len(Largos) /\ Largos[Len(procesadas) + 1] \in Nat
          BY <3>5, <3>6, Lugares
        <4>2. Largos[Len(procesadas) + 1] + 1 < BUFF_SIZE
          BY <4>1, Medidas, LenProperties DEF TodasCaben
        <4>3. read_pos - 0 <= Largos[Len(procesadas) + 1]
          BY <3>5, <3>6
        <4> QED
          BY <4>1, <4>2, <4>3, <3>3, <3>4
      <3>7. CASE ~(Len(procesadas) < Len(Largos))
        BY <3>3, <3>4, <3>5, <3>7
      <3> QED
        BY <3>6, <3>7
    <2>2. CASE ~\E w \in Hilos : fin_de_flujo(w)
      <3>1. est' = "cerrada" => est = "cerrada"
        BY <1>2, <2>2 DEF Next, Llegan, Cierra, Trabajador, handle_tcp_read, extraccion,
                          compactacion, error_de_lectura, vars
      <3>2. cerro => cerro'
        BY <1>2, <2>2 DEF Next, Llegan, Cierra, Trabajador, handle_tcp_read, extraccion,
                          compactacion, error_de_lectura, vars
      <3> QED
        BY <1>2, <3>1, <3>2 DEF SoloCierraElOtro
    <2> QED
      BY <2>1, <2>2
  <1>3. Spec => []IInv
    BY Induccion
  <1> QED
    BY <1>1, <1>2, <1>3, PTL DEF Spec
===============================================================================
