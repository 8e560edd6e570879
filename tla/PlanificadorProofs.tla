--------------------------- MODULE PlanificadorProofs ---------------------------
(***************************************************************************)
(* Proofs about Planificador, for bursts of any size and number, any number*)
(* of lives of the planner, and an agent that may die.                     *)
(***************************************************************************)
EXTENDS Planificador, SequenceTheorems, TLAPS

LineasTx == [clase : {"GET_NODES", "JOB_REQUEST", "JOB_RELEASE"}, job : Ids \cup {0}]

LineasRx == [clase : {"NODES", "SIN_NODOS", "JOB_GRANTED", "JOB_DENIED"}, job : Ids \cup {0}]

Preguntas == {"GET_NODES"}

Listas == {"NODES", "SIN_NODOS"}

(* TypeOK in parts; the bound of contador comes from Cuenta. *)
TipoMaestro ==
  /\ vida \in Vidas /\ fase \in {"tope", "nodos", "rafaga", "bucle", "fin"}
  /\ quedan \in 0 .. RAFAGA /\ rafagas \in 0 .. MaxRafagas /\ contador \in Nat

TipoProcesos ==
  /\ mapa \subseteq Ids /\ handler \in [Ids -> {"no", "espera", "trabaja", "fin"}]
  /\ buzon \in [Ids -> Seq({"JOB_GRANTED", "JOB_DENIED"})] /\ correo \in Seq(Ids)

TipoRed == tx \in [Vidas -> Seq(LineasTx)] /\ rx \in [Vidas -> Seq(LineasRx)]

TipoAgente ==
  /\ cerrada \subseteq Vidas /\ agente \in BOOLEAN /\ perdidos \subseteq Ids
  /\ tabla \subseteq [job : Ids, conn : Vidas, est : {"pendiente", "otorgado"}]

(* The requests of k bursts. *)
Cupo(k) == RAFAGA * k

(* A stream has a line of one of the classes C, and at most one. *)
Hay(s, C) == \E m \in ToSet(s) : m.clase \in C

Una(s, C) == \A i, k \in DOMAIN s : s[i].clase \in C /\ s[k].clase \in C => i = k

(* What is on the way to the agent and back on the connection of this life. *)
Va == ToSet(tx[vida])

Viene == ToSet(rx[vida])

(* The ids of a life are drawn within its bursts, in a burst only.  The    *)
(* master asks for the nodes with an empty map and a burst to go.          *)
Cuenta ==
  /\ contador + quedan <= Cupo(rafagas)
  /\ fase # "rafaga" => quedan = 0
  /\ fase = "nodos" => rafagas < MaxRafagas /\ mapa = {}

(* unique_integer: nobody has heard of an id that has not been drawn. *)
Frescos ==
  \A u \in 1 .. Cupo(MaxRafagas) : u > contador => handler[nuevo_job_id(u)] = "no"

SinNoticias ==
  \A j \in Ids : handler[j] = "no" =>
    /\ j \notin mapa /\ buzon[j] = << >>
    /\ \A m \in Va \cup Viene : m.job # j
    /\ \A e \in tabla : e.conn = vida => e.job # j

(* Lines name a job, and nothing is known of lives to come or of an agent  *)
(* that has died.                                                          *)
Lineas ==
  \A v \in Vidas : \A m \in ToSet(tx[v]) : m.clase # "GET_NODES" => m.job \in Ids

Futuras ==
  /\ \A v \in Vidas : v > vida => tx[v] = << >> /\ rx[v] = << >>
  /\ \A e \in tabla : e.conn <= vida
  /\ ~agente => tabla = {} /\ \A v \in Vidas : tx[v] = << >>

(* One {release, j} at most of each job, and its handler has ended. *)
CorreoUnico ==
  /\ \A i, k \in DOMAIN correo : correo[i] = correo[k] => i = k
  /\ \A i \in DOMAIN correo : handler[correo[i]] = "fin"

(* UnaConsulta in terms of Hay and Una. *)
Consulta ==
  /\ Una(tx[vida], Preguntas) /\ Una(rx[vida], Listas)
  /\ ~Hay(tx[vida], Preguntas) \/ ~Hay(rx[vida], Listas)
  /\ agente => (fase = "nodos" <=> Hay(tx[vida], Preguntas) \/ Hay(rx[vida], Listas))

(* A request the agent has not read is of a job in the map, or its release *)
(* follows it.                                                             *)
Seguido ==
  \A i \in DOMAIN tx[vida] : tx[vida][i].clase = "JOB_REQUEST" =>
    \/ tx[vida][i].job \in mapa
    \/ \E k \in DOMAIN tx[vida] :
         k > i /\ tx[vida][k] = Linea("JOB_RELEASE", tx[vida][i].job)
    \/ fase = "fin"

(* A job is released only when its handler has ended. *)
Soltados == \A m \in Va : m.clase = "JOB_RELEASE" => handler[m.job] = "fin"

(* A grant the handler has been told of, or will be. *)
Enterado(j) ==
  \/ handler[j] = "trabaja"
  \/ handler[j] = "espera" /\ ("JOB_GRANTED" \in ToSet(buzon[j]) \/ Linea("JOB_GRANTED", j) \in Viene)

Prometido ==
  \A j \in Ids : vida = 1 /\ agente /\ fase # "fin" /\ Enterado(j) =>
    [job |-> j, conn |-> 1, est |-> "otorgado"] \in tabla \/ j \in perdidos

IInv ==
  /\ TipoMaestro /\ TipoProcesos /\ TipoRed /\ TipoAgente
  /\ Cuenta /\ Frescos /\ SinNoticias /\ Lineas /\ Futuras
  /\ CorreoUnico /\ MapaExacto /\ Consulta
  /\ Seguido /\ SoltadoEnCamino /\ Soltados /\ Prometido
--------------------------------------------------------------------------------
(* Streams: what appending a line and reading the first one do. *)

LEMMA Vacia ==
  ASSUME NEW C
  PROVE  ToSet(<< >>) = {} /\ ~Hay(<< >>, C) /\ Una(<< >>, C)
  BY DEF ToSet, Hay, Una

LEMMA Agregar ==
  ASSUME NEW S, NEW s \in Seq(S), NEW m \in S
  PROVE  /\ Append(s, m) \in Seq(S) /\ Append(s, m) # << >>
         /\ ToSet(Append(s, m)) = ToSet(s) \cup {m}
  <1>1. /\ Append(s, m) \in Seq(S) /\ DOMAIN Append(s, m) = 1 .. Len(s) + 1
        /\ Len(s) \in Nat /\ DOMAIN s = 1 .. Len(s)
        /\ \A i \in 1 .. Len(s) : Append(s, m)[i] = s[i]
        /\ Append(s, m)[Len(s) + 1] = m
    BY AppendProperties, LenProperties
  <1>2. Append(s, m) # << >>
    BY <1>1
  <1>3. 1 .. Len(s) + 1 = (1 .. Len(s)) \cup {Len(s) + 1}
    BY <1>1
  <1> QED
    BY <1>1, <1>2, <1>3 DEF ToSet

LEMMA Leer ==
  ASSUME NEW S, NEW s \in Seq(S), s # << >>
  PROVE  /\ Tail(s) \in Seq(S) /\ Head(s) \in S
         /\ Head(s) \in ToSet(s) /\ ToSet(s) = {Head(s)} \cup ToSet(Tail(s))
         /\ Len(s) \in Nat \ {0} /\ Len(Tail(s)) = Len(s) - 1
         /\ DOMAIN s = 1 .. Len(s) /\ DOMAIN Tail(s) = 1 .. Len(s) - 1
         /\ Head(s) = s[1] /\ \A i \in 1 .. Len(s) - 1 : Tail(s)[i] = s[i + 1]
  <1>1. /\ Tail(s) \in Seq(S) /\ Head(s) \in S /\ Head(s) = s[1]
        /\ Len(s) \in Nat \ {0} /\ Len(Tail(s)) = Len(s) - 1
        /\ DOMAIN s = 1 .. Len(s) /\ DOMAIN Tail(s) = 1 .. Len(s) - 1
        /\ \A i \in 1 .. Len(s) - 1 : Tail(s)[i] = s[i + 1]
    OBVIOUS
  <1>2. ToSet(s) \subseteq {Head(s)} \cup ToSet(Tail(s))
    <2> SUFFICES ASSUME NEW i \in 1 .. Len(s), i # 1 PROVE s[i] \in ToSet(Tail(s))
      BY <1>1 DEF ToSet
    <2> i - 1 \in 1 .. Len(s) - 1 /\ Tail(s)[i - 1] = s[i]
      BY <1>1
    <2> QED
      BY <1>1 DEF ToSet
  <1>3. {Head(s)} \cup ToSet(Tail(s)) \subseteq ToSet(s)
    BY <1>1 DEF ToSet
  <1> QED
    BY <1>1, <1>2, <1>3

LEMMA Elementos ==
  ASSUME NEW S, NEW s \in Seq(S)
  PROVE  ToSet(s) \subseteq S
  BY ElementOfSeq, LenProperties DEF ToSet

LEMMA UnaAgregar ==
  ASSUME NEW S, NEW s \in Seq(S), NEW m \in S, NEW C, Una(s, C),
         m.clase \in C => ~Hay(s, C)
  PROVE  /\ Una(Append(s, m), C)
         /\ Hay(Append(s, m), C) <=> Hay(s, C) \/ m.clase \in C
  <1>1. /\ DOMAIN Append(s, m) = 1 .. Len(s) + 1
        /\ Len(s) \in Nat /\ DOMAIN s = 1 .. Len(s)
        /\ \A i \in 1 .. Len(s) : Append(s, m)[i] = s[i]
        /\ Append(s, m)[Len(s) + 1] = m
    BY AppendProperties, LenProperties
  <1>2. \A i \in 1 .. Len(s) : m.clase \in C => s[i].clase \notin C
    BY <1>1 DEF Hay, ToSet
  <1>3. Una(Append(s, m), C)
    BY <1>1, <1>2 DEF Una
  <1> QED
    BY <1>3, Agregar DEF Hay

LEMMA UnaLeer ==
  ASSUME NEW S, NEW s \in Seq(S), s # << >>, NEW C, Una(s, C)
  PROVE  /\ Una(Tail(s), C)
         /\ Head(s).clase \in C => ~Hay(Tail(s), C) /\ Hay(s, C)
         /\ Head(s).clase \notin C => (Hay(Tail(s), C) <=> Hay(s, C))
  <1>1. Una(Tail(s), C)
    <2> SUFFICES ASSUME NEW i \in DOMAIN Tail(s), NEW k \in DOMAIN Tail(s),
                        Tail(s)[i].clase \in C, Tail(s)[k].clase \in C
                 PROVE  i = k
      BY DEF Una
    <2>1. i + 1 \in DOMAIN s /\ k + 1 \in DOMAIN s /\ i \in Nat /\ k \in Nat
          /\ s[i + 1].clase \in C /\ s[k + 1].clase \in C
      BY Leer
    <2> QED
      BY <2>1 DEF Una
  <1>2. ASSUME Head(s).clase \in C PROVE ~Hay(Tail(s), C) /\ Hay(s, C)
    <2>1. ASSUME NEW i \in DOMAIN Tail(s), Tail(s)[i].clase \in C PROVE FALSE
      <3>1. i + 1 \in DOMAIN s /\ 1 \in DOMAIN s /\ s[i + 1].clase \in C /\ s[1].clase \in C
            /\ i \in Nat \ {0}
        BY <2>1, <1>2, Leer
      <3> QED
        BY <3>1 DEF Una
    <2> QED
      BY <2>1, <1>2, Leer DEF Hay, ToSet
  <1> QED
    BY <1>1, <1>2, Leer DEF Hay

(* Ids are drawn one after another, and 0 is none of them. *)
LEMMA Identificadores ==
  /\ 0 \notin Ids
  /\ \A u, w \in Nat : nuevo_job_id(u) = nuevo_job_id(w) => u = w
  /\ \A u \in 1 .. Cupo(MaxRafagas) : nuevo_job_id(u) \in Ids
  BY Parametros DEF Ids, nuevo_job_id, Cupo

LEMMA Cupos ==
  /\ RAFAGA \in Nat \ {0} /\ Cupo(0) = 0 /\ Cupo(MaxRafagas) \in Nat
  /\ \A k \in 0 .. MaxRafagas : Cupo(k) \in Nat /\ Cupo(k) <= Cupo(MaxRafagas)
  /\ \A k \in 0 .. MaxRafagas : Cupo(k + 1) = Cupo(k) + RAFAGA
  <1>1. RAFAGA \in Nat \ {0} /\ MaxRafagas \in Nat
    BY Parametros
  <1>2. \A k \in Nat : RAFAGA * k \in Nat /\ RAFAGA * (k + 1) = RAFAGA * k + RAFAGA
    BY <1>1
  <1>3. ASSUME NEW k \in 0 .. MaxRafagas PROVE RAFAGA * k <= RAFAGA * MaxRafagas
    BY <1>1
  <1> QED
    BY <1>1, <1>2, <1>3 DEF Cupo

(* What enviar does to the streams. *)
LEMMA Enviado ==
  ASSUME TipoMaestro, TipoRed, NEW m \in LineasTx, enviar(m)
  PROVE  /\ tx' \in [Vidas -> Seq(LineasTx)] /\ tx[vida] \in Seq(LineasTx)
         /\ \A v \in Vidas : v # vida => tx'[v] = tx[v]
         /\ agente => /\ tx'[vida] = Append(tx[vida], m)
                      /\ ToSet(tx'[vida]) = Va \cup {m}
         /\ ~agente => tx' = tx
  <1>1. tx \in [Vidas -> Seq(LineasTx)] /\ vida \in Vidas
    BY DEF TipoMaestro, TipoRed
  <1>2. Append(tx[vida], m) \in Seq(LineasTx)
    BY <1>1, Agregar
  <1> QED
    BY <1>1, <1>2, Agregar DEF enviar, Va

(* The first line of a stream of the agent is read. *)
LEMMA Leido ==
  ASSUME TipoMaestro, TipoRed, NEW v \in Vidas, tx[v] # << >>, tx' = [tx EXCEPT ![v] = Tail(@)]
  PROVE  /\ tx' \in [Vidas -> Seq(LineasTx)] /\ tx'[v] = Tail(tx[v])
         /\ Head(tx[v]) \in LineasTx /\ ToSet(tx[v]) = {Head(tx[v])} \cup ToSet(tx'[v])
         /\ \A w \in Vidas : w # v => tx'[w] = tx[w]
         /\ \A w \in Vidas : ToSet(tx'[w]) \subseteq ToSet(tx[w])
  <1>1. tx \in [Vidas -> Seq(LineasTx)]
    BY DEF TipoMaestro, TipoRed
  <1> QED
    BY <1>1, Leer

(* A line is read by the master. *)
LEMMA Recibido ==
  ASSUME TipoMaestro, TipoRed, rx[vida] # << >>, rx' = [rx EXCEPT ![vida] = Tail(@)]
  PROVE  /\ rx' \in [Vidas -> Seq(LineasRx)] /\ rx'[vida] = Tail(rx[vida])
         /\ rx[vida] \in Seq(LineasRx)
         /\ Head(rx[vida]) \in LineasRx /\ ToSet(rx[vida]) = {Head(rx[vida])} \cup ToSet(rx'[vida])
         /\ \A w \in Vidas : w # vida => rx'[w] = rx[w]
  <1>1. rx \in [Vidas -> Seq(LineasRx)] /\ vida \in Vidas
    BY DEF TipoMaestro, TipoRed
  <1> QED
    BY <1>1, Leer

(* A line of the agent for connection v. *)
LEMMA Respondido ==
  ASSUME TipoMaestro, TipoRed, NEW v \in Vidas, NEW m \in LineasRx, responder(v, m)
  PROVE  /\ rx' \in [Vidas -> Seq(LineasRx)] /\ rx[vida] \in Seq(LineasRx)
         /\ v = vida => rx'[vida] = Append(rx[vida], m) /\ ToSet(rx'[vida]) = Viene \cup {m}
         /\ v # vida => rx' = rx
         /\ \A w \in Vidas : w # vida => rx'[w] = rx[w]
  <1>1. rx \in [Vidas -> Seq(LineasRx)] /\ vida \in Vidas
    BY DEF TipoMaestro, TipoRed
  <1> QED
    BY <1>1, Agregar DEF responder, Viene

--------------------------------------------------------------------------------
LEMMA Inicio == Init => IInv
  <1> SUFFICES ASSUME Init PROVE IInv
    OBVIOUS
  <1>1. /\ vida = 1 /\ 1 \in Vidas /\ tx[1] = <<Linea("GET_NODES", 0)>> /\ rx[1] = << >>
        /\ \A v \in Vidas : v # 1 => tx[v] = << >> /\ rx[v] = << >>
    BY Parametros DEF Init, Vidas
  <1>2. tx \in [Vidas -> Seq(LineasTx)] /\ rx \in [Vidas -> Seq(LineasRx)]
    <2>1. Linea("GET_NODES", 0) \in LineasTx
      BY DEF Linea, LineasTx
    <2>2. <<Linea("GET_NODES", 0)>> \in Seq(LineasTx) /\ << >> \in Seq(LineasTx) /\ << >> \in Seq(LineasRx)
      BY <2>1
    <2> QED
      BY <2>2 DEF Init
  <1>3. TipoMaestro /\ TipoProcesos /\ TipoRed /\ TipoAgente
    BY <1>1, <1>2, Parametros DEF Init, TipoMaestro, TipoProcesos, TipoRed, TipoAgente
  <1>4. ToSet(tx[1]) = {Linea("GET_NODES", 0)} /\ ToSet(rx[1]) = {} /\ ToSet(correo) = {}
        /\ DOMAIN tx[1] = {1} /\ tx[1][1] = Linea("GET_NODES", 0) /\ DOMAIN correo = {}
        /\ \A v \in Vidas : v # 1 => ToSet(tx[v]) = {}
    BY <1>1, Vacia DEF Init, ToSet
  <1>5. Cuenta /\ Frescos /\ SinNoticias
    <2>1. Cuenta
      BY Cupos, Parametros DEF Init, Cuenta
    <2>2. Frescos
      BY Identificadores DEF Init, Frescos
    <2>3. SinNoticias
      BY <1>1, <1>4, Identificadores DEF Init, SinNoticias, Va, Viene, Linea
    <2> QED
      BY <2>1, <2>2, <2>3
  <1>6. Lineas /\ Futuras /\ CorreoUnico /\ MapaExacto
    BY <1>1, <1>4, Parametros DEF Init, Lineas, Futuras, CorreoUnico, MapaExacto, Linea, Vidas
  <1>7. Consulta
    BY <1>1, <1>4, Vacia DEF Init, Consulta, Una, Hay, Preguntas, Listas, Linea
  <1>8. Seguido /\ SoltadoEnCamino /\ Soltados /\ Prometido
    BY <1>1, <1>4 DEF Init, Seguido, SoltadoEnCamino, Soltados, Prometido, Enterado, Va, Linea
  <1> QED
    BY <1>3, <1>5, <1>6, <1>7, <1>8 DEF IInv

--------------------------------------------------------------------------------
(* The master. *)

LEMMA PasoNodos == IInv /\ get_nodes_recv => IInv'
  <1> SUFFICES ASSUME IInv, get_nodes_recv PROVE IInv'
    OBVIOUS
  <1> USE DEF IInv
  <1>1. /\ fase = "nodos" /\ rx[vida] # << >> /\ rx' = [rx EXCEPT ![vida] = Tail(@)]
        /\ UNCHANGED <<vida, contador, mapa, handler, buzon, correo, tx, cerrada, agente,
                       tabla, perdidos>>
        /\ vida \in Vidas /\ mapa = {} /\ quedan = 0
    BY DEF get_nodes_recv, TipoMaestro, Cuenta
  <1>2. /\ rx' \in [Vidas -> Seq(LineasRx)] /\ rx'[vida] = Tail(rx[vida])
        /\ rx[vida] \in Seq(LineasRx)
        /\ Head(rx[vida]) \in LineasRx /\ ToSet(rx[vida]) = {Head(rx[vida])} \cup ToSet(rx'[vida])
        /\ \A w \in Vidas : w # vida => rx'[w] = rx[w]
    BY <1>1, Recibido
  <1>3. \/ /\ Head(rx[vida]).clase = "NODES"
           /\ fase' = "rafaga" /\ quedan' = RAFAGA /\ rafagas' = rafagas + 1
        \/ /\ Head(rx[vida]).clase = "SIN_NODOS"
           /\ fase' = "fin" /\ UNCHANGED <<quedan, rafagas>>
        \/ /\ Head(rx[vida]).clase \notin Listas
           /\ UNCHANGED <<fase, quedan, rafagas>>
    BY DEF get_nodes_recv, Listas
  <1>4. Cuenta' /\ TipoMaestro'
    <2>1. rafagas \in Nat /\ rafagas < MaxRafagas /\ contador \in Nat /\ contador <= Cupo(rafagas)
          /\ Cupo(rafagas + 1) = Cupo(rafagas) + RAFAGA /\ Cupo(rafagas) \in Nat
      BY <1>1, Cupos DEF Cuenta, TipoMaestro
    <2>2. TipoMaestro'
      <3>1. RAFAGA \in Nat /\ MaxRafagas \in Nat
        BY Parametros
      <3>2. rafagas' \in 0 .. MaxRafagas /\ quedan' \in 0 .. RAFAGA
        BY <1>1, <1>3, <2>1, <3>1
      <3>3. fase' \in {"tope", "nodos", "rafaga", "bucle", "fin"}
        BY <1>1, <1>3
      <3> QED
        BY <1>1, <2>1, <3>2, <3>3 DEF TipoMaestro
    <2>3. Cuenta'
      <3>1. contador' + quedan' <= Cupo(rafagas')
        BY <1>1, <1>3, <2>1, Cupos
      <3>2. fase' # "rafaga" => quedan' = 0
        BY <1>1, <1>3
      <3>3. fase' = "nodos" => rafagas' < MaxRafagas /\ mapa' = {}
        BY <1>1, <1>3, <2>1
      <3> QED
        BY <3>1, <3>2, <3>3 DEF Cuenta
    <2> QED
      BY <2>2, <2>3
  <1>5. TipoProcesos' /\ TipoRed' /\ TipoAgente'
    BY <1>1, <1>2 DEF TipoProcesos, TipoRed, TipoAgente
  <1>6. Frescos' /\ SinNoticias' /\ Lineas' /\ CorreoUnico' /\ MapaExacto'
    BY <1>1, <1>2 DEF Frescos, SinNoticias, Lineas, CorreoUnico, MapaExacto, Va, Viene
  <1>7. Futuras'
    BY <1>1, <1>2, <1>3 DEF Futuras, TipoMaestro, Vidas
  <1>8. Consulta'
    BY <1>1, <1>2, <1>3, UnaLeer DEF Consulta, Listas
  <1>9. Seguido' /\ SoltadoEnCamino' /\ Soltados'
    BY <1>1 DEF Seguido, SoltadoEnCamino, Soltados, Va
  <1>10. Prometido'
    BY <1>1, <1>2, <1>3 DEF Prometido, Enterado, Viene, MapaExacto
  <1> QED
    BY <1>4, <1>5, <1>6, <1>7, <1>8, <1>9, <1>10

(* A line is sent: it names its job, and only this life has it. *)
LEMMA EnvioBienFormado ==
  ASSUME IInv, NEW m \in LineasTx, m.clase # "GET_NODES" => m.job \in Ids, enviar(m),
         UNCHANGED <<vida, rx, agente, tabla>>
  PROVE  Lineas' /\ Futuras'
  <1>1. /\ \A v \in Vidas : v # vida => tx'[v] = tx[v]
        /\ agente => ToSet(tx'[vida]) = ToSet(tx[vida]) \cup {m}
        /\ ~agente => tx' = tx
        /\ vida \in Vidas /\ agente \in BOOLEAN
    BY Enviado DEF IInv, TipoMaestro, TipoAgente, Va
  <1>2. Lineas'
    <2> SUFFICES ASSUME NEW v \in Vidas, NEW x \in ToSet(tx'[v]), x.clase # "GET_NODES"
                 PROVE  x.job \in Ids
      BY DEF Lineas
    <2>1. x \in ToSet(tx[v]) \/ x = m
      BY <1>1
    <2> QED
      BY <2>1 DEF IInv, Lineas
  <1>3. \A v \in Vidas : v > vida => tx'[v] = << >> /\ rx[v] = << >>
    <2> TAKE v \in Vidas
    <2> HAVE v > vida
    <2>1. v # vida
      BY <1>1 DEF Vidas
    <2> QED
      BY <2>1, <1>1 DEF IInv, Futuras
  <1>4. Futuras'
    BY <1>1, <1>3 DEF IInv, Futuras
  <1> QED
    BY <1>2, <1>4

(* A line that is not GET_NODES does not count for Consulta. *)
LEMMA EnvioSinConsulta ==
  ASSUME IInv, NEW m \in LineasTx, m.clase # "GET_NODES", enviar(m),
         UNCHANGED <<vida, rx, agente>>, fase' = "nodos" <=> fase = "nodos"
  PROVE  Consulta'
  <1>1. /\ tx[vida] \in Seq(LineasTx)
        /\ agente => tx'[vida] = Append(tx[vida], m)
        /\ ~agente => tx' = tx
        /\ agente \in BOOLEAN
    BY Enviado DEF IInv, TipoMaestro, TipoAgente
  <1>2. Una(tx[vida], Preguntas) /\ m.clase \notin Preguntas
    BY DEF IInv, Consulta, Preguntas
  <1>3. /\ Una(Append(tx[vida], m), Preguntas)
        /\ Hay(Append(tx[vida], m), Preguntas) <=> Hay(tx[vida], Preguntas)
    BY <1>1, <1>2, UnaAgregar
  <1>4. Una(tx'[vida], Preguntas) /\ (Hay(tx'[vida], Preguntas) <=> Hay(tx[vida], Preguntas))
    BY <1>1, <1>2, <1>3
  <1> QED
    BY <1>4 DEF IInv, Consulta

(* A request of which every amount is 0 only counts. *)
LEMMA PasoSinPedido ==
  ASSUME IInv, fase = "rafaga", quedan > 0, quedan' = quedan - 1,
         UNCHANGED <<contador, mapa, handler, tx>>,
         UNCHANGED <<vida, fase, rafagas, buzon, correo, rx, cerrada, agente, tabla, perdidos>>
  PROVE  IInv'
  <1>1. quedan \in Nat /\ quedan' \in 0 .. RAFAGA /\ contador \in Nat /\ Cupo(rafagas) \in Nat
    BY Cupos DEF IInv, TipoMaestro
  <1>2. TipoMaestro' /\ Cuenta'
    BY <1>1 DEF IInv, TipoMaestro, Cuenta
  <1>3. TipoProcesos' /\ TipoRed' /\ TipoAgente' /\ Frescos' /\ SinNoticias' /\ Lineas'
    BY DEF IInv, TipoProcesos, TipoRed, TipoAgente, Frescos, SinNoticias, Lineas, Va, Viene
  <1>4. Futuras' /\ CorreoUnico' /\ MapaExacto' /\ Consulta'
    BY DEF IInv, Futuras, CorreoUnico, MapaExacto, Consulta
  <1>5. Seguido' /\ SoltadoEnCamino' /\ Soltados' /\ Prometido'
    BY DEF IInv, Seguido, SoltadoEnCamino, Soltados, Prometido, Enterado, Va, Viene
  <1> QED
    BY <1>2, <1>3, <1>4, <1>5 DEF IInv

LEMMA PasoPedido ==
  ASSUME IInv, NEW j, j = nuevo_job_id(contador + 1),
         fase = "rafaga", quedan > 0, quedan' = quedan - 1, contador' = contador + 1,
         enviar(Linea("JOB_REQUEST", j)), handler' = [handler EXCEPT ![j] = "espera"],
         mapa' = mapa \cup {j},
         UNCHANGED <<vida, fase, rafagas, buzon, correo, rx, cerrada, agente, tabla, perdidos>>
  PROVE  IInv'
  <1> DEFINE m == Linea("JOB_REQUEST", j)
  <1>1. /\ quedan \in Nat /\ quedan' \in 0 .. RAFAGA /\ contador \in Nat /\ Cupo(rafagas) \in Nat
        /\ contador + quedan <= Cupo(rafagas) /\ Cupo(rafagas) <= Cupo(MaxRafagas)
        /\ Cupo(MaxRafagas) \in Nat
    BY Cupos DEF IInv, TipoMaestro, Cuenta
  <1>2. contador + 1 \in 1 .. Cupo(MaxRafagas)
    BY <1>1
  <1>3. j \in Ids /\ handler[j] = "no" /\ j # 0
    BY <1>1, <1>2, Identificadores DEF IInv, Frescos
  <1>4. /\ j \notin mapa /\ buzon[j] = << >>
        /\ \A x \in Va \cup Viene : x.job # j
        /\ \A e \in tabla : e.conn = vida => e.job # j
    BY <1>3 DEF IInv, SinNoticias
  <1>5. m \in LineasTx /\ m.clase = "JOB_REQUEST" /\ m.job = j
    BY <1>3 DEF Linea, LineasTx
  <1>6. /\ tx' \in [Vidas -> Seq(LineasTx)] /\ tx[vida] \in Seq(LineasTx)
        /\ \A v \in Vidas : v # vida => tx'[v] = tx[v]
        /\ agente => /\ tx'[vida] = Append(tx[vida], m)
                     /\ ToSet(tx'[vida]) = Va \cup {m}
        /\ ~agente => tx' = tx
        /\ vida \in Vidas /\ vida' = vida
    BY <1>5, Enviado DEF IInv, TipoMaestro
  <1>7. TipoMaestro' /\ Cuenta'
    BY <1>1 DEF IInv, TipoMaestro, Cuenta
  <1>8. TipoProcesos' /\ TipoRed' /\ TipoAgente'
    BY <1>3, <1>6 DEF IInv, TipoProcesos, TipoRed, TipoAgente
  <1>9. Frescos'
    <2> SUFFICES ASSUME NEW u \in 1 .. Cupo(MaxRafagas), u > contador + 1
                 PROVE  handler'[nuevo_job_id(u)] = "no"
      BY DEF Frescos
    <2>1. nuevo_job_id(u) # j /\ nuevo_job_id(u) \in Ids /\ handler[nuevo_job_id(u)] = "no"
      BY <1>1, <1>2, Identificadores DEF IInv, Frescos
    <2> QED
      BY <2>1, <1>3 DEF IInv, TipoProcesos
  <1>10. SinNoticias'
    BY <1>3, <1>4, <1>5, <1>6 DEF IInv, SinNoticias, Va, Viene, TipoProcesos
  <1>11. Lineas' /\ Futuras'
    BY <1>3, <1>5, EnvioBienFormado
  <1>12. CorreoUnico'
    BY <1>3 DEF IInv, CorreoUnico, TipoProcesos
  <1>13. MapaExacto'
    BY <1>3 DEF IInv, MapaExacto, TipoProcesos
  <1>14. Consulta'
    BY <1>5, EnvioSinConsulta
  <1>15. Seguido'
    <2>1. CASE ~agente
      BY <2>1, <1>6 DEF IInv, Seguido, Futuras
    <2>2. CASE agente
      <3>1. /\ DOMAIN tx[vida] = 1 .. Len(tx[vida]) /\ DOMAIN tx'[vida] = 1 .. Len(tx[vida]) + 1
            /\ Len(tx[vida]) \in Nat /\ tx'[vida][Len(tx[vida]) + 1] = m
            /\ \A i \in 1 .. Len(tx[vida]) : tx'[vida][i] = tx[vida][i]
        BY <2>2, <1>5, <1>6, AppendProperties, LenProperties, SMTT(30)
      <3> QED
        BY <3>1, <1>5, <1>6, SMTT(30) DEF IInv, Seguido
    <2> QED
      BY <2>1, <2>2 DEF IInv, TipoAgente
  <1>16. SoltadoEnCamino'
    <2> SUFFICES ASSUME NEW e \in tabla, e.conn = vida, e.job \notin mapa', fase # "fin"
                 PROVE  \E i \in DOMAIN tx'[vida] : tx'[vida][i] = Linea("JOB_RELEASE", e.job)
      BY <1>6 DEF SoltadoEnCamino
    <2>1. Linea("JOB_RELEASE", e.job) \in Va
      BY DEF IInv, SoltadoEnCamino, Va, ToSet
    <2>2. Linea("JOB_RELEASE", e.job) \in ToSet(tx'[vida])
      BY <2>1, <1>6 DEF IInv, TipoAgente, Va
    <2> QED
      BY <2>2 DEF ToSet
  <1>17. Soltados'
    BY <1>3, <1>4, <1>5, <1>6 DEF IInv, Soltados, Va, TipoProcesos
  <1>18. Prometido'
    <2> SUFFICES ASSUME NEW k \in Ids, vida = 1, agente, fase # "fin", Enterado(k)'
                 PROVE  [job |-> k, conn |-> 1, est |-> "otorgado"] \in tabla \/ k \in perdidos
      BY <1>6 DEF Prometido
    <2>1. Linea("JOB_GRANTED", j) \notin Viene /\ ToSet(buzon[j]) = {}
      BY <1>4, Vacia DEF Linea
    <2>2. k # j /\ Enterado(k)
      BY <2>1, <1>3 DEF IInv, Enterado, Viene, TipoProcesos
    <2> QED
      BY <2>2 DEF IInv, Prometido
  <1> QED
    BY <1>7, <1>8, <1>9, <1>10, <1>11, <1>12, <1>13, <1>14, <1>15, <1>16, <1>17, <1>18 DEF IInv

LEMMA PasoRafaga == IInv /\ disparar_rafaga => IInv'
  BY PasoSinPedido, PasoPedido DEF disparar_rafaga

(* The master moves on and nothing else changes. *)
LEMMA CambiaFase ==
  ASSUME IInv, fase' \in {"tope", "bucle", "fin"}, fase # "fin", quedan = 0,
         fase # "nodos" \/ ~agente,
         UNCHANGED <<vida, quedan, rafagas, contador, mapa, handler, buzon, correo, tx, rx,
                     cerrada, agente, tabla, perdidos>>
  PROVE  IInv'
  <1>1. TipoMaestro' /\ Cuenta'
    BY DEF IInv, TipoMaestro, Cuenta
  <1>2. TipoProcesos' /\ TipoRed' /\ TipoAgente' /\ Frescos' /\ SinNoticias' /\ Lineas'
    BY DEF IInv, TipoProcesos, TipoRed, TipoAgente, Frescos, SinNoticias, Lineas, Va, Viene
  <1>3. Futuras' /\ CorreoUnico' /\ MapaExacto' /\ Consulta'
    BY DEF IInv, Futuras, CorreoUnico, MapaExacto, Consulta
  <1>4. Seguido' /\ SoltadoEnCamino' /\ Soltados' /\ Prometido'
    BY DEF IInv, Seguido, SoltadoEnCamino, Soltados, Prometido, Enterado, Va, Viene
  <1> QED
    BY <1>1, <1>2, <1>3, <1>4 DEF IInv

LEMMA PasoFase == IInv /\ (FinDeRafaga \/ recv_error) => IInv'
  <1>1. IInv /\ FinDeRafaga => IInv'
    BY CambiaFase DEF FinDeRafaga
  <1>2. IInv /\ recv_error => IInv'
    <2> SUFFICES ASSUME IInv, recv_error PROVE IInv'
      OBVIOUS
    <2>1. quedan = 0 /\ fase \in {"bucle", "nodos"}
      BY DEF IInv, Cuenta, recv_error
    <2> QED
      BY <2>1, CambiaFase DEF recv_error
  <1> QED
    BY <1>1, <1>2

(* Nothing that has to be on its way gets lost by sending. *)
LEMMA EnvioConserva ==
  ASSUME IInv, NEW m \in LineasTx, enviar(m), NEW e \in tabla, Linea("JOB_RELEASE", e.job) \in Va
  PROVE  \E i \in DOMAIN tx'[vida] : tx'[vida][i] = Linea("JOB_RELEASE", e.job)
  <1>1. Linea("JOB_RELEASE", e.job) \in ToSet(tx'[vida])
    BY Enviado DEF IInv, TipoMaestro, TipoAgente, Va
  <1> QED
    BY <1>1 DEF ToSet

LEMMA PasoSuelta == IInv /\ masterloop_release => IInv'
  <1> SUFFICES ASSUME IInv, masterloop_release PROVE IInv'
    OBVIOUS
  <1> DEFINE j == Head(correo)
             m == Linea("JOB_RELEASE", j)
  <1>1. /\ fase = "bucle" /\ fase' = "tope" /\ correo # << >> /\ correo' = Tail(correo)
        /\ mapa' = mapa \ {j} /\ enviar(m) /\ quedan = 0
        /\ UNCHANGED <<vida, quedan, rafagas, contador, handler, buzon, rx, cerrada, agente,
                       tabla, perdidos>>
    BY DEF masterloop_release, IInv, Cuenta
  <1>2. /\ correo' \in Seq(Ids) /\ j \in Ids /\ ToSet(correo) = {j} \cup ToSet(correo')
        /\ Len(correo) \in Nat \ {0} /\ DOMAIN correo = 1 .. Len(correo)
        /\ DOMAIN correo' = 1 .. Len(correo) - 1 /\ j = correo[1]
        /\ \A i \in 1 .. Len(correo) - 1 : correo'[i] = correo[i + 1]
    BY <1>1, Leer DEF IInv, TipoProcesos
  <1>3. handler[j] = "fin" /\ j \notin ToSet(correo')
    BY <1>2 DEF IInv, CorreoUnico, ToSet
  <1>4. m \in LineasTx /\ m.clase = "JOB_RELEASE" /\ m.job = j
    BY <1>2 DEF Linea, LineasTx
  <1>5. /\ tx' \in [Vidas -> Seq(LineasTx)] /\ tx[vida] \in Seq(LineasTx)
        /\ agente => /\ tx'[vida] = Append(tx[vida], m)
                     /\ ToSet(tx'[vida]) = Va \cup {m}
        /\ ~agente => tx' = tx
        /\ vida \in Vidas /\ agente \in BOOLEAN
    BY <1>1, <1>4, Enviado DEF IInv, TipoMaestro, TipoAgente
  <1>6. TipoMaestro' /\ Cuenta' /\ TipoProcesos' /\ TipoRed' /\ TipoAgente' /\ Frescos'
    BY <1>1, <1>2, <1>5 DEF IInv, TipoMaestro, Cuenta, TipoProcesos, TipoRed, TipoAgente, Frescos
  <1>7. SinNoticias'
    BY <1>1, <1>3, <1>4, <1>5 DEF IInv, SinNoticias, Va, Viene
  <1>8. Lineas' /\ Futuras' /\ Consulta'
    BY <1>1, <1>2, <1>4, EnvioBienFormado, EnvioSinConsulta
  <1>9. CorreoUnico'
    <2>1. \A i \in DOMAIN correo' : i + 1 \in DOMAIN correo /\ i \in Nat /\ correo'[i] = correo[i + 1]
      BY <1>2
    <2> QED
      BY <1>1, <2>1 DEF IInv, CorreoUnico
  <1>10. MapaExacto'
    BY <1>1, <1>2, <1>3 DEF IInv, MapaExacto
  <1>11. Seguido'
    <2>1. CASE ~agente
      BY <2>1, <1>1, <1>5 DEF IInv, Seguido, Futuras
    <2>2. CASE agente
      <3>1. /\ DOMAIN tx[vida] = 1 .. Len(tx[vida]) /\ DOMAIN tx'[vida] = 1 .. Len(tx[vida]) + 1
            /\ Len(tx[vida]) \in Nat /\ tx'[vida][Len(tx[vida]) + 1] = m
            /\ \A i \in 1 .. Len(tx[vida]) : tx'[vida][i] = tx[vida][i]
        BY <2>2, <1>4, <1>5, AppendProperties, LenProperties
      <3> SUFFICES ASSUME NEW i \in DOMAIN tx'[vida], tx'[vida][i].clase = "JOB_REQUEST",
                          tx'[vida][i].job \notin mapa'
                   PROVE  \E k \in DOMAIN tx'[vida] :
                            k > i /\ tx'[vida][k] = Linea("JOB_RELEASE", tx'[vida][i].job)
        BY <1>1 DEF Seguido
      <3>2. i \in DOMAIN tx[vida] /\ i \in Nat /\ i < Len(tx[vida]) + 1 /\ tx'[vida][i] = tx[vida][i]
        BY <3>1, <1>4
      <3>3. CASE tx[vida][i].job = j
        BY <3>1, <3>2, <3>3
      <3>4. CASE tx[vida][i].job # j
        BY <1>1, <3>1, <3>2, <3>4, SMTT(30) DEF IInv, Seguido
      <3> QED
        BY <3>3, <3>4
    <2> QED
      BY <2>1, <2>2, <1>5
  <1>12. SoltadoEnCamino'
    <2> SUFFICES ASSUME NEW e \in tabla, e.conn = vida, e.job \notin mapa'
                 PROVE  \E i \in DOMAIN tx'[vida] : tx'[vida][i] = Linea("JOB_RELEASE", e.job)
      BY <1>1 DEF SoltadoEnCamino
    <2>1. agente
      BY <1>5 DEF IInv, Futuras
    <2>2. CASE e.job = j
      BY <2>1, <2>2, <1>5 DEF ToSet
    <2>3. CASE e.job # j
      <3>1. Linea("JOB_RELEASE", e.job) \in Va
        BY <1>1, <2>3 DEF IInv, SoltadoEnCamino, Va, ToSet
      <3> QED
        BY <1>1, <1>4, <3>1, EnvioConserva
    <2> QED
      BY <2>2, <2>3
  <1>13. Soltados'
    BY <1>1, <1>3, <1>4, <1>5 DEF IInv, Soltados, Va
  <1>14. Prometido'
    BY <1>1 DEF IInv, Prometido, Enterado, Viene
  <1> QED
    BY <1>6, <1>7, <1>8, <1>9, <1>10, <1>11, <1>12, <1>13, <1>14 DEF IInv

LEMMA PasoReparte == IInv /\ masterloop_recv => IInv'
  <1> SUFFICES ASSUME IInv, masterloop_recv PROVE IInv'
    OBVIOUS
  <1> DEFINE m == Head(rx[vida])
  <1>1. /\ fase = "bucle" /\ fase' = "tope" /\ rx[vida] # << >> /\ quedan = 0
        /\ rx' = [rx EXCEPT ![vida] = Tail(@)]
        /\ UNCHANGED <<vida, quedan, rafagas, contador, mapa, handler, correo, tx, cerrada,
                       agente, tabla, perdidos>>
    BY DEF masterloop_recv, IInv, Cuenta
  <1>2. /\ rx' \in [Vidas -> Seq(LineasRx)] /\ rx'[vida] = Tail(rx[vida])
        /\ rx[vida] \in Seq(LineasRx)
        /\ m \in LineasRx /\ ToSet(rx[vida]) = {m} \cup ToSet(rx'[vida])
        /\ \A w \in Vidas : w # vida => rx'[w] = rx[w]
    BY <1>1, Recibido DEF IInv
  <1>3. \/ /\ m.clase \in {"JOB_GRANTED", "JOB_DENIED"} /\ m.job \in mapa
           /\ buzon' = [buzon EXCEPT ![m.job] = Append(@, m.clase)]
        \/ buzon' = buzon
    BY DEF masterloop_recv
  <1>4. /\ buzon' \in [Ids -> Seq({"JOB_GRANTED", "JOB_DENIED"})]
        /\ \A j \in Ids : buzon'[j] # << >> => buzon[j] # << >> \/ j \in mapa
        /\ \A j \in Ids : "JOB_GRANTED" \in ToSet(buzon'[j]) =>
             "JOB_GRANTED" \in ToSet(buzon[j]) \/ m = Linea("JOB_GRANTED", j)
    <2>1. CASE buzon' = buzon
      BY <2>1 DEF IInv, TipoProcesos
    <2>2. CASE /\ m.clase \in {"JOB_GRANTED", "JOB_DENIED"} /\ m.job \in mapa
               /\ buzon' = [buzon EXCEPT ![m.job] = Append(@, m.clase)]
      <3>1. m.job \in Ids /\ buzon[m.job] \in Seq({"JOB_GRANTED", "JOB_DENIED"})
            /\ m = Linea(m.clase, m.job)
        BY <2>2, <1>2 DEF IInv, TipoProcesos, Linea, LineasRx
      <3>2. /\ Append(buzon[m.job], m.clase) \in Seq({"JOB_GRANTED", "JOB_DENIED"})
            /\ ToSet(Append(buzon[m.job], m.clase)) = ToSet(buzon[m.job]) \cup {m.clase}
        BY <2>2, <3>1, Agregar
      <3> QED
        BY <2>2, <3>1, <3>2 DEF IInv, TipoProcesos
    <2> QED
      BY <1>3, <2>1, <2>2
  <1>5. TipoMaestro' /\ Cuenta' /\ TipoProcesos' /\ TipoRed' /\ TipoAgente' /\ Frescos'
    BY <1>1, <1>2, <1>4 DEF IInv, TipoMaestro, Cuenta, TipoProcesos, TipoRed, TipoAgente, Frescos
  <1>6. SinNoticias'
    BY <1>1, <1>2, <1>4 DEF IInv, SinNoticias, Va, Viene
  <1>7. Lineas' /\ CorreoUnico' /\ MapaExacto' /\ Soltados'
    BY <1>1 DEF IInv, Lineas, CorreoUnico, MapaExacto, Soltados, Va
  <1>8. Futuras'
    BY <1>1, <1>2 DEF IInv, Futuras, TipoMaestro, Vidas
  <1>9. Consulta'
    BY <1>1, <1>2, UnaLeer DEF IInv, Consulta
  <1>10. Seguido' /\ SoltadoEnCamino'
    BY <1>1 DEF IInv, Seguido, SoltadoEnCamino
  <1>11. Prometido'
    BY <1>1, <1>2, <1>4 DEF IInv, Prometido, Enterado, Viene
  <1> QED
    BY <1>5, <1>6, <1>7, <1>8, <1>9, <1>10, <1>11 DEF IInv

LEMMA PasoTope == IInv /\ masterloop => IInv'
  <1> SUFFICES ASSUME IInv, masterloop PROVE IInv'
    OBVIOUS
  <1> DEFINE m == Linea("GET_NODES", 0)
  <1>1. /\ fase = "tope" /\ quedan = 0
        /\ UNCHANGED <<vida, quedan, rafagas, contador, mapa, handler, buzon, correo, rx, cerrada,
                       agente, tabla, perdidos>>
    BY DEF masterloop, IInv, Cuenta
  <1>2. CASE fase' = "bucle" /\ UNCHANGED tx
    BY <1>1, <1>2, CambiaFase
  <1>3. CASE mapa = {} /\ rafagas < MaxRafagas /\ fase' = "nodos" /\ enviar(m)
    <2>1. m \in LineasTx /\ m.clase = "GET_NODES" /\ m.job = 0
      BY DEF Linea, LineasTx
    <2>2. /\ tx' \in [Vidas -> Seq(LineasTx)] /\ tx[vida] \in Seq(LineasTx)
          /\ agente => /\ tx'[vida] = Append(tx[vida], m)
                       /\ ToSet(tx'[vida]) = Va \cup {m}
          /\ ~agente => tx' = tx
          /\ vida \in Vidas /\ agente \in BOOLEAN
      BY <1>3, <2>1, Enviado DEF IInv, TipoMaestro, TipoAgente
    <2>3. TipoMaestro' /\ Cuenta' /\ TipoProcesos' /\ TipoRed' /\ TipoAgente' /\ Frescos'
      BY <1>1, <1>3, <2>2 DEF IInv, TipoMaestro, Cuenta, TipoProcesos, TipoRed, TipoAgente, Frescos
    <2>4. SinNoticias' /\ Soltados'
      BY <1>1, <2>1, <2>2, Identificadores DEF IInv, SinNoticias, Soltados, Va, Viene
    <2>5. Lineas' /\ Futuras'
      BY <1>1, <1>3, <2>1, EnvioBienFormado
    <2>6. CorreoUnico' /\ MapaExacto' /\ Prometido'
      BY <1>1, <1>3 DEF IInv, CorreoUnico, MapaExacto, Prometido, Enterado, Viene
    <2>7. Consulta'
      <3>1. CASE ~agente
        BY <3>1, <1>1, <2>2 DEF IInv, Consulta
      <3>2. CASE agente
        <4>1. ~Hay(tx[vida], Preguntas) /\ ~Hay(rx[vida], Listas) /\ Una(tx[vida], Preguntas)
          BY <3>2, <1>1 DEF IInv, Consulta
        <4>2. Una(tx'[vida], Preguntas) /\ Hay(tx'[vida], Preguntas)
          <5>1. m.clase \in Preguntas
            BY <2>1 DEF Preguntas
          <5>2. Una(Append(tx[vida], m), Preguntas) /\ Hay(Append(tx[vida], m), Preguntas)
            BY <5>1, <2>1, <2>2, <4>1, UnaAgregar
          <5> QED
            BY <5>2, <3>2, <2>2
        <4> QED
          BY <1>1, <1>3, <4>1, <4>2 DEF IInv, Consulta
      <3> QED
        BY <3>1, <3>2, <2>2
    <2>8. Seguido'
      <3>1. CASE ~agente
        BY <3>1, <1>1, <2>2 DEF IInv, Seguido, Futuras
      <3>2. CASE agente
        <4>1. /\ DOMAIN tx[vida] = 1 .. Len(tx[vida]) /\ DOMAIN tx'[vida] = 1 .. Len(tx[vida]) + 1
              /\ Len(tx[vida]) \in Nat /\ tx'[vida][Len(tx[vida]) + 1] = m
              /\ \A i \in 1 .. Len(tx[vida]) : tx'[vida][i] = tx[vida][i]
          BY <3>2, <2>1, <2>2, AppendProperties, LenProperties
        <4> SUFFICES ASSUME NEW i \in DOMAIN tx'[vida], tx'[vida][i].clase = "JOB_REQUEST",
                            tx'[vida][i].job \notin mapa
                     PROVE  \E k \in DOMAIN tx'[vida] :
                              k > i /\ tx'[vida][k] = Linea("JOB_RELEASE", tx'[vida][i].job)
          BY <1>1 DEF Seguido
        <4>2. i \in DOMAIN tx[vida] /\ tx'[vida][i] = tx[vida][i]
          BY <4>1, <2>1
        <4> QED
          BY <4>1, <4>2, <1>1 DEF IInv, Seguido
      <3> QED
        BY <3>1, <3>2, <2>2
    <2>9. SoltadoEnCamino'
      <3> SUFFICES ASSUME NEW e \in tabla, e.conn = vida, e.job \notin mapa
                   PROVE  \E i \in DOMAIN tx'[vida] : tx'[vida][i] = Linea("JOB_RELEASE", e.job)
        BY <1>1 DEF SoltadoEnCamino
      <3>1. Linea("JOB_RELEASE", e.job) \in Va
        BY <1>1 DEF IInv, SoltadoEnCamino, Va, ToSet
      <3> QED
        BY <1>3, <2>1, <3>1, EnvioConserva
    <2> QED
      BY <2>3, <2>4, <2>5, <2>6, <2>7, <2>8, <2>9 DEF IInv
  <1> QED
    BY <1>2, <1>3 DEF masterloop

LEMMA PasoMaestro == IInv /\ Maestro => IInv'
  BY PasoNodos, PasoRafaga, PasoFase, PasoSuelta, PasoReparte, PasoTope DEF Maestro

--------------------------------------------------------------------------------
(* The job handlers. *)

LEMMA PasoHandlerFin == ASSUME IInv, NEW j \in Ids, job_handler_fin(j) PROVE IInv'
  <1>1. /\ handler[j] \in {"espera", "trabaja"} /\ handler' = [handler EXCEPT ![j] = "fin"]
        /\ correo' = Append(correo, j)
        /\ UNCHANGED <<vida, fase, quedan, rafagas, contador, mapa, buzon, tx, rx, cerrada,
                       agente, tabla, perdidos>>
    BY DEF job_handler_fin
  <1>2. /\ handler' \in [Ids -> {"no", "espera", "trabaja", "fin"}] /\ handler'[j] = "fin"
        /\ \A k \in Ids : k # j => handler'[k] = handler[k]
    BY <1>1 DEF IInv, TipoProcesos
  <1>3. /\ correo' \in Seq(Ids) /\ ToSet(correo') = ToSet(correo) \cup {j}
        /\ DOMAIN correo = 1 .. Len(correo) /\ DOMAIN correo' = 1 .. Len(correo) + 1
        /\ Len(correo) \in Nat /\ correo'[Len(correo) + 1] = j
        /\ \A i \in 1 .. Len(correo) : correo'[i] = correo[i] /\ correo[i] \in Ids
    BY <1>1, Agregar, AppendProperties, LenProperties DEF IInv, TipoProcesos
  <1>4. TipoMaestro' /\ Cuenta' /\ TipoProcesos' /\ TipoRed' /\ TipoAgente'
    BY <1>1, <1>2, <1>3 DEF IInv, TipoMaestro, Cuenta, TipoProcesos, TipoRed, TipoAgente
  <1>5. Frescos'
    <2> SUFFICES ASSUME NEW u \in 1 .. Cupo(MaxRafagas), u > contador
                 PROVE  handler'[nuevo_job_id(u)] = "no"
      BY <1>1 DEF Frescos
    <2>1. nuevo_job_id(u) \in Ids /\ handler[nuevo_job_id(u)] = "no"
      BY Identificadores DEF IInv, Frescos
    <2> QED
      BY <2>1, <1>1, <1>2
  <1>6. SinNoticias'
    BY <1>1, <1>2 DEF IInv, SinNoticias, Va, Viene
  <1>7. Lineas' /\ Futuras' /\ Consulta' /\ Seguido' /\ SoltadoEnCamino'
    BY <1>1 DEF IInv, Lineas, Futuras, Consulta, Seguido, SoltadoEnCamino
  <1>8. CorreoUnico'
    <2>1. \A i \in 1 .. Len(correo) : correo[i] # j /\ handler'[correo[i]] = "fin"
      BY <1>1, <1>2, <1>3 DEF IInv, CorreoUnico
    <2> QED
      BY <2>1, <1>2, <1>3 DEF IInv, CorreoUnico
  <1>9. MapaExacto'
    BY <1>1, <1>2, <1>3 DEF IInv, MapaExacto
  <1>10. Soltados'
    <2> SUFFICES ASSUME NEW m \in Va, m.clase = "JOB_RELEASE" PROVE handler'[m.job] = "fin"
      BY <1>1 DEF Soltados, Va
    <2>1. m.job \in Ids /\ handler[m.job] = "fin"
      BY DEF IInv, Soltados, Lineas, Va, TipoMaestro
    <2> QED
      BY <2>1, <1>1, <1>2
  <1>11. Prometido'
    BY <1>1, <1>2 DEF IInv, Prometido, Enterado, Viene
  <1> QED
    BY <1>4, <1>5, <1>6, <1>7, <1>8, <1>9, <1>10, <1>11 DEF IInv

LEMMA PasoHandlerGranted == ASSUME IInv, NEW j \in Ids, job_handler_granted(j) PROVE IInv'
  <1>1. /\ handler[j] = "espera" /\ handler' = [handler EXCEPT ![j] = "trabaja"]
        /\ buzon[j] # << >> /\ Head(buzon[j]) = "JOB_GRANTED"
        /\ UNCHANGED <<vida, fase, quedan, rafagas, contador, mapa, buzon, correo, tx, rx, cerrada,
                       agente, tabla, perdidos>>
    BY DEF job_handler_granted
  <1>2. /\ handler' \in [Ids -> {"no", "espera", "trabaja", "fin"}] /\ handler'[j] = "trabaja"
        /\ \A k \in Ids : k # j => handler'[k] = handler[k]
    BY <1>1 DEF IInv, TipoProcesos
  <1>3. "JOB_GRANTED" \in ToSet(buzon[j])
    BY <1>1, Leer DEF IInv, TipoProcesos
  <1>4. TipoMaestro' /\ Cuenta' /\ TipoProcesos' /\ TipoRed' /\ TipoAgente'
    BY <1>1, <1>2 DEF IInv, TipoMaestro, Cuenta, TipoProcesos, TipoRed, TipoAgente
  <1>5. Frescos'
    <2> SUFFICES ASSUME NEW u \in 1 .. Cupo(MaxRafagas), u > contador
                 PROVE  handler'[nuevo_job_id(u)] = "no"
      BY <1>1 DEF Frescos
    <2>1. nuevo_job_id(u) \in Ids /\ handler[nuevo_job_id(u)] = "no"
      BY Identificadores DEF IInv, Frescos
    <2> QED
      BY <2>1, <1>1, <1>2
  <1>6. SinNoticias'
    BY <1>1, <1>2 DEF IInv, SinNoticias, Va, Viene
  <1>7. Lineas' /\ Futuras' /\ Consulta' /\ Seguido' /\ SoltadoEnCamino'
    BY <1>1 DEF IInv, Lineas, Futuras, Consulta, Seguido, SoltadoEnCamino
  <1>8. CorreoUnico'
    BY <1>1, <1>2, ElementOfSeq, LenProperties DEF IInv, CorreoUnico, TipoProcesos
  <1>9. MapaExacto'
    BY <1>1, <1>2 DEF IInv, MapaExacto
  <1>10. Soltados'
    <2> SUFFICES ASSUME NEW m \in Va, m.clase = "JOB_RELEASE" PROVE handler'[m.job] = "fin"
      BY <1>1 DEF Soltados, Va
    <2>1. m.job \in Ids /\ handler[m.job] = "fin"
      BY DEF IInv, Soltados, Lineas, Va, TipoMaestro
    <2> QED
      BY <2>1, <1>1, <1>2
  <1>11. Prometido'
    BY <1>1, <1>2, <1>3 DEF IInv, Prometido, Enterado, Viene
  <1> QED
    BY <1>4, <1>5, <1>6, <1>7, <1>8, <1>9, <1>10, <1>11 DEF IInv

--------------------------------------------------------------------------------
(* The agent. *)

(* It reads a line of connection v: what does not depend on its answer. *)
LEMMA AgenteLee ==
  ASSUME IInv, NEW v \in Vidas, NEW clase, Siguiente(v, clase)
  PROVE  /\ tx' \in [Vidas -> Seq(LineasTx)] /\ tx[v] \in Seq(LineasTx)
         /\ tx[v] # << >> /\ tx'[v] = Tail(tx[v])
         /\ Head(tx[v]) \in LineasTx /\ Head(tx[v]).clase = clase
         /\ Head(tx[v]) \in ToSet(tx[v]) /\ ToSet(tx[v]) = {Head(tx[v])} \cup ToSet(tx'[v])
         /\ \A w \in Vidas : w # v => tx'[w] = tx[w]
         /\ ToSet(tx'[vida]) \subseteq Va
         /\ v <= vida /\ agente /\ vida \in Vidas
         /\ UNCHANGED <<vida, planificador, cerrada, agente, perdidos>>
         /\ TipoMaestro' /\ TipoProcesos' /\ Cuenta' /\ Frescos' /\ CorreoUnico' /\ MapaExacto'
         /\ Lineas' /\ Seguido' /\ Soltados'
  <1>1. /\ agente /\ tx[v] # << >> /\ Head(tx[v]).clase = clase
        /\ tx' = [tx EXCEPT ![v] = Tail(@)]
        /\ UNCHANGED <<vida, planificador, cerrada, agente, perdidos>>
    BY DEF Siguiente
  <1>2. UNCHANGED <<fase, quedan, rafagas, contador, mapa, handler, buzon, correo>>
    BY <1>1 DEF planificador
  <1>3. /\ tx' \in [Vidas -> Seq(LineasTx)] /\ tx'[v] = Tail(tx[v])
        /\ Head(tx[v]) \in LineasTx /\ ToSet(tx[v]) = {Head(tx[v])} \cup ToSet(tx'[v])
        /\ \A w \in Vidas : w # v => tx'[w] = tx[w]
        /\ \A w \in Vidas : ToSet(tx'[w]) \subseteq ToSet(tx[w])
        /\ tx[v] \in Seq(LineasTx) /\ vida \in Vidas
    BY <1>1, Leido DEF IInv, TipoRed, TipoMaestro
  <1>4. v <= vida
    BY <1>1, <1>3 DEF IInv, Futuras, Vidas
  <1>5. TipoMaestro' /\ TipoProcesos' /\ Cuenta' /\ Frescos' /\ CorreoUnico' /\ MapaExacto'
    BY <1>1, <1>2 DEF IInv, TipoMaestro, TipoProcesos, Cuenta, Frescos, CorreoUnico, MapaExacto
  <1>6. Lineas'
    BY <1>3 DEF IInv, Lineas
  <1>7. Soltados'
    BY <1>1, <1>2, <1>3 DEF IInv, Soltados, Va
  <1>8. Seguido'
    <2>1. CASE v # vida
      BY <2>1, <1>1, <1>2, <1>3 DEF IInv, Seguido
    <2>2. CASE v = vida
      <3>1. /\ Len(tx[v]) \in Nat \ {0} /\ DOMAIN tx[v] = 1 .. Len(tx[v])
            /\ DOMAIN tx'[v] = 1 .. Len(tx[v]) - 1
            /\ \A i \in 1 .. Len(tx[v]) - 1 : tx'[v][i] = tx[v][i + 1]
        BY <1>1, <1>3, Leer
      <3> SUFFICES ASSUME NEW i \in DOMAIN tx'[vida], tx'[vida][i].clase = "JOB_REQUEST",
                          tx'[vida][i].job \notin mapa, fase # "fin"
                   PROVE  \E k \in DOMAIN tx'[vida] :
                            k > i /\ tx'[vida][k] = Linea("JOB_RELEASE", tx'[vida][i].job)
        BY <1>1, <1>2 DEF Seguido
      <3>2. i \in 1 .. Len(tx[v]) - 1 /\ i + 1 \in DOMAIN tx[vida] /\ tx'[vida][i] = tx[vida][i + 1]
        BY <2>2, <3>1
      <3>3. PICK k \in DOMAIN tx[vida] :
              k > i + 1 /\ tx[vida][k] = Linea("JOB_RELEASE", tx[vida][i + 1].job)
        BY <3>2 DEF IInv, Seguido
      <3>4. k - 1 \in DOMAIN tx'[vida] /\ k - 1 > i /\ tx'[vida][k - 1] = tx[vida][k]
        BY <2>2, <3>1, <3>2, <3>3
      <3> QED
        BY <3>2, <3>3, <3>4
    <2> QED
      BY <2>1, <2>2
  <1> QED
    BY <1>1, <1>3, <1>4, <1>5, <1>6, <1>7, <1>8 DEF Va

LEMMA PasoAgenteNodos == ASSUME IInv, NEW v \in Vidas, AgenteNodos(v) PROVE IInv'
  <1>1. Siguiente(v, "GET_NODES") /\ UNCHANGED tabla
    BY DEF AgenteNodos
  <1>2. PICK clase \in Listas : responder(v, Linea(clase, 0))
    BY DEF AgenteNodos, Listas
  <1> DEFINE m == Linea(clase, 0)
  <1>3. m \in LineasRx /\ m.clase \in Listas /\ m.job = 0
    BY <1>2 DEF Linea, LineasRx, Listas
  <1>4. /\ tx' \in [Vidas -> Seq(LineasTx)] /\ tx[v] \in Seq(LineasTx)
        /\ tx[v] # << >> /\ tx'[v] = Tail(tx[v]) /\ Head(tx[v]).clase = "GET_NODES"
        /\ ToSet(tx[v]) = {Head(tx[v])} \cup ToSet(tx'[v])
        /\ \A w \in Vidas : w # v => tx'[w] = tx[w]
        /\ ToSet(tx'[vida]) \subseteq Va
        /\ v <= vida /\ agente /\ vida \in Vidas
        /\ UNCHANGED <<vida, planificador, cerrada, agente, perdidos>>
        /\ TipoMaestro' /\ TipoProcesos' /\ Cuenta' /\ Frescos' /\ CorreoUnico' /\ MapaExacto'
        /\ Lineas' /\ Seguido' /\ Soltados'
    BY <1>1, AgenteLee
  <1>5. /\ rx' \in [Vidas -> Seq(LineasRx)] /\ rx[vida] \in Seq(LineasRx)
        /\ v = vida => rx'[vida] = Append(rx[vida], m) /\ ToSet(rx'[vida]) = Viene \cup {m}
        /\ v # vida => rx' = rx
        /\ \A w \in Vidas : w # vida => rx'[w] = rx[w]
    BY <1>2, <1>3, Respondido DEF IInv
  <1>6. UNCHANGED <<fase, mapa, handler, buzon>>
    BY <1>4 DEF planificador
  <1>7. TipoRed' /\ TipoAgente'
    BY <1>1, <1>4, <1>5 DEF IInv, TipoRed, TipoAgente
  <1>8. SinNoticias'
    <2>1. ToSet(tx'[vida]) \subseteq Va /\ ToSet(rx'[vida]) \subseteq Viene \cup {m}
      BY <1>4, <1>5 DEF Viene
    <2> QED
      BY <1>1, <1>3, <1>4, <1>6, <2>1, Identificadores DEF IInv, SinNoticias, Va, Viene
  <1>9. Futuras'
    BY <1>1, <1>4, <1>5 DEF IInv, Futuras, Vidas
  <1>10. Consulta'
    <2>1. CASE v # vida
      BY <2>1, <1>4, <1>5, <1>6 DEF IInv, Consulta
    <2>2. CASE v = vida
      <3>1. Head(tx[v]).clase \in Preguntas
        BY <1>4 DEF Preguntas
      <3>2. Una(tx[v], Preguntas) /\ Una(rx[vida], Listas)
        BY <2>2 DEF IInv, Consulta
      <3>3. Una(tx'[vida], Preguntas) /\ ~Hay(tx'[vida], Preguntas) /\ Hay(tx[vida], Preguntas)
        BY <2>2, <3>1, <3>2, <1>4, UnaLeer
      <3>4. fase = "nodos" /\ ~Hay(rx[vida], Listas)
        BY <3>3, <1>4 DEF IInv, Consulta
      <3>5. Una(Append(rx[vida], m), Listas) /\ Hay(Append(rx[vida], m), Listas)
        BY <3>2, <3>4, <1>3, <1>5, UnaAgregar
      <3>6. Una(rx'[vida], Listas) /\ Hay(rx'[vida], Listas)
        BY <3>5, <2>2, <1>5
      <3> QED
        BY <3>3, <3>4, <3>6, <1>4, <1>6 DEF Consulta
    <2> QED
      BY <2>1, <2>2
  <1>11. SoltadoEnCamino'
    <2> SUFFICES ASSUME NEW e \in tabla, e.conn = vida, e.job \notin mapa, fase # "fin"
                 PROVE  \E i \in DOMAIN tx'[vida] : tx'[vida][i] = Linea("JOB_RELEASE", e.job)
      BY <1>1, <1>4, <1>6 DEF SoltadoEnCamino
    <2>1. Linea("JOB_RELEASE", e.job) \in ToSet(tx[vida])
      BY DEF IInv, SoltadoEnCamino, ToSet
    <2>2. Linea("JOB_RELEASE", e.job) # Head(tx[v])
      BY <1>4 DEF Linea
    <2>3. Linea("JOB_RELEASE", e.job) \in ToSet(tx'[vida])
      BY <2>1, <2>2, <1>4
    <2> QED
      BY <2>3 DEF ToSet
  <1>12. Prometido'
    <2>1. \A j \in Ids : Linea("JOB_GRANTED", j) # m
      BY <1>3, Identificadores DEF Linea
    <2>2. \A j \in Ids : Enterado(j)' => Enterado(j)
      BY <2>1, <1>4, <1>5, <1>6 DEF Enterado, Viene
    <2> QED
      BY <2>2, <1>1, <1>4, <1>6 DEF IInv, Prometido
  <1> QED
    BY <1>4, <1>7, <1>8, <1>9, <1>10, <1>11, <1>12 DEF IInv

LEMMA PasoAgenteSuelta == ASSUME IInv, NEW v \in Vidas, AgenteSuelta(v) PROVE IInv'
  <1> DEFINE m == Head(tx[v])
  <1>1. Siguiente(v, "JOB_RELEASE") /\ UNCHANGED rx /\ tabla' = {e \in tabla : e.job # m.job}
    BY DEF AgenteSuelta
  <1>4. /\ tx' \in [Vidas -> Seq(LineasTx)] /\ tx[v] \in Seq(LineasTx)
        /\ tx[v] # << >> /\ tx'[v] = Tail(tx[v]) /\ m.clase = "JOB_RELEASE"
        /\ m \in ToSet(tx[v]) /\ ToSet(tx[v]) = {m} \cup ToSet(tx'[v])
        /\ \A w \in Vidas : w # v => tx'[w] = tx[w]
        /\ ToSet(tx'[vida]) \subseteq Va
        /\ v <= vida /\ agente /\ vida \in Vidas
        /\ UNCHANGED <<vida, planificador, cerrada, agente, perdidos>>
        /\ TipoMaestro' /\ TipoProcesos' /\ Cuenta' /\ Frescos' /\ CorreoUnico' /\ MapaExacto'
        /\ Lineas' /\ Seguido' /\ Soltados'
    BY <1>1, AgenteLee
  <1>6. UNCHANGED <<fase, mapa, handler, buzon>>
    BY <1>4 DEF planificador
  <1>7. TipoRed' /\ TipoAgente'
    BY <1>1, <1>4 DEF IInv, TipoRed, TipoAgente
  <1>8. SinNoticias'
    BY <1>1, <1>4, <1>6 DEF IInv, SinNoticias, Va, Viene
  <1>9. Futuras'
    BY <1>1, <1>4 DEF IInv, Futuras, Vidas
  <1>10. Consulta'
    <2>1. CASE v # vida
      BY <2>1, <1>1, <1>4, <1>6 DEF IInv, Consulta
    <2>2. CASE v = vida
      <3>1. m.clase \notin Preguntas /\ Una(tx[v], Preguntas)
        BY <1>4, <2>2 DEF IInv, Consulta, Preguntas
      <3>2. Una(tx'[vida], Preguntas) /\ (Hay(tx'[vida], Preguntas) <=> Hay(tx[vida], Preguntas))
        BY <2>2, <3>1, <1>4, UnaLeer
      <3> QED
        BY <3>2, <1>1, <1>4, <1>6 DEF IInv, Consulta
    <2> QED
      BY <2>1, <2>2
  <1>11. SoltadoEnCamino'
    <2> SUFFICES ASSUME NEW e \in tabla, e.job # m.job, e.conn = vida, e.job \notin mapa, fase # "fin"
                 PROVE  \E i \in DOMAIN tx'[vida] : tx'[vida][i] = Linea("JOB_RELEASE", e.job)
      BY <1>1, <1>4, <1>6 DEF SoltadoEnCamino
    <2>1. Linea("JOB_RELEASE", e.job) \in ToSet(tx[vida])
      BY DEF IInv, SoltadoEnCamino, ToSet
    <2>2. Linea("JOB_RELEASE", e.job) # m
      BY DEF Linea
    <2>3. Linea("JOB_RELEASE", e.job) \in ToSet(tx'[vida])
      BY <2>1, <2>2, <1>4
    <2> QED
      BY <2>3 DEF ToSet
  <1>12. Prometido'
    <2> SUFFICES ASSUME NEW j \in Ids, vida = 1, fase # "fin", Enterado(j)
                 PROVE  [job |-> j, conn |-> 1, est |-> "otorgado"] \in tabla' \/ j \in perdidos
      BY <1>1, <1>4, <1>6 DEF Prometido, Enterado, Viene
    <2>1. v = vida
      BY <1>4 DEF Vidas
    <2>2. handler[m.job] = "fin"
      BY <2>1, <1>4 DEF IInv, Soltados, Va
    <2>3. j # m.job
      BY <2>2 DEF Enterado
    <2> QED
      BY <2>3, <1>1, <1>4 DEF IInv, Prometido
  <1> QED
    BY <1>4, <1>7, <1>8, <1>9, <1>10, <1>11, <1>12 DEF IInv

(* The answer to a job is no list of nodes. *)
LEMMA RespuestaDeJob ==
  ASSUME IInv, NEW v \in Vidas, NEW j \in Ids, NEW c \in {"JOB_GRANTED", "JOB_DENIED"},
         responder(v, Linea(c, j)) \/ rx' = rx
  PROVE  /\ rx' \in [Vidas -> Seq(LineasRx)]
         /\ \A w \in Vidas : w # vida => rx'[w] = rx[w]
         /\ v # vida => rx' = rx
         /\ ToSet(rx'[vida]) \subseteq Viene \cup {Linea(c, j)}
         /\ Una(rx'[vida], Listas) /\ (Hay(rx'[vida], Listas) <=> Hay(rx[vida], Listas))
  <1> DEFINE m == Linea(c, j)
  <1>1. m \in LineasRx /\ m.clase \notin Listas
    BY DEF Linea, LineasRx, Listas
  <1>2. rx \in [Vidas -> Seq(LineasRx)] /\ vida \in Vidas /\ Una(rx[vida], Listas)
    BY DEF IInv, TipoRed, TipoMaestro, Consulta
  <1>3. CASE rx' = rx
    BY <1>2, <1>3 DEF Viene
  <1>4. CASE responder(v, m)
    <2>1. /\ rx' \in [Vidas -> Seq(LineasRx)] /\ rx[vida] \in Seq(LineasRx)
          /\ v = vida => rx'[vida] = Append(rx[vida], m) /\ ToSet(rx'[vida]) = Viene \cup {m}
          /\ v # vida => rx' = rx
          /\ \A w \in Vidas : w # vida => rx'[w] = rx[w]
      BY <1>1, <1>4, Respondido DEF IInv
    <2>2. Una(Append(rx[vida], m), Listas) /\ (Hay(Append(rx[vida], m), Listas) <=> Hay(rx[vida], Listas))
      BY <1>1, <1>2, <2>1, UnaAgregar
    <2> QED
      BY <1>2, <2>1, <2>2 DEF Viene
  <1> QED
    BY <1>3, <1>4

LEMMA PasoAgentePedido == ASSUME IInv, NEW v \in Vidas, AgentePedido(v) PROVE IInv'
  <1> DEFINE m == Head(tx[v])
             j == m.job
             otorgado == [job |-> j, conn |-> v, est |-> "otorgado"]
             pendiente == [job |-> j, conn |-> v, est |-> "pendiente"]
  <1>1. Siguiente(v, "JOB_REQUEST")
    BY DEF AgentePedido
  <1>2. /\ tx' \in [Vidas -> Seq(LineasTx)] /\ tx[v] \in Seq(LineasTx)
        /\ tx[v] # << >> /\ tx'[v] = Tail(tx[v]) /\ m.clase = "JOB_REQUEST"
        /\ m \in ToSet(tx[v]) /\ ToSet(tx[v]) = {m} \cup ToSet(tx'[v])
        /\ \A w \in Vidas : w # v => tx'[w] = tx[w]
        /\ ToSet(tx'[vida]) \subseteq Va
        /\ v <= vida /\ agente /\ vida \in Vidas
        /\ UNCHANGED <<vida, planificador, cerrada, agente, perdidos>>
        /\ TipoMaestro' /\ TipoProcesos' /\ Cuenta' /\ Frescos' /\ CorreoUnico' /\ MapaExacto'
        /\ Lineas' /\ Seguido' /\ Soltados'
    BY <1>1, AgenteLee
  <1>3. UNCHANGED <<fase, mapa, handler, buzon>>
    BY <1>2 DEF planificador
  <1>4. j \in Ids
    BY <1>2 DEF IInv, Lineas
  <1>5. PICK c \in {"JOB_GRANTED", "JOB_DENIED"} :
          /\ responder(v, Linea(c, j)) \/ rx' = rx
          /\ tabla' \in {tabla, tabla \cup {otorgado}, tabla \cup {pendiente}}
          /\ c = "JOB_GRANTED" /\ rx' # rx => otorgado \in tabla'
    BY DEF AgentePedido
  <1>6. tabla \subseteq tabla' /\ \A e \in tabla' \ tabla : e = otorgado \/ e = pendiente
    BY <1>5
  <1>7. \A e \in tabla' : e \in tabla \/ (e.job = j /\ e.conn = v)
    BY <1>6
  <1>8. /\ rx' \in [Vidas -> Seq(LineasRx)]
        /\ \A w \in Vidas : w # vida => rx'[w] = rx[w]
        /\ v # vida => rx' = rx
        /\ ToSet(rx'[vida]) \subseteq Viene \cup {Linea(c, j)}
        /\ Una(rx'[vida], Listas) /\ (Hay(rx'[vida], Listas) <=> Hay(rx[vida], Listas))
    BY <1>4, <1>5, RespuestaDeJob
  <1>9. v = vida => handler[j] # "no"
    BY <1>2, <1>4 DEF IInv, SinNoticias, Va
  <1>10. TipoRed' /\ TipoAgente'
    <2>1. otorgado \in [job : Ids, conn : Vidas, est : {"pendiente", "otorgado"}]
          /\ pendiente \in [job : Ids, conn : Vidas, est : {"pendiente", "otorgado"}]
      BY <1>4
    <2> QED
      BY <2>1, <1>2, <1>6, <1>8 DEF IInv, TipoRed, TipoAgente
  <1>11. SinNoticias'
    <2> SUFFICES ASSUME NEW k \in Ids, handler[k] = "no"
                 PROVE  /\ k \notin mapa /\ buzon[k] = << >>
                        /\ \A x \in ToSet(tx'[vida]) \cup ToSet(rx'[vida]) : x.job # k
                        /\ \A e \in tabla' : e.conn = vida => e.job # k
      BY <1>2, <1>3 DEF SinNoticias, Va, Viene
    <2>1. /\ k \notin mapa /\ buzon[k] = << >> /\ \A x \in Va \cup Viene : x.job # k
          /\ \A e \in tabla : e.conn = vida => e.job # k
      BY DEF IInv, SinNoticias
    <2>2. v = vida => k # j
      BY <1>9
    <2>3. \A x \in ToSet(rx'[vida]) : x.job # k
      <3>1. CASE v = vida
        BY <3>1, <2>1, <2>2, <1>8 DEF Linea
      <3>2. CASE v # vida
        BY <3>2, <2>1, <1>8 DEF Viene
      <3> QED
        BY <3>1, <3>2
    <2> QED
      BY <2>1, <2>2, <2>3, <1>2, <1>7
  <1>12. Futuras'
    BY <1>2, <1>7, <1>8 DEF IInv, Futuras, Vidas
  <1>13. Consulta'
    <2>1. Una(tx'[vida], Preguntas) /\ (Hay(tx'[vida], Preguntas) <=> Hay(tx[vida], Preguntas))
      <3>1. CASE v # vida
        BY <3>1, <1>2 DEF IInv, Consulta
      <3>2. CASE v = vida
        <4>1. m.clase \notin Preguntas /\ Una(tx[v], Preguntas)
          BY <1>2, <3>2 DEF IInv, Consulta, Preguntas
        <4> QED
          BY <3>2, <4>1, <1>2, UnaLeer
      <3> QED
        BY <3>1, <3>2
    <2> QED
      BY <2>1, <1>2, <1>3, <1>8 DEF IInv, Consulta
  <1>14. SoltadoEnCamino'
    <2> SUFFICES ASSUME NEW e \in tabla', e.conn = vida, e.job \notin mapa, fase # "fin"
                 PROVE  \E i \in DOMAIN tx'[vida] : tx'[vida][i] = Linea("JOB_RELEASE", e.job)
      BY <1>2, <1>3 DEF SoltadoEnCamino
    <2>1. CASE e \in tabla
      <3>1. Linea("JOB_RELEASE", e.job) \in ToSet(tx[vida])
        BY <2>1 DEF IInv, SoltadoEnCamino, ToSet
      <3>2. Linea("JOB_RELEASE", e.job) # m
        BY <1>2 DEF Linea
      <3>3. Linea("JOB_RELEASE", e.job) \in ToSet(tx'[vida])
        BY <3>1, <3>2, <1>2
      <3> QED
        BY <3>3 DEF ToSet
    <2>2. CASE e.job = j /\ e.conn = v
      <3>1. v = vida
        BY <2>2
      <3>2. /\ Len(tx[v]) \in Nat \ {0} /\ DOMAIN tx[v] = 1 .. Len(tx[v])
            /\ DOMAIN tx'[v] = 1 .. Len(tx[v]) - 1 /\ m = tx[v][1]
            /\ \A i \in 1 .. Len(tx[v]) - 1 : tx'[v][i] = tx[v][i + 1]
        BY <1>2, Leer
      <3>3. PICK k \in DOMAIN tx[vida] : k > 1 /\ tx[vida][k] = Linea("JOB_RELEASE", j)
        BY <1>2, <2>2, <3>1, <3>2, SMTT(30) DEF IInv, Seguido
      <3>4. k - 1 \in DOMAIN tx'[vida] /\ tx'[vida][k - 1] = tx[vida][k]
        BY <3>1, <3>2, <3>3
      <3> QED
        BY <2>2, <3>3, <3>4
    <2> QED
      BY <1>7, <2>1, <2>2
  <1>15. Prometido'
    <2> SUFFICES ASSUME NEW k \in Ids, vida = 1, fase # "fin", Enterado(k)'
                 PROVE  [job |-> k, conn |-> 1, est |-> "otorgado"] \in tabla' \/ k \in perdidos
      BY <1>2, <1>3 DEF Prometido
    <2>1. CASE Enterado(k)
      BY <2>1, <1>2, <1>6 DEF IInv, Prometido
    <2>2. CASE ~Enterado(k)
      <3>1. Linea("JOB_GRANTED", k) \in ToSet(rx'[vida]) /\ Linea("JOB_GRANTED", k) \notin Viene
        BY <2>2, <1>2, <1>3 DEF Enterado, Viene
      <3>2. Linea("JOB_GRANTED", k) = Linea(c, j) /\ rx' # rx
        BY <3>1, <1>8 DEF Viene
      <3>3. c = "JOB_GRANTED" /\ k = j
        BY <3>2 DEF Linea
      <3>4. v = 1
        BY <1>2 DEF Vidas
      <3> QED
        BY <3>2, <3>3, <3>4, <1>5
    <2> QED
      BY <2>1, <2>2
  <1> QED
    BY <1>2, <1>10, <1>11, <1>12, <1>13, <1>14, <1>15 DEF IInv

(* An entry of the table is settled or lost: the lines to the agent stay. *)
LEMMA AgenteTabla ==
  ASSUME IInv, NEW e \in tabla, UNCHANGED <<vida, planificador, tx, cerrada, agente>>,
         \A x \in tabla' : \E y \in tabla : x.job = y.job /\ x.conn = y.conn,
         tabla' \subseteq [job : Ids, conn : Vidas, est : {"pendiente", "otorgado"}],
         perdidos' \subseteq Ids, agente,
         NEW c \in {"JOB_GRANTED", "JOB_DENIED"},
         responder(e.conn, Linea(c, e.job)) \/ rx' = rx,
         Prometido'
  PROVE  IInv'
  <1>1. UNCHANGED <<fase, quedan, rafagas, contador, mapa, handler, buzon, correo>>
    BY DEF planificador
  <1>2. e.job \in Ids /\ e.conn \in Vidas /\ vida \in Vidas
    BY DEF IInv, TipoAgente, TipoMaestro
  <1>3. /\ rx' \in [Vidas -> Seq(LineasRx)]
        /\ \A w \in Vidas : w # vida => rx'[w] = rx[w]
        /\ e.conn # vida => rx' = rx
        /\ ToSet(rx'[vida]) \subseteq Viene \cup {Linea(c, e.job)}
        /\ Una(rx'[vida], Listas) /\ (Hay(rx'[vida], Listas) <=> Hay(rx[vida], Listas))
    BY <1>2, RespuestaDeJob
  <1>4. TipoMaestro' /\ TipoProcesos' /\ TipoRed' /\ TipoAgente' /\ Cuenta' /\ Frescos'
    BY <1>1, <1>3 DEF IInv, TipoMaestro, TipoProcesos, TipoRed, TipoAgente, Cuenta, Frescos
  <1>5. Lineas' /\ CorreoUnico' /\ MapaExacto' /\ Seguido' /\ Soltados'
    BY <1>1 DEF IInv, Lineas, CorreoUnico, MapaExacto, Seguido, Soltados, Va
  <1>6. SinNoticias'
    <2> SUFFICES ASSUME NEW k \in Ids, handler[k] = "no"
                 PROVE  /\ k \notin mapa /\ buzon[k] = << >>
                        /\ \A x \in Va \cup ToSet(rx'[vida]) : x.job # k
                        /\ \A x \in tabla' : x.conn = vida => x.job # k
      BY <1>1 DEF SinNoticias, Va, Viene
    <2>1. /\ k \notin mapa /\ buzon[k] = << >> /\ \A x \in Va \cup Viene : x.job # k
          /\ \A x \in tabla : x.conn = vida => x.job # k
      BY DEF IInv, SinNoticias
    <2>2. \A x \in ToSet(rx'[vida]) : x.job # k
      <3>1. CASE e.conn = vida
        BY <3>1, <2>1, <1>3 DEF Linea
      <3>2. CASE e.conn # vida
        BY <3>2, <2>1, <1>3 DEF Viene
      <3> QED
        BY <3>1, <3>2
    <2> QED
      BY <2>1, <2>2
  <1>7. Futuras'
    <2>1. \A v \in Vidas : v > vida => tx[v] = << >> /\ rx'[v] = << >>
      BY <1>2, <1>3 DEF IInv, Futuras, Vidas
    <2>2. \A x \in tabla' : x.conn <= vida
      BY DEF IInv, Futuras
    <2> QED
      BY <2>1, <2>2 DEF Futuras
  <1>8. Consulta'
    BY <1>1, <1>3 DEF IInv, Consulta
  <1>9. SoltadoEnCamino'
    <2> SUFFICES ASSUME NEW x \in tabla', x.conn = vida, x.job \notin mapa, fase # "fin"
                 PROVE  \E i \in DOMAIN tx[vida] : tx[vida][i] = Linea("JOB_RELEASE", x.job)
      BY <1>1 DEF SoltadoEnCamino
    <2>1. PICK y \in tabla : x.job = y.job /\ x.conn = y.conn
      OBVIOUS
    <2> QED
      BY <2>1 DEF IInv, SoltadoEnCamino
  <1> QED
    BY <1>4, <1>5, <1>6, <1>7, <1>8, <1>9 DEF IInv

LEMMA PasoAgenteResuelve == ASSUME IInv, NEW e \in tabla, AgenteResuelve(e) PROVE IInv'
  <1> DEFINE otorgada == [e EXCEPT !.est = "otorgado"]
  <1>1. /\ agente /\ e.est = "pendiente"
        /\ UNCHANGED <<vida, planificador, tx, cerrada, agente, perdidos>>
    BY DEF AgenteResuelve
  <1>2. e \in [job : Ids, conn : Vidas, est : {"pendiente", "otorgado"}] /\ perdidos \subseteq Ids
    BY DEF IInv, TipoAgente
  <1>3. PICK c \in {"JOB_GRANTED", "JOB_DENIED"} :
          /\ responder(e.conn, Linea(c, e.job))
          /\ c = "JOB_GRANTED" => tabla' = (tabla \ {e}) \cup {otorgada}
          /\ c = "JOB_DENIED" => tabla' = tabla \ {e}
    BY DEF AgenteResuelve
  <1>4. /\ otorgada.job = e.job /\ otorgada.conn = e.conn
        /\ otorgada = [job |-> e.job, conn |-> e.conn, est |-> "otorgado"]
        /\ otorgada \in [job : Ids, conn : Vidas, est : {"pendiente", "otorgado"}]
    BY <1>2
  <1>5. /\ \A x \in tabla' : \E y \in tabla : x.job = y.job /\ x.conn = y.conn
        /\ tabla' \subseteq [job : Ids, conn : Vidas, est : {"pendiente", "otorgado"}]
        /\ \A x \in tabla : x.est = "otorgado" => x \in tabla'
    BY <1>1, <1>3, <1>4 DEF IInv, TipoAgente
  <1>6. Prometido'
    <2> SUFFICES ASSUME NEW k \in Ids, vida = 1, fase # "fin", Enterado(k)'
                 PROVE  [job |-> k, conn |-> 1, est |-> "otorgado"] \in tabla' \/ k \in perdidos
      BY <1>1 DEF Prometido, planificador
    <2>1. CASE Enterado(k)
      <3>1. [job |-> k, conn |-> 1, est |-> "otorgado"] \in tabla \/ k \in perdidos
        BY <2>1, <1>1 DEF IInv, Prometido
      <3> QED
        BY <3>1, <1>5
    <2>2. CASE ~Enterado(k)
      <3>1. Linea("JOB_GRANTED", k) \in ToSet(rx'[vida]) /\ Linea("JOB_GRANTED", k) \notin Viene
        BY <2>2, <1>1 DEF Enterado, Viene, planificador
      <3>2. /\ ToSet(rx'[vida]) \subseteq Viene \cup {Linea(c, e.job)}
            /\ e.conn # vida => rx' = rx
        BY <1>2, <1>3, RespuestaDeJob
      <3>3. Linea("JOB_GRANTED", k) = Linea(c, e.job) /\ e.conn = vida
        BY <3>1, <3>2 DEF Viene
      <3>4. c = "JOB_GRANTED" /\ k = e.job
        BY <3>3 DEF Linea
      <3> QED
        BY <3>3, <3>4, <1>3, <1>4
    <2> QED
      BY <2>1, <2>2
  <1> QED
    BY <1>1, <1>2, <1>3, <1>5, <1>6, AgenteTabla

LEMMA PasoAgentePierde == ASSUME IInv, NEW e \in tabla, AgentePierde(e) PROVE IInv'
  <1>1. /\ agente /\ tabla' = tabla \ {e} /\ rx' = rx
        /\ perdidos' = perdidos \cup (IF e.conn = vida THEN {e.job} ELSE {})
        /\ UNCHANGED <<vida, planificador, tx, cerrada, agente>>
    BY DEF AgentePierde
  <1>2. /\ e.job \in Ids /\ perdidos' \subseteq Ids /\ perdidos \subseteq perdidos'
        /\ tabla' \subseteq [job : Ids, conn : Vidas, est : {"pendiente", "otorgado"}]
    BY <1>1 DEF IInv, TipoAgente
  <1>3. Prometido'
    <2> SUFFICES ASSUME NEW k \in Ids, vida = 1, fase # "fin", Enterado(k)
                 PROVE  [job |-> k, conn |-> 1, est |-> "otorgado"] \in tabla' \/ k \in perdidos'
      BY <1>1 DEF Prometido, Enterado, Viene, planificador
    <2>1. [job |-> k, conn |-> 1, est |-> "otorgado"] \in tabla \/ k \in perdidos
      BY <1>1 DEF IInv, Prometido
    <2>2. CASE e = [job |-> k, conn |-> 1, est |-> "otorgado"]
      BY <2>2, <1>1
    <2>3. CASE e # [job |-> k, conn |-> 1, est |-> "otorgado"]
      BY <2>1, <2>3, <1>1, <1>2
    <2> QED
      BY <2>2, <2>3
  <1> QED
    BY <1>1, <1>2, <1>3, AgenteTabla


LEMMA PasoAgenteDesconecta == ASSUME IInv, NEW v \in Vidas, AgenteDesconecta(v) PROVE IInv'
  <1>1. /\ agente /\ (v < vida \/ (v = vida /\ fase = "fin"))
        /\ cerrada' = cerrada \cup {v} /\ tx' = [tx EXCEPT ![v] = << >>]
        /\ tabla' = {e \in tabla : e.conn # v}
        /\ UNCHANGED <<vida, planificador, rx, agente, perdidos>>
    BY DEF AgenteDesconecta
  <1>2. UNCHANGED <<fase, quedan, rafagas, contador, mapa, handler, buzon, correo>>
    BY <1>1 DEF planificador
  <1>3. /\ tx \in [Vidas -> Seq(LineasTx)] /\ vida \in Vidas /\ tabla' \subseteq tabla /\ agente
    BY <1>1 DEF IInv, TipoRed, TipoMaestro, AgenteDesconecta
  <1>4. /\ tx' \in [Vidas -> Seq(LineasTx)] /\ tx'[v] = << >>
        /\ \A w \in Vidas : w # v => tx'[w] = tx[w]
    <2>1. << >> \in Seq(LineasTx)
      OBVIOUS
    <2> QED
      BY <2>1, <1>1, <1>3
  <1>5. v # vida \/ (v = vida /\ fase = "fin")
    BY <1>1, <1>3 DEF Vidas, AgenteDesconecta
  <1>6. \A w \in Vidas : ToSet(tx'[w]) \subseteq ToSet(tx[w])
    BY <1>4, Vacia
  <1>7. TipoMaestro' /\ TipoProcesos' /\ TipoRed' /\ TipoAgente' /\ Cuenta' /\ Frescos'
    BY <1>1, <1>2, <1>3, <1>4
       DEF IInv, TipoMaestro, TipoProcesos, TipoRed, TipoAgente, Cuenta, Frescos
  <1>8. Lineas' /\ CorreoUnico' /\ MapaExacto' /\ Soltados'
    BY <1>1, <1>2, <1>3, <1>6 DEF IInv, Lineas, CorreoUnico, MapaExacto, Soltados, Va
  <1>9. SinNoticias'
    BY <1>1, <1>2, <1>3, <1>6 DEF IInv, SinNoticias, Va, Viene
  <1>10. Futuras'
    BY <1>1, <1>2, <1>3, <1>4 DEF IInv, Futuras
  <1>11. CASE v # vida
    <2>1. tx'[vida] = tx[vida]
      BY <1>3, <1>4, <1>11
    <2>2. Consulta' /\ Seguido' /\ SoltadoEnCamino'
      BY <2>1, <1>1, <1>2, <1>3 DEF IInv, Consulta, Seguido, SoltadoEnCamino
    <2>3. Prometido'
      <3>1. vida # 1
        BY <1>1, <1>11, <1>3 DEF Vidas
      <3> QED
        BY <3>1, <1>1 DEF Prometido
    <2> QED
      BY <2>2, <2>3, <1>7, <1>8, <1>9, <1>10 DEF IInv
  <1>12. CASE v = vida /\ fase = "fin"
    <2>1. tx'[vida] = << >> /\ fase' = "fin" /\ vida' = vida
      BY <1>1, <1>2, <1>4, <1>12
    <2>2. Seguido' /\ SoltadoEnCamino' /\ Prometido'
      BY <2>1 DEF Seguido, SoltadoEnCamino, Prometido
    <2>3. Consulta'
      <3>1. ~Hay(tx'[vida], Preguntas) /\ Una(tx'[vida], Preguntas)
        BY <2>1, Vacia
      <3>2. Una(rx[vida], Listas) /\ ~Hay(rx[vida], Listas)
        BY <1>3, <1>12 DEF IInv, Consulta
      <3> QED
        BY <3>1, <3>2, <2>1, <1>1 DEF Consulta
    <2> QED
      BY <2>2, <2>3, <1>7, <1>8, <1>9, <1>10 DEF IInv
  <1> QED
    BY <1>5, <1>11, <1>12

LEMMA PasoAgenteCae == ASSUME IInv, AgenteCae PROVE IInv'
  <1>1. /\ agente' = FALSE /\ tabla' = {} /\ perdidos' = {}
        /\ tx' = [v \in Vidas |-> << >>]
        /\ UNCHANGED <<vida, planificador, rx, cerrada>>
    BY DEF AgenteCae
  <1>2. UNCHANGED <<fase, quedan, rafagas, contador, mapa, handler, buzon, correo>>
    BY <1>1 DEF planificador
  <1>3. vida \in Vidas /\ tx' \in [Vidas -> Seq(LineasTx)] /\ tx'[vida] = << >>
        /\ \A v \in Vidas : tx'[v] = << >> /\ ToSet(tx'[v]) = {}
    <2>1. << >> \in Seq(LineasTx) /\ vida \in Vidas
      BY DEF IInv, TipoMaestro
    <2> QED
      BY <2>1, <1>1, Vacia
  <1>4. TipoMaestro' /\ TipoProcesos' /\ TipoRed' /\ TipoAgente' /\ Cuenta' /\ Frescos'
    BY <1>1, <1>2, <1>3
       DEF IInv, TipoMaestro, TipoProcesos, TipoRed, TipoAgente, Cuenta, Frescos
  <1>5. Lineas' /\ CorreoUnico' /\ MapaExacto' /\ Soltados'
    BY <1>1, <1>2, <1>3 DEF IInv, Lineas, CorreoUnico, MapaExacto, Soltados, Va
  <1>6. SinNoticias'
    BY <1>1, <1>2, <1>3 DEF IInv, SinNoticias, Va, Viene
  <1>7. Futuras'
    BY <1>1, <1>2, <1>3 DEF IInv, Futuras
  <1>8. Seguido' /\ SoltadoEnCamino' /\ Prometido'
    BY <1>1, <1>3 DEF Seguido, SoltadoEnCamino, Prometido
  <1>9. Consulta'
    <2>1. ~Hay(tx'[vida], Preguntas) /\ Una(tx'[vida], Preguntas)
      BY <1>3, Vacia
    <2> QED
      BY <2>1, <1>1 DEF IInv, Consulta
  <1> QED
    BY <1>4, <1>5, <1>6, <1>7, <1>8, <1>9 DEF IInv

(* A new life: nothing is on its connection, and its ids begin again. *)
LEMMA PasoReiniciar == ASSUME IInv, Reiniciar PROVE IInv'
  <1> DEFINE n == vida + 1
             consulta == Linea("GET_NODES", 0)
  <1>1. /\ vida < MaxVidas /\ rafagas < MaxRafagas /\ agente /\ vida' = n
        /\ fase' = "nodos" /\ quedan' = 0 /\ contador' = 0
        /\ mapa' = {} /\ handler' = [j \in Ids |-> "no"] /\ buzon' = [j \in Ids |-> << >>]
        /\ correo' = << >> /\ perdidos' = {}
        /\ tx' = [tx EXCEPT ![n] = <<consulta>>] /\ rx' = [rx EXCEPT ![vida] = << >>]
        /\ UNCHANGED <<rafagas, cerrada, agente, tabla>>
    BY DEF Reiniciar
  <1>2. /\ vida \in Vidas /\ n \in Vidas /\ n # vida /\ n > vida
        /\ \A v \in Vidas : v > n => v > vida
        /\ \A v \in Vidas : v <= vida => v <= n /\ v # n
        /\ n # 1
    BY <1>1, Parametros DEF IInv, TipoMaestro, Vidas
  <1>3. consulta \in LineasTx /\ <<consulta>> \in Seq(LineasTx) /\ << >> \in Seq(LineasRx)
    <2>1. consulta \in LineasTx
      BY DEF Linea, LineasTx
    <2> QED
      BY <2>1
  <1>4. tx \in [Vidas -> Seq(LineasTx)] /\ rx \in [Vidas -> Seq(LineasRx)]
    BY DEF IInv, TipoRed
  <1>5. /\ tx' \in [Vidas -> Seq(LineasTx)] /\ rx' \in [Vidas -> Seq(LineasRx)]
        /\ tx'[n] = <<consulta>> /\ rx'[n] = << >>
        /\ \A v \in Vidas : v # n => tx'[v] = tx[v]
        /\ \A v \in Vidas : v # vida => rx'[v] = rx[v]
    <2>1. rx[n] = << >>
      BY <1>2 DEF IInv, Futuras
    <2> QED
      BY <2>1, <1>1, <1>2, <1>3, <1>4
  <1>6. /\ ToSet(tx'[n]) = {consulta} /\ ToSet(rx'[n]) = {} /\ ToSet(correo') = {}
        /\ DOMAIN tx'[n] = {1} /\ tx'[n][1] = consulta /\ DOMAIN correo' = {}
        /\ consulta.clase = "GET_NODES" /\ consulta.job = 0
    BY <1>1, <1>5, Vacia DEF ToSet, Linea
  <1>7. TipoMaestro' /\ TipoProcesos' /\ TipoRed' /\ TipoAgente'
    <2>1. RAFAGA \in Nat
      BY Parametros
    <2>2. TipoMaestro'
      BY <2>1, <1>1, <1>2 DEF IInv, TipoMaestro
    <2>3. TipoProcesos'
      BY <1>1 DEF TipoProcesos
    <2> QED
      BY <2>2, <2>3, <1>1, <1>5 DEF IInv, TipoRed, TipoAgente
  <1>8. Cuenta' /\ Frescos'
    <2>1. Cupo(rafagas) \in Nat
      BY Cupos DEF IInv, TipoMaestro
    <2>2. Cuenta'
      BY <2>1, <1>1 DEF Cuenta
    <2>3. Frescos'
      BY <1>1, Identificadores DEF Frescos
    <2> QED
      BY <2>2, <2>3
  <1>9. SinNoticias'
    <2> SUFFICES ASSUME NEW j \in Ids
                 PROVE  /\ j \notin mapa' /\ buzon'[j] = << >>
                        /\ \A m \in ToSet(tx'[n]) \cup ToSet(rx'[n]) : m.job # j
                        /\ \A e \in tabla : e.conn = n => e.job # j
      BY <1>1 DEF SinNoticias, Va, Viene
    <2>1. \A e \in tabla : e.conn # n
      BY <1>2 DEF IInv, Futuras, TipoAgente
    <2> QED
      BY <2>1, <1>1, <1>6, Identificadores
  <1>10. Lineas'
    <2> SUFFICES ASSUME NEW v \in Vidas, NEW m \in ToSet(tx'[v]), m.clase # "GET_NODES"
                 PROVE  m.job \in Ids
      BY DEF Lineas
    <2>1. CASE v = n
      BY <2>1, <1>6
    <2>2. CASE v # n
      BY <2>2, <1>5 DEF IInv, Lineas
    <2> QED
      BY <2>1, <2>2
  <1>11. Futuras'
    <2>1. \A v \in Vidas : v > n => tx'[v] = << >> /\ rx'[v] = << >>
      <3> SUFFICES ASSUME NEW v \in Vidas, v > n PROVE tx'[v] = << >> /\ rx'[v] = << >>
        OBVIOUS
      <3>1. v > vida /\ v # n /\ v # vida
        BY <1>2 DEF Vidas
      <3> QED
        BY <3>1, <1>5 DEF IInv, Futuras
    <2>2. \A e \in tabla : e.conn <= n
      BY <1>2 DEF IInv, Futuras, TipoAgente
    <2> QED
      BY <2>1, <2>2, <1>1 DEF Futuras
  <1>12. CorreoUnico' /\ MapaExacto'
    BY <1>1, <1>6 DEF CorreoUnico, MapaExacto
  <1>13. Consulta'
    BY <1>1, <1>5, <1>6, Vacia DEF Consulta, Una, Hay, Preguntas, Listas
  <1>14. Seguido' /\ Soltados' /\ Prometido'
    BY <1>1, <1>2, <1>6 DEF Seguido, Soltados, Prometido, Va
  <1>15. SoltadoEnCamino'
    <2>1. \A e \in tabla : e.conn # n
      BY <1>2 DEF IInv, Futuras, TipoAgente
    <2> QED
      BY <2>1, <1>1 DEF SoltadoEnCamino
  <1> QED
    BY <1>7, <1>8, <1>9, <1>10, <1>11, <1>12, <1>13, <1>14, <1>15 DEF IInv

LEMMA Quieto == ASSUME IInv, UNCHANGED vars PROVE IInv'
  <1>1. /\ UNCHANGED <<vida, tx, rx, cerrada, agente, tabla, perdidos>>
        /\ UNCHANGED <<fase, quedan, rafagas, contador, mapa, handler, buzon, correo>>
    BY DEF vars, planificador
  <1>2. TipoMaestro' /\ TipoProcesos' /\ TipoRed' /\ TipoAgente' /\ Cuenta' /\ Frescos'
    BY <1>1 DEF IInv, TipoMaestro, TipoProcesos, TipoRed, TipoAgente, Cuenta, Frescos
  <1>3. SinNoticias' /\ Lineas' /\ Futuras' /\ CorreoUnico' /\ MapaExacto' /\ Consulta'
    BY <1>1 DEF IInv, SinNoticias, Lineas, Futuras, CorreoUnico, MapaExacto, Consulta, Va, Viene
  <1>4. Seguido' /\ SoltadoEnCamino' /\ Soltados' /\ Prometido'
    BY <1>1 DEF IInv, Seguido, SoltadoEnCamino, Soltados, Prometido, Enterado, Va, Viene
  <1> QED
    BY <1>2, <1>3, <1>4 DEF IInv

LEMMA Paso == IInv /\ [Next]_vars => IInv'
  <1> SUFFICES ASSUME IInv, [Next]_vars PROVE IInv'
    OBVIOUS
  <1>1. CASE Maestro
    BY <1>1, PasoMaestro
  <1>2. CASE Reiniciar
    BY <1>2, PasoReiniciar
  <1>3. CASE AgenteCae
    BY <1>3, PasoAgenteCae
  <1>4. CASE \E j \in Ids : job_handler(j)
    BY <1>4, PasoHandlerFin, PasoHandlerGranted DEF job_handler
  <1>5. CASE \E v \in Vidas : Agente(v)
    BY <1>5, PasoAgenteNodos, PasoAgentePedido, PasoAgenteSuelta DEF Agente
  <1>6. CASE \E v \in Vidas : AgenteDesconecta(v)
    BY <1>6, PasoAgenteDesconecta
  <1>7. CASE \E e \in tabla : AgenteResuelve(e) \/ AgentePierde(e)
    BY <1>7, PasoAgenteResuelve, PasoAgentePierde
  <1>8. CASE UNCHANGED vars
    BY <1>8, Quieto
  <1> QED
    BY <1>1, <1>2, <1>3, <1>4, <1>5, <1>6, <1>7, <1>8 DEF Next

(* The inductive invariant holds in every state of the planner. *)
THEOREM Induccion == Spec => []IInv
  <1> QED
    BY Inicio, Paso, PTL DEF Spec

(***************************************************************************)
(* The types of the planner's processes, mailboxes and lines; in           *)
(* particular unique_integer never goes past the requests of the bursts    *)
(* launched, so disparar_rafaga only makes ids of Ids.                     *)
(***************************************************************************)
THEOREM Tipos == Spec => []TypeOK
  <1>1. IInv => TypeOK
    <2> SUFFICES ASSUME IInv PROVE TypeOK
      OBVIOUS
    <2>1. contador \in 0 .. RAFAGA * MaxRafagas
      <3>1. /\ contador \in Nat /\ quedan \in Nat /\ rafagas \in 0 .. MaxRafagas
            /\ contador + quedan <= Cupo(rafagas)
        BY Parametros DEF IInv, TipoMaestro, Cuenta
      <3>2. Cupo(rafagas) \in Nat /\ Cupo(MaxRafagas) \in Nat /\ Cupo(rafagas) <= Cupo(MaxRafagas)
        BY <3>1, Cupos
      <3>3. contador \in 0 .. Cupo(MaxRafagas)
        BY <3>1, <3>2
      <3> QED
        BY <3>3 DEF Cupo
    <2> QED
      BY <2>1 DEF IInv, TypeOK, TipoMaestro, TipoProcesos, TipoRed, TipoAgente, LineasTx, LineasRx
  <1> QED
    BY <1>1, Induccion, PTL

(***************************************************************************)
(* HandlersMap holds exactly the jobs whose handler runs or whose          *)
(* {release, j} is unread: when masterloop sees it empty, the burst is over*)
(***************************************************************************)
THEOREM ElMapaEsExacto == Spec => []MapaExacto
  <1>1. IInv => MapaExacto
    BY DEF IInv
  <1> QED
    BY <1>1, Induccion, PTL

(***************************************************************************)
(* The answers that get_nodes_recv throws away are for no running handler. *)
(***************************************************************************)
THEOREM LoTardioEsDeNadie == Spec => []TardioEsDeNadie
  <1>1. IInv => TardioEsDeNadie
    BY DEF IInv, Cuenta, MapaExacto, TardioEsDeNadie
  <1> QED
    BY <1>1, Induccion, PTL

(***************************************************************************)
(* One GET_NODES is outstanding while the master is in get_nodes_recv, and *)
(* none otherwise, in whatever order masterloop and the agent run.         *)
(***************************************************************************)
THEOREM HayUnaConsulta == Spec => []UnaConsulta
  <1>1. IInv => UnaConsulta
    BY DEF IInv, Consulta, UnaConsulta, Una, Hay, ToSet, Preguntas, Listas
  <1> QED
    BY <1>1, Induccion, PTL

(***************************************************************************)
(* A job in the agent's table has a handler in HandlersMap or a JOB_RELEASE*)
(* on the way, whatever its timer did before the agent read the request.   *)
(***************************************************************************)
THEOREM NadaQuedaEnElAgente == Spec => []SoltadoEnCamino
  <1>1. IInv => SoltadoEnCamino
    BY DEF IInv
  <1> QED
    BY <1>1, Induccion, PTL

(***************************************************************************)
(* In the planner's first life, a job_handler that works has its resources *)
(* unless the agent lost a connection the job used, or died.               *)
(***************************************************************************)
THEOREM QuienTrabajaTieneRecursos == Spec => []TrabajaConRecursos
  <1>1. IInv => TrabajaConRecursos
    BY DEF IInv, Prometido, Enterado, TrabajaConRecursos
  <1> QED
    BY <1>1, Induccion, PTL
================================================================================
