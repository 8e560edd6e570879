--------------------------- MODULE GestorHilosProofs ---------------------------
(***************************************************************************)
(* What the workers of an agent keep of a connection that goes away, proved*)
(* for any number of types, jobs, items and units.                         *)
(*                                                                         *)
(* The invariant bounds who may be named where.  A request of a connection *)
(* is in the queue of t only while the connection is open, or while the    *)
(* worker that runs its process_disconnect has that queue left to purge;   *)
(* a job of the client is in the table only while the client's connection  *)
(* is open, or while that worker has the table left to go through.         *)
(* Managers(Q, E) is what the manager may hold under such bounds.  The     *)
(* lemmas say that every operator of Gestor stays within Managers(Q, E)    *)
(* for any Q and E, loops included, and then each step of GestorHilos moves*)
(* the manager from the bounds of one state to those of the next.          *)
(*                                                                         *)
(* A second invariant, KInv, counts: while the client is connected, every  *)
(* local allocation of a job in the table is queued once or lent once, and *)
(* so said in the table, and a job that works waits for nothing.  It is    *)
(* proved for clients that ask an agent for each type at most once in a    *)
(* job (UnoPorTipo), on top of the first.                                  *)
(***************************************************************************)
EXTENDS GestorHilos, InduccionNat

-------------------------------------------------------------------------------
(* The lists. *)

(* Sin leaves out what it is told to, and puts nothing in. *)
LEMMA SinQuita ==
  ASSUME NEW S, NEW s \in Seq(S), NEW fuera
  PROVE  Sin(s, fuera) \in Seq(S \ fuera)
  <1> DEFINE n == Len(s)
             V == Seq(S \ fuera)
             Paso(v, k) == IF s[k] \in fuera THEN v ELSE Append(v, s[k])
             Valor(it, u) == IF u = {} THEN << >> ELSE Paso(it[u \ {Max(u)}], Max(u))
             Solucion(it) == it = [u \in SUBSET (1 .. n) |-> Valor(it, u)]
             h == CHOOSE it : Solucion(it)
             G == [x \in V \X (1 .. n) |-> Paso(x[1], x[2])]
  <1>1. n \in Nat /\ DOMAIN s = 1 .. n
    BY LenProperties
  <1>2. Sin(s, fuera) = h[1 .. n]
    BY <1>1 DEF Sin, FoldLeft, MapThenFoldSet
  <1>3. << >> \in V /\ \A v \in V : \A k \in 1 .. n : Paso(v, k) \in V
    BY <1>1, ElementOfSeq, EmptySeq, AppendProperties
  <1>4. \A v \in V : \A k \in 1 .. n : G[<<v, k>>] = Paso(v, k)
    OBVIOUS
  <1> HIDE DEF n, V, G, Paso
  <1>5. PICK it : EsRecorrido(it, G, V, n, << >>)
    <2>1. NoSale(G, V, n)
      BY <1>3, <1>4, Zenon DEF NoSale
    <2> QED
      BY <1>1, <1>3, <2>1, HayPliegueEn, Zenon
  <1>6. \A u \in SUBSET (1 .. n) : it[u] = Valor(it, u)
    BY <1>4, <1>5, Zenon DEF EsRecorrido
  <1>7. Solucion(it)
    <2> HIDE DEF Valor
    <2> QED
      BY <1>5, <1>6 DEF EsRecorrido
  <1>8. Solucion(h)
    <2> HIDE DEF Solucion
    <2> QED
      BY <1>7
  <1> HIDE DEF h
  <1>9. EnV(h, V, n, << >>)
    <2>1. \A u \in SUBSET (1 .. n) : h[u] = Valor(h, u)
      BY <1>8, Zenon
    <2>2. \A u \in SUBSET (1 .. n) : u # {} => Max(u) \in 1 .. n
      BY <1>5, Zenon DEF EsRecorrido
    <2>3. {} \in SUBSET (1 .. n)
      OBVIOUS
    <2> QED
      BY <1>3, <2>1, <2>2, <2>3, Zenon DEF EnV
  <1>10. h[1 .. n] \in V
    BY <1>1, <1>3, <1>9, SeQueda, Zenon
  <1> QED
    BY <1>2, <1>10 DEF V

-------------------------------------------------------------------------------
(* What a manager holds when the connections in Q[t] may be in the queue   *)
(* of t and those in E may have jobs.  Grants to others, pending requests  *)
(* and the connections table only name the connection to Vecino.           *)

Ips == Nodos \cup {Corte[n] : n \in Nodos}

Clases == {"GRANTED", "DENIED", "JOB_GRANTED", "JOB_DENIED", "RESERVE", "RELEASE"}

Textos == [clase : Clases, job : Jobs] \cup [clase : Clases, job : Jobs, tipo : Tipos, monto : Nat]

Envios == [conn : Conexiones, msg : Textos]

Encoladas(C) == [job : Jobs, monto : Nat, conn : C, origen : {"LOCAL", "REMOTE"}]

Locales == [tipo : Tipos, monto : Nat, lado : {"LOCAL"}, ip : Ips,
            result : {"RM_GRANTED", "RM_QUEUED"}, conn : {ERL}]

Remotas == [tipo : Tipos, monto : Nat, lado : {"REMOTE"}, ip : Ips,
            result : {"RM_GRANTED"}, conn : {Ida}]

Allocs == Locales \cup Remotas

Salientes == [ip : Ips, conn : {Ida}, tipo : Tipos, monto : Nat]

Trabajos(E) == [job : Jobs, conn : E, confirmadas : Seq(Allocs), pendientes : Seq(Salientes)]

Recurso(t, C) == [libre : 0 .. Total[Yo][t], cola : Seq(Encoladas(C))]

Recursos(Q) == {r \in [Tipos -> [libre : Nat, cola : Seq(Encoladas(Conexiones))]] :
                  \A t \in Tipos : r[t] \in Recurso(t, Q[t])}

Conocidas == Seq([ip : Ips, conn : {Ida}])

Managers(Q, E) ==
  [ip : {Yo}, rec : Recursos(Q), tabla : Seq(Trabajos(E)), conns : Conocidas, tx : Seq(Envios),
   abre : {<< >>}, tiene : [Tipos -> [Jobs -> Int]]]

(* The sets the steps choose from. *)
Permisos(Q, E) == Q \in [Tipos -> SUBSET Conexiones] /\ E \subseteq {ERL}

(* A manager with other queues, table, messages or history. *)
LEMMA CambiaRec ==
  ASSUME NEW Q, NEW E, NEW R, NEW x \in Managers(Q, E), NEW r \in Recursos(R)
  PROVE  [x EXCEPT !.rec = r] \in Managers(R, E)
  BY DEF Managers

(* What replaces a field of the manager by one within the bounds leaves it  *)
(* within them.                                                             *)
LEMMA CambiaRecTiene ==
  ASSUME NEW Q, NEW E, NEW x \in Managers(Q, E), NEW r \in Recursos(Q), NEW d \in [Tipos -> [Jobs -> Int]]
  PROVE  [x EXCEPT !.rec = r, !.tiene = d] \in Managers(Q, E)
  BY DEF Managers

(* The same for the jobs table, which may change its owners. *)
LEMMA CambiaTabla ==
  ASSUME NEW Q, NEW E, NEW F, NEW x \in Managers(Q, E), NEW s \in Seq(Trabajos(F))
  PROVE  [x EXCEPT !.tabla = s] \in Managers(Q, F)
  BY DEF Managers

(* The same for what is to be sent. *)
LEMMA CambiaTx ==
  ASSUME NEW Q, NEW E, NEW x \in Managers(Q, E), NEW s \in Seq(Envios)
  PROVE  [x EXCEPT !.tx = s] \in Managers(Q, E)
  BY DEF Managers

(* The same for the connections table. *)
LEMMA CambiaConns ==
  ASSUME NEW Q, NEW E, NEW x \in Managers(Q, E), NEW s \in Conocidas
  PROVE  [x EXCEPT !.conns = s] \in Managers(Q, E)
  BY DEF Managers

(* The fields of a manager. *)
LEMMA Campos ==
  ASSUME NEW Q, NEW E, NEW x \in Managers(Q, E)
  PROVE  /\ x.ip = Yo /\ x.rec \in Recursos(Q) /\ x.tabla \in Seq(Trabajos(E))
         /\ x.conns \in Conocidas /\ x.tx \in Seq(Envios) /\ x.abre = << >>
         /\ x.tiene \in [Tipos -> [Jobs -> Int]]
  BY DEF Managers

(* Sending adds a message. *)
LEMMA Envia ==
  ASSUME NEW Q, NEW E, NEW x \in Managers(Q, E), NEW c \in Conexiones, NEW m \in Textos
  PROVE  send_message(x, c, m) \in Managers(Q, E)
  <1>1. [conn |-> c, msg |-> m] \in Envios
    BY DEF Envios
  <1>2. Append(x.tx, [conn |-> c, msg |-> m]) \in Seq(Envios)
    BY <1>1, Campos, AppendProperties
  <1> QED
    BY <1>2, CambiaTx DEF send_message

(* The messages the handlers make are messages. *)
LEMMA SonTextos ==
  ASSUME NEW k \in Clases, NEW j \in Jobs
  PROVE  /\ Mensaje(k, j) \in Textos
         /\ \A t \in Tipos, m \in Nat : MensajeRecurso(k, j, t, m) \in Textos
  <1>1. Mensaje(k, j) \in [clase : Clases, job : Jobs]
    BY DEF Mensaje
  <1>2. \A t \in Tipos, m \in Nat :
          MensajeRecurso(k, j, t, m) \in [clase : Clases, job : Jobs, tipo : Tipos, monto : Nat]
    BY DEF MensajeRecurso
  <1> QED
    BY <1>1, <1>2, Zenon DEF Textos

(* The units of type t and its queue change, and the history. *)
LEMMA CambiaRecurso ==
  ASSUME NEW Q, NEW E, Permisos(Q, E), NEW x \in Managers(Q, E), NEW t \in Tipos, NEW r \in Recurso(t, Q[t]),
         NEW j \in Jobs, NEW d \in Int
  PROVE  /\ [x EXCEPT !.rec[t] = r] \in Managers(Q, E)
         /\ [x EXCEPT !.rec[t] = r, !.tiene[t][j] = d] \in Managers(Q, E)
  <1>1. x.rec \in Recursos(Q) /\ x.tiene \in [Tipos -> [Jobs -> Int]]
    BY Campos
  <1>2. r \in [libre : Nat, cola : Seq(Encoladas(Conexiones))]
    <2>1. Encoladas(Q[t]) \subseteq Encoladas(Conexiones)
      BY DEF Encoladas, Permisos
    <2>2. r.cola \in Seq(Encoladas(Conexiones))
      BY <2>1, LenProperties, ElementOfSeq DEF Recurso
    <2>3. Total[Yo][t] \in Nat
      BY TotalNatural, Parametros
    <2> QED
      BY <2>2, <2>3 DEF Recurso
  <1>3. [x.rec EXCEPT ![t] = r] \in Recursos(Q)
    BY <1>1, <1>2 DEF Recursos
  <1>4. [x.tiene EXCEPT ![t][j] = d] \in [Tipos -> [Jobs -> Int]]
    BY <1>1
  <1> DEFINE rr == [x.rec EXCEPT ![t] = r]
             dd == [x.tiene EXCEPT ![t][j] = d]
  <1>5. [x EXCEPT !.rec[t] = r] = [x EXCEPT !.rec = rr]
    BY DEF Managers
  <1>6. [x EXCEPT !.rec[t] = r, !.tiene[t][j] = d] = [x EXCEPT !.rec = rr, !.tiene = dd]
    BY DEF Managers
  <1> HIDE DEF rr, dd
  <1>7. [x EXCEPT !.rec = rr, !.tiene = dd] \in Managers(Q, E)
    BY <1>3, <1>4, CambiaRecTiene DEF rr, dd
  <1> QED
    BY <1>3, <1>5, <1>6, <1>7, CambiaRec DEF rr

-------------------------------------------------------------------------------
(* Looking up a job, and the allocation that a grant changes. *)
LEMMA Busca ==
  ASSUME NEW Q, NEW E, NEW x \in Managers(Q, E), NEW j
  PROVE  LET k == tabla_jobs_buscar_por_id(x, j)
         IN  /\ k \in 0 .. Len(x.tabla) /\ Len(x.tabla) \in Nat
             /\ k # 0 => k \in 1 .. Len(x.tabla) /\ x.tabla[k] \in Trabajos(E) /\ x.tabla[k].job = j
  <1> DEFINE I == {i \in 1 .. Len(x.tabla) : x.tabla[i].job = j}
             k == tabla_jobs_buscar_por_id(x, j)
  <1>1. Len(x.tabla) \in Nat /\ \A i \in 1 .. Len(x.tabla) : x.tabla[i] \in Trabajos(E)
    BY Campos, LenProperties, ElementOfSeq
  <1>2. k = IF I # {} THEN Min(I) ELSE 0
    BY DEF tabla_jobs_buscar_por_id, SelectInSeq
  <1>3. I # {} => Min(I) \in I
    BY <1>1, ElMenor
  <1> HIDE DEF k
  <1>4. k \in 0 .. Len(x.tabla) /\ (k # 0 => k \in 1 .. Len(x.tabla) /\ x.tabla[k].job = j)
    BY <1>1, <1>2, <1>3, SMTT(30)
  <1> QED
    BY <1>1, <1>4 DEF k

(* Marking one of a job's allocations granted leaves a job. *)
LEMMA JobOtorgado ==
  ASSUME NEW E, NEW job \in Trabajos(E), NEW c, NEW t
  PROVE  Otorgado(job, c, t) \in Trabajos(E)
  <1> DEFINE s == job.confirmadas
             I == {i \in 1 .. Len(s) : s[i].lado = "LOCAL" /\ s[i].conn = c /\ s[i].tipo = t}
             i == IF I # {} THEN Min(I) ELSE 0
             a == [s[i] EXCEPT !.result = "RM_GRANTED"]
             s2 == [s EXCEPT ![i] = a]
  <1>1. Otorgado(job, c, t) =
          IF i = 0 THEN job ELSE [job EXCEPT !.confirmadas[i].result = "RM_GRANTED"]
    BY DEF Otorgado, SelectInSeq
  <1>2. s \in Seq(Allocs)
    BY DEF Trabajos
  <1>3. CASE i = 0
    BY <1>1, <1>3, Zenon
  <1>4. CASE i # 0
    <2>1. i \in 1 .. Len(s) /\ s[i] \in Allocs /\ s[i].lado = "LOCAL"
      <3>1. Len(s) \in Nat
        BY <1>2, LenProperties
      <3>2. I # {} /\ i = Min(I)
        BY <1>4
      <3>3. Min(I) \in I
        BY <3>1, <3>2, ElMenor, Zenon
      <3> QED
        BY <1>2, <3>2, <3>3, ElementOfSeq
    <2>2. a \in Allocs
      BY <2>1, Zenon DEF Allocs, Locales, Remotas
    <2>3. [job EXCEPT !.confirmadas[i].result = "RM_GRANTED"] = [job EXCEPT !.confirmadas = s2]
      BY DEF a
    <2> HIDE DEF a, i, I
    <2>4. s2 \in Seq(Allocs)
      BY <1>2, <2>1, <2>2
    <2>5. [job EXCEPT !.confirmadas = s2] \in Trabajos(E)
      <3> HIDE DEF s2
      <3> QED
        BY <2>4 DEF Trabajos
    <2> QED
      BY <1>1, <1>4, <2>3, <2>5, Zenon
  <1> QED
    BY <1>3, <1>4

(* In the table, it touches nothing else of the manager. *)
LEMMA CambiaAlloc ==
  ASSUME NEW Q, NEW E, NEW x \in Managers(Q, E), NEW j, NEW c, NEW t
  PROVE  /\ tabla_jobs_cambio_alloc(x, j, c, t) \in Managers(Q, E)
         /\ tabla_jobs_cambio_alloc(x, j, c, t).rec = x.rec
  <1> DEFINE k == tabla_jobs_buscar_por_id(x, j)
             job == Otorgado(x.tabla[k], c, t)
             tabla2 == [x.tabla EXCEPT ![k] = job]
             y == tabla_jobs_cambio_alloc(x, j, c, t)
  <1>1. y = IF k = 0 THEN x ELSE [x EXCEPT !.tabla = tabla2]
    BY DEF tabla_jobs_cambio_alloc
  <1>2. CASE k = 0
    BY <1>1, <1>2
  <1>3. CASE k # 0
    <2>1. k \in 1 .. Len(x.tabla) /\ x.tabla[k] \in Trabajos(E)
      BY <1>3, Busca
    <2>2. job \in Trabajos(E)
      BY <2>1, JobOtorgado
    <2>3. tabla2 \in Seq(Trabajos(E))
      <3>1. x.tabla \in Seq(Trabajos(E))
        BY Campos
      <3> HIDE DEF job, k
      <3> QED
        BY <2>1, <2>2, <3>1
    <2>4. [x EXCEPT !.tabla = tabla2] \in Managers(Q, E)
      <3> HIDE DEF tabla2
      <3> QED
        BY <2>3, CambiaTabla
    <2>5. [x EXCEPT !.tabla = tabla2].rec = x.rec
      <3> HIDE DEF tabla2
      <3> QED
        BY DEF Managers
    <2> HIDE DEF tabla2, k
    <2> QED
      BY <1>1, <1>3, <2>4, <2>5
  <1> QED
    BY <1>2, <1>3

-------------------------------------------------------------------------------
(* release_resource. *)

(* Serving the head takes it out of the queue; the other queues stay. *)
LEMMA Sirve ==
  ASSUME NEW Q, NEW E, Permisos(Q, E), NEW t \in Tipos, NEW x \in Managers(Q, E),
         NEW p \in Encoladas(Q[t]), x.rec[t].libre >= p.monto, Len(x.rec[t].cola) # 0
  PROVE  /\ Desencolar(x, t, p) \in Managers(Q, E)
         /\ Len(Desencolar(x, t, p).rec[t].cola) = Len(x.rec[t].cola) - 1
  <1> DEFINE s == x.rec[t]
             r == [s EXCEPT !.libre = @ - p.monto, !.cola = Tail(@)]
             d == x.tiene[t][p.job] + p.monto
             servido == [x EXCEPT !.rec[t].libre = @ - p.monto, !.rec[t].cola = Tail(@),
                                  !.tiene[t][p.job] = @ + p.monto]
             marcado == tabla_jobs_cambio_alloc(servido, p.job, p.conn, t)
  <1>1. s \in Recurso(t, Q[t]) /\ x.rec \in Recursos(Q) /\ x.tiene \in [Tipos -> [Jobs -> Int]]
    BY Campos DEF Recursos
  <1>2. p.job \in Jobs /\ p.monto \in Nat /\ p.conn \in Conexiones
    BY DEF Encoladas, Permisos
  <1>3. Tail(s.cola) \in Seq(Encoladas(Q[t])) /\ Len(Tail(s.cola)) = Len(s.cola) - 1
    <2>1. s.cola \in Seq(Encoladas(Q[t])) /\ s.cola # << >>
      BY <1>1 DEF Recurso
    <2> QED
      BY <2>1, HeadTailProperties
  <1>4. r \in Recurso(t, Q[t]) /\ d \in Int /\ r.cola = Tail(s.cola)
    <2>1. Total[Yo][t] \in Nat
      BY TotalNatural, Parametros
    <2>2. s.libre - p.monto \in 0 .. Total[Yo][t]
      <3>1. s.libre \in 0 .. Total[Yo][t] /\ s.libre >= p.monto
        BY <1>1 DEF Recurso
      <3> HIDE DEF s
      <3> QED
        BY <1>2, <2>1, <3>1
    <2> DEFINE q == Tail(s.cola)
               l == s.libre - p.monto
    <2>3. r \in [libre : 0 .. Total[Yo][t], cola : Seq(Encoladas(Q[t]))] /\ r.cola = q
      <3>1. s \in [libre : 0 .. Total[Yo][t], cola : Seq(Encoladas(Q[t]))]
        BY <1>1 DEF Recurso
      <3>2. q \in Seq(Encoladas(Q[t])) /\ l \in 0 .. Total[Yo][t]
        BY <1>3, <2>2
      <3>3. r = [s EXCEPT !.libre = l, !.cola = q]
        <4> HIDE DEF s
        <4> QED
          BY <3>1
      <3> HIDE DEF r, q, l, s
      <3> QED
        BY <3>1, <3>2, <3>3
    <2>4. d \in Int
      BY <1>1, <1>2
    <2> HIDE DEF s, r, d
    <2> QED
      BY <2>3, <2>4 DEF Recurso
  <1>5. servido = [x EXCEPT !.rec[t] = r, !.tiene[t][p.job] = d] /\ servido.rec[t] = r
    BY <1>1, <1>2 DEF Managers, Recursos
  <1> HIDE DEF r, d, servido
  <1>6. servido \in Managers(Q, E)
    BY <1>2, <1>4, <1>5, CambiaRecurso
  <1>7. marcado \in Managers(Q, E) /\ marcado.rec = servido.rec
    BY <1>6, CambiaAlloc
  <1>8. \A y, c, m : send_message(y, c, m) = [y EXCEPT !.tx = Append(@, [conn |-> c, msg |-> m])]
    BY DEF send_message
  <1> HIDE DEF marcado
  <1>9. Desencolar(x, t, p) \in {send_message(marcado, p.conn, Mensaje("GRANTED", p.job)),
                                 send_message(marcado, p.conn, Mensaje("JOB_GRANTED", p.job)), marcado}
    BY DEF Desencolar, marcado, servido
  <1>10. ASSUME NEW m \in Textos
         PROVE  send_message(marcado, p.conn, m) \in Managers(Q, E) /\ send_message(marcado, p.conn, m).rec = servido.rec
    <2>1. send_message(marcado, p.conn, m) \in Managers(Q, E)
      BY <1>2, <1>7, <1>10, Envia
    <2> QED
      BY <1>7, <2>1 DEF send_message, Managers
  <1>11. Mensaje("GRANTED", p.job) \in Textos /\ Mensaje("JOB_GRANTED", p.job) \in Textos
    <2>1. "GRANTED" \in Clases /\ "JOB_GRANTED" \in Clases
      BY DEF Clases
    <2> QED
      BY <1>2, <2>1, SonTextos, Zenon
  <1>12. Desencolar(x, t, p) \in Managers(Q, E) /\ Desencolar(x, t, p).rec = servido.rec
    BY <1>7, <1>9, <1>10, <1>11, Zenon
  <1> QED
    BY <1>3, <1>4, <1>5, <1>12

(* One turn of the loop of release_resource. *)
Turno(t, v, p) ==
  IF v.sigue /\ v.nd.rec[t].libre >= p.monto
  THEN [v EXCEPT !.nd = Desencolar(@, t, p)]
  ELSE [v EXCEPT !.sigue = FALSE]

Turnos(t, s, W) == \A k \in 1 .. Len(s) : \A v \in W[k - 1] : Turno(t, v, s[k]) \in W[k]

(* The loop of release_resource ends within the bounds, and in whatever R   *)
(* holds at its end if no turn leaves R.                                    *)
LEMMA RecorreCola ==
  ASSUME NEW Q, NEW E, Permisos(Q, E), NEW t \in Tipos, NEW x \in Managers(Q, E)
  PROVE  /\ Atender(x, t) \in Managers(Q, E)
         /\ \A R : [nd |-> x, sigue |-> TRUE] \in R[0] /\ Turnos(t, x.rec[t].cola, R) =>
              \E v \in R[Len(x.rec[t].cola)] : Atender(x, t) = v.nd
  <1> DEFINE s == x.rec[t].cola
             n == Len(s)
             b == [nd |-> x, sigue |-> TRUE]
             V == [nd : Managers(Q, E), sigue : BOOLEAN]
             W == [k \in 0 .. n |-> {v \in V : v.sigue => Len(v.nd.rec[t].cola) >= n - k}]
             Paso(v, k) == Turno(t, v, s[k])
             Valor(it, u) == IF u = {} THEN b ELSE Paso(it[u \ {Max(u)}], Max(u))
             Solucion(it) == it = [u \in SUBSET (1 .. n) |-> Valor(it, u)]
             h == CHOOSE it : Solucion(it)
             G == [y \in V \X (1 .. n) |-> Paso(y[1], y[2])]
  <1>0. s \in Seq(Encoladas(Q[t]))
    BY Campos DEF Recursos, Recurso
  <1>1. n \in Nat /\ DOMAIN s = 1 .. n /\ \A k \in 1 .. n : s[k] \in Encoladas(Q[t])
    BY <1>0, LenProperties, ElementOfSeq
  <1>2. Atender(x, t) = h[1 .. n].nd
    BY <1>1 DEF Atender, FoldLeft, MapThenFoldSet, Turno
  <1>3. b \in W[0]
    <2>1. b \in V /\ (b.sigue => Len(b.nd.rec[t].cola) >= n - 0) /\ 0 \in 0 .. n
      BY <1>1
    <2> HIDE DEF b, V, n, s
    <2> QED
      BY <2>1
  <1>4. /\ W[n] \subseteq V /\ \A k \in 1 .. n : W[k - 1] \subseteq V
        /\ \A k \in 1 .. n : \A v \in V : G[<<v, k>>] = Paso(v, k)
    <2>1. \A k \in 0 .. n : W[k] \subseteq V
      <3> HIDE DEF V, n, s
      <3> QED
        OBVIOUS
    <2>2. n \in 0 .. n /\ \A k \in 1 .. n : k - 1 \in 0 .. n
      BY <1>1
    <2>3. \A k \in 1 .. n : \A v \in V : G[<<v, k>>] = Paso(v, k)
      <3> HIDE DEF V, n, Paso
      <3> QED
        OBVIOUS
    <2> HIDE DEF W, V, n, G, Paso
    <2> QED
      BY <2>1, <2>2, <2>3
  <1>5. ASSUME NEW k \in 1 .. n, NEW v \in W[k - 1] PROVE v \in W[k] /\ Paso(v, k) \in W[k]
    <2>1. k - 1 \in 0 .. n /\ k \in 0 .. n /\ n \in Int /\ k \in Int
      BY <1>1
    <2>2. v \in V /\ (v.sigue => Len(v.nd.rec[t].cola) >= n - (k - 1))
      BY <2>1
    <2> DEFINE y == v.nd
               l == Len(y.rec[t].cola)
    <2>3. y \in Managers(Q, E) /\ l \in Nat
      <3>1. y \in Managers(Q, E)
        BY <2>2
      <3>2. y.rec[t].cola \in Seq(Encoladas(Q[t]))
        BY <3>1, Campos DEF Recursos, Recurso
      <3> QED
        BY <3>1, <3>2, LenProperties
    <2> HIDE DEF s, n, V
    <2>4. v \in W[k]
      BY <2>1, <2>2, <2>3
    <2>5. CASE v.sigue /\ y.rec[t].libre >= s[k].monto
      <3> DEFINE z == Desencolar(y, t, s[k])
      <3>1. l >= n - (k - 1) /\ n - (k - 1) > 0
        BY <2>1, <2>2, <2>5, <1>1
      <3>2. z \in Managers(Q, E) /\ Len(z.rec[t].cola) = l - 1
        BY <3>1, <2>3, <2>5, <1>1, Sirve
      <3>3. Len(z.rec[t].cola) >= n - k
        <4> HIDE DEF z, l, y
        <4> QED
          BY <3>1, <3>2, <2>1, <2>3
      <3>4. Paso(v, k) = [v EXCEPT !.nd = z]
        BY <2>5 DEF Turno
      <3> HIDE DEF z
      <3>5. [v EXCEPT !.nd = z] \in V /\ [v EXCEPT !.nd = z].nd = z
        BY <2>2, <3>2 DEF V
      <3> QED
        BY <2>1, <2>4, <3>3, <3>4, <3>5
    <2>6. CASE ~(v.sigue /\ y.rec[t].libre >= s[k].monto)
      <3>1. Paso(v, k) = [v EXCEPT !.sigue = FALSE]
        BY <2>6 DEF Turno
      <3>2. [v EXCEPT !.sigue = FALSE] \in V /\ [v EXCEPT !.sigue = FALSE].sigue = FALSE
        BY <2>2 DEF V
      <3> QED
        BY <2>1, <2>4, <3>1, <3>2
    <2> QED
      BY <2>4, <2>5, <2>6
  <1>6. Turnos(t, s, W) /\ \A R : Turnos(t, s, R) <=> \A k \in 1 .. n : \A v \in R[k - 1] : Paso(v, k) \in R[k]
    <2>1. \A R : Turnos(t, s, R) <=> \A k \in 1 .. n : \A v \in R[k - 1] : Paso(v, k) \in R[k]
      BY DEF Turnos
    <2> HIDE DEF n, s, V, W, Paso
    <2> QED
      BY <1>5, <2>1, Zenon
  <1> HIDE DEF s, n, V, W, G, Paso, b
  <1>7. PICK it : EsPliegue(it, G, W, n, b)
    <2>1. Pliega(G, W, n)
      <3>1. ASSUME NEW k \in 1 .. n
            PROVE  W[k - 1] \subseteq W[k] /\ \A v \in W[k - 1] : G[<<v, k>>] \in W[k]
        <4>1. \A v \in W[k - 1] : v \in W[k] /\ v \in V /\ Paso(v, k) \in W[k]
          BY <1>4, <1>5, Zenon
        <4>2. \A v \in V : G[<<v, k>>] = Paso(v, k)
          BY <1>4, Zenon
        <4> QED
          BY <4>1, <4>2, Zenon
      <3> QED
        BY <3>1, Zenon DEF Pliega
    <2> QED
      BY <1>1, <1>3, <2>1, HayPliegue, Zenon
  <1>8. \A u \in SUBSET (1 .. n) : u # {} => Max(u) \in 1 .. n
    <2> SUFFICES ASSUME NEW u \in SUBSET (1 .. n), u # {} PROVE Max(u) \in 1 .. n
      OBVIOUS
    <2>1. Max(u) \in u
      BY <1>1, ElMayor, Zenon
    <2> QED
      BY <2>1
  <1>9. Solucion(it)
    <2>1. \A u \in SUBSET (1 .. n) : it[u] = Valor(it, u)
      BY <1>4, <1>7, <1>8, Zenon DEF EsPliegue
    <2>2. it = [u \in SUBSET (1 .. n) |-> it[u]]
      BY <1>7 DEF EsPliegue
    <2> HIDE DEF Valor
    <2> QED
      BY <2>1, <2>2
  <1>10. Solucion(h)
    <2> HIDE DEF Solucion
    <2> QED
      BY <1>9
  <1> HIDE DEF h
  <1>11. ASSUME NEW R, b \in R[0], Turnos(t, s, R) PROVE h[1 .. n] \in R[n]
    <2>1. \A u \in SUBSET (1 .. n) : h[u] = Valor(h, u)
      BY <1>10, Zenon
    <2>2. {} \in SUBSET (1 .. n)
      OBVIOUS
    <2>3. h[{}] = b
      BY <2>1, <2>2, Zenon
    <2>4. ASSUME NEW u \in SUBSET (1 .. n), u # {}, h[u \ {Max(u)}] \in R[Max(u) - 1]
          PROVE  h[u] \in R[Max(u)]
      <3>1. h[u] = Paso(h[u \ {Max(u)}], Max(u))
        BY <2>1, <2>4, Zenon
      <3>2. Paso(h[u \ {Max(u)}], Max(u)) \in R[Max(u)]
        BY <1>6, <1>8, <1>11, <2>4, Zenon
      <3> QED
        BY <3>1, <3>2, Zenon
    <2>5. EnW(h, R, n, b)
      BY <2>3, <2>4, Zenon DEF EnW
    <2> QED
      BY <1>1, <1>11, <2>5, LlegaAlFin, Zenon
  <1>12. Atender(x, t) \in Managers(Q, E)
    <2>1. h[1 .. n] \in V
      BY <1>3, <1>4, <1>6, <1>11, Zenon
    <2> QED
      BY <1>2, <2>1 DEF V
  <1>13. ASSUME NEW R, b \in R[0], Turnos(t, s, R)
         PROVE  \E v \in R[n] : Atender(x, t) = v.nd
    BY <1>2, <1>11, <1>13, Zenon
  <1> QED
    BY <1>12, <1>13, Zenon DEF s, n, b

(* The loop of release_resource stays within the bounds. *)
LEMMA Atiende ==
  ASSUME NEW Q, NEW E, Permisos(Q, E), NEW t \in Tipos, NEW x \in Managers(Q, E)
  PROVE  Atender(x, t) \in Managers(Q, E)
  BY RecorreCola

(* release_resource keeps the units within the total. *)
LEMMA Libera ==
  ASSUME NEW Q, NEW E, Permisos(Q, E), NEW t \in Tipos, NEW m \in Nat, NEW j \in Jobs, NEW x \in Managers(Q, E)
  PROVE  release_resource(x, t, m, j) \in Managers(Q, E)
  <1> DEFINE s == x.rec[t]
             l == s.libre + m
             r == [s EXCEPT !.libre = l]
             d == x.tiene[t][j] - m
             y == [x EXCEPT !.rec[t].libre = @ + m, !.tiene[t][j] = @ - m]
  <1>1. s \in Recurso(t, Q[t]) /\ x.ip = Yo /\ x.tiene \in [Tipos -> [Jobs -> Int]] /\ Total[Yo][t] \in Nat
    BY Campos, TotalNatural, Parametros DEF Recursos
  <1>2. ASSUME l <= Total[x.ip][t] PROVE y \in Managers(Q, E)
    <2>1. l \in 0 .. Total[Yo][t]
      <3>1. s.libre \in Nat
        BY <1>1 DEF Recurso
      <3> HIDE DEF s
      <3> QED
        BY <3>1, <1>1, <1>2
    <2>2. r \in Recurso(t, Q[t]) /\ d \in Int
      <3> HIDE DEF s, l
      <3> QED
        BY <1>1, <2>1 DEF Recurso
    <2>3. y = [x EXCEPT !.rec[t] = r, !.tiene[t][j] = d]
      BY DEF Managers, Recursos
    <2> HIDE DEF r, d, y
    <2> QED
      BY <2>2, <2>3, CambiaRecurso
  <1>3. CASE l <= Total[x.ip][t]
    <2>1. release_resource(x, t, m, j) = Atender(y, t)
      BY <1>3 DEF release_resource
    <2> HIDE DEF y, l
    <2> QED
      BY <1>2, <1>3, <2>1, Atiende
  <1>4. CASE ~(l <= Total[x.ip][t])
    BY <1>4 DEF release_resource
  <1> HIDE DEF y, l
  <1> QED
    BY <1>3, <1>4

-------------------------------------------------------------------------------
(* The walks over the allocations, and the purges. *)

(* The connections table knows the connection to Vecino and no other. *)
LEMMA BuscaConn ==
  ASSUME NEW Q, NEW E, NEW x \in Managers(Q, E), NEW ip
  PROVE  tabla_conns_lookup(x, ip) \in {NULL, Ida}
  <1> DEFINE I == {i \in 1 .. Len(x.conns) : x.conns[i].ip = ip}
             k == IF I # {} THEN Min(I) ELSE 0
  <1>1. tabla_conns_lookup(x, ip) = IF k = 0 THEN NULL ELSE x.conns[k].conn
    BY DEF tabla_conns_lookup, SelectInSeq
  <1>2. x.conns \in Seq([ip : Ips, conn : {Ida}])
    BY Campos DEF Conocidas
  <1>3. k # 0 => k \in 1 .. Len(x.conns)
    <2>1. Len(x.conns) \in Nat
      BY <1>2, LenProperties
    <2>2. I # {} => Min(I) \in I
      BY <2>1, ElMenor
    <2> QED
      BY <2>2
  <1>4. k # 0 => x.conns[k] \in [ip : Ips, conn : {Ida}]
    BY <1>2, <1>3, ElementOfSeq
  <1> HIDE DEF k
  <1> QED
    BY <1>1, <1>4

(* The purge of the queues by job. *)
LEMMA LimpiaPorId ==
  ASSUME NEW Q, NEW E, Permisos(Q, E), NEW x \in Managers(Q, E), NEW j
  PROVE  limpiar_colas_por_id(x, j) \in Managers(Q, E)
  <1> DEFINE r == [t \in Tipos |-> [x.rec[t] EXCEPT !.cola = Sin(@, DeJob(@, j))]]
  <1>1. limpiar_colas_por_id(x, j) = [x EXCEPT !.rec = r]
    BY DEF limpiar_colas_por_id
  <1>2. ASSUME NEW t \in Tipos PROVE r[t] \in Recurso(t, Q[t]) /\ r[t] \in [libre : Nat, cola : Seq(Encoladas(Conexiones))]
    <2> DEFINE s == x.rec[t]
               q == Sin(s.cola, DeJob(s.cola, j))
    <2>1. s \in Recurso(t, Q[t]) /\ s \in [libre : Nat, cola : Seq(Encoladas(Conexiones))]
      BY Campos DEF Recursos
    <2>2. \A S : s.cola \in Seq(S) => q \in Seq(S)
      <3> SUFFICES ASSUME NEW S, s.cola \in Seq(S) PROVE q \in Seq(S)
        OBVIOUS
      <3>1. q \in Seq(S \ DeJob(s.cola, j))
        BY SinQuita
      <3> HIDE DEF q
      <3> QED
        BY <3>1
    <2>3. r[t] = [s EXCEPT !.cola = q]
      OBVIOUS
    <2>4. q \in Seq(Encoladas(Q[t])) /\ q \in Seq(Encoladas(Conexiones))
      BY <2>1, <2>2 DEF Recurso
    <2> HIDE DEF s, q, r
    <2> QED
      BY <2>1, <2>3, <2>4 DEF Recurso
  <1>3. r \in Recursos(Q)
    <2> SUFFICES r \in [Tipos -> [libre : Nat, cola : Seq(Encoladas(Conexiones))]]
      BY <1>2 DEF Recursos
    <2>1. r = [t \in Tipos |-> r[t]]
      OBVIOUS
    <2> HIDE DEF r
    <2> QED
      BY <1>2, <2>1
  <1> HIDE DEF r
  <1> QED
    BY <1>1, <1>3, CambiaRec

(* One turn of the walk over the allocations. *)
Devuelve(x, j, a) ==
  IF a.lado = "LOCAL"
  THEN IF a.result = "RM_GRANTED"
       THEN release_resource(x, a.tipo, a.monto, j) ELSE x
  ELSE LET c == tabla_conns_lookup(x, a.ip)
       IN  IF c = NULL THEN x
           ELSE send_message(x, c, MensajeRecurso("RELEASE", j, a.tipo, a.monto))

(* LiberarAllocs does not leave a set that returning one allocation does    *)
(* not leave.                                                               *)
LEMMA RecorreAllocs ==
  ASSUME NEW V, NEW j, NEW y \in V, NEW allocs \in Seq(Allocs),
         \A x \in V : \A k \in DOMAIN allocs : Devuelve(x, j, allocs[k]) \in V
  PROVE  LiberarAllocs(y, j, allocs) \in V
  <1> DEFINE n == Len(allocs)
             Paso(v, k) == Devuelve(v, j, allocs[k])
             Valor(it, u) == IF u = {} THEN y ELSE Paso(it[u \ {Max(u)}], Max(u))
             Solucion(it) == it = [u \in SUBSET (1 .. n) |-> Valor(it, u)]
             h == CHOOSE it : Solucion(it)
             G == [x \in V \X (1 .. n) |-> Paso(x[1], x[2])]
  <1>1. n \in Nat /\ DOMAIN allocs = 1 .. n
    BY LenProperties
  <1>2. LiberarAllocs(y, j, allocs) = h[1 .. n]
    BY <1>1 DEF LiberarAllocs, FoldLeft, MapThenFoldSet, Devuelve
  <1>3. y \in V /\ \A v \in V : \A k \in 1 .. n : Paso(v, k) \in V
    BY <1>1
  <1>4. \A v \in V : \A k \in 1 .. n : G[<<v, k>>] = Paso(v, k)
    OBVIOUS
  <1> HIDE DEF n, G, Paso
  <1>5. PICK it : EsRecorrido(it, G, V, n, y)
    <2>1. NoSale(G, V, n)
      BY <1>3, <1>4, Zenon DEF NoSale
    <2> QED
      BY <1>1, <1>3, <2>1, HayPliegueEn, Zenon
  <1>6. \A u \in SUBSET (1 .. n) : it[u] = Valor(it, u)
    BY <1>4, <1>5, Zenon DEF EsRecorrido
  <1>7. Solucion(it)
    <2> HIDE DEF Valor
    <2> QED
      BY <1>5, <1>6 DEF EsRecorrido
  <1>8. Solucion(h)
    <2> HIDE DEF Solucion
    <2> QED
      BY <1>7
  <1> HIDE DEF h
  <1>9. EnV(h, V, n, y)
    <2>1. \A u \in SUBSET (1 .. n) : h[u] = Valor(h, u)
      BY <1>8, Zenon
    <2>2. \A u \in SUBSET (1 .. n) : u # {} => Max(u) \in 1 .. n
      BY <1>5, Zenon DEF EsRecorrido
    <2>3. {} \in SUBSET (1 .. n)
      OBVIOUS
    <2> QED
      BY <1>3, <2>1, <2>2, <2>3, Zenon DEF EnV
  <1>10. h[1 .. n] \in V
    BY <1>1, <1>3, <1>9, SeQueda, Zenon
  <1> QED
    BY <1>2, <1>10

(* LiberarAllocs stays within the bounds. *)
LEMMA LiberaAllocs ==
  ASSUME NEW Q, NEW E, Permisos(Q, E), NEW j \in Jobs, NEW y \in Managers(Q, E), NEW allocs \in Seq(Allocs)
  PROVE  LiberarAllocs(y, j, allocs) \in Managers(Q, E)
  <1>1. ASSUME NEW x \in Managers(Q, E), NEW k \in DOMAIN allocs
        PROVE  Devuelve(x, j, allocs[k]) \in Managers(Q, E)
    <2> DEFINE a == allocs[k]
               c == tabla_conns_lookup(x, a.ip)
               m == MensajeRecurso("RELEASE", j, a.tipo, a.monto)
    <2>1. a \in Allocs
      BY LenProperties, ElementOfSeq
    <2> HIDE DEF a
    <2>2. a.tipo \in Tipos /\ a.monto \in Nat
      BY <2>1 DEF Allocs, Locales, Remotas
    <2>3. release_resource(x, a.tipo, a.monto, j) \in Managers(Q, E)
      BY <2>2, Libera
    <2>4. c \in {NULL, Ida} /\ m \in Textos
      <3>1. "RELEASE" \in Clases
        BY DEF Clases
      <3>2. m \in Textos
        BY <2>2, <3>1, SonTextos, Zenon
      <3> QED
        BY <3>2, BuscaConn
    <2> HIDE DEF m, c
    <2>5. c # NULL => send_message(x, c, m) \in Managers(Q, E)
      BY <2>4, Envia DEF Conexiones
    <2> QED
      BY <2>3, <2>5, Zenon DEF Devuelve, a, m, c
  <1> QED
    BY <1>1, RecorreAllocs, Zenon

(* What is left when one element leaves a list. *)
LEMMA QuitaTrabajo ==
  ASSUME NEW S, NEW s \in Seq(S), NEW k \in 1 .. Len(s)
  PROVE  RemoveAt(s, k) \in Seq(S)
  <1>1. Len(s) \in Nat /\ \A i \in 1 .. Len(s) : s[i] \in S
    BY LenProperties, ElementOfSeq
  <1>2. SubSeq(s, 1, k - 1) \in Seq(S) /\ SubSeq(s, k + 1, Len(s)) \in Seq(S)
    BY <1>1, SubSeqProperties
  <1> QED
    BY <1>2, ConcatProperties DEF RemoveAt

(* tabla_jobs_remove. *)
LEMMA Remueve ==
  ASSUME NEW Q, NEW E, Permisos(Q, E), NEW x \in Managers(Q, E), NEW j \in Jobs
  PROVE  tabla_jobs_remove(x, j) \in Managers(Q, E)
  <1> DEFINE k == tabla_jobs_buscar_por_id(x, j)
             s == RemoveAt(x.tabla, k)
             y == [x EXCEPT !.tabla = s]
  <1>1. tabla_jobs_remove(x, j) = IF k = 0 THEN x ELSE LiberarAllocs(y, j, x.tabla[k].confirmadas)
    BY DEF tabla_jobs_remove
  <1>2. k # 0 => k \in 1 .. Len(x.tabla) /\ x.tabla[k] \in Trabajos(E)
    BY Busca
  <1>3. k # 0 => s \in Seq(Trabajos(E)) /\ x.tabla[k].confirmadas \in Seq(Allocs)
    BY <1>2, Campos, QuitaTrabajo DEF Trabajos
  <1> HIDE DEF s, k
  <1>4. k # 0 => y \in Managers(Q, E)
    BY <1>3, CambiaTabla
  <1> HIDE DEF y
  <1> QED
    BY <1>1, <1>3, <1>4, LiberaAllocs

-------------------------------------------------------------------------------
(* The handlers. *)

(* reserve_resource queues nobody but who asks. *)
LEMMA Reserva ==
  ASSUME NEW Q, NEW E, Permisos(Q, E), NEW x \in Managers(Q, E), NEW t \in Tipos, NEW m \in Nat,
         NEW j \in Jobs, NEW c \in Q[t], NEW origen \in {"LOCAL", "REMOTE"}
  PROVE  LET r == reserve_resource(x, t, m, j, c, origen)
         IN  r.result \in {"RM_GRANTED", "RM_DENIED", "RM_QUEUED"} /\ r.nd \in Managers(Q, E)
  <1> DEFINE s == x.rec[t]
             rr == reserve_resource(x, t, m, j, c, origen)
  <1>1. s \in Recurso(t, Q[t]) /\ x.tiene \in [Tipos -> [Jobs -> Int]] /\ Total[Yo][t] \in Nat
    BY Campos, TotalNatural, Parametros DEF Recursos
  <1>2. CASE s.libre >= m
    <2> DEFINE l == s.libre - m
               q == [s EXCEPT !.libre = l]
               d == x.tiene[t][j] + m
               y == [x EXCEPT !.rec[t].libre = @ - m, !.tiene[t][j] = @ + m]
    <2>1. rr = [result |-> "RM_GRANTED", nd |-> y]
      BY <1>2 DEF reserve_resource
    <2>2. y = [x EXCEPT !.rec[t] = q, !.tiene[t][j] = d]
      BY DEF Managers, Recursos
    <2>3. l \in 0 .. Total[Yo][t]
      <3>1. s.libre \in 0 .. Total[Yo][t]
        BY <1>1 DEF Recurso
      <3> HIDE DEF s
      <3> QED
        BY <3>1, <1>1, <1>2
    <2>4. q \in Recurso(t, Q[t]) /\ d \in Int
      <3> HIDE DEF s, l
      <3> QED
        BY <1>1, <2>3 DEF Recurso
    <2> HIDE DEF y, q, d, l, rr
    <2>5. y \in Managers(Q, E)
      BY <2>2, <2>4, CambiaRecurso
    <2> QED
      BY <2>1, <2>5 DEF rr
  <1>3. CASE ~(s.libre >= m) /\ Total[x.ip][t] < m
    BY <1>3 DEF reserve_resource
  <1>4. CASE ~(s.libre >= m) /\ ~(Total[x.ip][t] < m)
    <2> DEFINE p == [job |-> j, monto |-> m, conn |-> c, origen |-> origen]
               l == Append(s.cola, p)
               q == [s EXCEPT !.cola = l]
               y == [x EXCEPT !.rec[t].cola = Append(@, p)]
    <2>1. rr = [result |-> "RM_QUEUED", nd |-> y]
      BY <1>4 DEF reserve_resource
    <2>2. y = [x EXCEPT !.rec[t] = q]
      BY DEF Managers, Recursos
    <2>3. l \in Seq(Encoladas(Q[t]))
      <3>1. s.cola \in Seq(Encoladas(Q[t])) /\ p \in Encoladas(Q[t])
        BY <1>1 DEF Recurso, Encoladas
      <3> HIDE DEF s, p
      <3> QED
        BY <3>1, AppendProperties
    <2>4. q \in Recurso(t, Q[t])
      <3> HIDE DEF s, l
      <3> QED
        BY <1>1, <2>3 DEF Recurso
    <2> HIDE DEF y, q, l, rr
    <2>5. y \in Managers(Q, E)
      <3>1. 0 \in Int
        OBVIOUS
      <3> QED
        BY <2>2, <2>4, <3>1, CambiaRecurso
    <2> QED
      BY <2>1, <2>5 DEF rr
  <1> QED
    BY <1>2, <1>3, <1>4

(* The answers. *)
LEMMA Palabras ==
  ASSUME NEW j \in Jobs
  PROVE  /\ Mensaje("GRANTED", j) \in Textos /\ Mensaje("DENIED", j) \in Textos
         /\ Mensaje("JOB_GRANTED", j) \in Textos /\ Mensaje("JOB_DENIED", j) \in Textos
  <1>1. {"GRANTED", "DENIED", "JOB_GRANTED", "JOB_DENIED"} \subseteq Clases
    BY DEF Clases
  <1>2. \A k \in Clases : Mensaje(k, j) \in Textos
    BY SonTextos, Zenon
  <1> QED
    BY <1>1, <1>2, Zenon

(* What a RESERVE of Vecino leaves. *)
LEMMA ReservaAjena ==
  ASSUME NEW Q, NEW E, Permisos(Q, E), NEW x \in Managers(Q, E), NEW t \in Tipos, NEW m \in Nat,
         NEW j \in Jobs, Vuelta \in Q[t]
  PROVE  RESERVE(x, Vuelta, MensajeRecurso("RESERVE", j, t, m)) \in Managers(Q, E)
  <1> DEFINE r == reserve_resource(x, t, m, j, Vuelta, "REMOTE")
  <1>1. r.nd \in Managers(Q, E)
    BY Reserva
  <1>2. RESERVE(x, Vuelta, MensajeRecurso("RESERVE", j, t, m))
          \in {send_message(r.nd, Vuelta, Mensaje("DENIED", j)),
               send_message(r.nd, Vuelta, Mensaje("GRANTED", j)), r.nd}
    BY DEF RESERVE, MensajeRecurso
  <1> HIDE DEF r
  <1>3. \A a \in Textos : send_message(r.nd, Vuelta, a) \in Managers(Q, E)
    <2>1. Vuelta \in Conexiones
      BY DEF Conexiones
    <2> QED
      BY <1>1, <2>1, Envia, Zenon
  <1> QED
    BY <1>1, <1>2, <1>3, Palabras, Zenon

(* A JOB_REQUEST under way. *)
Accs(Q, E) == [nd : Managers(Q, E), confirmadas : Seq(Allocs), pendientes : Seq(Salientes),
               sigue : BOOLEAN, n : {0}]

Items == [ip : Nodos, tipo : Tipos, monto : Nat \ {0}]

(* A JOB_REQUEST that is given up. *)
LEMMA Aborta ==
  ASSUME NEW Q, NEW E, Permisos(Q, E), NEW acc \in Accs(Q, E), NEW j \in Jobs
  PROVE  AbortarPedido(acc, j) \in Accs(Q, E)
  <1> DEFINE x == limpiar_colas_por_id(acc.nd, j)
             y == LiberarAllocs(x, j, acc.confirmadas)
             z == send_message(y, ERL, Mensaje("JOB_DENIED", j))
  <1>1. x \in Managers(Q, E)
    BY LimpiaPorId DEF Accs
  <1>2. y \in Managers(Q, E)
    <2>1. acc.confirmadas \in Seq(Allocs)
      BY DEF Accs
    <2> HIDE DEF x
    <2> QED
      BY <1>1, <2>1, LiberaAllocs
  <1>3. z \in Managers(Q, E)
    <2> HIDE DEF y
    <2> QED
      BY <1>2, Palabras, Envia DEF Conexiones
  <1>4. AbortarPedido(acc, j) = [acc EXCEPT !.sigue = FALSE, !.nd = z]
    BY DEF AbortarPedido
  <1> HIDE DEF z
  <1> QED
    BY <1>3, <1>4 DEF Accs

(* An item of a JOB_REQUEST for this agent. *)
LEMMA PideLocal ==
  ASSUME NEW Q, NEW E, Permisos(Q, E), NEW acc \in Accs(Q, E), NEW j \in Jobs, NEW it \in Items, ERL \in Q[it.tipo]
  PROVE  PedidoLocal(acc, j, it) \in Accs(Q, E)
  <1> DEFINE r == reserve_resource(acc.nd, it.tipo, it.monto, j, ERL, "LOCAL")
             nueva == [tipo |-> it.tipo, monto |-> it.monto, lado |-> "LOCAL",
                       ip |-> it.ip, result |-> r.result, conn |-> ERL]
             s == <<nueva>> \o acc.confirmadas
  <1>1. it.tipo \in Tipos /\ it.monto \in Nat /\ it.ip \in Ips /\ acc.nd \in Managers(Q, E)
        /\ acc.confirmadas \in Seq(Allocs)
    BY DEF Items, Ips, Accs
  <1>2. r.result \in {"RM_GRANTED", "RM_DENIED", "RM_QUEUED"} /\ r.nd \in Managers(Q, E)
    BY <1>1, Reserva
  <1>3. PedidoLocal(acc, j, it) = IF r.result = "RM_DENIED" THEN AbortarPedido(acc, j)
                                  ELSE [acc EXCEPT !.nd = r.nd, !.confirmadas = <<nueva>> \o @]
    BY DEF PedidoLocal
  <1> HIDE DEF r
  <1>4. CASE r.result = "RM_DENIED"
    BY <1>3, <1>4, Aborta
  <1>5. CASE r.result # "RM_DENIED"
    <2>1. nueva \in Locales
      BY <1>1, <1>2, <1>5 DEF Locales
    <2>2. s \in Seq(Allocs)
      <3>1. nueva \in Allocs
        BY <2>1, Zenon DEF Allocs
      <3> HIDE DEF nueva
      <3>2. <<nueva>> \in Seq(Allocs)
        BY <3>1
      <3> QED
        BY <1>1, <3>2, ConcatProperties
    <2>3. [acc EXCEPT !.nd = r.nd, !.confirmadas = <<nueva>> \o @] = [acc EXCEPT !.nd = r.nd, !.confirmadas = s]
      <3> HIDE DEF nueva
      <3> QED
        BY DEF Accs
    <2> HIDE DEF s, nueva
    <2>4. [acc EXCEPT !.nd = r.nd, !.confirmadas = s] \in Accs(Q, E)
      BY <1>2, <2>2 DEF Accs
    <2> QED
      BY <1>3, <1>5, <2>3, <2>4 DEF s, nueva
  <1> QED
    BY <1>4, <1>5

(* An item for another agent: what is pending names the connection to Vecino. *)
LEMMA PideRemoto ==
  ASSUME NEW Q, NEW E, Permisos(Q, E), NEW acc \in Accs(Q, E), NEW j \in Jobs, NEW it \in Items
  PROVE  PedidoRemoto(acc, j, it, {}) \in Accs(Q, E)
  <1> DEFINE c == tabla_conns_lookup(acc.nd, it.ip)
             m == MensajeRecurso("RESERVE", j, it.tipo, it.monto)
             r == crear_outrequest(it.ip, c, it.tipo, it.monto)
             x == send_message(acc.nd, c, m)
             s == <<r>> \o acc.pendientes
  <1>1. it.tipo \in Tipos /\ it.monto \in Nat /\ it.ip \in Nodos /\ acc.nd \in Managers(Q, E)
        /\ acc.pendientes \in Seq(Salientes)
    BY DEF Items, Accs
  <1>2. c \in {NULL, Ida}
    BY <1>1, BuscaConn
  <1>3. PedidoRemoto(acc, j, it, {}) = IF c # NULL
          THEN [acc EXCEPT !.nd = send_message(@, c, m), !.pendientes = <<r>> \o @]
          ELSE AbortarPedido(acc, j)
    BY DEF PedidoRemoto
  <1> HIDE DEF c
  <1>4. CASE c = NULL
    BY <1>3, <1>4, Aborta
  <1>5. CASE c # NULL
    <2>1. c \in Conexiones /\ m \in Textos
      <3>1. "RESERVE" \in Clases
        BY DEF Clases
      <3>2. m \in Textos
        BY <1>1, <3>1, SonTextos, Zenon
      <3> QED
        BY <1>2, <1>5, <3>2 DEF Conexiones
    <2>2. x \in Managers(Q, E)
      <3> HIDE DEF m
      <3> QED
        BY <1>1, <2>1, Envia
    <2>3. r \in Salientes
      BY <1>1, <1>2, <1>5, CorteDeCadaNodo DEF Salientes, crear_outrequest, Ips
    <2>4. s \in Seq(Salientes)
      <3> HIDE DEF r
      <3>1. <<r>> \in Seq(Salientes)
        BY <2>3
      <3> QED
        BY <1>1, <3>1, ConcatProperties
    <2>5. [acc EXCEPT !.nd = send_message(@, c, m), !.pendientes = <<r>> \o @] = [acc EXCEPT !.nd = x, !.pendientes = s]
      <3> HIDE DEF r, m
      <3> QED
        BY DEF Accs
    <2>6. [acc EXCEPT !.nd = x, !.pendientes = s] \in Accs(Q, E)
      <3> HIDE DEF s, x
      <3> QED
        BY <2>2, <2>4 DEF Accs
    <2> HIDE DEF r, m, x, s
    <2> QED
      BY <1>3, <1>5, <2>5, <2>6 DEF r, m
  <1> QED
    BY <1>4, <1>5

-------------------------------------------------------------------------------
(* The answers of Vecino. *)

(* SetToSeq lists a finite set. *)
LEMMA Lista ==
  /\ SetToSeq(Tipos) \in Seq(Tipos)
  /\ \A t \in Tipos : \E i \in DOMAIN SetToSeq(Tipos) : SetToSeq(Tipos)[i] = t
  <1> DEFINE C == Cardinality(Tipos)
             f == SetToSeq(Tipos)
  <1>1. IsFiniteSet(Tipos) /\ C \in Nat /\ ExistsBijection(1 .. C, Tipos)
    BY Parametros, FS_CardinalityType
  <1>2. \E g \in [1 .. C -> Tipos] : IsInjective(g)
    BY <1>1 DEF ExistsBijection, Bijection, Injection
  <1>3. f \in [1 .. C -> Tipos] /\ IsInjective(f)
    BY <1>2 DEF SetToSeq
  <1> HIDE DEF f
  <1>4. f \in Injection(1 .. C, Tipos)
    BY <1>3 DEF Injection
  <1>5. Cardinality(1 .. C) = C
    <2>1. Cardinality(1 .. C) = IF 1 > C THEN 0 ELSE C - 1 + 1
      BY <1>1, FS_Interval
    <2> QED
      BY <1>1, <2>1
  <1>6. f \in Surjection(1 .. C, Tipos)
    BY <1>1, <1>4, <1>5, FS_Injection
  <1>7. f \in Seq(Tipos) /\ DOMAIN f = 1 .. C
    BY <1>1, <1>3
  <1> QED
    BY <1>6, <1>7 DEF Surjection, f

(* A grant turns a pending request into an allocation on its connection. *)
LEMMA Confirma ==
  ASSUME NEW Q, NEW E, NEW x \in Managers(Q, E), NEW k \in 1 .. Len(x.tabla), NEW ip
  PROVE  job_confirmar(x, k, ip) \in Managers(Q, E)
  <1> DEFINE job == x.tabla[k]
             s == job.pendientes
             I == {i \in 1 .. Len(s) : s[i].ip = ip}
             i == IF I # {} THEN Min(I) ELSE 0
             r == s[i]
             nueva == [tipo |-> r.tipo, monto |-> r.monto, lado |-> "REMOTE", ip |-> r.ip,
                       result |-> "RM_GRANTED", conn |-> r.conn]
             p == RemoveAt(s, i)
             q == <<nueva>> \o job.confirmadas
             job2 == [job EXCEPT !.pendientes = p, !.confirmadas = q]
             tabla2 == [x.tabla EXCEPT ![k] = job2]
             y == [x EXCEPT !.tabla[k].pendientes = RemoveAt(job.pendientes, i),
                            !.tabla[k].confirmadas = <<nueva>> \o @]
  <1>1. job_confirmar(x, k, ip) = IF i = 0 THEN x ELSE y
    BY DEF job_confirmar, SelectInSeq
  <1>2. x.tabla \in Seq(Trabajos(E)) /\ job \in Trabajos(E)
    BY Campos, ElementOfSeq
  <1>3. s \in Seq(Salientes) /\ job.confirmadas \in Seq(Allocs)
    BY <1>2 DEF Trabajos
  <1>4. i # 0 => i \in 1 .. Len(s)
    <2>1. Len(s) \in Nat
      BY <1>3, LenProperties
    <2>2. I # {} => Min(I) \in I
      BY <2>1, ElMenor
    <2> QED
      BY <2>2
  <1>5. CASE i = 0
    BY <1>1, <1>5, Zenon
  <1>6. CASE i # 0
    <2> HIDE DEF i
    <2>1. r \in Salientes
      BY <1>3, <1>4, <1>6, ElementOfSeq
    <2>2. p \in Seq(Salientes)
      BY <1>3, <1>4, <1>6, QuitaTrabajo
    <2>3. q \in Seq(Allocs)
      <3>1. nueva \in Remotas
        <4> HIDE DEF r
        <4> QED
          BY <2>1 DEF Salientes, Remotas
      <3>2. nueva \in Allocs
        BY <3>1, Zenon DEF Allocs
      <3> HIDE DEF nueva
      <3>3. <<nueva>> \in Seq(Allocs)
        BY <3>2
      <3> QED
        BY <1>3, <3>3, ConcatProperties
    <2>4. job2 \in Trabajos(E)
      <3> HIDE DEF job, p, q
      <3> QED
        BY <1>2, <2>2, <2>3 DEF Trabajos
    <2>5. tabla2 \in Seq(Trabajos(E))
      <3> HIDE DEF job2
      <3> QED
        BY <1>2, <2>4
    <2>6. y = [x EXCEPT !.tabla = tabla2]
      <3>1. [job EXCEPT !.pendientes = p, !.confirmadas = <<nueva>> \o @] = job2
        <4> HIDE DEF nueva, p
        <4> QED
          BY <1>2 DEF Trabajos
      <3> HIDE DEF nueva
      <3> QED
        BY <1>2, <3>1 DEF Managers, Trabajos
    <2> HIDE DEF tabla2, y
    <2>7. [x EXCEPT !.tabla = tabla2] \in Managers(Q, E)
      BY <2>5, CambiaTabla
    <2> QED
      BY <1>1, <1>6, <2>6, <2>7 DEF i
  <1> QED
    BY <1>5, <1>6

(* The messages that give nothing back, one for each type. *)
LEMMA RecorreNada ==
  ASSUME NEW V, NEW y \in V, NEW c, NEW j,
         \A x \in V : \A t \in Tipos : send_message(x, c, MensajeRecurso("RELEASE", j, t, 0)) \in V
  PROVE  DevolverNada(y, c, j) \in V
  <1> DEFINE ts == SetToSeq(Tipos)
             n == Len(ts)
             Paso(v, k) == send_message(v, c, MensajeRecurso("RELEASE", j, ts[k], 0))
             Valor(it, u) == IF u = {} THEN y ELSE Paso(it[u \ {Max(u)}], Max(u))
             Solucion(it) == it = [u \in SUBSET (1 .. n) |-> Valor(it, u)]
             h == CHOOSE it : Solucion(it)
             G == [x \in V \X (1 .. n) |-> Paso(x[1], x[2])]
  <1>1. n \in Nat /\ DOMAIN ts = 1 .. n
    BY Lista, LenProperties
  <1>2. DevolverNada(y, c, j) = h[1 .. n]
    BY <1>1 DEF DevolverNada, FoldLeft, MapThenFoldSet
  <1>3. y \in V /\ \A v \in V : \A k \in 1 .. n : Paso(v, k) \in V
    <2>1. \A k \in 1 .. n : ts[k] \in Tipos
      BY <1>1, Lista, ElementOfSeq
    <2> HIDE DEF ts
    <2> QED
      BY <2>1
  <1>4. \A v \in V : \A k \in 1 .. n : G[<<v, k>>] = Paso(v, k)
    OBVIOUS
  <1> HIDE DEF n, G, Paso
  <1>5. PICK it : EsRecorrido(it, G, V, n, y)
    <2>1. NoSale(G, V, n)
      BY <1>3, <1>4, Zenon DEF NoSale
    <2> QED
      BY <1>1, <1>3, <2>1, HayPliegueEn, Zenon
  <1>6. \A u \in SUBSET (1 .. n) : it[u] = Valor(it, u)
    BY <1>4, <1>5, Zenon DEF EsRecorrido
  <1>7. Solucion(it)
    <2> HIDE DEF Valor
    <2> QED
      BY <1>5, <1>6 DEF EsRecorrido
  <1>8. Solucion(h)
    <2> HIDE DEF Solucion
    <2> QED
      BY <1>7
  <1> HIDE DEF h
  <1>9. EnV(h, V, n, y)
    <2>1. \A u \in SUBSET (1 .. n) : h[u] = Valor(h, u)
      BY <1>8, Zenon
    <2>2. \A u \in SUBSET (1 .. n) : u # {} => Max(u) \in 1 .. n
      BY <1>5, Zenon DEF EsRecorrido
    <2>3. {} \in SUBSET (1 .. n)
      OBVIOUS
    <2> QED
      BY <1>3, <2>1, <2>2, <2>3, Zenon DEF EnV
  <1>10. h[1 .. n] \in V
    BY <1>1, <1>3, <1>9, SeQueda, Zenon
  <1> QED
    BY <1>2, <1>10

(* The RELEASEs of nothing that a late GRANTED is answered with. *)
LEMMA DevuelveNada ==
  ASSUME NEW Q, NEW E, Permisos(Q, E), NEW j \in Jobs, NEW y \in Managers(Q, E), NEW c \in Conexiones
  PROVE  DevolverNada(y, c, j) \in Managers(Q, E)
  <1>1. ASSUME NEW x \in Managers(Q, E), NEW t \in Tipos
        PROVE  send_message(x, c, MensajeRecurso("RELEASE", j, t, 0)) \in Managers(Q, E)
    <2>1. "RELEASE" \in Clases /\ 0 \in Nat
      BY DEF Clases
    <2>2. MensajeRecurso("RELEASE", j, t, 0) \in Textos
      BY <2>1, SonTextos, Zenon
    <2> QED
      BY <2>2, Envia, Zenon
  <1> QED
    BY <1>1, RecorreNada, Zenon

(* GRANTED. *)
LEMMA Concede ==
  ASSUME NEW Q, NEW E, Permisos(Q, E), NEW x \in Managers(Q, E), NEW j \in Jobs
  PROVE  GRANTED(x, Ida, Mensaje("GRANTED", j)) \in Managers(Q, E)
  <1> DEFINE k == tabla_jobs_buscar_por_id(x, j)
             y == job_confirmar(x, k, tabla_conns_get_ip_by_conn(x, Ida))
             c == x.tabla[k].conn
  <1>1. GRANTED(x, Ida, Mensaje("GRANTED", j))
          \in {x, IF k = 0 THEN DevolverNada(x, Ida, j) ELSE y,
               IF k = 0 THEN DevolverNada(x, Ida, j) ELSE send_message(y, c, Mensaje("JOB_GRANTED", j))}
    BY DEF GRANTED, Mensaje
  <1>2. k # 0 => k \in 1 .. Len(x.tabla) /\ x.tabla[k] \in Trabajos(E)
    BY Busca
  <1>3. k # 0 => c \in Conexiones
    <2> HIDE DEF k
    <2> QED
      BY <1>2 DEF Trabajos, Permisos, Conexiones
  <1> HIDE DEF c, k
  <1>4. k # 0 => y \in Managers(Q, E)
    BY <1>2, Confirma
  <1> HIDE DEF y
  <1>5. k # 0 => send_message(y, c, Mensaje("JOB_GRANTED", j)) \in Managers(Q, E)
    BY <1>3, <1>4, Palabras, Envia
  <1>6. DevolverNada(x, Ida, j) \in Managers(Q, E)
    BY DevuelveNada DEF Conexiones
  <1> QED
    BY <1>1, <1>4, <1>5, <1>6, Zenon

(* DENIED. *)
LEMMA Deniega ==
  ASSUME NEW Q, NEW E, Permisos(Q, E), NEW x \in Managers(Q, E), NEW j \in Jobs
  PROVE  DENIED(x, Ida, Mensaje("DENIED", j)) \in Managers(Q, E)
  <1> DEFINE k == tabla_jobs_buscar_por_id(x, j)
             c == x.tabla[k].conn
             y == tabla_jobs_remove(x, j)
             z == IF k = 0 THEN x ELSE send_message(y, c, Mensaje("JOB_DENIED", j))
  <1>1. DENIED(x, Ida, Mensaje("DENIED", j)) = limpiar_colas_por_id(z, j)
    BY DEF DENIED, Mensaje
  <1>2. k # 0 => x.tabla[k] \in Trabajos(E)
    BY Busca
  <1>3. k # 0 => c \in Conexiones
    <2> HIDE DEF k
    <2> QED
      BY <1>2 DEF Trabajos, Permisos, Conexiones
  <1>4. y \in Managers(Q, E)
    BY Remueve
  <1> HIDE DEF c, k, y
  <1>5. z \in Managers(Q, E)
    BY <1>3, <1>4, Palabras, Envia
  <1> HIDE DEF z
  <1> QED
    BY <1>1, <1>5, LimpiaPorId

-------------------------------------------------------------------------------
(* What the workers still have to do. *)

Comunes ==
  [op : {"devolver"}, tipo : Tipos, monto : Nat, job : Jobs]
    \cup [op : {"purgar"}, tipo : Tipos, job : Jobs]
    \cup [op : {"avisar"}, conn : {Ida}, tipo : Tipos, monto : Nat, job : Jobs]
    \cup [op : {"avisarA"}, ip : Ips, tipo : Tipos, monto : Nat, job : Jobs]
    \cup [op : {"quitar"}, job : Jobs]

Abiertas == Comunes \cup [op : {"item"}, job : Propios, it : Items] \cup [op : {"insertar"}, job : Propios]

Cerrando == Comunes \cup [op : {"purgarConn"}, tipo : Tipos] \cup [op : {"extraer", "borrar"}]

(* The tasks are tasks. *)
LEMMA SonComunes ==
  ASSUME NEW t \in Tipos, NEW m \in Nat, NEW j \in Jobs
  PROVE  /\ devolver(t, m, j) \in Comunes /\ purgar(t, j) \in Comunes
         /\ \A a \in Allocs \cup Comunes, c \in {Ida} : a.tipo = t /\ a.monto = m => avisar(c, a, j) \in Comunes
         /\ \A ip \in Ips : [op |-> "avisarA", ip |-> ip, tipo |-> t, monto |-> m, job |-> j] \in Comunes
         /\ [op |-> "quitar", job |-> j] \in Comunes
  <1>1. devolver(t, m, j) \in [op : {"devolver"}, tipo : Tipos, monto : Nat, job : Jobs]
    BY DEF devolver
  <1>2. purgar(t, j) \in [op : {"purgar"}, tipo : Tipos, job : Jobs]
    BY DEF purgar
  <1>3. \A a \in Allocs \cup Comunes, c \in {Ida} : a.tipo = t /\ a.monto = m =>
          avisar(c, a, j) \in [op : {"avisar"}, conn : {Ida}, tipo : Tipos, monto : Nat, job : Jobs]
    BY DEF avisar
  <1>4. \A ip \in Ips : [op |-> "avisarA", ip |-> ip, tipo |-> t, monto |-> m, job |-> j]
          \in [op : {"avisarA"}, ip : Ips, tipo : Tipos, monto : Nat, job : Jobs]
    OBVIOUS
  <1>5. [op |-> "quitar", job |-> j] \in [op : {"quitar"}, job : Jobs]
    OBVIOUS
  <1> QED
    BY <1>1, <1>2, <1>3, <1>4, <1>5, Zenon DEF Comunes

(* One purge for every type. *)
LEMMA SonPurgas ==
  ASSUME NEW j \in Jobs
  PROVE  Purgas(j) \in Seq(Comunes)
  <1> DEFINE ts == SetToSeq(Tipos)
  <1>1. ts \in Seq(Tipos) /\ Len(ts) \in Nat /\ DOMAIN ts = 1 .. Len(ts)
    BY Lista, LenProperties
  <1>2. \A i \in DOMAIN ts : ts[i] \in Tipos
    BY <1>1
  <1>3. 0 \in Nat
    OBVIOUS
  <1> HIDE DEF ts
  <1>4. \A i \in DOMAIN ts : purgar(ts[i], j) \in Comunes
    BY <1>2, <1>3, SonComunes, Zenon
  <1>5. Purgas(j) = [i \in DOMAIN ts |-> purgar(ts[i], j)]
    BY DEF Purgas, ts
  <1> QED
    BY <1>1, <1>4, <1>5

(* One allocation: its fields and where it is. *)
LEMMA DeAlloc ==
  ASSUME NEW a \in Allocs
  PROVE  /\ a.tipo \in Tipos /\ a.monto \in Nat /\ a.ip \in Ips
         /\ a.lado \in {"LOCAL", "REMOTE"} /\ (a.lado = "REMOTE" => a.conn = Ida)
         /\ a.conn \in {ERL, Ida}
  BY DEF Allocs, Locales, Remotas

(* Lists of tasks, one after the other, are a list of tasks. *)
LEMMA Aplana ==
  ASSUME NEW S, NEW ss \in Seq(Seq(S))
  PROVE  FlattenSeq(ss) \in Seq(S)
  BY Posiciones

(* The tasks of JOB_RELEASE name no connection but the one to Vecino. *)
LEMMA SonTareasPropias ==
  ASSUME NEW j \in Jobs, NEW allocs \in Seq(Allocs)
  PROVE  TareasPropias(j, allocs) \in Seq(Comunes)
  <1> DEFINE T(a) == IF a.lado = "LOCAL" /\ a.result = "RM_GRANTED"
                     THEN <<devolver(a.tipo, a.monto, j)>>
                     ELSE Purgas(j) \o IF a.lado = "REMOTE" THEN <<avisar(a.conn, a, j)>> ELSE << >>
             ss == [i \in DOMAIN allocs |-> T(allocs[i])]
  <1>1. Len(allocs) \in Nat /\ DOMAIN allocs = 1 .. Len(allocs) /\ \A i \in DOMAIN allocs : allocs[i] \in Allocs
    BY LenProperties, ElementOfSeq
  <1>2. ASSUME NEW a \in Allocs PROVE T(a) \in Seq(Comunes)
    <2>1. a.tipo \in Tipos /\ a.monto \in Nat /\ (a.lado = "REMOTE" => a.conn \in {Ida})
      BY DeAlloc
    <2>2. devolver(a.tipo, a.monto, j) \in Comunes /\ (a.lado = "REMOTE" => avisar(a.conn, a, j) \in Comunes)
      BY <2>1, SonComunes, Zenon
    <2> DEFINE u == <<devolver(a.tipo, a.monto, j)>>
               v == IF a.lado = "REMOTE" THEN <<avisar(a.conn, a, j)>> ELSE << >>
    <2>3. u \in Seq(Comunes) /\ v \in Seq(Comunes)
      BY <2>2
    <2> HIDE DEF u, v
    <2>4. Purgas(j) \o v \in Seq(Comunes)
      BY <2>3, SonPurgas, ConcatProperties
    <2> QED
      BY <2>3, <2>4, Zenon DEF u, v
  <1> HIDE DEF T
  <1>3. ss \in Seq(Seq(Comunes))
    BY <1>1, <1>2
  <1>4. TareasPropias(j, allocs) = FlattenSeq(ss)
    BY DEF TareasPropias, T
  <1> QED
    BY <1>3, <1>4, Aplana, Zenon

(* The tasks of the other walks name no connection at all. *)
LEMMA SonTareas ==
  ASSUME NEW j \in Jobs, NEW allocs \in Seq(Allocs)
  PROVE  Tareas(j, allocs) \in Seq(Comunes)
  <1> DEFINE U(a) == [op |-> "avisarA", ip |-> a.ip, tipo |-> a.tipo, monto |-> a.monto, job |-> j]
             T(a) == IF a.lado = "REMOTE"
                     THEN <<[op |-> "avisarA", ip |-> a.ip, tipo |-> a.tipo, monto |-> a.monto, job |-> j]>>
                     ELSE IF a.result = "RM_GRANTED" THEN <<devolver(a.tipo, a.monto, j)>> ELSE << >>
             ss == [i \in DOMAIN allocs |-> T(allocs[i])]
  <1>1. Len(allocs) \in Nat /\ DOMAIN allocs = 1 .. Len(allocs) /\ \A i \in DOMAIN allocs : allocs[i] \in Allocs
    BY LenProperties, ElementOfSeq
  <1>2. ASSUME NEW a \in Allocs PROVE T(a) \in Seq(Comunes)
    <2>1. a.tipo \in Tipos /\ a.monto \in Nat /\ a.ip \in Ips
      BY DeAlloc
    <2>2. devolver(a.tipo, a.monto, j) \in Comunes /\ U(a) \in Comunes
      BY <2>1, SonComunes, Zenon
    <2> HIDE DEF U
    <2>3. <<devolver(a.tipo, a.monto, j)>> \in Seq(Comunes) /\ <<U(a)>> \in Seq(Comunes) /\ << >> \in Seq(Comunes)
      BY <2>2
    <2> QED
      BY <2>3, Zenon DEF U
  <1> HIDE DEF T
  <1>3. ss \in Seq(Seq(Comunes))
    BY <1>1, <1>2
  <1>4. Tareas(j, allocs) = FlattenSeq(ss)
    BY DEF Tareas, T
  <1> QED
    BY <1>3, <1>4, Aplana, Zenon

(* The jobs that go with a connection leave none of it in the table. *)
LEMMA Extrae ==
  ASSUME NEW Q, NEW E, NEW x \in Managers(Q, E), NEW c
  PROVE  LET e == tabla_jobs_extract_by_remote_conn(x, c)
         IN  /\ e.nd = [x EXCEPT !.tabla = e.nd.tabla] /\ e.nd \in Managers(Q, E \ {c})
             /\ e.extraidos \in Seq(Trabajos(E))
  <1> DEFINE tabla == x.tabla
             podada == [i \in DOMAIN tabla |-> SinAllocsDe(tabla[i], c)]
             S == Trabajos(E) \cap ToSet(podada)
             afectados == {y \in ToSet(podada) : Afectado(y, c)}
             s == Sin(podada, afectados)
             q == Sin(podada, ToSet(podada) \ afectados)
             e == tabla_jobs_extract_by_remote_conn(x, c)
  <1>1. e = [nd |-> [x EXCEPT !.tabla = s], extraidos |-> Reverse(q)]
    BY DEF tabla_jobs_extract_by_remote_conn
  <1>2. tabla \in Seq(Trabajos(E)) /\ Len(tabla) \in Nat /\ DOMAIN tabla = 1 .. Len(tabla)
        /\ \A i \in DOMAIN tabla : tabla[i] \in Trabajos(E)
    BY Campos, LenProperties, ElementOfSeq
  <1>3. ASSUME NEW y \in Trabajos(E) PROVE SinAllocsDe(y, c) \in Trabajos(E)
    <2> DEFINE fuera == {a \in DeConn(y.confirmadas, c) : a.lado = "REMOTE"}
               z == Sin(y.confirmadas, fuera)
    <2>1. y.confirmadas \in Seq(Allocs)
      BY DEF Trabajos
    <2> HIDE DEF fuera
    <2>2. z \in Seq(Allocs \ fuera)
      BY <2>1, SinQuita
    <2> HIDE DEF z
    <2>3. z \in Seq(Allocs)
      BY <2>2
    <2>4. SinAllocsDe(y, c) = [y EXCEPT !.confirmadas = z]
      BY DEF SinAllocsDe, z, fuera
    <2> QED
      BY <2>3, <2>4 DEF Trabajos
  <1> HIDE DEF tabla
  <1>4. podada \in Seq(S)
    <2>1. DOMAIN podada = 1 .. Len(tabla)
      BY <1>2
    <2>2. \A i \in 1 .. Len(tabla) : podada[i] \in S
      BY <1>2, <1>3 DEF ToSet
    <2>3. podada = [i \in 1 .. Len(tabla) |-> podada[i]]
      BY <1>2
    <2> HIDE DEF podada, S
    <2> QED
      BY <1>2, <2>2, <2>3
  <1> HIDE DEF podada
  <1>5. s \in Seq(S \ afectados) /\ q \in Seq(S \ (ToSet(podada) \ afectados))
    <2> HIDE DEF S, afectados
    <2> QED
      BY <1>4, SinQuita
  <1>6. S \ afectados \subseteq Trabajos(E \ {c})
    BY DEF Afectado, Trabajos
  <1> HIDE DEF S, afectados, s, q
  <1>7. s \in Seq(Trabajos(E \ {c}))
    <2> DEFINE A == S \ afectados
               B == Trabajos(E \ {c})
    <2>1. s \in Seq(A) /\ A \subseteq B
      BY <1>5, <1>6
    <2> HIDE DEF A, B
    <2>2. s \in Seq(B)
      BY <2>1, LenProperties, ElementOfSeq
    <2> QED
      BY <2>2 DEF B
  <1>8. q \in Seq(Trabajos(E))
    BY <1>5 DEF S
  <1>9. Reverse(q) \in Seq(Trabajos(E))
    <2>1. Len(q) \in Nat /\ \A i \in 1 .. Len(q) : q[i] \in Trabajos(E)
      BY <1>8, LenProperties, ElementOfSeq
    <2> HIDE DEF e
    <2> QED
      BY <2>1 DEF Reverse
  <1> HIDE DEF e
  <1>10. [x EXCEPT !.tabla = s] \in Managers(Q, E \ {c})
    BY <1>7, CambiaTabla
  <1>11. [x EXCEPT !.tabla = s].tabla = s
    BY DEF Managers
  <1> QED
    BY <1>1, <1>9, <1>10, <1>11 DEF e

-------------------------------------------------------------------------------
(* The invariant. *)

(* The connections whose requests may be in a queue: those that are open,  *)
(* and those that go away while process_disconnect has that queue to purge.*)
Pueden ==
  [t \in Tipos |-> {c \in Conexiones :
     \/ est[c] = "abierta"
     \/ \E i \in DOMAIN hace[c] : hace[c][i].op = "purgarConn" /\ hace[c][i].tipo = t}]

(* The client's connection owns jobs until its jobs are taken out. *)
Duenos ==
  {c \in {ERL} : est[c] = "abierta" \/ \E i \in DOMAIN hace[c] : hace[c][i].op = "extraer"}

(* The connection leaves the table in the last step of its handler. *)
AlFinal(s) == \A i \in DOMAIN s : s[i].op = "borrar" => i = Len(s)

EnManos ==
  /\ est \in [Conexiones -> {"abierta", "cerrando", "liberada"}]
  /\ Ida \notin Cierran => est[Ida] = "abierta"
  /\ hace \in [Conexiones -> Seq(Abiertas \cup Cerrando)]
  /\ \A c \in Conexiones :
       /\ est[c] = "abierta" => hace[c] \in Seq(Abiertas)
       /\ est[c] = "cerrando" => hace[c] \in Seq(Cerrando) /\ AlFinal(hace[c])
       /\ est[c] = "liberada" => hace[c] = << >>

Gestion == nd \in Managers(Pueden, Duenos) /\ nd.tx = << >>

Armado == armando \in [confirmadas : Seq(Allocs), pendientes : Seq(Salientes)]

Clientes ==
  /\ lock \in {NULL, ERL}
  /\ cliente \in [Propios -> {"nuevo", "esperando", "trabajando", "negado", "fin", "abandonado"}]
  /\ ajeno \in [Ajenos -> {"nuevo", "esperando", "trabajando", "fin"}]
  /\ enVecino \in [Propios -> Nat]

IInv == EnManos /\ Gestion /\ Armado /\ Clientes

(* A list over a set is a list over a larger one. *)
LEMMA Contiene ==
  ASSUME NEW A, NEW B, A \subseteq B, NEW s \in Seq(A)
  PROVE  s \in Seq(B)
  BY LenProperties, ElementOfSeq

(* Who may be in a queue or own a job is a bound. *)
LEMMA Crece ==
  ASSUME NEW Q, NEW E, NEW x \in Managers(Q, E), NEW R, NEW F,
         \A t \in Tipos : Q[t] \subseteq R[t], E \subseteq F
  PROVE  x \in Managers(R, F)
  <1>1. x.rec \in Recursos(Q) /\ x.tabla \in Seq(Trabajos(E))
    BY Campos
  <1>2. ASSUME NEW t \in Tipos PROVE x.rec[t] \in Recurso(t, R[t])
    <2> DEFINE A == Encoladas(Q[t])
               B == Encoladas(R[t])
    <2>1. x.rec[t] \in Recurso(t, Q[t])
      BY <1>1 DEF Recursos
    <2>2. A \subseteq B
      BY DEF Encoladas
    <2>3. x.rec[t].cola \in Seq(A)
      BY <2>1 DEF Recurso
    <2> HIDE DEF A, B
    <2>4. x.rec[t].cola \in Seq(B)
      BY <2>2, <2>3, Contiene
    <2> QED
      BY <2>1, <2>4 DEF Recurso, B
  <1>3. x.rec \in Recursos(R)
    BY <1>1, <1>2 DEF Recursos
  <1>4. x.tabla \in Seq(Trabajos(F))
    <2> DEFINE A == Trabajos(E)
               B == Trabajos(F)
    <2>1. A \subseteq B /\ x.tabla \in Seq(A)
      BY <1>1 DEF Trabajos
    <2> HIDE DEF A, B
    <2>2. x.tabla \in Seq(B)
      BY <2>1, Contiene
    <2> QED
      BY <2>2 DEF B
  <1> QED
    BY <1>3, <1>4 DEF Managers

(* The bounds of a state are bounds. *)
LEMMA SonPermisos ==
  Permisos(Pueden, Duenos)
  BY DEF Permisos, Pueden, Duenos

(* What a worker has once its first task is over and it put others first. *)
LEMMA Resto ==
  ASSUME NEW S, NEW s \in Seq(S), s # << >>, NEW a \in Seq(S)
  PROVE  /\ Head(s) = s[1] /\ s[1] \in S /\ Tail(s) \in Seq(S) /\ << >> \o Tail(s) = Tail(s)
         /\ Len(s) \in Nat /\ Len(s) >= 1 /\ Len(a) \in Nat
         /\ a \o Tail(s) \in Seq(S)
         /\ Len(a \o Tail(s)) = Len(a) + Len(s) - 1
         /\ \A i \in 1 .. Len(a) : (a \o Tail(s))[i] = a[i]
         /\ \A i \in 2 .. Len(s) : (a \o Tail(s))[Len(a) + i - 1] = s[i]
  <1> DEFINE u == Tail(s)
  <1>1. Len(s) \in Nat /\ Len(s) >= 1 /\ Head(s) = s[1] /\ s[1] \in S /\ Len(a) \in Nat
    BY EmptySeq, LenProperties, ElementOfSeq, HeadTailProperties
  <1>2. u \in Seq(S) /\ Len(u) = Len(s) - 1 /\ \A i \in 1 .. Len(u) : u[i] = s[i + 1]
    BY HeadTailProperties
  <1> HIDE DEF u
  <1>3. /\ a \o u \in Seq(S) /\ Len(a \o u) = Len(a) + Len(u)
        /\ \A i \in 1 .. Len(a) : (a \o u)[i] = a[i]
        /\ \A i \in 1 .. Len(u) : (a \o u)[Len(a) + i] = u[i]
    <2>1. u \in Seq(S)
      BY <1>2
    <2>2. a \o u \in Seq(S) /\ Len(a \o u) = Len(a) + Len(u)
      BY <2>1, Pegar
    <2>3. \A i \in 1 .. Len(a) : (a \o u)[i] = a[i]
      BY <2>1, Pegar
    <2>4. \A i \in 1 .. Len(u) : (a \o u)[Len(a) + i] = u[i]
      BY <2>1, Pegar
    <2> QED
      BY <2>2, <2>3, <2>4
  <1>4. << >> \o u = u
    BY <1>2, ConcatEmptySeq
  <1>5. ASSUME NEW i \in 2 .. Len(s) PROVE (a \o u)[Len(a) + i - 1] = s[i]
    <2>1. i - 1 \in 1 .. Len(u) /\ i - 1 + 1 = i /\ Len(a) + (i - 1) = Len(a) + i - 1
      BY <1>1, <1>2
    <2> QED
      BY <1>2, <1>3, <2>1
  <1>6. Len(a \o u) = Len(a) + Len(s) - 1
    BY <1>1, <1>2, <1>3
  <1> QED
    BY <1>1, <1>2, <1>3, <1>4, <1>5, <1>6 DEF u

(* The tasks any worker may have. *)
LEMMA DeComun ==
  ASSUME NEW a \in Comunes
  PROVE  a.op \in {"devolver", "purgar", "avisar", "avisarA", "quitar"}
  BY DEF Comunes

(* Worker c is done with h: nobody else loses a permission. *)
Adelanta(c, h) ==
  /\ EnManos'
  /\ \A t \in Tipos :
       Pueden[t] \ (IF h.op = "purgarConn" /\ h.tipo = t THEN {c} ELSE {}) \subseteq Pueden'[t]
  /\ Duenos \ (IF h.op = "extraer" THEN {c} ELSE {}) \subseteq Duenos'

(* A worker ends its first task and puts others before the rest. *)
LEMMA Avanza ==
  ASSUME EnManos, NEW c \in Conexiones, hace[c] # << >>, Head(hace[c]).op # "borrar",
         NEW a \in Seq(Comunes), Sigue(c, a \o Tail(hace[c])), UNCHANGED est
  PROVE  Adelanta(c, Head(hace[c]))
  <1> DEFINE s == hace[c]
             r == a \o Tail(s)
             A == Abiertas
             C == Cerrando
             U == Abiertas \cup Cerrando
  <1>1. /\ hace \in [Conexiones -> Seq(U)] /\ est' = est
        /\ hace' = [hace EXCEPT ![c] = r]
        /\ est[c] \in {"abierta", "cerrando"} /\ s \in Seq(U) /\ s # << >>
        /\ est[c] = "abierta" => s \in Seq(A)
        /\ est[c] = "cerrando" => s \in Seq(C) /\ AlFinal(s)
    BY DEF EnManos, Sigue
  <1>2. Comunes \subseteq A /\ Comunes \subseteq C /\ Comunes \subseteq U
    BY DEF Abiertas, Cerrando
  <1> HIDE DEF A, C, U
  <1>3. a \in Seq(A) /\ a \in Seq(C) /\ a \in Seq(U)
    BY <1>2, Contiene
  <1> HIDE DEF s
  <1>4. /\ Head(s) = s[1] /\ Len(s) \in Nat /\ Len(s) >= 1 /\ Len(a) \in Nat
        /\ r \in Seq(U) /\ Len(r) = Len(a) + Len(s) - 1
        /\ \A i \in 1 .. Len(a) : r[i] = a[i]
        /\ \A i \in 2 .. Len(s) : r[Len(a) + i - 1] = s[i]
    BY <1>1, <1>3, Resto
  <1>5. est[c] = "abierta" => r \in Seq(A)
    BY <1>1, <1>3, Resto
  <1>6. est[c] = "cerrando" => r \in Seq(C)
    BY <1>1, <1>3, Resto
  <1> HIDE DEF r
  <1>7. DOMAIN s = 1 .. Len(s) /\ DOMAIN r = 1 .. Len(r)
    BY <1>1, <1>4, LenProperties
  <1>8. est[c] = "cerrando" => AlFinal(r)
    <2> SUFFICES ASSUME est[c] = "cerrando", NEW i \in 1 .. Len(r), r[i].op = "borrar"
                 PROVE  i = Len(r)
      BY <1>7 DEF AlFinal
    <2>1. ~(i \in 1 .. Len(a))
      <3> SUFFICES ASSUME i \in 1 .. Len(a) PROVE FALSE
        OBVIOUS
      <3>1. r[i] = a[i] /\ a[i] \in Comunes
        BY <1>4, ElementOfSeq
      <3> QED
        BY <3>1, DeComun
    <2> DEFINE k == i - Len(a) + 1
    <2>2. k \in 2 .. Len(s) /\ Len(a) + k - 1 = i
      BY <1>4, <2>1
    <2>3. s[k].op = "borrar"
      BY <1>4, <2>2
    <2> HIDE DEF k
    <2>4. k \in DOMAIN s /\ AlFinal(s)
      BY <1>1, <1>4, <1>7, <2>2
    <2>5. k = Len(s)
      BY <2>3, <2>4, Zenon DEF AlFinal
    <2> QED
      BY <1>4, <2>2, <2>5, SMTT(30)
  <1>9. EnManos'
    <2>1. hace' \in [Conexiones -> Seq(U)] /\ hace'[c] = r /\ \A d \in Conexiones \ {c} : hace'[d] = hace[d]
      BY <1>1, <1>4
    <2> HIDE DEF AlFinal
    <2>2. /\ est' \in [Conexiones -> {"abierta", "cerrando", "liberada"}] /\ (Ida \notin Cierran => est'[Ida] = "abierta")
      BY <1>1 DEF EnManos
    <2>3. ASSUME NEW d \in Conexiones
          PROVE  /\ est'[d] = "abierta" => hace'[d] \in Seq(Abiertas)
                 /\ est'[d] = "cerrando" => hace'[d] \in Seq(Cerrando) /\ AlFinal(hace'[d])
                 /\ est'[d] = "liberada" => hace'[d] = << >>
      <3>1. CASE d = c
        BY <1>1, <1>5, <1>6, <1>8, <2>1, <3>1 DEF A, C
      <3>2. CASE d # c
        BY <1>1, <2>1, <3>2 DEF EnManos
      <3> QED
        BY <3>1, <3>2
    <2> QED
      BY <2>1, <2>2, <2>3 DEF EnManos, U, AlFinal
  <1>10. ASSUME NEW i \in DOMAIN s, i # 1
         PROVE  \E k \in DOMAIN r : r[k] = s[i]
    <2>1. i \in 2 .. Len(s) /\ Len(a) + i - 1 \in 1 .. Len(r)
      BY <1>4, <1>7, <1>10
    <2> QED
      BY <1>4, <1>7, <2>1
  <1>11. hace[c] = s /\ Head(hace[c]) = s[1] /\ hace'[c] = r
    BY <1>1, <1>4 DEF s
  <1>12. ASSUME NEW t \in Tipos, NEW d \in Pueden[t],
                ~(d = c /\ s[1].op = "purgarConn" /\ s[1].tipo = t)
         PROVE  d \in Pueden'[t]
    <2>1. d \in Conexiones
      BY DEF Pueden
    <2>2. CASE est[d] = "abierta" \/ d # c
      BY <1>1, <2>1, <2>2 DEF Pueden
    <2>3. CASE est[d] # "abierta" /\ d = c
      <3>1. PICK i \in DOMAIN s : s[i].op = "purgarConn" /\ s[i].tipo = t
        BY <1>11, <2>3 DEF Pueden
      <3>2. PICK k \in DOMAIN r : r[k] = s[i]
        BY <1>10, <1>12, <2>3, <3>1
      <3> QED
        BY <1>11, <2>1, <2>3, <3>1, <3>2 DEF Pueden
    <2> QED
      BY <2>2, <2>3
  <1>13. ASSUME NEW d \in Duenos, ~(d = c /\ s[1].op = "extraer")
         PROVE  d \in Duenos'
    <2>1. d \in {ERL} /\ d \in Conexiones
      BY DEF Duenos, Conexiones
    <2>2. CASE est[d] = "abierta" \/ d # c
      BY <1>1, <2>1, <2>2 DEF Duenos
    <2>3. CASE est[d] # "abierta" /\ d = c
      <3>1. PICK i \in DOMAIN s : s[i].op = "extraer"
        BY <1>11, <2>3 DEF Duenos
      <3>2. PICK k \in DOMAIN r : r[k] = s[i]
        BY <1>10, <1>13, <2>3, <3>1
      <3> QED
        BY <1>11, <2>1, <2>3, <3>1, <3>2 DEF Duenos
    <2> QED
      BY <2>2, <2>3
  <1> QED
    BY <1>9, <1>11, <1>12, <1>13 DEF Adelanta

(* A worker that only takes what is next off its list. *)
LEMMA AvanzaUno ==
  ASSUME EnManos, NEW c \in Conexiones, hace[c] # << >>, Head(hace[c]).op # "borrar",
         Sigue(c, Tail(hace[c])), UNCHANGED est
  PROVE  Adelanta(c, Head(hace[c]))
  <1> DEFINE s == hace[c]
             e == << >>
  <1>1. s \in Seq(Abiertas \cup Cerrando)
    BY DEF EnManos
  <1>2. e \in Seq(Comunes)
    OBVIOUS
  <1>3. e \o Tail(s) = Tail(s)
    BY <1>1, HeadTailProperties, ConcatEmptySeq
  <1> HIDE DEF e
  <1>4. Sigue(c, e \o Tail(hace[c]))
    BY <1>3
  <1> QED
    BY <1>2, <1>4, Avanza

(* A worker of an open connection begins a handler, or ends it. *)
LEMMA Empieza ==
  ASSUME EnManos, NEW c \in Conexiones, est[c] = "abierta", NEW s \in Seq(Abiertas),
         Sigue(c, s), UNCHANGED est
  PROVE  EnManos' /\ Pueden' = Pueden /\ Duenos' = Duenos
  <1>1. s \in Seq(Abiertas \cup Cerrando)
    BY Contiene
  <1>2. hace' = [hace EXCEPT ![c] = s] /\ est' = est
    BY DEF Sigue
  <1>3. EnManos'
    BY <1>1, <1>2 DEF EnManos, AlFinal
  <1>4. \A d \in Conexiones : est'[d] = est[d] /\ (est[d] # "abierta" => hace'[d] = hace[d])
    BY <1>2 DEF EnManos
  <1>5. Pueden' = Pueden
    BY <1>4 DEF Pueden
  <1>6. Duenos' = Duenos
    BY <1>4 DEF Duenos, Conexiones
  <1> QED
    BY <1>3, <1>5, <1>6

-------------------------------------------------------------------------------
(* The steps keep the invariant: first the tasks. *)

(* The messages of a step leave with it. *)
LEMMA Entrega ==
  ASSUME Clientes, NEW Q, NEW E, NEW x \in Managers(Q, E), Entregar(x)
  PROVE  /\ nd' \in Managers(Q, E) /\ nd'.tx = << >>
         /\ cliente' \in [Propios -> {"nuevo", "esperando", "trabajando", "negado", "fin", "abandonado"}]
         /\ ajeno' \in [Ajenos -> {"nuevo", "esperando", "trabajando", "fin"}]
  <1> DEFINE e == << >>
  <1>1. e \in Seq(Envios) /\ nd' = [x EXCEPT !.tx = e]
    BY DEF Entregar
  <1>2. nd' \in Managers(Q, E)
    BY <1>1, CambiaTx
  <1>3. nd'.tx = << >>
    BY <1>1 DEF Managers
  <1>4. cliente' \in [Propios -> {"nuevo", "esperando", "trabajando", "negado", "fin", "abandonado"}]
    BY DEF Entregar, Clientes
  <1>5. ajeno' \in [Ajenos -> {"nuevo", "esperando", "trabajando", "fin"}]
    BY DEF Entregar, Clientes
  <1> QED
    BY <1>2, <1>3, <1>4, <1>5

(* After a task that is no purge, the bounds of the next state hold what those of this one did. *)
LEMMA Permite ==
  ASSUME NEW c, NEW h, Adelanta(c, h), h.op \notin {"purgarConn", "extraer"},
         NEW x \in Managers(Pueden, Duenos)
  PROVE  x \in Managers(Pueden', Duenos')
  <1>1. (\A t \in Tipos : Pueden[t] \subseteq Pueden'[t]) /\ Duenos \subseteq Duenos'
    BY DEF Adelanta
  <1> QED
    BY <1>1, Crece

(* What a worker of an open connection has, and of one that goes away. *)
LEMMA Primera ==
  ASSUME EnManos, NEW c \in Conexiones, hace[c] # << >>
  PROVE  /\ Head(hace[c]) \in Abiertas \cup Cerrando
         /\ est[c] = "abierta" \/ Head(hace[c]) \in Cerrando
         /\ Tail(hace[c]) \in Seq(Abiertas \cup Cerrando)
         /\ est[c] = "abierta" => Tail(hace[c]) \in Seq(Abiertas)
  <1>1. /\ hace[c] \in Seq(Abiertas \cup Cerrando)
        /\ est[c] = "abierta" => hace[c] \in Seq(Abiertas)
        /\ est[c] # "abierta" => hace[c] \in Seq(Cerrando)
    BY DEF EnManos
  <1> DEFINE U == Abiertas \cup Cerrando
  <1> HIDE DEF U
  <1>2. ASSUME NEW S, hace[c] \in Seq(S) PROVE Head(hace[c]) \in S /\ Tail(hace[c]) \in Seq(S)
    BY <1>2, HeadTailProperties
  <1> QED
    BY <1>1, <1>2

(* What a task carries. *)
LEMMA DeTarea ==
  ASSUME NEW h \in Abiertas \cup Cerrando
  PROVE  /\ h.op = "devolver" => h.tipo \in Tipos /\ h.monto \in Nat /\ h.job \in Jobs
         /\ h.op = "purgar" => h.tipo \in Tipos /\ h.job \in Jobs
         /\ h.op = "purgarConn" => h.tipo \in Tipos
         /\ h.op = "avisar" => h.conn = Ida
         /\ h.op = "avisarA" => h.ip \in Ips /\ h.tipo \in Tipos /\ h.monto \in Nat /\ h.job \in Jobs
         /\ h.op = "quitar" => h.job \in Jobs
         /\ h.op = "item" => h.job \in Propios /\ h.it \in Items
         /\ h.op = "insertar" => h.job \in Propios
         /\ h \in Cerrando => h.op \notin {"item", "insertar"}
  BY DEF Abiertas, Cerrando, Comunes

(* Units are given back. *)
LEMMA PasoDevolver ==
  ASSUME IInv, NEW c \in Conexiones, Devolver(c)
  PROVE  IInv'
  <1> DEFINE h == Head(hace[c])
             x == release_resource(nd, h.tipo, h.monto, h.job)
  <1>1. /\ hace[c] # << >> /\ h.op = "devolver" /\ Entregar(x) /\ Sigue(c, Tail(hace[c]))
        /\ UNCHANGED <<lock, armando, est, enVecino>>
    BY DEF Devolver, Toca
  <1>2. h.tipo \in Tipos /\ h.monto \in Nat /\ h.job \in Jobs
    BY <1>1, Primera, DeTarea DEF IInv
  <1>3. x \in Managers(Pueden, Duenos)
    BY <1>2, SonPermisos, Libera DEF IInv, Gestion
  <1>4. Adelanta(c, h)
    BY <1>1, AvanzaUno DEF IInv
  <1> HIDE DEF h, x
  <1>5. /\ nd' \in Managers(Pueden, Duenos) /\ nd'.tx = << >>
        /\ cliente' \in [Propios -> {"nuevo", "esperando", "trabajando", "negado", "fin", "abandonado"}]
        /\ ajeno' \in [Ajenos -> {"nuevo", "esperando", "trabajando", "fin"}]
    BY <1>1, <1>3, Entrega DEF IInv
  <1>6. nd' \in Managers(Pueden', Duenos')
    BY <1>1, <1>4, <1>5, Permite
  <1>7. EnManos' /\ Gestion'
    BY <1>4, <1>5, <1>6 DEF Adelanta, Gestion
  <1>8. Armado' /\ Clientes'
    BY <1>1, <1>5 DEF IInv, Armado, Clientes
  <1> QED
    BY <1>7, <1>8 DEF IInv

(* The rest of the steps leave the streams alone. *)
LEMMA SinEntregas ==
  ASSUME IInv, NEW c \in Conexiones, EnManos', UNCHANGED <<lock, armando, cliente, ajeno, enVecino>>,
         nd' \in Managers(Pueden', Duenos'), nd'.tx = nd.tx
  PROVE  IInv'
  BY DEF IInv, Gestion, Armado, Clientes

(* Requests leave the queue of a type. *)
LEMMA Poda ==
  ASSUME NEW t \in Tipos, NEW fuera, nd \in Managers(Pueden, Duenos),
         nd' = [nd EXCEPT !.rec[t].cola = Sin(@, fuera)]
  PROVE  /\ nd' \in Managers(Pueden, Duenos) /\ nd'.tx = nd.tx
         /\ \A S : nd.rec[t].cola \in Seq(S) => nd'.rec[t].cola \in Seq(S \ fuera)
         /\ \A u \in Tipos \ {t} : nd'.rec[u] = nd.rec[u]
         /\ nd'.rec[t].libre = nd.rec[t].libre
  <1> DEFINE s == nd.rec[t]
             q == Sin(s.cola, fuera)
             r == [s EXCEPT !.cola = q]
             rr == [nd.rec EXCEPT ![t] = r]
  <1>1. nd.rec \in Recursos(Pueden) /\ s \in Recurso(t, Pueden[t]) /\ s \in [libre : Nat, cola : Seq(Encoladas(Conexiones))]
    BY Campos DEF Recursos
  <1>2. \A S : s.cola \in Seq(S) => q \in Seq(S \ fuera)
    BY SinQuita
  <1>3. \A C : s.cola \in Seq(Encoladas(C)) => q \in Seq(Encoladas(C))
    <2> SUFFICES ASSUME NEW C, s.cola \in Seq(Encoladas(C)) PROVE q \in Seq(Encoladas(C))
      OBVIOUS
    <2> DEFINE A == Encoladas(C) \ fuera
               B == Encoladas(C)
    <2>1. q \in Seq(A) /\ A \subseteq B
      BY <1>2
    <2> HIDE DEF A, B, q
    <2>2. q \in Seq(B)
      BY <2>1, Contiene
    <2> QED
      BY <2>2 DEF B
  <1>4. nd' = [nd EXCEPT !.rec = rr]
    BY <1>1 DEF Managers
  <1> HIDE DEF q
  <1>5. r \in Recurso(t, Pueden[t]) /\ r \in [libre : Nat, cola : Seq(Encoladas(Conexiones))]
    BY <1>1, <1>3 DEF Recurso
  <1>6. r.cola = q /\ r.libre = s.libre
    BY <1>1
  <1> HIDE DEF r
  <1>7. rr \in Recursos(Pueden) /\ rr[t] = r /\ \A u \in Tipos \ {t} : rr[u] = nd.rec[u]
    BY <1>1, <1>5 DEF Recursos
  <1> HIDE DEF rr
  <1>8. nd' \in Managers(Pueden, Duenos)
    BY <1>4, <1>7, CambiaRec
  <1>9. nd'.rec = rr /\ nd'.tx = nd.tx
    BY <1>4 DEF Managers
  <1> QED
    BY <1>2, <1>6, <1>7, <1>8, <1>9

(* A job leaves one queue. *)
LEMMA PasoPurgar ==
  ASSUME IInv, NEW c \in Conexiones, Purgar(c)
  PROVE  IInv'
  <1> DEFINE h == Head(hace[c])
             fuera == DeJob(nd.rec[h.tipo].cola, h.job)
  <1>1. /\ hace[c] # << >> /\ h.op = "purgar" /\ Sigue(c, Tail(hace[c]))
        /\ nd' = [nd EXCEPT !.rec[h.tipo].cola = Sin(@, DeJob(@, h.job))]
        /\ UNCHANGED <<lock, armando, est, cliente, ajeno, enVecino>>
    BY DEF Purgar, Toca
  <1>2. h.tipo \in Tipos
    BY <1>1, Primera, DeTarea DEF IInv
  <1>3. nd' = [nd EXCEPT !.rec[h.tipo].cola = Sin(@, fuera)]
    BY <1>1, <1>2 DEF IInv, Gestion, Managers, Recursos
  <1>4. Adelanta(c, h)
    BY <1>1, AvanzaUno DEF IInv
  <1> HIDE DEF h, fuera
  <1>5. nd' \in Managers(Pueden, Duenos) /\ nd'.tx = nd.tx
    BY <1>2, <1>3, Poda DEF IInv, Gestion
  <1>6. nd' \in Managers(Pueden', Duenos')
    BY <1>1, <1>4, <1>5, Permite
  <1> QED
    BY <1>1, <1>4, <1>5, <1>6, SinEntregas DEF Adelanta

(* The requests of a connection that goes away leave the queue before its  *)
(* worker is done with that queue.                                         *)
LEMMA PasoPurgarConn ==
  ASSUME IInv, NEW c \in Conexiones, PurgarConn(c)
  PROVE  IInv'
  <1> DEFINE h == Head(hace[c])
             t == h.tipo
             cola == nd.rec[t].cola
             fuera == DeConn(cola, c)
             S == Encoladas(Pueden[t]) \cap ToSet(cola)
             B == Encoladas(Pueden[t] \ {c})
             R == [Pueden EXCEPT ![t] = @ \ {c}]
  <1>1. /\ hace[c] # << >> /\ h.op = "purgarConn" /\ Sigue(c, Tail(hace[c]))
        /\ nd' = [nd EXCEPT !.rec[t].cola = Sin(@, DeConn(@, c))]
        /\ UNCHANGED <<lock, armando, est, cliente, ajeno, enVecino>>
    BY DEF PurgarConn, Toca
  <1>2. t \in Tipos
    BY <1>1, Primera, DeTarea DEF IInv
  <1>3. nd' = [nd EXCEPT !.rec[t].cola = Sin(@, fuera)]
    BY <1>1, <1>2 DEF IInv, Gestion, Managers, Recursos
  <1>4. Adelanta(c, h)
    BY <1>1, AvanzaUno DEF IInv
  <1> HIDE DEF h, t, fuera
  <1>5. nd \in Managers(Pueden, Duenos)
    BY DEF IInv, Gestion
  <1>6. /\ nd' \in Managers(Pueden, Duenos) /\ nd'.tx = nd.tx
        /\ \A u \in Tipos \ {t} : nd'.rec[u] = nd.rec[u]
        /\ nd'.rec[t].libre = nd.rec[t].libre
    BY <1>2, <1>3, <1>5, Poda
  <1>7. cola \in Seq(S)
    <2>1. cola \in Seq(Encoladas(Pueden[t]))
      BY <1>2, <1>5, Campos DEF Recursos, Recurso
    <2> HIDE DEF cola
    <2>2. Len(cola) \in Nat /\ cola = [i \in 1 .. Len(cola) |-> cola[i]] /\ DOMAIN cola = 1 .. Len(cola)
      BY <2>1, LenProperties
    <2>3. \A i \in 1 .. Len(cola) : cola[i] \in S
      BY <2>1, <2>2, ElementOfSeq DEF ToSet
    <2> HIDE DEF S
    <2> QED
      BY <2>2, <2>3
  <1>8. S \ fuera \subseteq B
    BY DEF fuera, DeConn, Encoladas
  <1>9. nd'.rec[t].cola \in Seq(B)
    <2> DEFINE A == S \ fuera
    <2>1. nd'.rec[t].cola \in Seq(A)
      <3> HIDE DEF S
      <3> QED
        BY <1>2, <1>3, <1>5, <1>7, Poda
    <2>2. A \subseteq B
      BY <1>8
    <2> HIDE DEF A, B
    <2> QED
      BY <2>1, <2>2, Contiene
  <1> HIDE DEF S
  <1>10. R \in [Tipos -> SUBSET Conexiones] /\ R[t] = Pueden[t] \ {c} /\ \A u \in Tipos \ {t} : R[u] = Pueden[u]
    BY <1>2, SonPermisos DEF Permisos
  <1> HIDE DEF R
  <1>11. nd'.rec \in Recursos(R)
    <2>1. nd'.rec \in Recursos(Pueden) /\ nd.rec \in Recursos(Pueden)
      BY <1>5, <1>6, Campos
    <2>2. nd'.rec[t] \in Recurso(t, R[t])
      BY <1>2, <1>9, <1>10, <2>1 DEF Recursos, Recurso, B
    <2>3. \A u \in Tipos \ {t} : nd'.rec[u] \in Recurso(u, R[u])
      BY <1>10, <2>1 DEF Recursos
    <2> QED
      BY <2>1, <2>2, <2>3 DEF Recursos
  <1>12. nd' \in Managers(R, Duenos)
    BY <1>6, <1>11 DEF Managers
  <1>13. (\A u \in Tipos : R[u] \subseteq Pueden'[u]) /\ Duenos \subseteq Duenos'
    BY <1>1, <1>4, <1>10, t = h.tipo DEF Adelanta, t
  <1>14. nd' \in Managers(Pueden', Duenos')
    BY <1>12, <1>13, Crece
  <1> QED
    BY <1>1, <1>4, <1>6, <1>14, SinEntregas DEF Adelanta

(* A RELEASE goes out on the connection to Vecino, if the table still has it. *)
LEMMA PasoAvisar ==
  ASSUME IInv, NEW c \in Conexiones, Avisar(c) \/ AvisarA(c)
  PROVE  IInv'
  <1> DEFINE h == Head(hace[c])
             k == tabla_conns_lookup(nd, h.ip)
             a == <<avisar(k, h, h.job)>>
  <1>1. /\ hace[c] # << >> /\ h.op \in {"avisar", "avisarA"}
        /\ UNCHANGED <<nd, lock, armando, est, cliente, ajeno, enVecino>>
        /\ \/ Sigue(c, Tail(hace[c]))
           \/ h.op = "avisarA" /\ k # NULL /\ Sigue(c, a \o Tail(hace[c]))
    BY DEF Avisar, AvisarA, Toca
  <1>2. k \in {NULL, Ida}
    BY BuscaConn DEF IInv, Gestion
  <1>3. h.op = "avisarA" => h.tipo \in Tipos /\ h.monto \in Nat /\ h.job \in Jobs
    BY <1>1, Primera, DeTarea DEF IInv
  <1> HIDE DEF h
  <1>4. h.op = "avisarA" /\ k # NULL => a \in Seq(Comunes)
    <2> HIDE DEF k
    <2> SUFFICES ASSUME h.op = "avisarA", k # NULL PROVE a \in Seq(Comunes)
      OBVIOUS
    <2>1. avisar(k, h, h.job) \in [op : {"avisar"}, conn : {Ida}, tipo : Tipos, monto : Nat, job : Jobs]
      BY <1>2, <1>3 DEF avisar
    <2>2. avisar(k, h, h.job) \in Comunes
      BY <2>1, Zenon DEF Comunes
    <2> QED
      BY <2>2
  <1> HIDE DEF a, k
  <1>5. Adelanta(c, h)
    <2>1. EnManos /\ Head(hace[c]).op # "borrar"
      BY <1>1 DEF IInv, h
    <2> QED
      BY <1>1, <1>4, <2>1, Avanza, AvanzaUno DEF h
  <1>6. nd' \in Managers(Pueden', Duenos')
    BY <1>1, <1>5, Permite DEF IInv, Gestion
  <1> QED
    BY <1>1, <1>5, <1>6, SinEntregas DEF Adelanta

(* A job leaves the table. *)
LEMMA PasoQuitar ==
  ASSUME IInv, NEW c \in Conexiones, Quitar(c)
  PROVE  IInv'
  <1> DEFINE h == Head(hace[c])
             k == tabla_jobs_buscar_por_id(nd, h.job)
             y == nd.tabla[k]
             s == RemoveAt(nd.tabla, k)
             a == Tareas(h.job, y.confirmadas)
  <1>1. /\ hace[c] # << >> /\ h.op = "quitar"
        /\ UNCHANGED <<lock, armando, est, cliente, ajeno, enVecino>>
        /\ \/ k = 0 /\ Sigue(c, Tail(hace[c])) /\ UNCHANGED nd
           \/ k # 0 /\ nd' = tabla_jobs_extract_by_id(nd, k) /\ Sigue(c, a \o Tail(hace[c]))
    BY DEF Quitar, Toca
  <1>2. h.job \in Jobs
    BY <1>1, Primera, DeTarea DEF IInv
  <1>3. nd \in Managers(Pueden, Duenos)
    BY DEF IInv, Gestion
  <1> HIDE DEF h
  <1>4. k # 0 => k \in 1 .. Len(nd.tabla) /\ y \in Trabajos(Duenos)
    BY <1>3, Busca
  <1> HIDE DEF k
  <1>5. k # 0 => s \in Seq(Trabajos(Duenos))
    BY <1>3, <1>4, Campos, QuitaTrabajo
  <1>6. k # 0 => a \in Seq(Comunes)
    <2> HIDE DEF y
    <2>1. k # 0 => y.confirmadas \in Seq(Allocs)
      BY <1>4 DEF Trabajos
    <2> QED
      BY <1>2, <2>1, SonTareas
  <1>7. k # 0 /\ nd' = tabla_jobs_extract_by_id(nd, k) => nd' = [nd EXCEPT !.tabla = s]
    BY DEF tabla_jobs_extract_by_id
  <1> HIDE DEF a, s
  <1>8. nd' \in Managers(Pueden, Duenos) /\ nd'.tx = nd.tx
    <2>1. CASE UNCHANGED nd
      BY <1>3, <2>1
    <2>2. CASE k # 0 /\ nd' = [nd EXCEPT !.tabla = s]
      <3>1. nd'.tx = nd.tx
        BY <1>3, <2>2 DEF Managers
      <3> QED
        BY <1>3, <1>5, <2>2, <3>1, CambiaTabla
    <2> QED
      BY <1>1, <1>7, <2>1, <2>2
  <1>9. Adelanta(c, h)
    <2>1. EnManos /\ Head(hace[c]).op # "borrar"
      BY <1>1 DEF IInv, h
    <2> QED
      BY <1>1, <1>6, <2>1, Avanza, AvanzaUno DEF h
  <1>10. nd' \in Managers(Pueden', Duenos')
    BY <1>1, <1>8, <1>9, Permite
  <1> QED
    BY <1>1, <1>8, <1>9, <1>10, SinEntregas DEF Adelanta

(* The jobs of the client leave the table when its connection goes away,   *)
(* and they still have no task that names it.                              *)
LEMMA PasoExtraer ==
  ASSUME IInv, NEW c \in Conexiones, Extraer(c)
  PROVE  IInv'
  <1> DEFINE h == Head(hace[c])
             e == tabla_jobs_extract_by_remote_conn(nd, c)
             xs == e.extraidos
             T(x) == Purgas(x.job) \o Tareas(x.job, x.confirmadas)
             ss == [i \in DOMAIN xs |-> T(xs[i])]
             a == FlattenSeq(ss)
  <1>1. /\ hace[c] # << >> /\ h.op = "extraer" /\ nd' = e.nd /\ Sigue(c, a \o Tail(hace[c]))
        /\ UNCHANGED <<lock, armando, est, cliente, ajeno, enVecino>>
    BY DEF Extraer, Toca
  <1>2. nd \in Managers(Pueden, Duenos)
    BY DEF IInv, Gestion
  <1>3. e.nd = [nd EXCEPT !.tabla = e.nd.tabla] /\ e.nd \in Managers(Pueden, Duenos \ {c})
        /\ xs \in Seq(Trabajos(Duenos))
    BY <1>2, Extrae
  <1> HIDE DEF e
  <1>4. nd' \in Managers(Pueden, Duenos \ {c}) /\ nd'.tx = nd.tx
    <2>1. nd' = [nd EXCEPT !.tabla = nd'.tabla]
      BY <1>1, <1>3
    <2>2. nd'.tx = nd.tx
      BY <1>2, <2>1 DEF Managers
    <2> QED
      BY <1>1, <1>3, <2>2
  <1> HIDE DEF xs
  <1>5. a \in Seq(Comunes)
    <2>1. ASSUME NEW x \in Trabajos(Duenos) PROVE T(x) \in Seq(Comunes)
      <3>1. x.job \in Jobs /\ x.confirmadas \in Seq(Allocs)
        BY DEF Trabajos
      <3>2. Purgas(x.job) \in Seq(Comunes) /\ Tareas(x.job, x.confirmadas) \in Seq(Comunes)
        BY <3>1, SonPurgas, SonTareas
      <3> QED
        BY <3>2, ConcatProperties
    <2>2. Len(xs) \in Nat /\ DOMAIN xs = 1 .. Len(xs) /\ \A i \in DOMAIN xs : xs[i] \in Trabajos(Duenos)
      BY <1>3, LenProperties, ElementOfSeq
    <2> HIDE DEF T
    <2>3. ss \in Seq(Seq(Comunes))
      BY <2>1, <2>2
    <2> QED
      BY <2>3, Aplana, Zenon
  <1> HIDE DEF a, h
  <1>6. Adelanta(c, h)
    <2>1. EnManos /\ Head(hace[c]).op # "borrar"
      BY <1>1 DEF IInv, h
    <2> QED
      BY <1>1, <1>5, <2>1, Avanza DEF h
  <1>7. (\A t \in Tipos : Pueden[t] \subseteq Pueden'[t]) /\ Duenos \ {c} \subseteq Duenos'
    BY <1>1, <1>6 DEF Adelanta
  <1>8. nd' \in Managers(Pueden', Duenos')
    BY <1>4, <1>7, Crece
  <1> QED
    BY <1>1, <1>4, <1>6, <1>8, SinEntregas DEF Adelanta

(* The server frees the connection: its worker has nothing left to do.     *)
LEMMA PasoBorrar ==
  ASSUME IInv, NEW c \in Conexiones, Borrar(c)
  PROVE  IInv'
  <1> DEFINE s == hace[c]
             m == nd.conns
             I == {i \in 1 .. Len(m) : m[i].conn = c}
             k == IF I # {} THEN Min(I) ELSE 0
             q == IF \E i \in 1 .. Len(m) : m[i].conn = c THEN RemoveAt(m, k) ELSE m
  <1>1. /\ s # << >> /\ Head(s).op = "borrar" /\ Sigue(c, Tail(s))
        /\ nd' = [nd EXCEPT !.conns = q] /\ est' = [est EXCEPT ![c] = "liberada"]
        /\ UNCHANGED <<lock, armando, cliente, ajeno, enVecino>>
    BY DEF Borrar, Toca, tabla_conns_delete_by_conn, RemoveFirstMatch, SelectInSeq
  <1>2. nd \in Managers(Pueden, Duenos) /\ EnManos
    BY DEF IInv, Gestion
  <1>3. m \in Conocidas /\ Len(m) \in Nat
    BY <1>2, Campos, LenProperties DEF Conocidas
  <1>4. q \in Conocidas
    <2>1. I # {} => k \in I
      BY <1>3, ElMenor
    <2> HIDE DEF k
    <2> QED
      BY <1>3, <2>1, QuitaTrabajo DEF Conocidas
  <1> HIDE DEF q
  <1>5. nd' \in Managers(Pueden, Duenos) /\ nd'.tx = nd.tx
    <2>1. nd'.tx = nd.tx
      BY <1>1, <1>2 DEF Managers
    <2> QED
      BY <1>1, <1>2, <1>4, <2>1, CambiaConns
  <1>6. est[c] = "cerrando" /\ s \in Seq(Cerrando) /\ AlFinal(s)
    <2>1. est[c] = "abierta" => Head(s) \in Abiertas
      BY <1>1, <1>2, HeadTailProperties DEF EnManos
    <2>2. est[c] # "abierta"
      BY <1>1, <2>1 DEF Abiertas, Comunes
    <2> QED
      BY <1>1, <1>2, <2>2 DEF EnManos
  <1> HIDE DEF s
  <1>7. Len(s) = 1 /\ s[1].op = "borrar" /\ Tail(s) = << >> /\ DOMAIN s = {1}
    <2> DEFINE C == Cerrando
    <2>1. s \in Seq(C)
      BY <1>6
    <2> HIDE DEF C
    <2>2. Len(s) \in Nat /\ Len(s) >= 1 /\ Head(s) = s[1] /\ DOMAIN s = 1 .. Len(s)
      BY <1>1, <2>1, EmptySeq, LenProperties
    <2>3. Len(s) = 1
      BY <1>1, <1>6, <2>2 DEF AlFinal
    <2>4. Tail(s) \in Seq(C) /\ Len(Tail(s)) = 0
      BY <1>1, <2>1, <2>3, HeadTailProperties
    <2>5. Tail(s) = << >>
      BY <2>4, EmptySeq
    <2> QED
      BY <1>1, <2>2, <2>3, <2>5
  <1>8. hace' = [hace EXCEPT ![c] = << >>]
    BY <1>1, <1>7 DEF Sigue
  <1>9. EnManos'
    <2>1. Ida \notin Cierran => c # Ida
      BY <1>2, <1>6 DEF EnManos
    <2> DEFINE U == Abiertas \cup Cerrando
    <2>2. hace' \in [Conexiones -> Seq(U)]
      BY <1>2, <1>8 DEF EnManos
    <2> QED
      BY <1>1, <1>2, <1>8, <2>1, <2>2 DEF EnManos, AlFinal
  <1>10. s[1].op # "purgarConn" /\ s[1].op # "extraer" /\ s = hace[c]
    BY <1>7 DEF s
  <1>11. \A d \in Conexiones : d = c \/ (est'[d] = est[d] /\ hace'[d] = hace[d])
    BY <1>1, <1>2, <1>8 DEF EnManos
  <1>12. \A t \in Tipos : Pueden[t] \subseteq Pueden'[t]
    BY <1>6, <1>7, <1>10, <1>11 DEF Pueden
  <1>13. Duenos \subseteq Duenos'
    BY <1>6, <1>7, <1>10, <1>11 DEF Duenos, Conexiones
  <1>14. nd' \in Managers(Pueden', Duenos')
    BY <1>5, <1>12, <1>13, Crece
  <1> QED
    BY <1>1, <1>5, <1>9, <1>14, SinEntregas

-------------------------------------------------------------------------------
(* The messages. *)

(* A step that moves no worker keeps the bounds. *)
LEMMA Quietos ==
  ASSUME EnManos, UNCHANGED <<hace, est>>
  PROVE  EnManos' /\ Pueden' = Pueden /\ Duenos' = Duenos
  BY DEF EnManos, AlFinal, Pueden, Duenos

(* JOB_REQUEST begins. *)
LEMMA PasoJobRequest ==
  ASSUME IInv, NEW j \in Propios, JobRequest(j)
  PROVE  IInv'
  <1> DEFINE p == Pedido[j]
             A == Abiertas
             s == [i \in 1 .. Len(p) + 1 |->
                    IF i > Len(p) THEN [op |-> "insertar", job |-> j]
                    ELSE [op |-> "item", job |-> j, it |-> p[i]]]
             n == [confirmadas |-> << >>, pendientes |-> << >>]
  <1>1. /\ est[ERL] = "abierta" /\ Sigue(ERL, s) /\ lock' = ERL /\ armando' = n
        /\ cliente' = [cliente EXCEPT ![j] = "esperando"]
        /\ UNCHANGED <<nd, est, ajeno, enVecino>>
    BY DEF JobRequest, Libre
  <1>2. p \in Seq(Items) /\ Len(p) \in Nat /\ \A i \in 1 .. Len(p) : p[i] \in Items
    <2>1. p \in Seq(Items)
      BY Parametros, Zenon DEF Items
    <2> HIDE DEF p
    <2> QED
      BY <2>1, LenProperties, ElementOfSeq
  <1> HIDE DEF p
  <1>3. s \in Seq(A)
    <2>1. ASSUME NEW i \in 1 .. Len(p) + 1 PROVE s[i] \in A
      <3>1. [op |-> "insertar", job |-> j] \in [op : {"insertar"}, job : Propios]
        OBVIOUS
      <3>2. i <= Len(p) => p[i] \in Items
        BY <1>2
      <3>3. i <= Len(p) => [op |-> "item", job |-> j, it |-> p[i]] \in [op : {"item"}, job : Propios, it : Items]
        BY <3>2
      <3>4. [op |-> "insertar", job |-> j] \in A
        BY <3>1, Zenon DEF Abiertas
      <3>5. i <= Len(p) => [op |-> "item", job |-> j, it |-> p[i]] \in A
        BY <3>3, Zenon DEF Abiertas
      <3> HIDE DEF A
      <3> QED
        BY <1>2, <3>4, <3>5
    <2>2. Len(p) + 1 \in Nat /\ s = [i \in 1 .. Len(p) + 1 |-> s[i]]
      BY <1>2
    <2> HIDE DEF s, A
    <2> QED
      BY <2>1, <2>2
  <1> HIDE DEF s
  <1>4. EnManos' /\ Pueden' = Pueden /\ Duenos' = Duenos
    BY <1>1, <1>3, Empieza DEF IInv, Conexiones
  <1>5. Gestion'
    BY <1>1, <1>4 DEF IInv, Gestion
  <1>6. Armado'
    BY <1>1 DEF Armado
  <1>7. Clientes'
    BY <1>1 DEF IInv, Clientes
  <1> QED
    BY <1>4, <1>5, <1>6, <1>7 DEF IInv

(* An item adds to the requests at Vecino, or leaves them. *)
LEMMA Largo ==
  ASSUME NEW Q, NEW E, NEW acc \in Accs(Q, E), NEW j, NEW it
  PROVE  /\ Len(PedidoLocal(acc, j, it).pendientes) >= Len(acc.pendientes)
         /\ Len(PedidoRemoto(acc, j, it, {}).pendientes) >= Len(acc.pendientes)
  <1> DEFINE l == acc.pendientes
             S == Salientes
  <1>1. l \in Seq(S) /\ Len(l) \in Nat
    BY LenProperties DEF Accs
  <1>2. ASSUME NEW x PROVE [acc EXCEPT !.sigue = FALSE, !.nd = x].pendientes = l
    BY DEF Accs
  <1>3. AbortarPedido(acc, j).pendientes = l
    BY <1>2 DEF AbortarPedido
  <1>4. ASSUME NEW x, NEW s PROVE [acc EXCEPT !.nd = x, !.confirmadas = s].pendientes = l
    BY DEF Accs
  <1>5. PedidoLocal(acc, j, it).pendientes = l
    <2> DEFINE r == reserve_resource(acc.nd, it.tipo, it.monto, j, ERL, "LOCAL")
               nueva == [tipo |-> it.tipo, monto |-> it.monto, lado |-> "LOCAL",
                         ip |-> it.ip, result |-> r.result, conn |-> ERL]
               s == <<nueva>> \o acc.confirmadas
    <2>1. PedidoLocal(acc, j, it) = IF r.result = "RM_DENIED" THEN AbortarPedido(acc, j)
                                    ELSE [acc EXCEPT !.nd = r.nd, !.confirmadas = s]
      BY DEF PedidoLocal, Accs
    <2> HIDE DEF r, s
    <2> QED
      BY <1>3, <1>4, <2>1
  <1>6. ASSUME NEW x, NEW s PROVE [acc EXCEPT !.nd = x, !.pendientes = s].pendientes = s
    BY DEF Accs
  <1>7. Len(PedidoRemoto(acc, j, it, {}).pendientes) >= Len(l)
    <2> DEFINE c == tabla_conns_lookup(acc.nd, it.ip)
               o == crear_outrequest(it.ip, c, it.tipo, it.monto)
               x == send_message(acc.nd, c, MensajeRecurso("RESERVE", j, it.tipo, it.monto))
               s == <<o>> \o l
    <2>1. PedidoRemoto(acc, j, it, {}) = IF c # NULL THEN [acc EXCEPT !.nd = x, !.pendientes = s]
                                         ELSE AbortarPedido(acc, j)
      BY DEF PedidoRemoto, Accs
    <2>2. Len(s) = 1 + Len(l)
      <3> DEFINE U == S \cup {o}
      <3> HIDE DEF o, S, l
      <3>1. l \in Seq(U) /\ <<o>> \in Seq(U) /\ Len(<<o>>) = 1
        BY <1>1, Contiene
      <3> HIDE DEF U
      <3> QED
        BY <3>1, ConcatProperties
    <2>3. [acc EXCEPT !.nd = x, !.pendientes = s].pendientes = s
      <3> HIDE DEF x, s
      <3> QED
        BY <1>6
    <2> DEFINE y == [acc EXCEPT !.nd = x, !.pendientes = s]
               z == AbortarPedido(acc, j)
    <2>4. y.pendientes = s /\ z.pendientes = l /\ PedidoRemoto(acc, j, it, {}) = IF c # NULL THEN y ELSE z
      BY <1>3, <2>1, <2>3
    <2> HIDE DEF c, x, s, l, y, z
    <2> QED
      BY <1>1, <2>2, <2>4
  <1> HIDE DEF l
  <1> QED
    BY <1>1, <1>5, <1>7 DEF l

(* tabla.lock is held by the worker of an open connection. *)
LEMMA Pidiendo ==
  ASSUME EnManos, hace[ERL] # << >>, Head(hace[ERL]).op \in {"item", "insertar"}
  PROVE  /\ est[ERL] = "abierta" /\ Tail(hace[ERL]) \in Seq(Abiertas)
         /\ Head(hace[ERL]).job \in Propios /\ Head(hace[ERL]).job \in Jobs
         /\ Head(hace[ERL]).op = "item" => Head(hace[ERL]).it \in Items
         /\ \A t \in Tipos : ERL \in Pueden[t]
         /\ ERL \in Duenos
  <1>1. ERL \in Conexiones
    BY DEF Conexiones
  <1>2. est[ERL] = "abierta"
    BY <1>1, Primera, DeTarea
  <1>3. Tail(hace[ERL]) \in Seq(Abiertas)
    BY <1>1, <1>2, Primera
  <1>4. Head(hace[ERL]).job \in Propios /\ (Head(hace[ERL]).op = "item" => Head(hace[ERL]).it \in Items)
    BY <1>1, Primera, DeTarea
  <1>5. Head(hace[ERL]).job \in Jobs
    BY <1>4, Parametros
  <1>6. ERL \in Duenos /\ \A t \in Tipos : ERL \in Pueden[t]
    BY <1>1, <1>2 DEF Duenos, Pueden
  <1> QED
    BY <1>2, <1>3, <1>4, <1>5, <1>6

(* Streams and clients after a step that delivers. *)
LEMMA ConEntregas ==
  ASSUME IInv, EnManos', Pueden' = Pueden, Duenos' = Duenos, NEW x \in Managers(Pueden, Duenos), Entregar(x),
         Armado', lock' \in {NULL, ERL}, enVecino' \in [Propios -> Nat]
  PROVE  IInv'
  <1>1. /\ nd' \in Managers(Pueden, Duenos) /\ nd'.tx = << >>
        /\ cliente' \in [Propios -> {"nuevo", "esperando", "trabajando", "negado", "fin", "abandonado"}]
        /\ ajeno' \in [Ajenos -> {"nuevo", "esperando", "trabajando", "fin"}]
    BY Entrega DEF IInv
  <1>2. Gestion'
    BY <1>1 DEF Gestion
  <1>3. Clientes'
    BY <1>1 DEF Clientes
  <1> QED
    BY <1>2, <1>3 DEF IInv

(* One item of a JOB_REQUEST. *)
LEMMA PasoItem ==
  ASSUME IInv, Item
  PROVE  IInv'
  <1> DEFINE h == Head(hace[ERL])
             acc == [nd |-> nd, confirmadas |-> armando.confirmadas,
                     pendientes |-> armando.pendientes, sigue |-> TRUE, n |-> 0]
             r == IF h.it.ip = Yo THEN PedidoLocal(acc, h.job, h.it)
                  ELSE PedidoRemoto(acc, h.job, h.it, {})
             e == << >>
  <1>1. /\ hace[ERL] # << >> /\ h.op = "item" /\ Entregar(r.nd)
        /\ armando' = [confirmadas |-> r.confirmadas, pendientes |-> r.pendientes]
        /\ enVecino' = [enVecino EXCEPT ![h.job] = @ + Len(r.pendientes) - Len(armando.pendientes)]
        /\ \/ Sigue(ERL, Tail(hace[ERL])) /\ UNCHANGED lock
           \/ Sigue(ERL, e) /\ lock' = NULL
        /\ est' = est
    BY DEF Item, Toca
  <1>2. /\ est[ERL] = "abierta" /\ Tail(hace[ERL]) \in Seq(Abiertas) /\ h.job \in Propios
        /\ h.job \in Jobs /\ h.it \in Items /\ \A t \in Tipos : ERL \in Pueden[t]
    BY <1>1, Pidiendo DEF IInv
  <1>3. acc \in Accs(Pueden, Duenos) /\ acc.pendientes = armando.pendientes
    BY DEF IInv, Gestion, Armado, Accs
  <1> HIDE DEF h, acc
  <1>4. ERL \in Pueden[h.it.tipo]
    BY <1>2 DEF Items
  <1>5. r \in Accs(Pueden, Duenos)
    BY <1>2, <1>3, <1>4, SonPermisos, PideLocal, PideRemoto
  <1>6. Len(r.pendientes) >= Len(acc.pendientes)
    BY <1>3, Largo
  <1> HIDE DEF r
  <1>7. r.nd \in Managers(Pueden, Duenos) /\ r.confirmadas \in Seq(Allocs) /\ r.pendientes \in Seq(Salientes)
    BY <1>5 DEF Accs
  <1>8. Armado'
    BY <1>1, <1>7 DEF Armado
  <1>9. enVecino' \in [Propios -> Nat]
    <2> DEFINE v == enVecino[h.job] + Len(r.pendientes) - Len(armando.pendientes)
    <2>1. Len(r.pendientes) \in Nat /\ Len(armando.pendientes) \in Nat
      BY <1>7, LenProperties DEF IInv, Armado
    <2>2. enVecino \in [Propios -> Nat]
      BY DEF IInv, Clientes
    <2>3. v \in Nat
      <3>1. enVecino[h.job] \in Nat
        BY <1>2, <2>2
      <3>2. Len(r.pendientes) >= Len(armando.pendientes)
        BY <1>3, <1>6
      <3>3. \A p, q, w \in Nat : q >= w => p + q - w \in Nat
        OBVIOUS
      <3> QED
        BY <2>1, <3>1, <3>2, <3>3, Zenon
    <2>4. enVecino' = [enVecino EXCEPT ![h.job] = v]
      BY <1>1
    <2> HIDE DEF v
    <2> QED
      BY <1>2, <2>2, <2>3, <2>4
  <1>10. EnManos' /\ Pueden' = Pueden /\ Duenos' = Duenos
    <2>1. e \in Seq(Abiertas) /\ ERL \in Conexiones /\ EnManos
      BY DEF Conexiones, IInv
    <2> HIDE DEF e
    <2> QED
      BY <1>1, <1>2, <2>1, Empieza
  <1>11. lock' \in {NULL, ERL}
    BY <1>1 DEF IInv, Clientes
  <1> QED
    BY <1>1, <1>7, <1>8, <1>9, <1>10, <1>11, ConEntregas

(* A job enters the table: its client's connection is open. *)
LEMMA PasoInsertar ==
  ASSUME IInv, Insertar
  PROVE  IInv'
  <1> DEFINE j == Head(hace[ERL]).job
             job == [job |-> j, conn |-> ERL,
                     confirmadas |-> armando.confirmadas, pendientes |-> armando.pendientes]
             s == <<job>> \o nd.tabla
             x == tabla_jobs_insertar_job(nd, job)
             y == IF tabla_jobs_verificar(x, j)
                  THEN send_message(x, ERL, Mensaje("JOB_GRANTED", j)) ELSE x
             e == << >>
  <1>1. /\ hace[ERL] # << >> /\ Head(hace[ERL]).op = "insertar" /\ Entregar(y)
        /\ lock' = NULL /\ Sigue(ERL, e) /\ UNCHANGED <<armando, est, enVecino>>
    BY DEF Insertar, Toca
  <1>2. est[ERL] = "abierta" /\ j \in Jobs /\ ERL \in Duenos
    BY <1>1, Pidiendo DEF IInv
  <1>3. nd \in Managers(Pueden, Duenos) /\ nd.tabla \in Seq(Trabajos(Duenos))
    BY Campos DEF IInv, Gestion
  <1> HIDE DEF j
  <1>4. job \in Trabajos(Duenos)
    BY <1>2 DEF IInv, Armado, Trabajos
  <1> HIDE DEF job
  <1>5. s \in Seq(Trabajos(Duenos))
    <2> DEFINE T == Trabajos(Duenos)
    <2>1. nd.tabla \in Seq(T) /\ <<job>> \in Seq(T)
      BY <1>3, <1>4
    <2> HIDE DEF T
    <2>2. s \in Seq(T)
      BY <2>1, ConcatProperties
    <2> QED
      BY <2>2 DEF T
  <1>6. x = [nd EXCEPT !.tabla = s]
    BY <1>3 DEF tabla_jobs_insertar_job, Managers
  <1> HIDE DEF s, x
  <1>7. x \in Managers(Pueden, Duenos)
    BY <1>3, <1>5, <1>6, CambiaTabla
  <1>8. send_message(x, ERL, Mensaje("JOB_GRANTED", j)) \in Managers(Pueden, Duenos)
    BY <1>2, <1>7, Palabras, Envia DEF Conexiones
  <1>9. y \in Managers(Pueden, Duenos)
    BY <1>7, <1>8
  <1> HIDE DEF y
  <1>10. EnManos' /\ Pueden' = Pueden /\ Duenos' = Duenos
    <2>1. e \in Seq(Abiertas) /\ ERL \in Conexiones /\ EnManos
      BY DEF Conexiones, IInv
    <2> HIDE DEF e
    <2> QED
      BY <1>1, <1>2, <2>1, Empieza
  <1>11. Armado' /\ lock' \in {NULL, ERL} /\ enVecino' \in [Propios -> Nat]
    BY <1>1 DEF IInv, Armado, Clientes
  <1> QED
    BY <1>1, <1>9, <1>10, <1>11, ConEntregas

(* An answer of Vecino: GRANTED or DENIED. *)
LEMMA PasoRespuesta ==
  ASSUME IInv, NEW j \in Propios, Granted(j) \/ Denied(j)
  PROVE  IInv'
  <1>1. j \in Jobs /\ nd \in Managers(Pueden, Duenos)
    BY Parametros DEF IInv, Gestion
  <1>2. PICK x \in Managers(Pueden, Duenos) : Entregar(x)
    BY <1>1, SonPermisos, Concede, Deniega DEF Granted, Denied
  <1>3. /\ enVecino[j] > 0 /\ enVecino' = [enVecino EXCEPT ![j] = @ - 1]
        /\ UNCHANGED <<lock, hace, armando, est>>
    BY DEF Granted, Denied
  <1>4. EnManos' /\ Pueden' = Pueden /\ Duenos' = Duenos
    BY <1>3, Quietos DEF IInv
  <1>5. Armado' /\ lock' \in {NULL, ERL} /\ enVecino' \in [Propios -> Nat]
    BY <1>3 DEF IInv, Armado, Clientes
  <1> QED
    BY <1>2, <1>4, <1>5, ConEntregas

(* A client's connection only gets the tasks of its own jobs. *)
LEMMA PasoJobRelease ==
  ASSUME IInv, NEW j \in Propios, JobRelease(j)
  PROVE  IInv'
  <1> DEFINE k == tabla_jobs_buscar_por_id(nd, j)
             y == nd.tabla[k]
             s == RemoveAt(nd.tabla, k)
             a == TareasPropias(j, y.confirmadas) \o Purgas(j)
  <1>1. /\ est[ERL] = "abierta" /\ cliente' = [cliente EXCEPT ![j] = Cerrado(j)]
        /\ UNCHANGED <<lock, armando, est, ajeno, enVecino>>
        /\ \/ k = 0 /\ UNCHANGED <<nd, hace>>
           \/ k # 0 /\ nd' = tabla_jobs_extract_by_id(nd, k) /\ Sigue(ERL, a)
    BY DEF JobRelease, Libre
  <1>2. j \in Jobs /\ nd \in Managers(Pueden, Duenos)
    BY Parametros DEF IInv, Gestion
  <1>3. k # 0 => k \in 1 .. Len(nd.tabla) /\ y \in Trabajos(Duenos)
    BY <1>2, Busca
  <1> HIDE DEF k
  <1>4. k # 0 => s \in Seq(Trabajos(Duenos))
    BY <1>2, <1>3, Campos, QuitaTrabajo
  <1>5. k # 0 => a \in Seq(Abiertas)
    <2> HIDE DEF y
    <2>1. k # 0 => y.confirmadas \in Seq(Allocs)
      BY <1>3 DEF Trabajos
    <2>2. k # 0 => a \in Seq(Comunes)
      BY <1>2, <2>1, SonTareasPropias, SonPurgas, ConcatProperties
    <2>3. Comunes \subseteq Abiertas
      BY DEF Abiertas
    <2> HIDE DEF a
    <2> QED
      BY <2>2, <2>3, Contiene
  <1>6. k # 0 /\ nd' = tabla_jobs_extract_by_id(nd, k) => nd' = [nd EXCEPT !.tabla = s]
    BY DEF tabla_jobs_extract_by_id
  <1> HIDE DEF a, s
  <1>7. nd' \in Managers(Pueden, Duenos) /\ nd'.tx = nd.tx
    <2>1. CASE UNCHANGED nd
      BY <1>2, <2>1
    <2>2. CASE k # 0 /\ nd' = [nd EXCEPT !.tabla = s]
      <3>1. nd'.tx = nd.tx
        BY <1>2, <2>2 DEF Managers
      <3> QED
        BY <1>2, <1>4, <2>2, <3>1, CambiaTabla
    <2> QED
      BY <1>1, <1>6, <2>1, <2>2
  <1>8. EnManos' /\ Pueden' = Pueden /\ Duenos' = Duenos
    <2>1. EnManos /\ ERL \in Conexiones
      BY DEF IInv, Conexiones
    <2> QED
      BY <1>1, <1>5, <2>1, Empieza, Quietos
  <1>9. Gestion'
    BY <1>7, <1>8 DEF IInv, Gestion
  <1>10. Armado'
    BY <1>1 DEF IInv, Armado
  <1>11. Clientes'
    BY <1>1 DEF IInv, Clientes, Cerrado
  <1> QED
    BY <1>8, <1>9, <1>10, <1>11 DEF IInv

(* JOB_TIMEOUT. *)
LEMMA PasoJobTimeout ==
  ASSUME IInv, NEW j \in Propios, JobTimeout(j)
  PROVE  IInv'
  <1> DEFINE q == <<[op |-> "quitar", job |-> j]>>
             a == q \o Purgas(j)
  <1>1. /\ est[ERL] = "abierta" /\ cliente' = [cliente EXCEPT ![j] = Cerrado(j)] /\ Sigue(ERL, a)
        /\ UNCHANGED <<nd, lock, armando, est, ajeno, enVecino>>
    BY DEF JobTimeout, Libre
  <1>2. j \in Jobs
    BY Parametros
  <1>3. a \in Seq(Abiertas)
    <2>1. [op |-> "quitar", job |-> j] \in Comunes
      <3>1. [op |-> "quitar", job |-> j] \in [op : {"quitar"}, job : Jobs]
        BY <1>2
      <3> QED
        BY <3>1, Zenon DEF Comunes
    <2>2. q \in Seq(Comunes)
      BY <2>1
    <2> HIDE DEF q
    <2>3. a \in Seq(Comunes) /\ Comunes \subseteq Abiertas
      BY <1>2, <2>2, SonPurgas, ConcatProperties DEF Abiertas
    <2> HIDE DEF a
    <2> QED
      BY <2>3, Contiene
  <1> HIDE DEF a
  <1>4. EnManos' /\ Pueden' = Pueden /\ Duenos' = Duenos
    BY <1>1, <1>3, Empieza DEF IInv, Conexiones
  <1>5. Gestion' /\ Armado'
    BY <1>1, <1>4 DEF IInv, Gestion, Armado
  <1>6. Clientes'
    BY <1>1 DEF IInv, Clientes, Cerrado
  <1> QED
    BY <1>4, <1>5, <1>6 DEF IInv

(* RESERVE: the connection that enters the queue is open. *)
LEMMA PasoReserve ==
  ASSUME IInv, NEW j \in Ajenos, Reserve(j)
  PROVE  IInv'
  <1> DEFINE x == [nd EXCEPT !.tx = << >>]
             m == MensajeRecurso("RESERVE", j, Ajeno[j].tipo, Ajeno[j].monto)
             r == RESERVE(x, Vuelta, m)
             como == IF r.tx = << >> THEN "esperando"
                     ELSE IF r.tx[1].msg.clase = "GRANTED" THEN "trabajando" ELSE "fin"
             e == << >>
  <1>1. /\ est[Vuelta] = "abierta" /\ nd' = [r EXCEPT !.tx = e]
        /\ ajeno' = [ajeno EXCEPT ![j] = como]
        /\ UNCHANGED <<lock, hace, armando, est, cliente, enVecino>>
    BY DEF Reserve, Libre
  <1>2. j \in Jobs /\ Ajeno[j].tipo \in Tipos /\ Ajeno[j].monto \in Nat
    BY Parametros
  <1>3. x \in Managers(Pueden, Duenos) /\ Vuelta \in Pueden[Ajeno[j].tipo]
    <2>1. nd \in Managers(Pueden, Duenos) /\ e \in Seq(Envios)
      BY DEF IInv, Gestion
    <2>2. [nd EXCEPT !.tx = e] \in Managers(Pueden, Duenos)
      <3> HIDE DEF e
      <3> QED
        BY <2>1, CambiaTx
    <2>3. Vuelta \in Pueden[Ajeno[j].tipo]
      BY <1>1, <1>2 DEF Pueden, Conexiones
    <2> QED
      BY <2>2, <2>3
  <1> HIDE DEF x
  <1>4. r \in Managers(Pueden, Duenos)
    BY <1>2, <1>3, SonPermisos, ReservaAjena
  <1>5. como \in {"nuevo", "esperando", "trabajando", "fin"}
    OBVIOUS
  <1> HIDE DEF r, como
  <1>6. nd' \in Managers(Pueden, Duenos) /\ nd'.tx = << >>
    <2>1. e \in Seq(Envios) /\ [r EXCEPT !.tx = e].tx = e
      BY <1>4 DEF Managers
    <2>2. [r EXCEPT !.tx = e] \in Managers(Pueden, Duenos)
      BY <1>4, <2>1, CambiaTx
    <2> QED
      BY <1>1, <2>1, <2>2
  <1>7. EnManos' /\ Pueden' = Pueden /\ Duenos' = Duenos
    BY <1>1, Quietos DEF IInv
  <1>8. Gestion' /\ Armado'
    BY <1>1, <1>6, <1>7 DEF IInv, Gestion, Armado
  <1>9. Clientes'
    BY <1>1, <1>5 DEF IInv, Clientes
  <1> QED
    BY <1>7, <1>8, <1>9 DEF IInv

(* RELEASE from Vecino. *)
LEMMA PasoRelease ==
  ASSUME IInv, NEW j \in Ajenos, Release(j)
  PROVE  IInv'
  <1> DEFINE d == devolver(Ajeno[j].tipo, Ajeno[j].monto, j)
             u == [op |-> "quitar", job |-> j]
             q == <<d, u>>
             a == q \o Purgas(j)
  <1>1. /\ est[Vuelta] = "abierta" /\ ajeno' = [ajeno EXCEPT ![j] = "fin"] /\ Sigue(Vuelta, a)
        /\ UNCHANGED <<nd, lock, armando, est, cliente, enVecino>>
    BY DEF Release, Libre
  <1>2. j \in Jobs /\ Ajeno[j].tipo \in Tipos /\ Ajeno[j].monto \in Nat
    BY Parametros
  <1>3. a \in Seq(Abiertas)
    <2>1. d \in Comunes /\ u \in Comunes
      BY <1>2, SonComunes, Zenon
    <2> HIDE DEF d, u
    <2>2. q \in Seq(Comunes)
      BY <2>1
    <2> HIDE DEF q
    <2>3. a \in Seq(Comunes) /\ Comunes \subseteq Abiertas
      BY <1>2, <2>2, SonPurgas, ConcatProperties DEF Abiertas
    <2> HIDE DEF a
    <2> QED
      BY <2>3, Contiene
  <1> HIDE DEF a
  <1>4. EnManos' /\ Pueden' = Pueden /\ Duenos' = Duenos
    BY <1>1, <1>3, Empieza DEF IInv, Conexiones
  <1>5. Gestion' /\ Armado'
    BY <1>1, <1>4 DEF IInv, Gestion, Armado
  <1>6. Clientes'
    BY <1>1 DEF IInv, Clientes
  <1> QED
    BY <1>4, <1>5, <1>6 DEF IInv

-------------------------------------------------------------------------------
(* A connection goes away. *)

(* The tasks of process_disconnect: every queue, then the table. *)
LEMMA Despedida ==
  LET ts == SetToSeq(Tipos)
      s == [i \in DOMAIN ts |-> [op |-> "purgarConn", tipo |-> ts[i]]]
             \o <<[op |-> "extraer"], [op |-> "borrar"]>>
  IN  /\ s \in Seq(Cerrando) /\ AlFinal(s)
      /\ \A t \in Tipos : \E i \in DOMAIN s : s[i].op = "purgarConn" /\ s[i].tipo = t
      /\ \E i \in DOMAIN s : s[i].op = "extraer"
  <1> DEFINE ts == SetToSeq(Tipos)
             n == Len(ts)
             C == Cerrando
             P(i) == [op |-> "purgarConn", tipo |-> ts[i]]
             X == [op |-> "extraer"]
             Y == [op |-> "borrar"]
             p == [i \in DOMAIN ts |-> P(i)]
             q == <<X, Y>>
             s == p \o q
  <1>1. ts \in Seq(Tipos) /\ n \in Nat /\ DOMAIN ts = 1 .. n
        /\ \A t \in Tipos : \E i \in DOMAIN ts : ts[i] = t
    BY Lista, LenProperties
  <1>2. \A i \in 1 .. n : ts[i] \in Tipos
    BY <1>1, ElementOfSeq
  <1> HIDE DEF ts, n
  <1>3. ASSUME NEW i \in 1 .. n
        PROVE  P(i) \in C /\ P(i).op = "purgarConn" /\ P(i).tipo = ts[i]
    <2>1. P(i) \in [op : {"purgarConn"}, tipo : Tipos]
      BY <1>2
    <2>2. P(i) \in C
      BY <2>1, Zenon DEF Cerrando
    <2> QED
      BY <2>2
  <1>4. X \in C /\ Y \in C /\ X.op = "extraer" /\ Y.op = "borrar"
    <2>1. X \in [op : {"extraer", "borrar"}] /\ Y \in [op : {"extraer", "borrar"}]
      OBVIOUS
    <2>2. X \in C /\ Y \in C
      BY <2>1, Zenon DEF Cerrando
    <2> QED
      BY <2>2
  <1> HIDE DEF P, X, Y, C
  <1>5. p \in Seq(C) /\ Len(p) = n /\ \A i \in 1 .. n : p[i] = P(i)
    BY <1>1, <1>3
  <1>6. q \in Seq(C) /\ Len(q) = 2 /\ q[1] = X /\ q[2] = Y
    BY <1>4
  <1> HIDE DEF p, q
  <1>7. /\ s \in Seq(C) /\ Len(s) = n + 2
        /\ \A i \in 1 .. n : s[i] = P(i)
        /\ s[n + 1] = X /\ s[n + 2] = Y
    <2>1. /\ s \in Seq(C) /\ Len(s) = Len(p) + Len(q)
          /\ \A i \in 1 .. Len(p) : s[i] = p[i]
          /\ \A i \in 1 .. Len(q) : s[Len(p) + i] = q[i]
      <3>0. p \in Seq(C) /\ q \in Seq(C)
        BY <1>5, <1>6
      <3>1. s \in Seq(C) /\ Len(s) = Len(p) + Len(q)
        BY <3>0, Pegar
      <3>2. \A i \in 1 .. Len(p) : s[i] = p[i]
        BY <3>0, Pegar
      <3>3. \A i \in 1 .. Len(q) : s[Len(p) + i] = q[i]
        BY <3>0, Pegar
      <3> QED
        BY <3>1, <3>2, <3>3
    <2> HIDE DEF s
    <2>2. s \in Seq(C) /\ Len(s) = n + 2 /\ \A i \in 1 .. n : s[i] = P(i)
      BY <1>5, <1>6, <2>1
    <2>3. 1 \in 1 .. Len(q) /\ 2 \in 1 .. Len(q)
      BY <1>6
    <2> QED
      BY <1>5, <1>6, <2>1, <2>2, <2>3
  <1> HIDE DEF s
  <1>8. DOMAIN s = 1 .. (n + 2)
    BY <1>7, LenProperties
  <1>9. AlFinal(s)
    <2> SUFFICES ASSUME NEW i \in 1 .. (n + 2), s[i].op = "borrar" PROVE i = n + 2
      BY <1>7, <1>8 DEF AlFinal
    <2>1. i \in 1 .. n \/ i = n + 1 \/ i = n + 2
      BY <1>1
    <2> QED
      BY <1>3, <1>4, <1>7, <2>1
  <1>10. ASSUME NEW t \in Tipos PROVE \E i \in DOMAIN s : s[i].op = "purgarConn" /\ s[i].tipo = t
    <2>1. PICK i \in 1 .. n : ts[i] = t
      BY <1>1
    <2>2. i \in DOMAIN s
      BY <1>1, <1>8
    <2> QED
      BY <1>3, <1>7, <2>1, <2>2
  <1>11. \E i \in DOMAIN s : s[i].op = "extraer"
    <2>1. n + 1 \in DOMAIN s
      BY <1>1, <1>8
    <2> QED
      BY <1>4, <1>7, <2>1
  <1> QED
    BY <1>7, <1>9, <1>10, <1>11 DEF s, p, q, C, P, X, Y, ts

(* process_disconnect begins: the bounds stay, now through the tasks to come. *)
LEMMA PasoDesconectar ==
  ASSUME IInv, NEW c \in Conexiones, Desconectar(c)
  PROVE  IInv'
  <1> DEFINE ts == SetToSeq(Tipos)
             s == [i \in DOMAIN ts |-> [op |-> "purgarConn", tipo |-> ts[i]]]
                    \o <<[op |-> "extraer"], [op |-> "borrar"]>>
             C == Cerrando
             U == Abiertas \cup Cerrando
  <1>1. /\ c \in Cierran /\ est' = [est EXCEPT ![c] = "cerrando"] /\ hace' = [hace EXCEPT ![c] = s]
        /\ UNCHANGED <<nd, lock, armando, cliente, ajeno, enVecino>>
    BY DEF Desconectar, Sigue
  <1>2. /\ s \in Seq(C) /\ AlFinal(s)
        /\ \A t \in Tipos : \E i \in DOMAIN s : s[i].op = "purgarConn" /\ s[i].tipo = t
        /\ \E i \in DOMAIN s : s[i].op = "extraer"
    BY Despedida
  <1> HIDE DEF s
  <1>3. s \in Seq(U)
    <2>1. C \subseteq U
      OBVIOUS
    <2> HIDE DEF C, U
    <2> QED
      BY <1>2, <2>1, Contiene
  <1>4. /\ hace' \in [Conexiones -> Seq(U)] /\ hace'[c] = s /\ est'[c] = "cerrando"
        /\ \A d \in Conexiones \ {c} : hace'[d] = hace[d] /\ est'[d] = est[d]
        /\ est' \in [Conexiones -> {"abierta", "cerrando", "liberada"}] /\ (Ida \notin Cierran => est'[Ida] = "abierta")
    <2> HIDE DEF U
    <2>1. est \in [Conexiones -> {"abierta", "cerrando", "liberada"}] /\ (Ida \notin Cierran => est[Ida] = "abierta")
          /\ hace \in [Conexiones -> Seq(U)]
      BY DEF IInv, EnManos, U
    <2> QED
      BY <1>1, <1>3, <2>1 DEF Conexiones
  <1>5. EnManos'
    <2>1. ASSUME NEW d \in Conexiones
          PROVE  /\ est'[d] = "abierta" => hace'[d] \in Seq(Abiertas)
                 /\ est'[d] = "cerrando" => hace'[d] \in Seq(Cerrando) /\ AlFinal(hace'[d])
                 /\ est'[d] = "liberada" => hace'[d] = << >>
      <3>1. CASE d = c
        BY <1>2, <1>4, <3>1
      <3>2. CASE d # c
        BY <1>4, <3>2 DEF IInv, EnManos
      <3> QED
        BY <3>1, <3>2
    <2> QED
      BY <1>4, <2>1 DEF EnManos, AlFinal
  <1>6. \A t \in Tipos : Pueden[t] \subseteq Pueden'[t]
    BY <1>2, <1>4 DEF Pueden
  <1>7. Duenos \subseteq Duenos'
    BY <1>2, <1>4 DEF Duenos, Conexiones
  <1>8. nd' \in Managers(Pueden', Duenos') /\ nd'.tx = nd.tx
    <2>1. nd \in Managers(Pueden, Duenos) /\ nd' = nd
      BY <1>1 DEF IInv, Gestion
    <2> QED
      BY <1>6, <1>7, <2>1, Crece
  <1> QED
    BY <1>1, <1>5, <1>8, SinEntregas

-------------------------------------------------------------------------------
(* The theorems. *)

(* At the start nothing is named but the connection to Vecino. *)
LEMMA AlEmpezar ==
  ASSUME Init
  PROVE  IInv
  <1> DEFINE e == << >>
             k == <<[ip |-> Vecino, conn |-> Ida]>>
             rec == [t \in Tipos |-> [libre |-> Total[Yo][t], cola |-> e]]
             tiene == [t \in Tipos |-> [j \in Jobs |-> 0]]
  <1>1. nd = [ip |-> Yo, tabla |-> e, conns |-> k, tx |-> e, abre |-> e, rec |-> rec, tiene |-> tiene]
    BY DEF Init, manager_init
  <1>2. \A c \in Conexiones : est[c] = "abierta" /\ hace[c] = << >>
    BY DEF Init
  <1>3. EnManos
    BY DEF Init, EnManos, Conexiones
  <1>4. \A t \in Tipos : rec[t] \in Recurso(t, Pueden[t]) /\ rec[t] \in [libre : Nat, cola : Seq(Encoladas(Conexiones))]
    BY Parametros, TotalNatural DEF Recurso
  <1>5. rec \in Recursos(Pueden)
    <2>1. rec \in [Tipos -> [libre : Nat, cola : Seq(Encoladas(Conexiones))]]
      BY <1>4
    <2> HIDE DEF rec
    <2> QED
      BY <1>4, <2>1 DEF Recursos
  <1>6. k \in Conocidas
    BY Parametros DEF Conocidas, Ips
  <1>7. e \in Seq(Trabajos(Duenos)) /\ e \in Seq(Envios) /\ tiene \in [Tipos -> [Jobs -> Int]]
    OBVIOUS
  <1> HIDE DEF rec, k, tiene
  <1>8. nd \in Managers(Pueden, Duenos) /\ nd.tx = << >>
    BY <1>1, <1>5, <1>6, <1>7 DEF Managers
  <1>9. Armado /\ Clientes
    BY DEF Init, Armado, Clientes
  <1> QED
    BY <1>3, <1>8, <1>9 DEF IInv, Gestion

(* Every step keeps the invariant. *)
LEMMA SeMantiene ==
  ASSUME IInv, [Next]_vars
  PROVE  IInv'
  <1>1. CASE UNCHANGED vars
    <2>1. EnManos' /\ Pueden' = Pueden /\ Duenos' = Duenos
      BY <1>1, Quietos DEF IInv, vars
    <2> QED
      BY <1>1, <2>1 DEF vars, IInv, Gestion, Armado, Clientes
  <1>2. CASE Trabajador
    BY <1>2, PasoItem, PasoInsertar, PasoDevolver, PasoPurgar, PasoPurgarConn, PasoAvisar,
       PasoQuitar, PasoExtraer, PasoBorrar DEF Trabajador
  <1>3. CASE Mensajes
    BY <1>3, PasoJobRequest, PasoJobRelease, PasoRespuesta, PasoReserve, PasoRelease DEF Mensajes
  <1>4. CASE Percance
    BY <1>4, PasoJobTimeout, PasoDesconectar DEF Percance
  <1> QED
    BY <1>1, <1>2, <1>3, <1>4 DEF Next

(***************************************************************************)
(* The inductive invariant: a connection that goes away is in a queue only *)
(* until its worker purged that queue, and owns jobs only until its worker *)
(* took them out; the worker forgets it last, with nothing left to do.     *)
(***************************************************************************)
THEOREM Induccion ==
  Spec => []IInv
  BY AlEmpezar, SeMantiene, PTL DEF Spec

(* The manager's units stay within the total, and every answer leaves with *)
(* the step that makes it, whatever the workers interleave.                *)
THEOREM Tipado ==
  Spec => []TypeOK
  <1>1. ASSUME IInv PROVE TypeOK
    <2>1. \A t \in Tipos : nd.rec[t].libre \in 0 .. Total[Yo][t]
      BY <1>1, Campos DEF IInv, Gestion, Recursos, Recurso
    <2> QED
      BY <1>1, <2>1 DEF IInv, TypeOK, EnManos, Gestion, Clientes
  <1> QED
    BY <1>1, Induccion, PTL

(* Nothing names a freed connection while the connection to Vecino stays. *)
LEMMA NadaColgado ==
  ASSUME Ida \notin Cierran, IInv
  PROVE  SinConexionesColgadas
  <1> DEFINE Viva(s) == \A i \in DOMAIN s : est[s[i].conn] # "liberada"
  <1>1. est[Ida] = "abierta" /\ nd \in Managers(Pueden, Duenos) /\ EnManos
    BY DEF IInv, EnManos, Gestion
  <1>2. \A c \in Conexiones : est[c] = "liberada" => hace[c] = << >>
    BY <1>1 DEF EnManos
  <1>3. \A c \in Duenos : c = ERL /\ est[c] # "liberada"
    BY <1>2 DEF Duenos, Conexiones
  <1>4. \A t \in Tipos : \A c \in Pueden[t] : est[c] # "liberada"
    BY <1>2 DEF Pueden
  <1>5. ASSUME NEW s \in Seq(Salientes) PROVE Viva(s)
    <2>1. \A i \in DOMAIN s : s[i] \in Salientes
      BY LenProperties, ElementOfSeq
    <2> QED
      BY <1>1, <2>1 DEF Salientes
  <1>6. Viva(nd.conns)
    <2> DEFINE s == nd.conns
               S == [ip : Ips, conn : {Ida}]
    <2>1. s \in Seq(S)
      BY <1>1, Campos DEF Conocidas
    <2> HIDE DEF s
    <2>2. \A i \in DOMAIN s : s[i] \in S
      BY <2>1, LenProperties, ElementOfSeq
    <2> QED
      BY <1>1, <2>2 DEF s
  <1>7. \A i \in DOMAIN nd.tabla : nd.tabla[i] \in Trabajos(Duenos)
    BY <1>1, Campos, LenProperties, ElementOfSeq
  <1>8. Viva(nd.tabla)
    BY <1>3, <1>7 DEF Trabajos
  <1>9. Viva(armando.pendientes)
    BY <1>5 DEF IInv, Armado
  <1>10. ASSUME NEW t \in Tipos PROVE Viva(nd.rec[t].cola)
    <2> DEFINE s == nd.rec[t].cola
               S == Encoladas(Pueden[t])
    <2>1. s \in Seq(S)
      BY <1>1, Campos DEF Recursos, Recurso
    <2> HIDE DEF s, S
    <2>2. \A i \in DOMAIN s : s[i] \in S
      BY <2>1, LenProperties, ElementOfSeq
    <2> QED
      BY <1>4, <2>2 DEF s, S, Encoladas
  <1>11. ASSUME NEW i \in DOMAIN nd.tabla
         PROVE  Viva(nd.tabla[i].confirmadas) /\ Viva(nd.tabla[i].pendientes)
    <2> DEFINE y == nd.tabla[i]
    <2>1. y \in Trabajos(Duenos)
      BY <1>7
    <2> HIDE DEF y
    <2>2. y.conn \in Duenos /\ y.confirmadas \in Seq(Allocs) /\ y.pendientes \in Seq(Salientes)
      BY <2>1 DEF Trabajos
    <2>3. est[ERL] # "liberada"
      BY <1>3, <2>2
    <2>4. \A k \in DOMAIN y.confirmadas : y.confirmadas[k] \in Allocs
      BY <2>2, LenProperties, ElementOfSeq
    <2>5. Viva(y.confirmadas)
      BY <1>1, <2>3, <2>4, DeAlloc
    <2>6. Viva(y.pendientes)
      BY <1>5, <2>2
    <2> QED
      BY <2>5, <2>6 DEF y
  <1>12. ASSUME NEW c \in Conexiones, NEW i \in DOMAIN hace[c], hace[c][i].op = "avisar"
         PROVE  est[hace[c][i].conn] # "liberada"
    <2> DEFINE h == hace[c][i]
    <2>1. h \in Abiertas \cup Cerrando
      BY <1>1, LenProperties, ElementOfSeq DEF EnManos
    <2> HIDE DEF h
    <2>2. h.op = "avisar"
      BY <1>12 DEF h
    <2>3. h.conn = Ida
      BY <2>1, <2>2, DeTarea
    <2> QED
      BY <1>1, <2>3 DEF h
  <1> QED
    BY <1>6, <1>8, <1>9, <1>10, <1>11, <1>12 DEF SinConexionesColgadas

(***************************************************************************)
(* "Llamar antes de destruir el socket": when the connection of the client *)
(* or one Vecino opened is freed, no queue, job or task of another worker  *)
(* names it, in whatever order the workers take their steps.  The one this *)
(* agent opened is left out: a task that looked it up may still hold it.   *)
(***************************************************************************)
THEOREM NadieUsaLoLiberado ==
  ASSUME Ida \notin Cierran
  PROVE  Spec => []SinConexionesColgadas
  BY NadaColgado, Induccion, PTL

-------------------------------------------------------------------------------
(* The table and the queues. *)

(* The allocations s have a local one of type t with that result. *)
Suya(s, t, r) == \E k \in DOMAIN s : s[k].lado = "LOCAL" /\ s[k].tipo = t /\ s[k].result = r

(* Job j waits in the queue of t. *)
Espera(x, t, j) == \E i \in DOMAIN x.rec[t].cola : x.rec[t].cola[i].job = j

EnTabla(x, j) == \E i \in DOMAIN x.tabla : x.tabla[i].job = j

(* The allocations s of job j are one for each type, of all the job asks   *)
(* of it; it waits where one is queued and has what the granted ones say.  *)
Cuadran(x, j, s) ==
  /\ \A k, l \in DOMAIN s : s[k].lado = "LOCAL" /\ s[l].lado = "LOCAL" /\ s[k].tipo = s[l].tipo => k = l
  /\ \A k \in DOMAIN s : s[k].lado = "LOCAL" => s[k].monto = Pide(j, s[k].tipo) /\ s[k].monto # 0
  /\ \A t \in Tipos :
       /\ Espera(x, t, j) <=> Suya(s, t, "RM_QUEUED")
       /\ x.tiene[t][j] = IF Suya(s, t, "RM_GRANTED") THEN Pide(j, t) ELSE 0

(* There is one for each type it asks for. *)
Completa(j, s) ==
  \A t \in Tipos : Pide(j, t) # 0 => Suya(s, t, "RM_QUEUED") \/ Suya(s, t, "RM_GRANTED")

(* The requests of this agent's client wait in the queue s of t once, for  *)
(* all the job asks of t; S are the jobs it asked for already.             *)
Fila(s, t, S) ==
  /\ \A i, k \in DOMAIN s :
       s[i].origen = "LOCAL" /\ s[k].origen = "LOCAL" /\ s[i].job = s[k].job => i = k
  /\ \A i \in DOMAIN s :
       IF s[i].origen = "LOCAL"
       THEN s[i].job \in S /\ s[i].conn = ERL /\ s[i].monto = Pide(s[i].job, t) /\ s[i].monto # 0
       ELSE s[i].job \in Ajenos

EnFila(x, S) ==
  \A t \in Tipos :
    /\ Fila(x.rec[t].cola, t, S)
    /\ \A j \in Propios : x.tiene[t][j] # 0 => j \in S /\ Pide(j, t) # 0

Cuadra(x, S) ==
  /\ \A i \in DOMAIN x.tabla :
       /\ x.tabla[i].job \in S
       /\ Cuadran(x, x.tabla[i].job, x.tabla[i].confirmadas)
       /\ Completa(x.tabla[i].job, x.tabla[i].confirmadas)
  /\ \A i, k \in DOMAIN x.tabla : x.tabla[i].job = x.tabla[k].job => i = k
  /\ EnFila(x, S)

(* Nothing of the job w is pending at Vecino or queued here. *)
Cumplida(w) ==
  /\ w.pendientes = << >>
  /\ \A i \in DOMAIN w.confirmadas :
       ~(w.confirmadas[i].lado = "LOCAL" /\ w.confirmadas[i].result = "RM_QUEUED")

Cumple(x, j) == \E i \in DOMAIN x.tabla : x.tabla[i].job = j /\ Cumplida(x.tabla[i])

(* Who is told that its job is granted waits for nothing. *)
BienDicho(x) ==
  \A i \in DOMAIN x.tx :
    x.tx[i].conn = ERL /\ x.tx[i].msg.clase = "JOB_GRANTED" => Cumple(x, x.tx[i].msg.job)

(* The jobs of x are those of y, and no less served in y. *)
Progresa(x, y) ==
  /\ DOMAIN y.tabla = DOMAIN x.tabla
  /\ \A i \in DOMAIN x.tabla :
       /\ y.tabla[i].job = x.tabla[i].job /\ y.tabla[i].pendientes = x.tabla[i].pendientes
       /\ Cumplida(x.tabla[i]) => Cumplida(y.tabla[i])

(* The jobs the client asked for. *)
Pedidos == {j \in Propios : cliente[j] # "nuevo"}

(* What the job asks of type t up to its item p. *)
Hasta(j, p, t) ==
  LET I == {i \in 1 .. p : Pedido[j][i].ip = Yo /\ Pedido[j][i].tipo = t}
  IN  IF I = {} THEN 0 ELSE Pedido[j][CHOOSE i \in I : TRUE].monto

Falta(j, p) ==
  [i \in 1 .. Len(Pedido[j]) - p + 1 |->
     IF i > Len(Pedido[j]) - p THEN [op |-> "insertar", job |-> j]
     ELSE [op |-> "item", job |-> j, it |-> Pedido[j][p + i]]]

(* The JOB_REQUEST of j is at its item p. *)
Arma(j, p) ==
  /\ hace[ERL] = Falta(j, p)
  /\ cliente[j] \notin {"nuevo", "trabajando"} /\ ~EnTabla(nd, j)
  /\ enVecino[j] <= Len(armando.pendientes)
  /\ Cuadran(nd, j, armando.confirmadas)
  /\ \A t \in Tipos : Hasta(j, p, t) # 0 <=>
       Suya(armando.confirmadas, t, "RM_QUEUED") \/ Suya(armando.confirmadas, t, "RM_GRANTED")

Pidiendose(j) == lock = ERL /\ Head(hace[ERL]).job = j

EnCurso ==
  IF lock = ERL THEN \E j \in Propios : \E p \in 0 .. Len(Pedido[j]) : Arma(j, p)
  ELSE \A i \in DOMAIN hace[ERL] : hace[ERL][i].op \notin {"item", "insertar"}

(* What is still to be done for a job that was taken out of the table. *)
Trata(h, j) == h.op \in {"devolver", "purgar", "quitar"} /\ h.job = j

Difuntos ==
  \A c \in Conexiones : \A i \in DOMAIN hace[c] : \A j \in Propios :
    LET h == hace[c][i]
    IN  Trata(h, j) =>
          /\ cliente[j] # "nuevo" /\ ~Pidiendose(j)
          /\ h.op = "devolver" => Pide(j, h.tipo) # 0
          /\ h.op = "quitar" => cliente[j] = "abandonado"
          /\ EnTabla(nd, j) => Head(hace[c]).op = "quitar" /\ Head(hace[c]).job = j

EnVilo ==
  /\ \A i \in DOMAIN nd.tabla : enVecino[nd.tabla[i].job] <= Len(nd.tabla[i].pendientes)
  /\ \A j \in Propios : cliente[j] = "nuevo" => enVecino[j] = 0

NadaAqui(j) == \A t \in Tipos : Pide(j, t) = 0

Servidos ==
  \A j \in Propios : cliente[j] = "trabajando" =>
    IF EnTabla(nd, j) THEN Cumple(nd, j) ELSE NadaAqui(j)

Orden == Cuadra(nd, Pedidos) /\ EnVilo /\ Servidos /\ EnCurso /\ Difuntos

KInv == est[ERL] = "abierta" => Orden

(* Job j has in y what it had in x, and waits for the same. *)
Igual(x, y, j) ==
  \A t \in Tipos : (Espera(y, t, j) <=> Espera(x, t, j)) /\ y.tiene[t][j] = x.tiene[t][j]

(* y comes from x through releases and messages. *)
Bien(x, y, S) == Cuadra(y, S) /\ BienDicho(y) /\ Progresa(x, y)

(* The row w of the table is v now. *)
Pasa(w, v) == v.job = w.job /\ v.pendientes = w.pendientes /\ (Cumplida(w) => Cumplida(v))

(* The table of y is that of x without the jobs in J. *)
Deriva(x, y, J) ==
  /\ \A i \in DOMAIN y.tabla :
       y.tabla[i].job \notin J /\ \E k \in DOMAIN x.tabla : Pasa(x.tabla[k], y.tabla[i])
  /\ \A k \in DOMAIN x.tabla :
       x.tabla[k].job \notin J => \E i \in DOMAIN y.tabla : Pasa(x.tabla[k], y.tabla[i])

(* What is to be done for a job that left the table. *)
Restos(j) ==
  {h \in Comunes : h.job = j /\ h.op # "quitar" /\ (h.op = "devolver" => Pide(j, h.tipo) # 0)}

(* The clients go on with no new job, and who is told is served. *)
Siguen ==
  \A j \in Propios :
    /\ cliente'[j] = "nuevo" <=> cliente[j] = "nuevo"
    /\ cliente[j] = "abandonado" => cliente'[j] = "abandonado"
    /\ cliente'[j] = "trabajando" => cliente[j] = "trabajando" \/ Cumple(nd', j)

(* What a task h for job j needs, but for j being out of the table. *)
Debida(h, j) ==
  /\ cliente[j] # "nuevo" /\ ~Pidiendose(j)
  /\ h.op = "devolver" => Pide(j, h.tipo) # 0
  /\ h.op = "quitar" => cliente[j] = "abandonado"

(* The jobs that leave the table are those in J, none of them working here. *)
Salieron(J) ==
  /\ \A j : EnTabla(nd', j) <=> EnTabla(nd, j) /\ j \notin J
  /\ \A j : Cumple(nd, j) /\ j \notin J => Cumple(nd', j)
  /\ \A j \in Propios : j \in J /\ cliente'[j] = "trabajando" => NadaAqui(j)

(* What Sin leaves of s[1], .., s[k] is u: the element u[i] was s[g[i]]. *)
Quedan(u, s, fuera, k, g) ==
  /\ g \in [1 .. Len(u) -> 1 .. k]
  /\ \A i \in 1 .. Len(u) : u[i] = s[g[i]] /\ s[g[i]] \notin fuera
  /\ \A i, l \in 1 .. Len(u) : g[i] = g[l] => i = l
  /\ \A i \in 1 .. k : s[i] \notin fuera => \E l \in 1 .. Len(u) : g[l] = i

(* What Sin has kept after one more element of the list. *)
LEMMA QuedaUnoMas ==
  ASSUME NEW S, NEW u \in Seq(S), NEW s, NEW fuera, NEW k \in Nat, NEW g, Quedan(u, s, fuera, k - 1, g), k # 0,
         s[k] \in S
  PROVE  /\ s[k] \in fuera => Quedan(u, s, fuera, k, g)
         /\ s[k] \notin fuera => \E f : Quedan(Append(u, s[k]), s, fuera, k, f)
  <1> DEFINE n == Len(u)
             v == Append(u, s[k])
             f == [i \in 1 .. n + 1 |-> IF i = n + 1 THEN k ELSE g[i]]
  <1>1. n \in Nat /\ Len(v) = n + 1 /\ v[n + 1] = s[k] /\ \A i \in 1 .. n : v[i] = u[i]
    BY LenProperties, AppendProperties
  <1>2. /\ g \in [1 .. n -> 1 .. k - 1]
        /\ \A i \in 1 .. n : u[i] = s[g[i]] /\ s[g[i]] \notin fuera
        /\ \A i, l \in 1 .. n : g[i] = g[l] => i = l
        /\ \A i \in 1 .. k - 1 : s[i] \notin fuera => \E l \in 1 .. n : g[l] = i
    BY DEF Quedan
  <1>3. \A i \in 1 .. n : g[i] \in 1 .. k - 1 /\ g[i] # k
    BY <1>2
  <1>4. ASSUME s[k] \in fuera PROVE Quedan(u, s, fuera, k, g)
    <2>1. g \in [1 .. n -> 1 .. k]
      BY <1>2
    <2>2. \A i \in 1 .. k : s[i] \notin fuera => i \in 1 .. k - 1
      BY <1>4
    <2> HIDE DEF n
    <2> QED
      BY <1>2, <2>1, <2>2 DEF Quedan, n
  <1>5. ASSUME s[k] \notin fuera PROVE Quedan(v, s, fuera, k, f)
    <2>1. f \in [1 .. n + 1 -> 1 .. k] /\ f[n + 1] = k /\ \A i \in 1 .. n : f[i] = g[i]
      <3> HIDE DEF n
      <3> QED
        BY <1>1, <1>2, <1>3
    <2>2. \A i \in 1 .. n + 1 : i \in 1 .. n \/ i = n + 1
      BY <1>1
    <2>3. \A i \in 1 .. n : i \in 1 .. n + 1
      BY <1>1
    <2> HIDE DEF v, f, n
    <2>4. \A i \in 1 .. n + 1 : v[i] = s[f[i]] /\ s[f[i]] \notin fuera
      BY <1>1, <1>2, <1>5, <2>1, <2>2
    <2>5. \A i, l \in 1 .. n + 1 : f[i] = f[l] => i = l
      BY <1>2, <1>3, <2>1, <2>2
    <2>6. \A i \in 1 .. k : s[i] \notin fuera => \E l \in 1 .. n + 1 : f[l] = i
      <3> SUFFICES ASSUME NEW i \in 1 .. k, s[i] \notin fuera PROVE \E l \in 1 .. n + 1 : f[l] = i
        OBVIOUS
      <3>1. CASE i = k
        BY <1>1, <2>1, <3>1
      <3>2. CASE i # k
        <4>1. i \in 1 .. k - 1
          BY <3>2
        <4>2. PICK l \in 1 .. n : g[l] = i
          BY <1>2, <4>1
        <4> QED
          BY <2>1, <2>3, <4>2
      <3> QED
        BY <3>1, <3>2
    <2> QED
      BY <1>1, <2>1, <2>4, <2>5, <2>6 DEF Quedan
  <1> HIDE DEF f
  <1> QED
    BY <1>4, <1>5, Zenon

(* Sin leaves out what it is told to, and nothing else. *)
LEMMA SinEs ==
  ASSUME NEW S, NEW s \in Seq(S), NEW fuera
  PROVE  \E g : Quedan(Sin(s, fuera), s, fuera, Len(s), g)
  <1> DEFINE n == Len(s)
             V == Seq(S)
             W == [k \in 0 .. n |-> {u \in V : \E g : Quedan(u, s, fuera, k, g)}]
             Paso(v, k) == IF s[k] \in fuera THEN v ELSE Append(v, s[k])
             Valor(it, u) == IF u = {} THEN << >> ELSE Paso(it[u \ {Max(u)}], Max(u))
             Solucion(it) == it = [u \in SUBSET (1 .. n) |-> Valor(it, u)]
             h == CHOOSE it : Solucion(it)
             G == [x \in V \X (1 .. n) |-> Paso(x[1], x[2])]
  <1>1. n \in Nat /\ DOMAIN s = 1 .. n /\ \A k \in 1 .. n : s[k] \in S
    BY LenProperties, ElementOfSeq
  <1>2. Sin(s, fuera) = h[1 .. n]
    BY <1>1 DEF Sin, FoldLeft, MapThenFoldSet
  <1>3. << >> \in V /\ \A v \in V : \A k \in 1 .. n : Paso(v, k) \in V
    BY <1>1, ElementOfSeq, EmptySeq, AppendProperties
  <1>4. \A v \in V : \A k \in 1 .. n : G[<<v, k>>] = Paso(v, k)
    OBVIOUS
  <1>5. << >> \in W[0]
    <2> DEFINE e == << >>
    <2>1. e \in V /\ Len(e) = 0
      OBVIOUS
    <2>2. Quedan(e, s, fuera, 0, e)
      BY <2>1 DEF Quedan
    <2>3. 0 \in 0 .. n
      BY <1>1
    <2> HIDE DEF e, V, n
    <2> QED
      BY <2>1, <2>2, <2>3 DEF e
  <1>6. ASSUME NEW k \in 1 .. n, NEW v \in W[k - 1] PROVE Paso(v, k) \in W[k]
    <2>1. k - 1 \in 0 .. n /\ k \in 0 .. n /\ k # 0 /\ k \in Nat
      BY <1>1
    <2>2. v \in V /\ \E g : Quedan(v, s, fuera, k - 1, g)
      <3> HIDE DEF V, n
      <3> QED
        BY <2>1
    <2>3. PICK g : Quedan(v, s, fuera, k - 1, g)
      BY <2>2
    <2>4. \E f : Quedan(Paso(v, k), s, fuera, k, f)
      <3>1. s[k] \in S
        BY <1>1
      <3>2. /\ s[k] \in fuera => Quedan(v, s, fuera, k, g)
            /\ s[k] \notin fuera => \E f : Quedan(Append(v, s[k]), s, fuera, k, f)
        BY <2>1, <2>2, <2>3, <3>1, QuedaUnoMas, Zenon
      <3> QED
        BY <3>2
    <2>5. Paso(v, k) \in V
      BY <1>3, <2>2
    <2> HIDE DEF V, n, Paso
    <2> QED
      BY <2>1, <2>4, <2>5
  <1> HIDE DEF n, V, W, G, Paso
  <1>7. PICK it : EsRecorrido(it, G, V, n, << >>)
    <2>1. NoSale(G, V, n)
      BY <1>3, <1>4, Zenon DEF NoSale
    <2> QED
      BY <1>1, <1>3, <2>1, HayPliegueEn, Zenon
  <1>8. \A u \in SUBSET (1 .. n) : it[u] = Valor(it, u)
    BY <1>4, <1>7, Zenon DEF EsRecorrido
  <1>9. Solucion(it)
    <2> HIDE DEF Valor
    <2> QED
      BY <1>7, <1>8 DEF EsRecorrido
  <1>10. Solucion(h)
    <2> HIDE DEF Solucion
    <2> QED
      BY <1>9
  <1> HIDE DEF h
  <1>11. EnW(h, W, n, << >>)
    <2>1. \A u \in SUBSET (1 .. n) : h[u] = Valor(h, u)
      BY <1>10, Zenon
    <2>2. \A u \in SUBSET (1 .. n) : u # {} => Max(u) \in 1 .. n
      BY <1>7, Zenon DEF EsRecorrido
    <2>3. {} \in SUBSET (1 .. n)
      OBVIOUS
    <2>4. h[{}] = << >>
      BY <2>1, <2>3, Zenon
    <2>5. ASSUME NEW u \in SUBSET (1 .. n), u # {}, h[u \ {Max(u)}] \in W[Max(u) - 1]
          PROVE  h[u] \in W[Max(u)]
      <3>1. h[u] = Paso(h[u \ {Max(u)}], Max(u))
        BY <2>1, <2>5, Zenon
      <3>2. Paso(h[u \ {Max(u)}], Max(u)) \in W[Max(u)]
        BY <1>6, <2>2, <2>5, Zenon
      <3> QED
        BY <3>1, <3>2, Zenon
    <2> QED
      BY <2>4, <2>5, Zenon DEF EnW
  <1>12. h[1 .. n] \in W[n]
    BY <1>1, <1>5, <1>11, LlegaAlFin, Zenon
  <1>13. n \in 0 .. n
    BY <1>1
  <1>14. \E g : Quedan(h[1 .. n], s, fuera, n, g)
    <2> DEFINE P(u, k) == \E g : Quedan(u, s, fuera, k, g)
    <2>1. W = [k \in 0 .. n |-> {u \in V : P(u, k)}]
      BY DEF W
    <2> HIDE DEF P
    <2>2. P(h[1 .. n], n)
      BY <1>12, <1>13, <2>1
    <2> QED
      BY <2>2 DEF P
  <1> QED
    BY <1>2, <1>14, Zenon DEF n

-------------------------------------------------------------------------------
(* What a job asks this agent for. *)

(* The items of a request of the client, by position. *)
LEMMA SonItems ==
  ASSUME NEW j \in Propios
  PROVE  /\ Pedido[j] \in Seq(Items) /\ Len(Pedido[j]) \in Nat /\ DOMAIN Pedido[j] = 1 .. Len(Pedido[j])
         /\ \A i \in 1 .. Len(Pedido[j]) :
              Pedido[j][i] \in Items /\ Pedido[j][i].monto \in Nat \ {0} /\ Pedido[j][i].tipo \in Tipos
  <1>1. Pedido[j] \in Seq(Items)
    BY Parametros DEF Items
  <1>2. \A i \in 1 .. Len(Pedido[j]) : Pedido[j][i] \in Items
    BY <1>1, ElementOfSeq
  <1> QED
    BY <1>1, <1>2, LenProperties DEF Items

(* An item more, of this type and of this agent or not. *)
LEMMA HastaSigue ==
  ASSUME UnoPorTipo, NEW j \in Propios, NEW p \in 1 .. Len(Pedido[j]), NEW t
  PROVE  LET it == Pedido[j][p]
         IN  /\ it.ip = Yo /\ it.tipo = t => Hasta(j, p - 1, t) = 0 /\ Hasta(j, p, t) = it.monto
             /\ ~(it.ip = Yo /\ it.tipo = t) => Hasta(j, p, t) = Hasta(j, p - 1, t)
  <1> DEFINE s == Pedido[j]
             I(q) == {i \in 1 .. q : s[i].ip = Yo /\ s[i].tipo = t}
  <1>1. Len(s) \in Nat /\ DOMAIN s = 1 .. Len(s) /\ p \in Nat /\ p # 0
    BY SonItems
  <1>2. \A q : Hasta(j, q, t) = IF I(q) = {} THEN 0 ELSE s[CHOOSE i \in I(q) : TRUE].monto
    BY DEF Hasta
  <1>3. CASE s[p].ip = Yo /\ s[p].tipo = t
    <2>1. \A i \in 1 .. p : s[i].ip = Yo /\ s[i].tipo = t => i = p
      BY <1>1, <1>3 DEF UnoPorTipo
    <2>2. I(p) = {p} /\ I(p - 1) = {}
      <3> HIDE DEF s
      <3> QED
        BY <1>1, <1>3, <2>1
    <2> HIDE DEF I
    <2>3. (CHOOSE i \in I(p) : TRUE) = p
      BY <2>2
    <2> QED
      BY <1>2, <1>3, <2>2, <2>3
  <1>4. CASE ~(s[p].ip = Yo /\ s[p].tipo = t)
    <2>1. I(p) = I(p - 1)
      <3> HIDE DEF s
      <3> QED
        BY <1>1, <1>4
    <2> HIDE DEF I
    <2> QED
      BY <1>2, <1>4, <2>1
  <1> QED
    BY <1>3, <1>4

(* Before its first item a job has asked for nothing. *)
LEMMA HastaCero ==
  \A j, t : Hasta(j, 0, t) = 0
  BY DEF Hasta

(* The whole job. *)
LEMMA PideEs ==
  ASSUME UnoPorTipo, NEW j \in Propios, NEW t
  PROVE  Pide(j, t) = Hasta(j, Len(Pedido[j]), t) /\ Pide(j, t) \in Nat
  <1> DEFINE s == Pedido[j]
             n == Len(s)
             V == Nat
             W == [k \in 0 .. n |-> {Hasta(j, k, t)} \cap V]
             Paso(v, k) == IF s[k].ip = Yo /\ s[k].tipo = t THEN v + s[k].monto ELSE v
             Valor(it, u) == IF u = {} THEN 0 ELSE Paso(it[u \ {Max(u)}], Max(u))
             Solucion(it) == it = [u \in SUBSET (1 .. n) |-> Valor(it, u)]
             h == CHOOSE it : Solucion(it)
             G == [x \in V \X (1 .. n) |-> Paso(x[1], x[2])]
  <1>1. n \in Nat /\ DOMAIN s = 1 .. n /\ \A k \in 1 .. n : s[k].monto \in Nat
    BY SonItems
  <1>2. Pide(j, t) = h[1 .. n]
    BY <1>1 DEF Pide, FoldLeft, MapThenFoldSet
  <1>3. 0 \in V /\ \A v \in V : \A k \in 1 .. n : Paso(v, k) \in V
    BY <1>1
  <1>4. \A v \in V : \A k \in 1 .. n : G[<<v, k>>] = Paso(v, k)
    OBVIOUS
  <1>5. 0 \in W[0]
    <2>1. 0 \in 0 .. n
      BY <1>1
    <2> HIDE DEF n
    <2> QED
      BY <2>1, HastaCero
  <1>6. ASSUME NEW k \in 1 .. n, NEW v \in W[k - 1] PROVE Paso(v, k) \in W[k]
    <2>1. k - 1 \in 0 .. n /\ k \in 0 .. n
      BY <1>1
    <2>2. v \in V /\ v = Hasta(j, k - 1, t)
      <3> HIDE DEF V, n
      <3> QED
        BY <2>1
    <2>3. Paso(v, k) = Hasta(j, k, t)
      <3>1. CASE s[k].ip = Yo /\ s[k].tipo = t
        <4>1. v = 0 /\ Hasta(j, k, t) = s[k].monto
          BY <2>2, <3>1, HastaSigue
        <4>2. s[k].monto \in Nat
          BY <1>1
        <4> QED
          BY <3>1, <4>1, <4>2
      <3>2. CASE ~(s[k].ip = Yo /\ s[k].tipo = t)
        <4>1. Hasta(j, k, t) = Hasta(j, k - 1, t)
          BY <3>2, HastaSigue
        <4> QED
          BY <2>2, <3>2, <4>1
      <3> QED
        BY <3>1, <3>2
    <2>4. Paso(v, k) \in V
      BY <1>3, <2>2
    <2> HIDE DEF V, n, Paso
    <2> QED
      BY <2>1, <2>3, <2>4
  <1> HIDE DEF n, V, W, G, Paso
  <1>7. PICK it : EsRecorrido(it, G, V, n, 0)
    <2>1. NoSale(G, V, n)
      BY <1>3, <1>4, Zenon DEF NoSale
    <2> QED
      BY <1>1, <1>3, <2>1, HayPliegueEn, Zenon
  <1>8. \A u \in SUBSET (1 .. n) : it[u] = Valor(it, u)
    BY <1>4, <1>7, Zenon DEF EsRecorrido
  <1>9. Solucion(it)
    <2> HIDE DEF Valor
    <2> QED
      BY <1>7, <1>8 DEF EsRecorrido
  <1>10. Solucion(h)
    <2> HIDE DEF Solucion
    <2> QED
      BY <1>9
  <1> HIDE DEF h
  <1>11. EnW(h, W, n, 0)
    <2>1. \A u \in SUBSET (1 .. n) : h[u] = Valor(h, u)
      BY <1>10, Zenon
    <2>2. \A u \in SUBSET (1 .. n) : u # {} => Max(u) \in 1 .. n
      BY <1>7, Zenon DEF EsRecorrido
    <2>3. {} \in SUBSET (1 .. n)
      OBVIOUS
    <2>4. h[{}] = 0
      BY <2>1, <2>3, Zenon
    <2>5. ASSUME NEW u \in SUBSET (1 .. n), u # {}, h[u \ {Max(u)}] \in W[Max(u) - 1]
          PROVE  h[u] \in W[Max(u)]
      <3>1. h[u] = Paso(h[u \ {Max(u)}], Max(u))
        BY <2>1, <2>5, Zenon
      <3>2. Paso(h[u \ {Max(u)}], Max(u)) \in W[Max(u)]
        BY <1>6, <2>2, <2>5, Zenon
      <3> QED
        BY <3>1, <3>2, Zenon
    <2> QED
      BY <2>4, <2>5, Zenon DEF EnW
  <1>12. h[1 .. n] \in W[n]
    BY <1>1, <1>5, <1>11, LlegaAlFin, Zenon
  <1>13. n \in 0 .. n
    BY <1>1
  <1>14. h[1 .. n] = Hasta(j, n, t) /\ h[1 .. n] \in Nat
    BY <1>12, <1>13 DEF W, V
  <1> QED
    BY <1>2, <1>14 DEF n, s

(* The item of this agent for that type is all the job asks of it. *)
LEMMA PideItem ==
  ASSUME UnoPorTipo, NEW j \in Propios, NEW p \in 1 .. Len(Pedido[j]), Pedido[j][p].ip = Yo
  PROVE  Pide(j, Pedido[j][p].tipo) = Pedido[j][p].monto
  <1> DEFINE s == Pedido[j]
             t == s[p].tipo
             n == Len(s)
             I == {i \in 1 .. n : s[i].ip = Yo /\ s[i].tipo = t}
  <1>1. n \in Nat /\ DOMAIN s = 1 .. n
    BY SonItems
  <1>2. \A i \in 1 .. n : s[i].ip = Yo /\ s[i].tipo = t => i = p
    BY <1>1 DEF UnoPorTipo
  <1>3. I = {p}
    BY <1>2
  <1>4. Hasta(j, n, t) = IF I = {} THEN 0 ELSE s[CHOOSE i \in I : TRUE].monto
    BY DEF Hasta
  <1>5. Pide(j, t) = Hasta(j, n, t)
    BY PideEs
  <1> HIDE DEF I
  <1>6. (CHOOSE i \in I : TRUE) = p
    BY <1>3
  <1> QED
    BY <1>3, <1>4, <1>5, <1>6

-------------------------------------------------------------------------------
(* What the queues and the table keep of each other. *)

(* tabla_jobs_verificar answers for the row of the job. *)
LEMMA Verifica ==
  ASSUME NEW Q, NEW E, NEW x \in Managers(Q, E), NEW j, tabla_jobs_verificar(x, j)
  PROVE  Cumple(x, j)
  <1> DEFINE k == tabla_jobs_buscar_por_id(x, j)
  <1>1. k # 0 /\ Cumplida(x.tabla[k])
    BY DEF tabla_jobs_verificar, Cumplida
  <1>2. k \in 1 .. Len(x.tabla) /\ x.tabla[k].job = j
    BY <1>1, Busca
  <1>3. k \in DOMAIN x.tabla
    BY <1>2, Campos, LenProperties
  <1> HIDE DEF k
  <1> QED
    BY <1>1, <1>2, <1>3 DEF Cumple

(* A job is in the table where the search finds it. *)
LEMMA Encuentra ==
  ASSUME NEW Q, NEW E, NEW x \in Managers(Q, E), NEW j
  PROVE  LET k == tabla_jobs_buscar_por_id(x, j)
         IN  /\ EnTabla(x, j) <=> k # 0
             /\ k # 0 => k \in DOMAIN x.tabla /\ x.tabla[k].job = j /\ x.tabla[k] \in Trabajos(E)
  <1> DEFINE I == {i \in 1 .. Len(x.tabla) : x.tabla[i].job = j}
             k == tabla_jobs_buscar_por_id(x, j)
  <1>1. Len(x.tabla) \in Nat /\ DOMAIN x.tabla = 1 .. Len(x.tabla)
    BY Campos, LenProperties
  <1>2. k = IF I # {} THEN Min(I) ELSE 0
    BY DEF tabla_jobs_buscar_por_id, SelectInSeq
  <1>3. I # {} => Min(I) \in I
    BY <1>1, ElMenor
  <1>4. EnTabla(x, j) <=> I # {}
    BY <1>1 DEF EnTabla
  <1>5. k # 0 => k \in 1 .. Len(x.tabla) /\ x.tabla[k] \in Trabajos(E) /\ x.tabla[k].job = j
    BY Busca
  <1>6. I # {} => k # 0
    BY <1>1, <1>2, <1>3
  <1> HIDE DEF k
  <1> QED
    BY <1>1, <1>2, <1>4, <1>5, <1>6 DEF k

(* Nothing else of the manager counts. *)
LEMMA MismaMesa ==
  ASSUME NEW x, NEW y, NEW S, Cuadra(x, S), y.tabla = x.tabla, y.tiene = x.tiene,
         \A t \in Tipos : y.rec[t].cola = x.rec[t].cola
  PROVE  Cuadra(y, S) /\ Progresa(x, y) /\ (\A j : Cumple(y, j) <=> Cumple(x, j))
  <1>1. \A t \in Tipos : \A j : Espera(y, t, j) <=> Espera(x, t, j)
    BY Zenon DEF Espera
  <1>2. EnFila(y, S)
    BY Zenon DEF EnFila, Cuadra
  <1>3. \A j, s : Cuadran(x, j, s) => Cuadran(y, j, s)
    BY <1>1, Zenon DEF Cuadran
  <1>4. Progresa(x, y) /\ \A j : Cumple(y, j) <=> Cumple(x, j)
    BY Zenon DEF Progresa, Cumple
  <1> QED
    BY <1>2, <1>3, <1>4, Zenon DEF Cuadra

(* Progresa composes. *)
LEMMA Progresan ==
  ASSUME NEW x, NEW y, NEW z, Progresa(x, y), Progresa(y, z)
  PROVE  Progresa(x, z)
  BY Zenon DEF Progresa

(* After progress the same jobs are in the table, and who waited for        *)
(* nothing still does.                                                      *)
LEMMA ProgresaTabla ==
  ASSUME NEW x, NEW y, Progresa(x, y)
  PROVE  /\ \A j : EnTabla(y, j) <=> EnTabla(x, j)
         /\ \A j : Cumple(x, j) => Cumple(y, j)
  BY Zenon DEF Progresa, EnTabla, Cumple

(* A message to others, or one that is true, may be sent. *)
LEMMA SeDice ==
  ASSUME NEW Q, NEW E, NEW x \in Managers(Q, E), NEW c \in Conexiones, NEW m \in Textos, NEW S, Cuadra(x, S),
         BienDicho(x), c = ERL /\ m.clase = "JOB_GRANTED" => Cumple(x, m.job)
  PROVE  LET y == send_message(x, c, m)
         IN  /\ Cuadra(y, S) /\ BienDicho(y) /\ Progresa(x, y)
             /\ y.tabla = x.tabla /\ y.rec = x.rec /\ y.tiene = x.tiene /\ y.conns = x.conns
  <1> DEFINE e == [conn |-> c, msg |-> m]
             s == Append(x.tx, e)
             y == [x EXCEPT !.tx = s]
  <1>1. send_message(x, c, m) = y
    BY DEF send_message
  <1>2. /\ y.tabla = x.tabla /\ y.rec = x.rec /\ y.tiene = x.tiene /\ y.tx = s /\ y.conns = x.conns
    BY DEF Managers
  <1>3. /\ Len(x.tx) \in Nat /\ DOMAIN x.tx = 1 .. Len(x.tx) /\ DOMAIN s = 1 .. Len(x.tx) + 1
        /\ s[Len(x.tx) + 1] = e /\ \A i \in 1 .. Len(x.tx) : s[i] = x.tx[i]
    <2>1. x.tx \in Seq(Envios) /\ e \in Envios
      BY Campos DEF Envios
    <2> HIDE DEF e
    <2> QED
      BY <2>1, LenProperties, AppendProperties
  <1> HIDE DEF y, s
  <1>4. Cuadra(y, S) /\ Progresa(x, y) /\ (\A j : Cumple(y, j) <=> Cumple(x, j))
    BY <1>2, MismaMesa, Zenon
  <1>5. ASSUME NEW i \in DOMAIN s, s[i].conn = ERL, s[i].msg.clase = "JOB_GRANTED"
        PROVE  Cumple(x, s[i].msg.job)
    <2>1. CASE i = Len(x.tx) + 1
      <3>1. s[i] = e /\ e.conn = c /\ e.msg = m
        BY <1>3, <2>1
      <3> QED
        BY <1>5, <3>1
    <2>2. CASE i # Len(x.tx) + 1
      <3>1. i \in DOMAIN x.tx /\ s[i] = x.tx[i]
        BY <1>3, <2>2
      <3> QED
        BY <1>5, <3>1 DEF BienDicho
    <2> QED
      BY <2>1, <2>2
  <1>6. BienDicho(y)
    BY <1>2, <1>4, <1>5, Zenon DEF BienDicho
  <1> QED
    BY <1>1, <1>2, <1>4, <1>6

(* The grant of a queued request marks the allocation of that request.     *)
LEMMA Marca ==
  ASSUME NEW E, NEW w \in Trabajos(E), NEW t \in Tipos, Suya(w.confirmadas, t, "RM_QUEUED"),
         \A k, l \in DOMAIN w.confirmadas :
           w.confirmadas[k].lado = "LOCAL" /\ w.confirmadas[l].lado = "LOCAL"
             /\ w.confirmadas[k].tipo = w.confirmadas[l].tipo => k = l
  PROVE  LET s == w.confirmadas
             v == Otorgado(w, ERL, t)
             r == v.confirmadas
         IN  /\ v.job = w.job /\ v.pendientes = w.pendientes /\ v \in Trabajos(E)
             /\ DOMAIN r = DOMAIN s
             /\ \A k \in DOMAIN s : r[k].lado = s[k].lado /\ r[k].tipo = s[k].tipo /\ r[k].monto = s[k].monto
             /\ Suya(r, t, "RM_GRANTED") /\ ~Suya(r, t, "RM_QUEUED") /\ ~Suya(s, t, "RM_GRANTED")
             /\ \A u \in Tipos \ {t} : \A q : Suya(r, u, q) <=> Suya(s, u, q)
  <1> DEFINE s == w.confirmadas
             I == {i \in 1 .. Len(s) : s[i].lado = "LOCAL" /\ s[i].conn = ERL /\ s[i].tipo = t}
             i == IF I # {} THEN Min(I) ELSE 0
             a == [s[i] EXCEPT !.result = "RM_GRANTED"]
             r == [s EXCEPT ![i] = a]
             v == [w EXCEPT !.confirmadas = r]
  <1>1. s \in Seq(Allocs) /\ Len(s) \in Nat /\ DOMAIN s = 1 .. Len(s)
    BY LenProperties DEF Trabajos
  <1>2. Otorgado(w, ERL, t) = IF i = 0 THEN w ELSE v
    BY DEF Otorgado, SelectInSeq
  <1>3. PICK b \in DOMAIN s : s[b].lado = "LOCAL" /\ s[b].tipo = t /\ s[b].result = "RM_QUEUED"
    BY DEF Suya
  <1>4. \A k \in DOMAIN s : s[k].lado = "LOCAL" => s[k] \in Locales
    <2> SUFFICES ASSUME NEW k \in DOMAIN s, s[k].lado = "LOCAL" PROVE s[k] \in Locales
      OBVIOUS
    <2>1. s[k] \in Allocs
      BY <1>1, ElementOfSeq
    <2> HIDE DEF s
    <2> QED
      BY <2>1 DEF Allocs, Remotas
  <1>5. b \in I
    BY <1>1, <1>3, <1>4 DEF Locales
  <1>6. i = b /\ i # 0
    <2>1. Min(I) \in I
      BY <1>1, <1>5, ElMenor
    <2>2. i \in I
      BY <1>5, <2>1
    <2>3. i \in DOMAIN s /\ s[i].lado = "LOCAL" /\ s[i].tipo = t
      BY <1>1, <2>2
    <2>4. b \in 1 .. Len(s)
      BY <1>1
    <2> HIDE DEF i
    <2> QED
      BY <1>3, <2>3, <2>4
  <1>7. DOMAIN r = DOMAIN s /\ r[b] = a /\ \A k \in DOMAIN s \ {b} : r[k] = s[k]
    <2> HIDE DEF a, i, s
    <2> QED
      BY <1>3, <1>6
  <1>8. a.lado = "LOCAL" /\ a.tipo = t /\ a.monto = s[b].monto /\ a.result = "RM_GRANTED"
    <2>1. s[b] \in Locales
      BY <1>3, <1>4
    <2> HIDE DEF i
    <2> QED
      BY <1>3, <1>6, <2>1 DEF Locales
  <1>9. v.job = w.job /\ v.pendientes = w.pendientes /\ v.confirmadas = r
    <2> HIDE DEF r
    <2> QED
      BY DEF Trabajos
  <1>10. Otorgado(w, ERL, t) = v /\ v \in Trabajos(E)
    <2> HIDE DEF v, i
    <2> QED
      BY <1>2, <1>6, JobOtorgado
  <1> HIDE DEF r, a, v, i, I
  <1>11. \A k \in DOMAIN s : r[k].lado = s[k].lado /\ r[k].tipo = s[k].tipo /\ r[k].monto = s[k].monto
    BY <1>3, <1>7, <1>8
  <1>12. \A k \in DOMAIN s : s[k].lado = "LOCAL" /\ s[k].tipo = t => k = b
    BY <1>3
  <1>13. Suya(r, t, "RM_GRANTED") /\ ~Suya(r, t, "RM_QUEUED") /\ ~Suya(s, t, "RM_GRANTED")
    <2>1. Suya(r, t, "RM_GRANTED")
      BY <1>3, <1>7, <1>8 DEF Suya
    <2>2. ASSUME NEW k \in DOMAIN r, r[k].lado = "LOCAL", r[k].tipo = t PROVE r[k].result = "RM_GRANTED"
      BY <1>7, <1>8, <1>11, <1>12, <2>2
    <2>3. ~Suya(r, t, "RM_QUEUED")
      BY <2>2 DEF Suya
    <2>4. ~Suya(s, t, "RM_GRANTED")
      BY <1>3, <1>12 DEF Suya
    <2> QED
      BY <2>1, <2>3, <2>4
  <1>14. ASSUME NEW u \in Tipos \ {t}, NEW q PROVE Suya(r, u, q) <=> Suya(s, u, q)
    <2>1. \A k \in DOMAIN s : (r[k].tipo = u \/ s[k].tipo = u) => k # b
      BY <1>3, <1>11
    <2>2. \A k \in DOMAIN s : (r[k].tipo = u \/ s[k].tipo = u) => r[k] = s[k]
      BY <1>7, <2>1
    <2> QED
      BY <1>7, <2>2, Zenon DEF Suya
  <1> QED
    BY <1>7, <1>9, <1>10, <1>11, <1>13, <1>14, Zenon DEF s

(* The job whose request was served has what it asked for. *)
LEMMA CuadraServida ==
  ASSUME NEW E, NEW w \in Trabajos(E), NEW t \in Tipos, NEW x, NEW y, NEW j, Cuadran(x, j, w.confirmadas),
         Espera(x, t, j), ~Espera(y, t, j), y.tiene[t][j] = x.tiene[t][j] + Pide(j, t), Pide(j, t) \in Nat,
         \A u \in Tipos \ {t} : (Espera(y, u, j) <=> Espera(x, u, j)) /\ y.tiene[u][j] = x.tiene[u][j]
  PROVE  LET v == Otorgado(w, ERL, t)
         IN  /\ v.job = w.job /\ v.pendientes = w.pendientes /\ ~Cumplida(w)
             /\ Cuadran(y, j, v.confirmadas)
             /\ Completa(j, w.confirmadas) => Completa(j, v.confirmadas)
  <1> DEFINE s == w.confirmadas
             v == Otorgado(w, ERL, t)
             r == v.confirmadas
  <1>1. Suya(s, t, "RM_QUEUED")
    BY DEF Cuadran
  <1>2. \A k, l \in DOMAIN s : s[k].lado = "LOCAL" /\ s[l].lado = "LOCAL" /\ s[k].tipo = s[l].tipo => k = l
    BY DEF Cuadran
  <1>3. /\ v.job = w.job /\ v.pendientes = w.pendientes
        /\ DOMAIN r = DOMAIN s
        /\ \A k \in DOMAIN s : r[k].lado = s[k].lado /\ r[k].tipo = s[k].tipo /\ r[k].monto = s[k].monto
        /\ Suya(r, t, "RM_GRANTED") /\ ~Suya(r, t, "RM_QUEUED") /\ ~Suya(s, t, "RM_GRANTED")
        /\ \A u \in Tipos \ {t} : \A q : Suya(r, u, q) <=> Suya(s, u, q)
    BY <1>1, <1>2, Marca
  <1> HIDE DEF v
  <1>4. ~Cumplida(w)
    BY <1>1 DEF Suya, Cumplida
  <1>5. ASSUME NEW u \in Tipos
        PROVE  /\ Espera(y, u, j) <=> Suya(r, u, "RM_QUEUED")
               /\ y.tiene[u][j] = IF Suya(r, u, "RM_GRANTED") THEN Pide(j, u) ELSE 0
    <2>1. CASE u = t
      <3>1. x.tiene[t][j] = 0
        BY <1>3 DEF Cuadran
      <3> QED
        BY <1>3, <2>1, <3>1
    <2>2. CASE u # t
      <3>1. (Espera(y, u, j) <=> Espera(x, u, j)) /\ y.tiene[u][j] = x.tiene[u][j]
        BY <2>2
      <3>2. \A q : Suya(r, u, q) <=> Suya(s, u, q)
        BY <1>3, <2>2
      <3> QED
        BY <3>1, <3>2 DEF Cuadran
    <2> QED
      BY <2>1, <2>2
  <1>6. \A k \in DOMAIN r : r[k].lado = "LOCAL" => r[k].monto = Pide(j, r[k].tipo) /\ r[k].monto # 0
    <2>1. \A k \in DOMAIN s : s[k].lado = "LOCAL" => s[k].monto = Pide(j, s[k].tipo) /\ s[k].monto # 0
      BY DEF Cuadran
    <2> QED
      BY <1>3, <2>1
  <1>7. \A k, l \in DOMAIN r : r[k].lado = "LOCAL" /\ r[l].lado = "LOCAL" /\ r[k].tipo = r[l].tipo => k = l
    BY <1>2, <1>3
  <1>8. Cuadran(y, j, r)
    BY <1>5, <1>6, <1>7 DEF Cuadran
  <1>9. Completa(j, s) => Completa(j, r)
    BY <1>3 DEF Completa
  <1> QED
    BY <1>3, <1>4, <1>8, <1>9 DEF v

(* Its head leaves the queue with its units. *)
LEMMA SinPrimero ==
  ASSUME NEW Q, NEW E, NEW x \in Managers(Q, E), NEW t \in Tipos, NEW S, S \subseteq Propios, EnFila(x, S),
         Len(x.rec[t].cola) # 0, NEW p, p = x.rec[t].cola[1], NEW y, y.rec[t].cola = Tail(x.rec[t].cola),
         \A u \in Tipos \ {t} : y.rec[u].cola = x.rec[u].cola,
         \A u \in Tipos : \A j \in Jobs : u # t \/ j # p.job => y.tiene[u][j] = x.tiene[u][j]
  PROVE  /\ EnFila(y, S)
         /\ \A u \in Tipos \ {t} : \A j : Espera(y, u, j) <=> Espera(x, u, j)
         /\ \A j : j # p.job => (Espera(y, t, j) <=> Espera(x, t, j))
         /\ Espera(x, t, p.job)
         /\ p.origen = "LOCAL" => /\ p.job \in S /\ p.conn = ERL
                                  /\ p.monto = Pide(p.job, t) /\ p.monto # 0
                                  /\ ~Espera(y, t, p.job)
         /\ p.origen # "LOCAL" => p.job \in Ajenos
  <1> DEFINE s == x.rec[t].cola
             r == Tail(s)
  <1>1. /\ Len(s) \in Nat /\ DOMAIN s = 1 .. Len(s) /\ DOMAIN r = 1 .. (Len(s) - 1)
        /\ \A i \in DOMAIN r : r[i] = s[i + 1] /\ i + 1 \in DOMAIN s /\ i + 1 # 1
        /\ 1 \in DOMAIN s
    <2>1. s \in Seq(Encoladas(Q[t]))
      BY Campos DEF Recursos, Recurso
    <2>2. Len(s) \in Nat /\ DOMAIN s = 1 .. Len(s) /\ s # << >>
      BY <2>1, LenProperties
    <2>3. r \in Seq(Encoladas(Q[t])) /\ Len(r) = Len(s) - 1 /\ \A i \in 1 .. Len(r) : r[i] = s[i + 1]
      BY <2>1, <2>2, HeadTailProperties
    <2> HIDE DEF s, r
    <2>4. DOMAIN r = 1 .. Len(r)
      BY <2>3, LenProperties
    <2> QED
      BY <2>2, <2>3, <2>4
  <1>2. \A i \in DOMAIN s : i = 1 \/ (i - 1 \in DOMAIN r /\ r[i - 1] = s[i])
    <2> SUFFICES ASSUME NEW i \in DOMAIN s, i # 1 PROVE i - 1 \in DOMAIN r /\ r[i - 1] = s[i]
      OBVIOUS
    <2> HIDE DEF s, r
    <2>1. i - 1 \in DOMAIN r /\ (i - 1) + 1 = i
      BY <1>1
    <2> QED
      BY <1>1, <2>1
  <1>3. /\ \A i, k \in DOMAIN s : s[i].origen = "LOCAL" /\ s[k].origen = "LOCAL" /\ s[i].job = s[k].job => i = k
        /\ \A i \in DOMAIN s :
             IF s[i].origen = "LOCAL"
             THEN s[i].job \in S /\ s[i].conn = ERL /\ s[i].monto = Pide(s[i].job, t) /\ s[i].monto # 0
             ELSE s[i].job \in Ajenos
        /\ \A j \in Propios : x.tiene[t][j] # 0 => j \in S /\ Pide(j, t) # 0
    BY Zenon DEF EnFila, Fila
  <1>4. S \cap Ajenos = {} /\ Propios \subseteq Jobs
    BY Parametros
  <1>0. p = s[1]
    OBVIOUS
  <1> HIDE DEF s, r
  <1>5. \A j : Espera(x, t, j) <=> \E i \in DOMAIN s : s[i].job = j
    BY DEF Espera, s
  <1>6. \A j : Espera(y, t, j) <=> \E i \in DOMAIN r : r[i].job = j
    BY DEF Espera, r, s
  <1>7. ASSUME NEW j, j # p.job PROVE Espera(y, t, j) <=> Espera(x, t, j)
    BY <1>0, <1>1, <1>2, <1>5, <1>6, <1>7
  <1>8. ASSUME NEW u \in Tipos \ {t} PROVE \A j : Espera(y, u, j) <=> Espera(x, u, j)
    BY Zenon DEF Espera
  <1>9. Espera(x, t, p.job)
    BY <1>0, <1>1, <1>5
  <1>10. ASSUME p.origen = "LOCAL"
         PROVE  /\ p.job \in S /\ p.conn = ERL /\ p.monto = Pide(p.job, t) /\ p.monto # 0
                /\ ~Espera(y, t, p.job)
    <2>1. p.job \in S /\ p.conn = ERL /\ p.monto = Pide(p.job, t) /\ p.monto # 0
      BY <1>0, <1>1, <1>3, <1>10
    <2>2. ASSUME NEW i \in DOMAIN r, r[i].job = p.job PROVE FALSE
      <3>1. i + 1 \in DOMAIN s /\ s[i + 1].job = p.job /\ i + 1 # 1
        BY <1>1, <2>2
      <3>2. s[i + 1].origen = "LOCAL"
        BY <1>3, <1>4, <2>1, <3>1
      <3> QED
        BY <1>0, <1>1, <1>3, <1>10, <3>1, <3>2
    <2> QED
      BY <1>6, <2>1, <2>2
  <1>11. p.origen # "LOCAL" => p.job \in Ajenos
    BY <1>0, <1>1, <1>3
  <1>12. EnFila(y, S)
    <2> SUFFICES ASSUME NEW u \in Tipos
                 PROVE  /\ Fila(y.rec[u].cola, u, S)
                        /\ \A j \in Propios : y.tiene[u][j] # 0 => j \in S /\ Pide(j, u) # 0
      BY Zenon DEF EnFila
    <2>1. CASE u # t
      <3>1. y.rec[u].cola = x.rec[u].cola
        BY <2>1
      <3>2. \A j \in Propios : y.tiene[u][j] = x.tiene[u][j]
        BY <1>4, <2>1
      <3> QED
        BY <3>1, <3>2, Zenon DEF EnFila
    <2>2. CASE u = t
      <3>1. y.rec[u].cola = r
        BY <2>2 DEF r, s
      <3>2. \A i, k \in DOMAIN r : r[i].origen = "LOCAL" /\ r[k].origen = "LOCAL" /\ r[i].job = r[k].job => i = k
        <4> SUFFICES ASSUME NEW i \in DOMAIN r, NEW k \in DOMAIN r,
                            r[i].origen = "LOCAL", r[k].origen = "LOCAL", r[i].job = r[k].job
                     PROVE  i = k
          OBVIOUS
        <4>1. i + 1 \in DOMAIN s /\ k + 1 \in DOMAIN s /\ r[i] = s[i + 1] /\ r[k] = s[k + 1] /\ i \in Int /\ k \in Int
          BY <1>1
        <4>2. i + 1 = k + 1
          BY <1>3, <4>1
        <4> QED
          BY <4>1, <4>2
      <3>3. \A i \in DOMAIN r :
              IF r[i].origen = "LOCAL"
              THEN r[i].job \in S /\ r[i].conn = ERL /\ r[i].monto = Pide(r[i].job, t) /\ r[i].monto # 0
              ELSE r[i].job \in Ajenos
        BY <1>1, <1>3
      <3>4. ASSUME NEW j \in Propios, y.tiene[t][j] # 0 PROVE j \in S /\ Pide(j, t) # 0
        <4>1. CASE j = p.job
          <5>1. p.origen = "LOCAL"
            BY <1>11, <4>1, Parametros
          <5> QED
            BY <1>10, <4>1, <5>1
        <4>2. CASE j # p.job
          BY <1>3, <1>4, <3>4, <4>2 DEF s
        <4> QED
          BY <4>1, <4>2
      <3> QED
        BY <2>2, <3>1, <3>2, <3>3, <3>4, Zenon DEF Fila
    <2> QED
      BY <2>1, <2>2
  <1> QED
    BY <1>7, <1>8, <1>9, <1>10, <1>11, <1>12 DEF s

(* Marking an allocation of a job touches its row of the table and no more. *)
LEMMA FilaMarcada ==
  ASSUME NEW Q, NEW E, NEW x \in Managers(Q, E), NEW j, NEW c, NEW t
  PROVE  LET k == tabla_jobs_buscar_por_id(x, j)
             y == tabla_jobs_cambio_alloc(x, j, c, t)
         IN  /\ y.rec = x.rec /\ y.tiene = x.tiene /\ y.tx = x.tx /\ y.conns = x.conns
             /\ k = 0 => y.tabla = x.tabla
             /\ k # 0 => y.tabla = [x.tabla EXCEPT ![k] = Otorgado(x.tabla[k], c, t)]
  <1> DEFINE k == tabla_jobs_buscar_por_id(x, j)
             r == [x.tabla EXCEPT ![k] = Otorgado(x.tabla[k], c, t)]
             y == tabla_jobs_cambio_alloc(x, j, c, t)
  <1>1. y = IF k = 0 THEN x ELSE [x EXCEPT !.tabla = r]
    BY DEF tabla_jobs_cambio_alloc
  <1> DEFINE z == [x EXCEPT !.tabla = r]
  <1>2. z.rec = x.rec /\ z.tiene = x.tiene /\ z.tx = x.tx /\ z.tabla = r /\ z.conns = x.conns
    <2> HIDE DEF r
    <2> QED
      BY DEF Managers
  <1> HIDE DEF r, k, y, z
  <1> QED
    BY <1>1, <1>2 DEF r, k, y, z

(* Its head gets the units it waits for and leaves the queue. *)
AlPrimero(x, t, p) ==
  [x EXCEPT !.rec[t].libre = @ - p.monto, !.rec[t].cola = Tail(@), !.tiene[t][p.job] = @ + p.monto]

(* One turn of release_resource: the first request leaves the queue with    *)
(* its units, all else stays.                                               *)
LEMMA Servido ==
  ASSUME NEW Q, NEW E, Permisos(Q, E), NEW t \in Tipos, NEW x \in Managers(Q, E),
         NEW p \in Encoladas(Q[t]), x.rec[t].libre >= p.monto, Len(x.rec[t].cola) # 0
  PROVE  LET y == AlPrimero(x, t, p)
         IN  /\ y \in Managers(Q, E)
             /\ y.tabla = x.tabla /\ y.tx = x.tx /\ y.conns = x.conns
             /\ y.rec[t].cola = Tail(x.rec[t].cola)
             /\ \A u \in Tipos \ {t} : y.rec[u].cola = x.rec[u].cola
             /\ y.tiene[t][p.job] = x.tiene[t][p.job] + p.monto
             /\ \A u \in Tipos : \A j \in Jobs : u # t \/ j # p.job => y.tiene[u][j] = x.tiene[u][j]
  <1> DEFINE s == x.rec[t]
             l == s.libre - p.monto
             q == Tail(s.cola)
             r == [s EXCEPT !.libre = l, !.cola = q]
             d == x.tiene[t][p.job] + p.monto
             y == AlPrimero(x, t, p)
  <1>1. s \in Recurso(t, Q[t]) /\ x.rec \in Recursos(Q) /\ x.tiene \in [Tipos -> [Jobs -> Int]]
    BY Campos DEF Recursos
  <1>2. p.job \in Jobs /\ p.monto \in Nat /\ p.conn \in Conexiones
    BY DEF Encoladas, Permisos
  <1>3. q \in Seq(Encoladas(Q[t]))
    <2>1. s.cola \in Seq(Encoladas(Q[t])) /\ s.cola # << >>
      BY <1>1 DEF Recurso
    <2> QED
      BY <2>1, HeadTailProperties
  <1>4. l \in 0 .. Total[Yo][t] /\ d \in Int
    <2>1. Total[Yo][t] \in Nat /\ s.libre \in 0 .. Total[Yo][t] /\ s.libre >= p.monto
      BY <1>1, TotalNatural, Parametros DEF Recurso
    <2>2. d \in Int
      BY <1>1, <1>2
    <2> HIDE DEF s, d
    <2> QED
      BY <1>2, <2>1, <2>2
  <1>5. r \in Recurso(t, Q[t]) /\ r.cola = q
    <2>1. s \in [libre : 0 .. Total[Yo][t], cola : Seq(Encoladas(Q[t]))]
      BY <1>1 DEF Recurso
    <2> HIDE DEF s, l, q
    <2> QED
      BY <1>3, <1>4, <2>1 DEF Recurso
  <1>6. y = [x EXCEPT !.rec[t] = r, !.tiene[t][p.job] = d]
    BY <1>1, <1>2 DEF Managers, Recursos, AlPrimero
  <1> DEFINE z == [x EXCEPT !.rec[t] = r, !.tiene[t][p.job] = d]
  <1>7. /\ z.tabla = x.tabla /\ z.tx = x.tx /\ z.conns = x.conns
        /\ z.rec = [x.rec EXCEPT ![t] = r] /\ z.tiene = [x.tiene EXCEPT ![t][p.job] = d]
    <2> HIDE DEF r, d
    <2> QED
      BY DEF Managers
  <1>8. z \in Managers(Q, E)
    <2> HIDE DEF r, d
    <2> QED
      BY <1>2, <1>4, <1>5, CambiaRecurso
  <1>9. z.rec[t] = r /\ \A u \in Tipos \ {t} : z.rec[u] = x.rec[u]
    <2> HIDE DEF r, z
    <2> QED
      BY <1>1, <1>7 DEF Recursos
  <1>10. z.tiene[t][p.job] = d /\ \A u \in Tipos : \A j \in Jobs : u # t \/ j # p.job => z.tiene[u][j] = x.tiene[u][j]
    <2> HIDE DEF d, z
    <2> QED
      BY <1>1, <1>2, <1>7
  <1> HIDE DEF y, z, r
  <1>11. /\ y \in Managers(Q, E)
         /\ y.tabla = x.tabla /\ y.tx = x.tx /\ y.conns = x.conns
         /\ y.rec[t].cola = Tail(s.cola)
         /\ \A u \in Tipos \ {t} : y.rec[u].cola = x.rec[u].cola
         /\ y.tiene[t][p.job] = d
         /\ \A u \in Tipos : \A j \in Jobs : u # t \/ j # p.job => y.tiene[u][j] = x.tiene[u][j]
    <2>1. y = z
      BY <1>6 DEF z
    <2>2. z.rec[t].cola = Tail(s.cola)
      BY <1>5, <1>9
    <2> HIDE DEF s, q, d
    <2>3. \A u \in Tipos \ {t} : z.rec[u].cola = x.rec[u].cola
      BY <1>9
    <2> QED
      BY <1>7, <1>8, <1>10, <2>1, <2>2, <2>3, Zenon
  <1> QED
    BY <1>11, Zenon DEF y

(* Serving the head of a queue keeps the table and the queues agreed. *)
LEMMA SirveBien ==
  ASSUME NEW Q, NEW E, Permisos(Q, E), NEW t \in Tipos, NEW x \in Managers(Q, E), NEW S, S \subseteq Propios,
         Cuadra(x, S), BienDicho(x), Len(x.rec[t].cola) # 0, x.rec[t].libre >= x.rec[t].cola[1].monto
  PROVE  LET z == Desencolar(x, t, x.rec[t].cola[1])
         IN  /\ z \in Managers(Q, E) /\ Cuadra(z, S) /\ BienDicho(z) /\ Progresa(x, z)
             /\ z.rec[t].cola = Tail(x.rec[t].cola) /\ z.conns = x.conns
  <1> DEFINE p == x.rec[t].cola[1]
             y == AlPrimero(x, t, p)
             k == tabla_jobs_buscar_por_id(y, p.job)
             w == tabla_jobs_cambio_alloc(y, p.job, p.conn, t)
             z == Desencolar(x, t, p)
  <1>1. p \in Encoladas(Q[t])
    <2>1. x.rec[t].cola \in Seq(Encoladas(Q[t]))
      BY Campos DEF Recursos, Recurso
    <2>2. Len(x.rec[t].cola) \in Nat
      BY <2>1, LenProperties
    <2> QED
      BY <2>1, <2>2, ElementOfSeq
  <1>2. p.job \in Jobs /\ p.monto \in Nat /\ p.conn \in Conexiones /\ p.origen \in {"LOCAL", "REMOTE"}
    BY <1>1 DEF Encoladas, Permisos
  <1>3. /\ z = IF p.origen = "REMOTE"
               THEN send_message(w, p.conn, Mensaje("GRANTED", p.job))
               ELSE IF tabla_jobs_verificar(w, p.job)
               THEN send_message(w, p.conn, Mensaje("JOB_GRANTED", p.job))
               ELSE w
    BY DEF Desencolar, AlPrimero
  <1>4. /\ y \in Managers(Q, E)
        /\ y.tabla = x.tabla /\ y.tx = x.tx /\ y.conns = x.conns
        /\ y.rec[t].cola = Tail(x.rec[t].cola)
        /\ \A u \in Tipos \ {t} : y.rec[u].cola = x.rec[u].cola
        /\ y.tiene[t][p.job] = x.tiene[t][p.job] + p.monto
        /\ \A u \in Tipos : \A j \in Jobs : u # t \/ j # p.job => y.tiene[u][j] = x.tiene[u][j]
    <2>1. /\ x.rec[t].libre >= p.monto /\ Len(x.rec[t].cola) # 0
      OBVIOUS
    <2> HIDE DEF p
    <2> QED
      BY <1>1, <2>1, Servido
  <1> HIDE DEF p, y
  <1>5. /\ w.rec = y.rec /\ w.tiene = y.tiene /\ w.tx = x.tx /\ w.conns = x.conns
        /\ k = 0 => w.tabla = x.tabla
        /\ k # 0 => w.tabla = [x.tabla EXCEPT ![k] = Otorgado(x.tabla[k], p.conn, t)]
    BY <1>4, FilaMarcada
  <1>6. w \in Managers(Q, E)
    BY <1>4, CambiaAlloc
  <1>7. EnFila(x, S)
    BY DEF Cuadra
  <1>8. /\ EnFila(w, S)
        /\ \A u \in Tipos \ {t} : \A j : Espera(w, u, j) <=> Espera(x, u, j)
        /\ \A j : j # p.job => (Espera(w, t, j) <=> Espera(x, t, j))
        /\ Espera(x, t, p.job)
        /\ p.origen = "LOCAL" => /\ p.job \in S /\ p.conn = ERL
                                 /\ p.monto = Pide(p.job, t) /\ p.monto # 0
                                 /\ ~Espera(w, t, p.job)
        /\ p.origen # "LOCAL" => p.job \in Ajenos
    <2> HIDE DEF w
    <2>1. /\ w.rec[t].cola = Tail(x.rec[t].cola)
          /\ \A u \in Tipos \ {t} : w.rec[u].cola = x.rec[u].cola
          /\ \A u \in Tipos : \A j \in Jobs : u # t \/ j # x.rec[t].cola[1].job => w.tiene[u][j] = x.tiene[u][j]
      <3>1. w.rec = y.rec /\ w.tiene = y.tiene
        BY <1>5
      <3>2. /\ w.rec[t].cola = Tail(x.rec[t].cola)
            /\ \A u \in Tipos \ {t} : w.rec[u].cola = x.rec[u].cola
        BY <1>4, <3>1, Zenon
      <3>3. \A u \in Tipos : \A j \in Jobs : u # t \/ j # p.job => w.tiene[u][j] = x.tiene[u][j]
        BY <1>4, <3>1, Zenon
      <3>4. p = x.rec[t].cola[1]
        BY DEF p
      <3> QED
        BY <3>2, <3>3, <3>4, Zenon
    <2>2. /\ p = x.rec[t].cola[1] /\ Len(x.rec[t].cola) # 0
          /\ \A u \in Tipos : \A j \in Jobs : u # t \/ j # p.job => w.tiene[u][j] = x.tiene[u][j]
      BY <2>1 DEF p
    <2> QED
      BY <1>7, <2>1, <2>2, SinPrimero, SMTT(30)
  <1> DEFINE s == x.tabla
             r == w.tabla
  <1>9. Len(s) \in Nat /\ DOMAIN s = 1 .. Len(s) /\ \A i \in DOMAIN s : s[i] \in Trabajos(E)
    BY Campos, LenProperties, ElementOfSeq
  <1>10. /\ k # 0 => k \in DOMAIN s /\ s[k].job = p.job
         /\ k = 0 => \A i \in DOMAIN s : s[i].job # p.job
    <2>1. EnTabla(y, p.job) <=> k # 0
      BY <1>4, Encuentra
    <2>2. k # 0 => k \in DOMAIN y.tabla /\ y.tabla[k].job = p.job
      BY <1>4, Encuentra
    <2> QED
      BY <1>4, <2>1, <2>2, Zenon DEF EnTabla
  <1> HIDE DEF k, w
  <1>11. /\ DOMAIN r = DOMAIN s
         /\ \A i \in DOMAIN s : s[i].job # p.job => r[i] = s[i]
         /\ \A i \in DOMAIN s : s[i].job = p.job => i = k /\ r[i] = Otorgado(s[i], p.conn, t)
    <2>1. CASE k = 0
      BY <1>5, <1>10, <2>1
    <2>2. CASE k # 0
      <3>1. r = [s EXCEPT ![k] = Otorgado(s[k], p.conn, t)] /\ k \in DOMAIN s /\ s[k].job = p.job
        BY <1>5, <1>10, <2>2
      <3>2. \A i \in DOMAIN s : s[i].job = p.job => i = k
        BY <3>1, Zenon DEF Cuadra
      <3> DEFINE o == Otorgado(s[k], p.conn, t)
      <3> HIDE DEF o, s, r
      <3>3. DOMAIN r = DOMAIN s /\ r[k] = o /\ \A i \in DOMAIN s : i # k => r[i] = s[i]
        BY <3>1 DEF o
      <3> QED
        BY <3>1, <3>2, <3>3 DEF o
    <2> QED
      BY <2>1, <2>2
  <1>12. ASSUME NEW i \in DOMAIN s
         PROVE  /\ r[i].job = s[i].job /\ r[i].pendientes = s[i].pendientes /\ r[i].job \in S
                /\ Cumplida(s[i]) => Cumplida(r[i])
                /\ Cuadran(w, r[i].job, r[i].confirmadas) /\ Completa(r[i].job, r[i].confirmadas)
    <2> DEFINE a == s[i]
               b == r[i]
               j == a.job
    <2>1. /\ a \in Trabajos(E) /\ j \in S /\ j \in Propios /\ j \in Jobs
          /\ Cuadran(x, j, a.confirmadas) /\ Completa(j, a.confirmadas)
      <3>1. j \in S /\ Cuadran(x, j, a.confirmadas) /\ Completa(j, a.confirmadas)
        BY <1>12 DEF Cuadra
      <3> QED
        BY <1>9, <3>1, Parametros
    <2>2. CASE j # p.job
      <3>1. b = a
        BY <1>11, <2>2
      <3>2. \A u \in Tipos : w.tiene[u][j] = x.tiene[u][j] /\ (Espera(w, u, j) <=> Espera(x, u, j))
        BY <1>4, <1>5, <1>8, <2>1, <2>2
      <3>3. Cuadran(w, j, a.confirmadas)
        BY <2>1, <3>2, Zenon DEF Cuadran
      <3> QED
        BY <2>1, <3>1, <3>3
    <2>3. CASE j = p.job
      <3>1. p.origen = "LOCAL"
        BY <1>8, <2>1, <2>3, Parametros
      <3>2. p.conn = ERL /\ p.monto = Pide(j, t) /\ ~Espera(w, t, j) /\ Espera(x, t, j)
        BY <1>8, <2>3, <3>1
      <3>3. b = Otorgado(a, ERL, t)
        BY <1>11, <2>3, <3>2
      <3>4. w.tiene[t][j] = x.tiene[t][j] + Pide(j, t) /\ Pide(j, t) \in Nat
        BY <1>2, <1>4, <1>5, <2>3, <3>2
      <3>5. \A u \in Tipos \ {t} : (Espera(w, u, j) <=> Espera(x, u, j)) /\ w.tiene[u][j] = x.tiene[u][j]
        BY <1>4, <1>5, <1>8, <2>1
      <3> HIDE DEF a, b, j
      <3>6. b.job = a.job /\ b.pendientes = a.pendientes /\ ~Cumplida(a)
            /\ Cuadran(w, j, b.confirmadas) /\ (Completa(j, a.confirmadas) => Completa(j, b.confirmadas))
        BY <2>1, <3>2, <3>3, <3>4, <3>5, CuadraServida
      <3> QED
        BY <2>1, <3>6 DEF a, b, j
    <2> QED
      BY <2>2, <2>3
  <1>13. Cuadra(w, S)
    <2>1. \A i, l \in DOMAIN r : r[i].job = r[l].job => i = l
      <3>1. \A i, l \in DOMAIN s : s[i].job = s[l].job => i = l
        BY DEF Cuadra
      <3> QED
        BY <1>11, <1>12, <3>1
    <2> HIDE DEF s
    <2> QED
      BY <1>8, <1>11, <1>12, <2>1, Zenon DEF Cuadra
  <1>14. Progresa(x, w)
    BY <1>11, <1>12, Zenon DEF Progresa
  <1>15. BienDicho(w)
    <2>1. \A j : Cumple(x, j) => Cumple(w, j)
      BY <1>14, ProgresaTabla
    <2> QED
      BY <1>5, <2>1, Zenon DEF BienDicho
  <1> HIDE DEF s, r, z
  <1>16. z \in Managers(Q, E) /\ Cuadra(z, S) /\ BienDicho(z) /\ Progresa(x, z) /\ z.rec = w.rec /\ z.conns = x.conns
    <2>1. Mensaje("GRANTED", p.job) \in Textos /\ Mensaje("JOB_GRANTED", p.job) \in Textos
      BY <1>2, Palabras
    <2>2. Mensaje("GRANTED", p.job).clase = "GRANTED" /\ Mensaje("JOB_GRANTED", p.job).job = p.job
      BY DEF Mensaje
    <2>3. CASE p.origen = "REMOTE"
      <3> DEFINE m == Mensaje("GRANTED", p.job)
      <3>1. m \in Textos /\ m.clase # "JOB_GRANTED" /\ z = send_message(w, p.conn, m)
        BY <1>3, <2>1, <2>2, <2>3
      <3> HIDE DEF m
      <3>2. /\ Cuadra(z, S) /\ BienDicho(z) /\ Progresa(w, z)
            /\ z.tabla = w.tabla /\ z.rec = w.rec /\ z.tiene = w.tiene /\ z.conns = w.conns
        BY <1>2, <1>6, <1>13, <1>15, <3>1, SeDice
      <3>3. z \in Managers(Q, E)
        BY <1>2, <1>6, <3>1, Envia
      <3> QED
        BY <1>5, <1>14, <3>2, <3>3, Progresan, Zenon
    <2>4. CASE p.origen # "REMOTE" /\ tabla_jobs_verificar(w, p.job)
      <3> DEFINE m == Mensaje("JOB_GRANTED", p.job)
      <3>1. m \in Textos /\ m.job = p.job /\ z = send_message(w, p.conn, m)
        BY <1>3, <2>1, <2>2, <2>4
      <3>2. Cumple(w, p.job)
        BY <1>6, <2>4, Verifica
      <3> HIDE DEF m
      <3>3. /\ Cuadra(z, S) /\ BienDicho(z) /\ Progresa(w, z)
            /\ z.tabla = w.tabla /\ z.rec = w.rec /\ z.tiene = w.tiene /\ z.conns = w.conns
        BY <1>2, <1>6, <1>13, <1>15, <3>1, <3>2, SeDice
      <3>4. z \in Managers(Q, E)
        BY <1>2, <1>6, <3>1, Envia
      <3> QED
        BY <1>5, <1>14, <3>3, <3>4, Progresan, Zenon
    <2>5. CASE p.origen # "REMOTE" /\ ~tabla_jobs_verificar(w, p.job)
      <3>1. z = w
        BY <1>3, <2>5
      <3> QED
        BY <1>5, <1>6, <1>13, <1>14, <1>15, <3>1
    <2> QED
      BY <2>3, <2>4, <2>5
  <1>17. z.rec[t].cola = Tail(x.rec[t].cola)
    BY <1>4, <1>5, <1>16
  <1> QED
    BY <1>16, <1>17 DEF z, p

(* A queue, or what the jobs that are not in the table have, changes. *)
LEMMA Aparte ==
  ASSUME NEW x, NEW y, NEW S, Cuadra(x, S), y.tabla = x.tabla, EnFila(y, S),
         \A j \in S : EnTabla(x, j) => Igual(x, y, j)
  PROVE  Cuadra(y, S) /\ Progresa(x, y) /\ (\A j : Cumple(y, j) <=> Cumple(x, j))
  <1>1. ASSUME NEW i \in DOMAIN x.tabla
        PROVE  LET w == x.tabla[i] IN Cuadran(y, w.job, w.confirmadas)
    <2> DEFINE w == x.tabla[i]
    <2>1. Cuadran(x, w.job, w.confirmadas) /\ w.job \in S
      BY <1>1, Zenon DEF Cuadra
    <2>2. Igual(x, y, w.job)
      BY <2>1 DEF EnTabla
    <2> HIDE DEF w
    <2>3. Cuadran(y, w.job, w.confirmadas)
      BY <2>1, <2>2, Zenon DEF Cuadran, Igual
    <2> QED
      BY <2>3 DEF w
  <1>2. Progresa(x, y) /\ \A j : Cumple(y, j) <=> Cumple(x, j)
    BY Zenon DEF Progresa, Cumple
  <1> QED
    BY <1>1, <1>2, Zenon DEF Cuadra

(* Bien composes. *)
LEMMA BienYBien ==
  ASSUME NEW x, NEW y, NEW z, NEW S, Bien(x, y, S), Bien(y, z, S)
  PROVE  Bien(x, z, S)
  BY Progresan, Zenon DEF Bien

(* The loop of release_resource keeps the table and the queues agreed. *)
LEMMA AtiendeBien ==
  ASSUME NEW Q, NEW E, Permisos(Q, E), NEW t \in Tipos, NEW x \in Managers(Q, E), NEW S, S \subseteq Propios,
         Cuadra(x, S), BienDicho(x)
  PROVE  Atender(x, t) \in Managers(Q, E) /\ Bien(x, Atender(x, t), S)
  <1> DEFINE s == x.rec[t].cola
             n == Len(s)
             V == [nd : Managers(Q, E), sigue : BOOLEAN]
             b == [nd |-> x, sigue |-> TRUE]
             Resta(c, k) == Len(c) = n - k /\ \A i \in 1 .. n - k : c[i] = s[i + k]
             P(v, k) == Bien(x, v.nd, S) /\ (v.sigue => Resta(v.nd.rec[t].cola, k))
             R == [k \in 0 .. n |-> {v \in V : P(v, k)}]
  <1>0. s \in Seq(Encoladas(Q[t]))
    BY Campos DEF Recursos, Recurso
  <1>1. n \in Nat
    BY <1>0, LenProperties
  <1>2. b \in R[0]
    <2>1. Bien(x, x, S)
      BY DEF Bien, Progresa
    <2>2. Resta(s, 0)
      BY <1>1
    <2>3. b \in V /\ b.nd = x /\ 0 \in 0 .. n
      BY <1>1
    <2>4. P(b, 0)
      BY <2>1, <2>2, <2>3
    <2> HIDE DEF P, V, b, n
    <2> QED
      BY <2>3, <2>4
  <1>3. ASSUME NEW k \in 1 .. n, NEW v \in R[k - 1] PROVE Turno(t, v, s[k]) \in R[k]
    <2> DEFINE y == v.nd
               c == y.rec[t].cola
               p == s[k]
               z == Desencolar(y, t, p)
    <2>1. k - 1 \in 0 .. n /\ k \in 0 .. n /\ k \in Int
      BY <1>1
    <2>2. v \in V /\ P(v, k - 1)
      <3> HIDE DEF P, V, n
      <3> QED
        BY <2>1
    <2>3. y \in Managers(Q, E) /\ v.sigue \in BOOLEAN /\ Bien(x, y, S)
      BY <2>2
    <2>4. CASE v.sigue /\ y.rec[t].libre >= p.monto
      <3>1. Len(c) = n - (k - 1) /\ \A i \in 1 .. n - (k - 1) : c[i] = s[i + (k - 1)]
        BY <2>2, <2>4
      <3>2. Len(c) # 0 /\ c[1] = p
        <4>1. 1 \in 1 .. n - (k - 1) /\ 1 + (k - 1) = k
          BY <1>1, <2>1
        <4> HIDE DEF c, n, s
        <4> QED
          BY <1>1, <2>1, <3>1, <4>1 DEF p
      <3>3. z \in Managers(Q, E) /\ Cuadra(z, S) /\ BienDicho(z) /\ Progresa(y, z) /\ z.rec[t].cola = Tail(c)
        <4>1. Cuadra(y, S) /\ BienDicho(y) /\ Len(y.rec[t].cola) # 0 /\ y.rec[t].cola[1] = p
          BY <2>3, <3>2 DEF Bien
        <4>2. y.rec[t].libre >= y.rec[t].cola[1].monto
          BY <2>4, <4>1
        <4> HIDE DEF y, p
        <4>3. LET d == Desencolar(y, t, y.rec[t].cola[1])
              IN  /\ d \in Managers(Q, E) /\ Cuadra(d, S) /\ BienDicho(d) /\ Progresa(y, d)
                  /\ d.rec[t].cola = Tail(y.rec[t].cola)
          BY <2>3, <4>1, <4>2, SirveBien
        <4> QED
          BY <4>1, <4>3
      <3>4. Bien(x, z, S)
        <4> HIDE DEF z, y
        <4> QED
          BY <2>3, <3>3, BienYBien, Zenon DEF Bien
      <3>5. Resta(Tail(c), k)
        <4>1. c \in Seq(Encoladas(Q[t])) /\ c # << >>
          BY <2>3, <3>2, Campos DEF Recursos, Recurso
        <4>2. Len(Tail(c)) = Len(c) - 1 /\ \A i \in 1 .. Len(Tail(c)) : Tail(c)[i] = c[i + 1]
          BY <4>1, HeadTailProperties
        <4> DEFINE q == Tail(c)
        <4> HIDE DEF q, c, n, s
        <4>3. Len(q) = n - k
          BY <1>1, <2>1, <3>1, <4>2 DEF q
        <4>4. ASSUME NEW i \in 1 .. n - k PROVE q[i] = s[i + k]
          <5>1. i + 1 \in 1 .. n - (k - 1) /\ i \in 1 .. Len(q) /\ (i + 1) + (k - 1) = i + k
            BY <1>1, <2>1, <4>3
          <5> QED
            BY <3>1, <4>2, <5>1 DEF q
        <4> QED
          BY <4>3, <4>4 DEF q
      <3>6. Turno(t, v, p) = [v EXCEPT !.nd = z]
        BY <2>4 DEF Turno
      <3> DEFINE u == [v EXCEPT !.nd = z]
      <3>7. u \in V /\ u.nd = z /\ u.sigue = v.sigue
        <4> HIDE DEF z
        <4> QED
          BY <2>2, <3>3
      <3>8. P(u, k)
        <4> HIDE DEF z, u, c, Resta
        <4> QED
          BY <3>3, <3>4, <3>5, <3>7
      <3> HIDE DEF u, V, P, n, s, p
      <3>9. u \in R[k]
        BY <2>1, <3>7, <3>8
      <3> QED
        BY <3>6, <3>9 DEF u, p
    <2>5. CASE ~(v.sigue /\ y.rec[t].libre >= p.monto)
      <3> DEFINE u == [v EXCEPT !.sigue = FALSE]
      <3>1. Turno(t, v, p) = u
        BY <2>5 DEF Turno
      <3>2. u \in V /\ u.nd = y /\ u.sigue = FALSE
        BY <2>2
      <3>3. P(u, k)
        <4> HIDE DEF u, y, Resta
        <4> QED
          BY <2>3, <3>2
      <3> HIDE DEF u, V, P, n, s, p
      <3>4. u \in R[k]
        BY <2>1, <3>2, <3>3
      <3> QED
        BY <3>1, <3>4 DEF p
    <2> QED
      BY <2>4, <2>5
  <1>4. Turnos(t, s, R)
    <2> HIDE DEF R
    <2> QED
      BY <1>3, Zenon DEF Turnos, n
  <1>5. Atender(x, t) \in Managers(Q, E) /\ \E v \in R[n] : Atender(x, t) = v.nd
    <2> HIDE DEF R
    <2>1. b \in R[0] /\ Turnos(t, x.rec[t].cola, R)
      BY <1>2, <1>4
    <2> QED
      BY <2>1, RecorreCola, Zenon
  <1>6. PICK v \in R[n] : Atender(x, t) = v.nd
    BY <1>5
  <1>7. P(v, n)
    <2>1. n \in 0 .. n
      BY <1>1
    <2> HIDE DEF P, V, n
    <2> QED
      BY <2>1
  <1> QED
    BY <1>5, <1>6, <1>7

(* release_resource, for a job that is not in the table. *)
LEMMA LiberaBien ==
  ASSUME NEW Q, NEW E, Permisos(Q, E), NEW t \in Tipos, NEW m \in Nat, NEW j \in Jobs, NEW x \in Managers(Q, E),
         NEW S, S \subseteq Propios, Cuadra(x, S), BienDicho(x), ~EnTabla(x, j),
         j \in Propios => j \in S /\ Pide(j, t) # 0
  PROVE  LET y == release_resource(x, t, m, j) IN y \in Managers(Q, E) /\ Bien(x, y, S)
  <1> DEFINE s == x.rec[t]
             r == [s EXCEPT !.libre = @ + m]
             d == x.tiene[t][j] - m
             y == [x EXCEPT !.rec[t].libre = @ + m, !.tiene[t][j] = @ - m]
  <1>1. s \in Recurso(t, Q[t]) /\ x.rec \in Recursos(Q) /\ x.ip = Yo /\ Total[Yo][t] \in Nat
        /\ x.tiene \in [Tipos -> [Jobs -> Int]]
    BY Campos, TotalNatural, Parametros DEF Recursos
  <1>2. CASE ~(x.rec[t].libre + m <= Total[x.ip][t])
    <2>1. release_resource(x, t, m, j) = x
      BY <1>2 DEF release_resource
    <2> QED
      BY <2>1 DEF Bien, Progresa
  <1>3. CASE x.rec[t].libre + m <= Total[x.ip][t]
    <2>1. release_resource(x, t, m, j) = Atender(y, t)
      BY <1>3 DEF release_resource
    <2>2. y = [x EXCEPT !.rec[t] = r, !.tiene[t][j] = d]
      BY DEF Managers, Recursos
    <2>3. r \in Recurso(t, Q[t]) /\ r.cola = s.cola /\ d \in Int
      <3>1. s.libre \in Nat /\ s.libre + m <= Total[Yo][t]
        BY <1>1, <1>3 DEF Recurso
      <3>2. s.libre + m \in 0 .. Total[Yo][t]
        <4> HIDE DEF s
        <4> QED
          BY <1>1, <3>1
      <3>3. s \in [libre : 0 .. Total[Yo][t], cola : Seq(Encoladas(Q[t]))]
        BY <1>1 DEF Recurso
      <3>4. d \in Int
        BY <1>1
      <3> HIDE DEF s, d
      <3> QED
        BY <3>2, <3>3, <3>4 DEF Recurso
    <2> DEFINE z == [x EXCEPT !.rec[t] = r, !.tiene[t][j] = d]
    <2>4. z \in Managers(Q, E)
      <3> HIDE DEF r, d
      <3> QED
        BY <2>3, CambiaRecurso
    <2>5. /\ z.tabla = x.tabla /\ z.tx = x.tx
          /\ z.rec = [x.rec EXCEPT ![t] = r] /\ z.tiene = [x.tiene EXCEPT ![t][j] = d]
      <3> HIDE DEF r, d
      <3> QED
        BY DEF Managers
    <2> HIDE DEF y, z
    <2>6. \A u \in Tipos : z.rec[u].cola = x.rec[u].cola
      <3> HIDE DEF r
      <3> QED
        BY <1>1, <2>3, <2>5 DEF Recursos, s
    <2>7. \A i \in Jobs : i # j => \A u \in Tipos : z.tiene[u][i] = x.tiene[u][i]
      <3> HIDE DEF d
      <3> QED
        BY <1>1, <2>5
    <2>8. \A u \in Tipos \ {t} : z.tiene[u] = x.tiene[u]
      <3> HIDE DEF d
      <3> QED
        BY <1>1, <2>5
    <2>9. \A u, i : u \in Tipos => (Espera(z, u, i) <=> Espera(x, u, i))
      BY <2>6, Zenon DEF Espera
    <2>10. EnFila(z, S)
      <3>1. EnFila(x, S) /\ Propios \subseteq Jobs
        BY Parametros DEF Cuadra
      <3>2. ASSUME NEW u \in Tipos, NEW i \in Propios, z.tiene[u][i] # 0 PROVE i \in S /\ Pide(i, u) # 0
        <4>1. CASE i = j /\ u = t
          BY <4>1
        <4>2. CASE ~(i = j /\ u = t)
          <5>1. z.tiene[u][i] = x.tiene[u][i]
            BY <2>7, <2>8, <3>1, <4>2
          <5> QED
            BY <3>1, <3>2, <5>1 DEF EnFila
        <4> QED
          BY <4>1, <4>2
      <3> QED
        BY <2>6, <3>1, <3>2, Zenon DEF EnFila
    <2>11. \A i \in S : EnTabla(x, i) => Igual(x, z, i)
      <3> SUFFICES ASSUME NEW i \in S, EnTabla(x, i) PROVE Igual(x, z, i)
        OBVIOUS
      <3>1. i # j /\ i \in Jobs
        BY Parametros
      <3> QED
        BY <2>7, <2>9, <3>1, Zenon DEF Igual
    <2>12. Cuadra(z, S) /\ Progresa(x, z) /\ \A i : Cumple(z, i) <=> Cumple(x, i)
      BY <2>5, <2>10, <2>11, Aparte, Zenon
    <2>13. BienDicho(z)
      BY <2>5, <2>12, Zenon DEF BienDicho
    <2>14. Atender(z, t) \in Managers(Q, E) /\ Bien(z, Atender(z, t), S)
      BY <2>4, <2>12, <2>13, AtiendeBien
    <2>15. Bien(x, z, S)
      BY <2>12, <2>13 DEF Bien
    <2>16. Bien(x, Atender(z, t), S)
      BY <2>14, <2>15, BienYBien
    <2> QED
      BY <2>1, <2>2, <2>14, <2>16 DEF z
  <1> QED
    BY <1>2, <1>3

(* The units of a job that is gone are given back, here and at Vecino. *)
LEMMA LiberaAllocsBien ==
  ASSUME NEW Q, NEW E, Permisos(Q, E), NEW j \in Jobs, NEW y \in Managers(Q, E), NEW allocs \in Seq(Allocs),
         NEW S, S \subseteq Propios, Cuadra(y, S), BienDicho(y), ~EnTabla(y, j),
         j \in Propios => j \in S /\ \A k \in DOMAIN allocs : allocs[k].lado = "LOCAL" => Pide(j, allocs[k].tipo) # 0
  PROVE  LET z == LiberarAllocs(y, j, allocs) IN z \in Managers(Q, E) /\ Bien(y, z, S)
  <1> DEFINE V == {x \in Managers(Q, E) : Bien(y, x, S)}
  <1>1. y \in V
    BY DEF Bien, Progresa
  <1>2. ASSUME NEW x \in V, NEW k \in DOMAIN allocs PROVE Devuelve(x, j, allocs[k]) \in V
    <2> DEFINE a == allocs[k]
               c == tabla_conns_lookup(x, a.ip)
               m == MensajeRecurso("RELEASE", j, a.tipo, a.monto)
               z == Devuelve(x, j, a)
    <2>1. a \in Allocs
      BY LenProperties, ElementOfSeq
    <2>2. x \in Managers(Q, E) /\ Bien(y, x, S) /\ Cuadra(x, S) /\ BienDicho(x) /\ ~EnTabla(x, j)
      BY ProgresaTabla DEF Bien
    <2>3. z = IF a.lado = "LOCAL"
              THEN IF a.result = "RM_GRANTED" THEN release_resource(x, a.tipo, a.monto, j) ELSE x
              ELSE IF c = NULL THEN x ELSE send_message(x, c, m)
      BY DEF Devuelve
    <2>4. j \in Propios => j \in S /\ (a.lado = "LOCAL" => Pide(j, a.tipo) # 0)
      OBVIOUS
    <2> HIDE DEF a
    <2>5. a.tipo \in Tipos /\ a.monto \in Nat
      BY <2>1, DeAlloc
    <2>6. m \in Textos /\ m.clase = "RELEASE"
      <3>1. "RELEASE" \in Clases
        BY DEF Clases
      <3>2. m \in Textos
        BY <2>5, <3>1, SonTextos, Zenon
      <3> QED
        BY <3>2 DEF MensajeRecurso
    <2>7. c \in {NULL, Ida}
      BY <2>2, BuscaConn
    <2> HIDE DEF m, c, z, V
    <2>8. CASE a.lado = "LOCAL" /\ a.result = "RM_GRANTED"
      <3>1. z = release_resource(x, a.tipo, a.monto, j)
        BY <2>3, <2>8
      <3>2. z \in Managers(Q, E) /\ Bien(x, z, S)
        BY <2>2, <2>4, <2>5, <2>8, <3>1, LiberaBien
      <3> QED
        BY <2>2, <3>2, BienYBien DEF V, z, a
    <2>9. CASE a.lado # "LOCAL" /\ c # NULL
      <3>1. z = send_message(x, c, m) /\ c \in Conexiones
        BY <2>3, <2>7, <2>9 DEF Conexiones
      <3>2. z \in Managers(Q, E)
        BY <2>2, <2>6, <3>1, Envia
      <3>3. m.clase # "JOB_GRANTED"
        BY <2>6
      <3>4. Bien(x, z, S)
        BY <2>2, <2>6, <3>1, <3>3, SeDice DEF Bien
      <3> QED
        BY <2>2, <3>2, <3>4, BienYBien DEF V, z, a
    <2>10. CASE ~(a.lado = "LOCAL" /\ a.result = "RM_GRANTED") /\ ~(a.lado # "LOCAL" /\ c # NULL)
      <3>1. z = x
        BY <2>3, <2>10
      <3> QED
        BY <3>1 DEF z, a
    <2> QED
      BY <2>8, <2>9, <2>10
  <1>3. LiberarAllocs(y, j, allocs) \in V
    <2> HIDE DEF V
    <2> QED
      BY <1>1, <1>2, RecorreAllocs, Zenon
  <1> QED
    BY <1>3

(* The requests of u are those of s, but for the jobs that lose some in fuera. *)
Conserva(u, s, fuera) ==
  \A j : (\A i \in DOMAIN s : s[i].job = j => s[i] \notin fuera) =>
    ((\E i \in DOMAIN u : u[i].job = j) <=> \E i \in DOMAIN s : s[i].job = j)

(* What leaves the queue of t, and what does not. *)
LEMMA FilaPodada ==
  ASSUME NEW C, NEW s \in Seq(C), NEW fuera, NEW t, NEW S, Fila(s, t, S)
  PROVE  Fila(Sin(s, fuera), t, S) /\ Conserva(Sin(s, fuera), s, fuera)
  <1> DEFINE u == Sin(s, fuera)
  <1>1. Len(s) \in Nat /\ DOMAIN s = 1 .. Len(s)
    BY LenProperties
  <1>2. u \in Seq(C \ fuera)
    BY SinQuita
  <1>3. PICK g : Quedan(u, s, fuera, Len(s), g)
    BY SinEs
  <1> HIDE DEF u
  <1>4. /\ DOMAIN u = 1 .. Len(u)
        /\ \A i \in DOMAIN u : g[i] \in DOMAIN s /\ u[i] = s[g[i]]
        /\ \A i, l \in DOMAIN u : g[i] = g[l] => i = l
        /\ \A i \in DOMAIN s : s[i] \notin fuera => \E l \in DOMAIN u : g[l] = i
    <2>1. DOMAIN u = 1 .. Len(u)
      BY <1>2, LenProperties
    <2> QED
      BY <1>1, <1>3, <2>1 DEF Quedan
  <1>5. Fila(u, t, S)
    <2>1. \A i, k \in DOMAIN u :
            u[i].origen = "LOCAL" /\ u[k].origen = "LOCAL" /\ u[i].job = u[k].job => i = k
      BY <1>4 DEF Fila
    <2>2. \A i \in DOMAIN u :
            IF u[i].origen = "LOCAL"
            THEN u[i].job \in S /\ u[i].conn = ERL /\ u[i].monto = Pide(u[i].job, t) /\ u[i].monto # 0
            ELSE u[i].job \in Ajenos
      BY <1>4 DEF Fila
    <2> QED
      BY <2>1, <2>2 DEF Fila
  <1>6. ASSUME NEW j, \A i \in DOMAIN s : s[i].job = j => s[i] \notin fuera
        PROVE  (\E i \in DOMAIN u : u[i].job = j) <=> \E i \in DOMAIN s : s[i].job = j
    BY <1>4, <1>6
  <1> QED
    BY <1>5, <1>6 DEF Conserva, u

(* Requests of jobs that are not in the table leave the queues. *)
LEMMA PodaBien ==
  ASSUME NEW Q, NEW E, NEW x \in Managers(Q, E), NEW y, NEW F, NEW S, Cuadra(x, S),
         y.tabla = x.tabla, y.tiene = x.tiene,
         \A u \in Tipos : y.rec[u].cola = x.rec[u].cola \/ y.rec[u].cola = Sin(x.rec[u].cola, F[u]),
         \A u \in Tipos : \A i \in DOMAIN x.rec[u].cola :
           x.rec[u].cola[i] \in F[u] => ~EnTabla(x, x.rec[u].cola[i].job)
  PROVE  /\ Cuadra(y, S) /\ Progresa(x, y) /\ \A j : Cumple(y, j) <=> Cumple(x, j)
         /\ \A j : (\A u \in Tipos : \A i \in DOMAIN x.rec[u].cola :
                      x.rec[u].cola[i].job = j => x.rec[u].cola[i] \notin F[u]) => Igual(x, y, j)
  <1>1. ASSUME NEW u \in Tipos
        PROVE  /\ Fila(y.rec[u].cola, u, S)
               /\ \A j : (\A i \in DOMAIN x.rec[u].cola :
                            x.rec[u].cola[i].job = j => x.rec[u].cola[i] \notin F[u])
                         => (Espera(y, u, j) <=> Espera(x, u, j))
    <2> DEFINE s == x.rec[u].cola
    <2>1. s \in Seq(Encoladas(Q[u])) /\ Fila(s, u, S)
      <3>1. s \in Seq(Encoladas(Q[u]))
        BY Campos DEF Recursos, Recurso
      <3> QED
        BY <3>1, Zenon DEF Cuadra, EnFila
    <2>2. CASE y.rec[u].cola = s
      <3> HIDE DEF s
      <3>1. \A j : Espera(y, u, j) <=> Espera(x, u, j)
        BY <2>2, Zenon DEF Espera, s
      <3> QED
        BY <2>1, <2>2, <3>1, Zenon
    <2>3. CASE y.rec[u].cola = Sin(s, F[u])
      <3> HIDE DEF s
      <3>1. Fila(Sin(s, F[u]), u, S) /\ Conserva(Sin(s, F[u]), s, F[u])
        BY <2>1, FilaPodada, Zenon
      <3> QED
        BY <2>3, <3>1, Zenon DEF Conserva, Espera, s
    <2> QED
      BY <2>2, <2>3
  <1>2. EnFila(y, S)
    BY <1>1, Zenon DEF EnFila, Cuadra
  <1>3. ASSUME NEW j, \A u \in Tipos : \A i \in DOMAIN x.rec[u].cola :
                        x.rec[u].cola[i].job = j => x.rec[u].cola[i] \notin F[u]
        PROVE  Igual(x, y, j)
    BY <1>1, <1>3, Zenon DEF Igual
  <1>4. \A j \in S : EnTabla(x, j) => Igual(x, y, j)
    BY <1>3
  <1>5. Cuadra(y, S) /\ Progresa(x, y) /\ \A j : Cumple(y, j) <=> Cumple(x, j)
    BY <1>2, <1>4, Aparte, Zenon
  <1> QED
    BY <1>3, <1>5

(* limpiar_colas_por_id, for a job that is not in the table. *)
LEMMA LimpiaBien ==
  ASSUME NEW Q, NEW E, Permisos(Q, E), NEW x \in Managers(Q, E), NEW j, NEW S, Cuadra(x, S), BienDicho(x), ~EnTabla(x, j)
  PROVE  LET y == limpiar_colas_por_id(x, j)
         IN  y \in Managers(Q, E) /\ Bien(x, y, S) /\ \A i : i # j => Igual(x, y, i)
  <1> DEFINE y == limpiar_colas_por_id(x, j)
             r == [t \in Tipos |-> [x.rec[t] EXCEPT !.cola = Sin(@, DeJob(@, j))]]
             F == [t \in Tipos |-> DeJob(x.rec[t].cola, j)]
  <1>1. y = [x EXCEPT !.rec = r]
    BY DEF limpiar_colas_por_id
  <1>2. y.tabla = x.tabla /\ y.tiene = x.tiene /\ y.tx = x.tx /\ y.rec = r
    <2> HIDE DEF r
    <2> QED
      BY <1>1 DEF Managers
  <1>3. \A t \in Tipos : r[t].cola = Sin(x.rec[t].cola, F[t])
    <2> SUFFICES ASSUME NEW t \in Tipos PROVE r[t].cola = Sin(x.rec[t].cola, F[t])
      OBVIOUS
    <2> DEFINE s == x.rec[t]
               q == Sin(s.cola, DeJob(s.cola, j))
    <2>1. s \in [libre : Nat, cola : Seq(Encoladas(Conexiones))]
      BY Campos DEF Recursos
    <2>2. r[t] = [s EXCEPT !.cola = q]
      OBVIOUS
    <2>3. F[t] = DeJob(s.cola, j)
      OBVIOUS
    <2> HIDE DEF s, q, r, F
    <2>4. r[t].cola = q
      BY <2>1, <2>2
    <2> QED
      BY <2>3, <2>4 DEF q, s
  <1>4. \A t \in Tipos : \A i \in DOMAIN x.rec[t].cola : x.rec[t].cola[i] \in F[t] <=> x.rec[t].cola[i].job = j
    BY DEF DeJob, ToSet
  <1> HIDE DEF y, r, F
  <1>5. /\ Cuadra(y, S) /\ Progresa(x, y) /\ \A i : Cumple(y, i) <=> Cumple(x, i)
        /\ \A i : (\A u \in Tipos : \A l \in DOMAIN x.rec[u].cola :
                     x.rec[u].cola[l].job = i => x.rec[u].cola[l] \notin F[u]) => Igual(x, y, i)
    <2>1. \A u \in Tipos : y.rec[u].cola = x.rec[u].cola \/ y.rec[u].cola = Sin(x.rec[u].cola, F[u])
      BY <1>2, <1>3
    <2>2. \A u \in Tipos : \A i \in DOMAIN x.rec[u].cola :
            x.rec[u].cola[i] \in F[u] => ~EnTabla(x, x.rec[u].cola[i].job)
      BY <1>4
    <2> QED
      BY <1>2, <2>1, <2>2, PodaBien
  <1>6. \A i : i # j => Igual(x, y, i)
    BY <1>4, <1>5
  <1>7. Bien(x, y, S)
    BY <1>2, <1>5, Zenon DEF Bien, BienDicho
  <1>8. y \in Managers(Q, E)
    BY LimpiaPorId DEF y
  <1> QED
    BY <1>6, <1>7, <1>8 DEF y

-------------------------------------------------------------------------------
(* Jobs leave the table. *)

(* Deriva takes the jobs J out of the table, and the others are no less     *)
(* served.                                                                  *)
LEMMA DerivaEs ==
  ASSUME NEW x, NEW y, NEW J, Deriva(x, y, J)
  PROVE  /\ \A j : EnTabla(y, j) <=> EnTabla(x, j) /\ j \notin J
         /\ \A j : Cumple(x, j) /\ j \notin J => Cumple(y, j)
  <1>1. ASSUME NEW j, EnTabla(y, j) PROVE EnTabla(x, j) /\ j \notin J
    BY <1>1, ZenonT(60) DEF EnTabla, Deriva, Pasa
  <1>2. ASSUME NEW j, EnTabla(x, j), j \notin J PROVE EnTabla(y, j)
    BY <1>2, Zenon DEF EnTabla, Deriva, Pasa
  <1>3. ASSUME NEW j, Cumple(x, j), j \notin J PROVE Cumple(y, j)
    BY <1>3, ZenonT(60) DEF Cumple, Deriva, Pasa
  <1> QED
    BY <1>1, <1>2, <1>3, Zenon

(* Progress takes nobody out of the table. *)
LEMMA ProgresaDeriva ==
  ASSUME NEW x, NEW y, Progresa(x, y)
  PROVE  Deriva(x, y, {})
  BY DEF Progresa, Deriva, Pasa

(* Taking out the jobs J and then progress is taking out J. *)
LEMMA DerivaYProgresa ==
  ASSUME NEW x, NEW y, NEW z, NEW J, Deriva(x, y, J), Progresa(y, z)
  PROVE  Deriva(x, z, J)
  <1>1. ASSUME NEW i \in DOMAIN z.tabla
        PROVE  z.tabla[i].job \notin J /\ \E k \in DOMAIN x.tabla : Pasa(x.tabla[k], z.tabla[i])
    <2>1. i \in DOMAIN y.tabla /\ Pasa(y.tabla[i], z.tabla[i])
      BY Zenon DEF Progresa, Pasa
    <2>2. y.tabla[i].job \notin J
      BY <2>1, Zenon DEF Deriva
    <2>3. PICK k \in DOMAIN x.tabla : Pasa(x.tabla[k], y.tabla[i])
      BY <2>1, Zenon DEF Deriva
    <2> QED
      BY <2>1, <2>2, <2>3, Zenon DEF Pasa
  <1>2. ASSUME NEW k \in DOMAIN x.tabla, x.tabla[k].job \notin J
        PROVE  \E i \in DOMAIN z.tabla : Pasa(x.tabla[k], z.tabla[i])
    <2>1. PICK i \in DOMAIN y.tabla : Pasa(x.tabla[k], y.tabla[i])
      BY <1>2, Zenon DEF Deriva
    <2>2. i \in DOMAIN z.tabla /\ Pasa(y.tabla[i], z.tabla[i])
      BY Zenon DEF Progresa, Pasa
    <2> QED
      BY <2>1, <2>2, Zenon DEF Pasa
  <1> QED
    BY <1>1, <1>2, Zenon DEF Deriva

(* The row i of y was the row g[i] of x. *)
LEMMA Subtabla ==
  ASSUME NEW x, NEW y, NEW S, NEW J, NEW g, Cuadra(x, S), y.tiene = x.tiene,
         \A t \in Tipos : y.rec[t].cola = x.rec[t].cola,
         \A i \in DOMAIN y.tabla :
           /\ g[i] \in DOMAIN x.tabla /\ Pasa(x.tabla[g[i]], y.tabla[i]) /\ y.tabla[i].job \notin J
           /\ Cuadran(x, y.tabla[i].job, y.tabla[i].confirmadas)
           /\ Completa(y.tabla[i].job, y.tabla[i].confirmadas),
         \A i, k \in DOMAIN y.tabla : g[i] = g[k] => i = k,
         \A k \in DOMAIN x.tabla : x.tabla[k].job \notin J => \E i \in DOMAIN y.tabla : g[i] = k
  PROVE  Cuadra(y, S) /\ Deriva(x, y, J)
  <1>1. \A t \in Tipos : \A j : Espera(y, t, j) <=> Espera(x, t, j)
    BY Zenon DEF Espera
  <1>2. EnFila(y, S)
    BY Zenon DEF EnFila, Cuadra
  <1>3. \A j, s : Cuadran(x, j, s) => Cuadran(y, j, s)
    BY <1>1, Zenon DEF Cuadran
  <1>4. ASSUME NEW i \in DOMAIN y.tabla PROVE y.tabla[i].job = x.tabla[g[i]].job /\ y.tabla[i].job \in S
    <2>1. g[i] \in DOMAIN x.tabla /\ y.tabla[i].job = x.tabla[g[i]].job
      BY Zenon DEF Pasa
    <2>2. x.tabla[g[i]].job \in S
      BY <2>1, Zenon DEF Cuadra
    <2> QED
      BY <2>1, <2>2
  <1>5. \A i, k \in DOMAIN y.tabla : y.tabla[i].job = y.tabla[k].job => i = k
    <2> SUFFICES ASSUME NEW i \in DOMAIN y.tabla, NEW k \in DOMAIN y.tabla, y.tabla[i].job = y.tabla[k].job
                 PROVE  i = k
      BY Zenon
    <2>1. x.tabla[g[i]].job = x.tabla[g[k]].job
      BY <1>4, Zenon
    <2>2. g[i] = g[k]
      BY <2>1, Zenon DEF Cuadra
    <2> QED
      BY <2>2, Zenon
  <1>6. Cuadra(y, S)
    BY <1>2, <1>3, <1>4, <1>5, Zenon DEF Cuadra
  <1>7. Deriva(x, y, J)
    BY Zenon DEF Deriva
  <1> QED
    BY <1>6, <1>7

(* What is left of a list without its element k. *)
LEMMA SinUno ==
  ASSUME NEW C, NEW s \in Seq(C), NEW k \in 1 .. Len(s)
  PROVE  LET r == RemoveAt(s, k)
         IN  DOMAIN r = 1 .. Len(s) - 1 /\ \A i \in DOMAIN r : r[i] = s[IF i < k THEN i ELSE i + 1]
  <1> DEFINE n == Len(s)
             a == SubSeq(s, 1, k - 1)
             b == SubSeq(s, k + 1, n)
             r == a \o b
  <1>1. n \in Nat /\ k \in 1 .. n /\ \A i \in 1 .. n : s[i] \in C
    BY LenProperties, ElementOfSeq
  <1>2. /\ a \in Seq(C) /\ Len(a) = k - 1 /\ \A i \in 1 .. k - 1 : a[i] = s[i]
        /\ b \in Seq(C) /\ Len(b) = n - k /\ \A i \in 1 .. n - k : b[i] = s[i + k]
    BY <1>1, SubSeqProperties
  <1>3. Len(r) = Len(a) + Len(b) /\ r \in Seq(C)
        /\ \A i \in 1 .. Len(r) : r[i] = IF i <= Len(a) THEN a[i] ELSE b[i - Len(a)]
    <2> HIDE DEF a, b
    <2>1. /\ r \in Seq(C) /\ Len(r) = Len(a) + Len(b)
          /\ \A i \in 1 .. Len(a) + Len(b) : r[i] = IF i <= Len(a) THEN a[i] ELSE b[i - Len(a)]
      BY <1>2, ConcatProperties, Zenon
    <2> QED
      BY <2>1, Zenon
  <1>4. RemoveAt(s, k) = r
    BY DEF RemoveAt
  <1> HIDE DEF a, b, r, n
  <1>5. DOMAIN r = 1 .. Len(r) /\ Len(r) = n - 1
    BY <1>1, <1>2, <1>3, LenProperties
  <1>6. ASSUME NEW i \in DOMAIN r PROVE r[i] = s[IF i < k THEN i ELSE i + 1]
    <2>1. i \in 1 .. n - 1 /\ i \in 1 .. Len(r)
      BY <1>5
    <2>2. CASE i < k
      <3>1. i \in 1 .. k - 1 /\ i <= Len(a)
        BY <1>1, <1>2, <2>1, <2>2
      <3> QED
        BY <1>2, <1>3, <2>1, <2>2, <3>1
    <2>3. CASE ~(i < k)
      <3>1. i - (k - 1) \in 1 .. n - k /\ ~(i <= k - 1) /\ (i - (k - 1)) + k = i + 1
        BY <1>1, <2>1, <2>3
      <3>2. r[i] = b[i - (k - 1)] /\ b[i - (k - 1)] = s[(i - (k - 1)) + k]
        BY <1>2, <1>3, <2>1, <3>1
      <3> QED
        BY <2>3, <3>1, <3>2
    <2> QED
      BY <2>2, <2>3
  <1> QED
    BY <1>4, <1>5, <1>6 DEF n

(* One job leaves the table. *)
LEMMA Saca ==
  ASSUME NEW Q, NEW E, NEW x \in Managers(Q, E), NEW k \in 1 .. Len(x.tabla), NEW S, Cuadra(x, S)
  PROVE  LET y == tabla_jobs_extract_by_id(x, k)
         IN  /\ y \in Managers(Q, E) /\ y.tx = x.tx /\ y.rec = x.rec /\ y.tiene = x.tiene
             /\ Cuadra(y, S) /\ Deriva(x, y, {x.tabla[k].job}) /\ ~EnTabla(y, x.tabla[k].job)
  <1> DEFINE s == x.tabla
             r == RemoveAt(s, k)
             y == [x EXCEPT !.tabla = r]
             j == s[k].job
             n == Len(s)
             g == [i \in 1 .. n - 1 |-> IF i < k THEN i ELSE i + 1]
  <1>1. s \in Seq(Trabajos(E)) /\ n \in Nat /\ DOMAIN s = 1 .. n /\ k \in 1 .. n
    BY Campos, LenProperties
  <1>2. DOMAIN r = 1 .. n - 1 /\ \A i \in DOMAIN r : r[i] = s[IF i < k THEN i ELSE i + 1]
    BY <1>1, SinUno
  <1>3. r \in Seq(Trabajos(E))
    BY <1>1, QuitaTrabajo
  <1>4. \A i \in DOMAIN r : g[i] \in DOMAIN s /\ g[i] # k /\ r[i] = s[g[i]]
    <2> HIDE DEF r, s, n
    <2> QED
      BY <1>1, <1>2
  <1>5. \A i, l \in DOMAIN r : g[i] = g[l] => i = l
    <2> HIDE DEF r, s, n
    <2> QED
      BY <1>1, <1>2
  <1>6. \A l \in DOMAIN s : l # k => \E i \in DOMAIN r : g[i] = l
    <2> SUFFICES ASSUME NEW l \in DOMAIN s, l # k PROVE \E i \in DOMAIN r : g[i] = l
      OBVIOUS
    <2> DEFINE i == IF l < k THEN l ELSE l - 1
    <2> HIDE DEF r, s, n
    <2>1. i \in 1 .. n - 1 /\ g[i] = l
      BY <1>1
    <2> QED
      BY <1>2, <2>1
  <1> HIDE DEF r
  <1>7. y.tabla = r /\ y.tx = x.tx /\ y.rec = x.rec /\ y.tiene = x.tiene
    BY DEF Managers
  <1>8. y \in Managers(Q, E)
    BY <1>3, CambiaTabla
  <1>9. \A l \in DOMAIN s : s[l].job = j => l = k
    BY <1>1, Zenon DEF Cuadra
  <1> HIDE DEF y, g, n
  <1>10. Cuadra(y, S) /\ Deriva(x, y, {j})
    <2>1. \A i \in DOMAIN y.tabla :
            /\ g[i] \in DOMAIN x.tabla /\ Pasa(x.tabla[g[i]], y.tabla[i]) /\ y.tabla[i].job \notin {j}
            /\ Cuadran(x, y.tabla[i].job, y.tabla[i].confirmadas)
            /\ Completa(y.tabla[i].job, y.tabla[i].confirmadas)
      <3> SUFFICES ASSUME NEW i \in DOMAIN r
                   PROVE  /\ g[i] \in DOMAIN x.tabla /\ Pasa(x.tabla[g[i]], r[i]) /\ r[i].job # j
                          /\ Cuadran(x, r[i].job, r[i].confirmadas) /\ Completa(r[i].job, r[i].confirmadas)
        BY <1>7
      <3>1. g[i] \in DOMAIN s /\ r[i] = s[g[i]] /\ g[i] # k
        BY <1>4
      <3>2. Cuadran(x, s[g[i]].job, s[g[i]].confirmadas) /\ Completa(s[g[i]].job, s[g[i]].confirmadas)
        BY <3>1, Zenon DEF Cuadra
      <3>3. s[g[i]].job # j
        BY <1>9, <3>1, Zenon
      <3> QED
        BY <3>1, <3>2, <3>3, Zenon DEF Pasa
    <2>2. \A i, l \in DOMAIN y.tabla : g[i] = g[l] => i = l
      BY <1>5, <1>7
    <2>3. \A l \in DOMAIN x.tabla : x.tabla[l].job \notin {j} => \E i \in DOMAIN y.tabla : g[i] = l
      BY <1>6, <1>7
    <2>4. y.tiene = x.tiene /\ \A t \in Tipos : y.rec[t].cola = x.rec[t].cola
      BY <1>7
    <2> HIDE DEF j, s
    <2> QED
      BY <2>1, <2>2, <2>3, <2>4, Subtabla, Zenon
  <1>11. ~EnTabla(y, j)
    BY <1>10, DerivaEs
  <1> QED
    BY <1>7, <1>8, <1>10, <1>11 DEF y, r, tabla_jobs_extract_by_id

(* tabla_jobs_remove. *)
LEMMA RemueveBien ==
  ASSUME NEW Q, NEW E, Permisos(Q, E), NEW x \in Managers(Q, E), NEW j \in Jobs, NEW S, S \subseteq Propios,
         Cuadra(x, S), x.tx = << >>
  PROVE  LET y == tabla_jobs_remove(x, j)
         IN  y \in Managers(Q, E) /\ Cuadra(y, S) /\ BienDicho(y) /\ Deriva(x, y, {j}) /\ ~EnTabla(y, j)
  <1> DEFINE k == tabla_jobs_buscar_por_id(x, j)
             a == x.tabla[k].confirmadas
             y == tabla_jobs_extract_by_id(x, k)
             z == tabla_jobs_remove(x, j)
  <1>1. z = IF k = 0 THEN x ELSE LiberarAllocs(y, j, a)
    BY DEF tabla_jobs_remove, tabla_jobs_extract_by_id
  <1>2. EnTabla(x, j) <=> k # 0
    BY Encuentra
  <1>3. CASE k = 0
    <2>1. z = x /\ ~EnTabla(x, j)
      BY <1>1, <1>2, <1>3
    <2>2. BienDicho(x)
      BY DEF BienDicho
    <2>3. Deriva(x, x, {j})
      BY <2>1 DEF Deriva, EnTabla, Pasa
    <2> QED
      BY <2>1, <2>2, <2>3
  <1>4. CASE k # 0
    <2>1. k \in 1 .. Len(x.tabla) /\ k \in DOMAIN x.tabla /\ x.tabla[k] \in Trabajos(E) /\ x.tabla[k].job = j
      BY <1>4, Encuentra, Busca
    <2>2. a \in Seq(Allocs) /\ j \in S
          /\ \A i \in DOMAIN a : a[i].lado = "LOCAL" => a[i].monto = Pide(j, a[i].tipo) /\ a[i].monto # 0
      <3>1. a \in Seq(Allocs)
        BY <2>1 DEF Trabajos
      <3>2. Cuadran(x, j, a) /\ j \in S
        BY <2>1, Zenon DEF Cuadra
      <3> QED
        BY <3>1, <3>2, Zenon DEF Cuadran
    <2> HIDE DEF k
    <2>3. y \in Managers(Q, E) /\ y.tx = x.tx /\ Cuadra(y, S) /\ Deriva(x, y, {j}) /\ ~EnTabla(y, j)
      <3>1. /\ y \in Managers(Q, E) /\ y.tx = x.tx /\ Cuadra(y, S)
            /\ Deriva(x, y, {x.tabla[k].job}) /\ ~EnTabla(y, x.tabla[k].job)
        BY <2>1, Saca
      <3> QED
        BY <2>1, <3>1
    <2> HIDE DEF y, a
    <2>4. BienDicho(y)
      BY <2>3 DEF BienDicho
    <2>5. z = LiberarAllocs(y, j, a)
      BY <1>1, <1>4
    <2>6. z \in Managers(Q, E) /\ Bien(y, z, S)
      BY <2>2, <2>3, <2>4, <2>5, LiberaAllocsBien
    <2>7. Deriva(x, z, {j})
      BY <2>3, <2>6, DerivaYProgresa DEF Bien
    <2> QED
      BY <2>6, <2>7, DerivaEs DEF Bien
  <1> QED
    BY <1>3, <1>4

(* Allocations at Vecino say nothing of this agent. *)
LEMMA SinRemotas ==
  ASSUME NEW a \in Seq(Allocs), NEW F, \A e \in F : e.lado = "REMOTE"
  PROVE  LET u == Sin(a, F)
         IN  /\ \A x, j : Cuadran(x, j, a) => Cuadran(x, j, u)
             /\ \A j : Completa(j, a) => Completa(j, u)
             /\ \A t, r : Suya(u, t, r) <=> Suya(a, t, r)
             /\ u = << >> => \A k \in DOMAIN a : a[k].lado # "LOCAL"
  <1> DEFINE u == Sin(a, F)
  <1>1. Len(a) \in Nat /\ DOMAIN a = 1 .. Len(a)
    BY LenProperties
  <1>2. u \in Seq(Allocs \ F)
    BY SinQuita
  <1>3. PICK g : Quedan(u, a, F, Len(a), g)
    BY SinEs
  <1> HIDE DEF u
  <1>4. /\ DOMAIN u = 1 .. Len(u)
        /\ \A i \in DOMAIN u : g[i] \in DOMAIN a /\ u[i] = a[g[i]]
        /\ \A i, l \in DOMAIN u : g[i] = g[l] => i = l
        /\ \A i \in DOMAIN a : a[i].lado = "LOCAL" => \E l \in DOMAIN u : g[l] = i
    <2>1. DOMAIN u = 1 .. Len(u)
      BY <1>2, LenProperties
    <2>2. \A i \in DOMAIN a : a[i].lado = "LOCAL" => a[i] \notin F
      OBVIOUS
    <2> QED
      BY <1>1, <1>3, <2>1, <2>2 DEF Quedan
  <1>5. \A t, r : Suya(u, t, r) <=> Suya(a, t, r)
    BY <1>4 DEF Suya
  <1>6. ASSUME NEW x, NEW j, Cuadran(x, j, a) PROVE Cuadran(x, j, u)
    <2>1. \A k, l \in DOMAIN u : u[k].lado = "LOCAL" /\ u[l].lado = "LOCAL" /\ u[k].tipo = u[l].tipo => k = l
      BY <1>4, <1>6 DEF Cuadran
    <2>2. \A k \in DOMAIN u : u[k].lado = "LOCAL" => u[k].monto = Pide(j, u[k].tipo) /\ u[k].monto # 0
      BY <1>4, <1>6 DEF Cuadran
    <2>3. \A t \in Tipos :
            /\ Espera(x, t, j) <=> Suya(u, t, "RM_QUEUED")
            /\ x.tiene[t][j] = IF Suya(u, t, "RM_GRANTED") THEN Pide(j, t) ELSE 0
      BY <1>5, <1>6, Zenon DEF Cuadran
    <2> QED
      BY <2>1, <2>2, <2>3 DEF Cuadran
  <1>7. \A j : Completa(j, a) => Completa(j, u)
    BY <1>5, Zenon DEF Completa
  <1>8. u = << >> => \A k \in DOMAIN a : a[k].lado # "LOCAL"
    BY <1>4
  <1> QED
    BY <1>5, <1>6, <1>7, <1>8, Zenon DEF u

(* A job without its allocations of a connection. *)
LEMMA TrabajoSin ==
  ASSUME NEW E, NEW w \in Trabajos(E), NEW c
  PROVE  LET v == SinAllocsDe(w, c)
         IN  /\ Pasa(w, v) /\ v.conn = w.conn
             /\ \A x, j : Cuadran(x, j, w.confirmadas) => Cuadran(x, j, v.confirmadas)
             /\ \A j : Completa(j, w.confirmadas) => Completa(j, v.confirmadas)
             /\ \A j : v.confirmadas = << >> /\ Completa(j, w.confirmadas) => NadaAqui(j)
  <1> DEFINE a == w.confirmadas
             F == {e \in DeConn(a, c) : e.lado = "REMOTE"}
             u == Sin(a, F)
             v == [w EXCEPT !.confirmadas = u]
  <1>1. SinAllocsDe(w, c) = v
    BY DEF SinAllocsDe
  <1>2. a \in Seq(Allocs)
    BY DEF Trabajos
  <1>3. /\ \A x, j : Cuadran(x, j, a) => Cuadran(x, j, u)
        /\ \A j : Completa(j, a) => Completa(j, u)
        /\ \A t, r : Suya(u, t, r) <=> Suya(a, t, r)
        /\ u = << >> => \A k \in DOMAIN a : a[k].lado # "LOCAL"
    <2>1. \A e \in F : e.lado = "REMOTE"
      OBVIOUS
    <2> HIDE DEF F
    <2> QED
      BY <1>2, <2>1, SinRemotas
  <1>4. v.job = w.job /\ v.pendientes = w.pendientes /\ v.conn = w.conn /\ v.confirmadas = u
    <2> HIDE DEF u
    <2> QED
      BY DEF Trabajos
  <1> HIDE DEF v, u
  <1>5. Cumplida(w) => Cumplida(v)
    <2>1. ASSUME NEW i \in DOMAIN u, u[i].lado = "LOCAL", u[i].result = "RM_QUEUED" PROVE ~Cumplida(w)
      <3>1. Suya(a, u[i].tipo, "RM_QUEUED")
        <4>1. Suya(u, u[i].tipo, "RM_QUEUED")
          BY <2>1, Zenon DEF Suya
        <4> QED
          BY <1>3, <4>1, Zenon
      <3> QED
        BY <3>1, Zenon DEF Suya, Cumplida
    <2> QED
      BY <1>4, <2>1, Zenon DEF Cumplida
  <1>6. ASSUME NEW j, u = << >>, Completa(j, a) PROVE NadaAqui(j)
    <2>1. \A t, r : ~Suya(a, t, r)
      BY <1>3, <1>6, Zenon DEF Suya
    <2> QED
      BY <1>6, <2>1, Zenon DEF Completa, NadaAqui
  <1> QED
    BY <1>1, <1>3, <1>4, <1>5, <1>6 DEF Pasa

(* The jobs that go with a connection to Vecino. *)
Salen(x, c) == {e.job : e \in ToSet(tabla_jobs_extract_by_remote_conn(x, c).extraidos)}

(* tabla_jobs_extract_by_remote_conn: the table left agrees with the        *)
(* queues, and so do the allocations of each job taken out.                 *)
LEMMA ExtraeBien ==
  ASSUME NEW Q, NEW E, Permisos(Q, E), NEW x \in Managers(Q, E), NEW c, c # ERL, NEW S, Cuadra(x, S)
  PROVE  LET e == tabla_jobs_extract_by_remote_conn(x, c)
         IN  /\ Cuadra(e.nd, S) /\ Deriva(x, e.nd, Salen(x, c)) /\ e.nd.tx = x.tx
             /\ \A i \in DOMAIN e.extraidos :
                  LET w == e.extraidos[i]
                  IN  /\ w.confirmadas \in Seq(Allocs) /\ w.job \in S /\ w.job \in Salen(x, c)
                      /\ Cuadran(x, w.job, w.confirmadas)
             /\ \A j \in Salen(x, c) : j \in S /\ (Cumple(x, j) => NadaAqui(j))
  <1> DEFINE tabla == x.tabla
             n == Len(tabla)
             podada == [i \in DOMAIN tabla |-> SinAllocsDe(tabla[i], c)]
             afectados == {y \in ToSet(podada) : Afectado(y, c)}
             s == Sin(podada, afectados)
             q == Sin(podada, ToSet(podada) \ afectados)
             e == tabla_jobs_extract_by_remote_conn(x, c)
             y == [x EXCEPT !.tabla = s]
             J == Salen(x, c)
  <1>1. e = [nd |-> y, extraidos |-> Reverse(q)]
    BY DEF tabla_jobs_extract_by_remote_conn
  <1>2. tabla \in Seq(Trabajos(E)) /\ n \in Nat /\ DOMAIN tabla = 1 .. n
        /\ \A i \in DOMAIN tabla : tabla[i] \in Trabajos(E)
    BY Campos, LenProperties, ElementOfSeq
  <1>3. y.tabla = s /\ y.tx = x.tx /\ y.rec = x.rec /\ y.tiene = x.tiene
    <2> HIDE DEF s
    <2> QED
      BY DEF Managers
  <1>4. podada \in Seq(ToSet(podada)) /\ DOMAIN podada = 1 .. n /\ Len(podada) = n
    <2>1. DOMAIN podada = 1 .. n
      BY <1>2
    <2>2. \A i \in 1 .. n : podada[i] \in ToSet(podada)
      BY <1>2 DEF ToSet
    <2>3. podada = [i \in 1 .. n |-> podada[i]]
      BY <1>2
    <2> HIDE DEF podada, n
    <2> QED
      BY <1>2, <2>1, <2>2, <2>3
  <1>5. ASSUME NEW i \in 1 .. n
        PROVE  LET v == podada[i]
               IN  /\ Pasa(tabla[i], v) /\ v.conn = ERL /\ v.job \in S /\ v.confirmadas \in Seq(Allocs)
                   /\ Cuadran(x, v.job, v.confirmadas) /\ Completa(v.job, v.confirmadas)
                   /\ v.confirmadas = << >> => NadaAqui(v.job)
    <2> DEFINE w == tabla[i]
               v == SinAllocsDe(w, c)
    <2>1. podada[i] = v /\ w \in Trabajos(E)
      BY <1>2
    <2>2. Cuadran(x, w.job, w.confirmadas) /\ Completa(w.job, w.confirmadas) /\ w.job \in S
      BY <1>2, Zenon DEF Cuadra
    <2>3. w.conn = ERL
      BY <2>1 DEF Permisos, Trabajos
    <2> HIDE DEF w
    <2>4. v.confirmadas \in Seq(Allocs)
      <3> DEFINE a == w.confirmadas
                 u == Sin(a, {b \in DeConn(a, c) : b.lado = "REMOTE"})
      <3>1. a \in Seq(Allocs)
        BY <2>1 DEF Trabajos
      <3>2. u \in Seq(Allocs)
        <4> DEFINE F == {b \in DeConn(a, c) : b.lado = "REMOTE"}
        <4>1. u = Sin(a, F)
          OBVIOUS
        <4> HIDE DEF F, u, a
        <4>2. u \in Seq(Allocs \ F)
          BY <3>1, <4>1, SinQuita
        <4> QED
          BY <4>2
      <3>3. v = [w EXCEPT !.confirmadas = u]
        BY DEF SinAllocsDe
      <3> HIDE DEF u
      <3> QED
        BY <2>1, <3>2, <3>3 DEF Trabajos
    <2>5. /\ Pasa(w, v) /\ v.conn = w.conn
          /\ \A z, j : Cuadran(z, j, w.confirmadas) => Cuadran(z, j, v.confirmadas)
          /\ \A j : Completa(j, w.confirmadas) => Completa(j, v.confirmadas)
          /\ \A j : v.confirmadas = << >> /\ Completa(j, w.confirmadas) => NadaAqui(j)
      BY <2>1, TrabajoSin
    <2>6. v.job = w.job
      BY <2>5 DEF Pasa
    <2> HIDE DEF v, podada
    <2> QED
      BY <2>1, <2>2, <2>3, <2>4, <2>5, <2>6 DEF w
  <1>6. \A i, k \in 1 .. n : podada[i].job = podada[k].job => i = k
    <2>1. \A i \in 1 .. n : podada[i].job = tabla[i].job
      BY <1>5, Zenon DEF Pasa
    <2> HIDE DEF podada, n
    <2> QED
      BY <1>2, <2>1, Zenon DEF Cuadra
  <1> HIDE DEF podada, y, tabla
  <1>7. PICK g : Quedan(s, podada, afectados, n, g)
    <2> HIDE DEF afectados
    <2> QED
      BY <1>4, SinEs
  <1>8. PICK f : Quedan(q, podada, ToSet(podada) \ afectados, n, f)
    <2> DEFINE F == ToSet(podada) \ afectados
    <2> HIDE DEF F, afectados
    <2>1. \E f : Quedan(Sin(podada, F), podada, F, n, f)
      BY <1>4, SinEs
    <2> QED
      BY <2>1 DEF F
  <1>9. Len(s) \in Nat /\ DOMAIN s = 1 .. Len(s) /\ Len(q) \in Nat /\ DOMAIN q = 1 .. Len(q)
    <2> DEFINE F == ToSet(podada) \ afectados
    <2> HIDE DEF F, afectados
    <2>1. \A z : Sin(podada, z) \in Seq(ToSet(podada) \ z)
      BY <1>4, SinQuita
    <2> DEFINE u(z) == Sin(podada, z)
    <2>2. \A z : Len(u(z)) \in Nat /\ DOMAIN u(z) = 1 .. Len(u(z))
      <3> SUFFICES ASSUME NEW z PROVE Len(u(z)) \in Nat /\ DOMAIN u(z) = 1 .. Len(u(z))
        OBVIOUS
      <3>1. u(z) \in Seq(ToSet(podada) \ z)
        BY <2>1
      <3> HIDE DEF u
      <3> QED
        BY <3>1, LenProperties
    <2> QED
      BY <2>2 DEF F
  <1> HIDE DEF s, q
  <1>10. \A i \in DOMAIN s : g[i] \in 1 .. n /\ s[i] = podada[g[i]] /\ ~Afectado(s[i], c)
    <2>1. \A i \in DOMAIN s : g[i] \in 1 .. n /\ s[i] = podada[g[i]] /\ podada[g[i]] \notin afectados
      BY <1>7, <1>9 DEF Quedan
    <2>2. \A i \in 1 .. n : podada[i] \in ToSet(podada)
      BY <1>4 DEF ToSet
    <2> QED
      BY <2>1, <2>2
  <1>11. \A i \in DOMAIN q : f[i] \in 1 .. n /\ q[i] = podada[f[i]] /\ Afectado(q[i], c)
    <2>1. \A i \in DOMAIN q : f[i] \in 1 .. n /\ q[i] = podada[f[i]]
                              /\ podada[f[i]] \notin ToSet(podada) \ afectados
      BY <1>8, <1>9 DEF Quedan
    <2>2. \A i \in 1 .. n : podada[i] \in ToSet(podada)
      BY <1>4 DEF ToSet
    <2> QED
      BY <2>1, <2>2
  <1>12. \A i \in 1 .. n : IF Afectado(podada[i], c) THEN \E l \in DOMAIN q : f[l] = i
                           ELSE \E l \in DOMAIN s : g[l] = i
    <2>1. \A i \in 1 .. n : podada[i] \in ToSet(podada)
      BY <1>4 DEF ToSet
    <2>2. \A i \in 1 .. n : podada[i] \in afectados <=> Afectado(podada[i], c)
      BY <2>1
    <2> HIDE DEF afectados
    <2>3. \A i \in 1 .. n : podada[i] \notin afectados => \E l \in DOMAIN s : g[l] = i
      BY <1>7, <1>9 DEF Quedan
    <2>4. \A i \in 1 .. n : podada[i] \in afectados => \E l \in DOMAIN q : f[l] = i
      BY <1>8, <1>9 DEF Quedan
    <2> QED
      BY <2>2, <2>3, <2>4
  <1>13. /\ \A i \in DOMAIN e.extraidos : \E l \in DOMAIN q : e.extraidos[i] = q[l]
         /\ \A l \in DOMAIN q : \E i \in DOMAIN e.extraidos : e.extraidos[i] = q[l]
    <2> DEFINE r == Reverse(q)
    <2>1. e.extraidos = r
      BY <1>1
    <2>2. DOMAIN r = 1 .. Len(q) /\ \A i \in DOMAIN r : r[i] = q[Len(q) - i + 1]
      BY DEF Reverse
    <2> HIDE DEF r, e
    <2>3. ASSUME NEW i \in DOMAIN r PROVE \E l \in DOMAIN q : r[i] = q[l]
      <3>1. Len(q) - i + 1 \in DOMAIN q
        BY <1>9, <2>2
      <3> QED
        BY <2>2, <3>1
    <2>4. ASSUME NEW l \in DOMAIN q PROVE \E i \in DOMAIN r : r[i] = q[l]
      <3>1. Len(q) - l + 1 \in DOMAIN r /\ Len(q) - (Len(q) - l + 1) + 1 = l
        BY <1>9, <2>2
      <3> QED
        BY <2>2, <3>1
    <2> QED
      BY <2>1, <2>3, <2>4
  <1>14. \A j : j \in J <=> \E l \in DOMAIN q : q[l].job = j
    <2>1. \A j : j \in J <=> \E i \in DOMAIN e.extraidos : e.extraidos[i].job = j
      BY DEF Salen, ToSet
    <2> HIDE DEF e, J
    <2>2. ASSUME NEW j, j \in J PROVE \E l \in DOMAIN q : q[l].job = j
      BY <1>13, <2>1, <2>2
    <2>3. ASSUME NEW l \in DOMAIN q PROVE q[l].job \in J
      BY <1>13, <2>1, <2>3
    <2> QED
      BY <2>2, <2>3
  <1> HIDE DEF J, n, afectados
  <1>15. \A i \in DOMAIN s : s[i].job \notin J
    <2> SUFFICES ASSUME NEW i \in DOMAIN s, NEW l \in DOMAIN q, q[l].job = s[i].job PROVE FALSE
      BY <1>14
    <2>1. g[i] = f[l]
      BY <1>6, <1>10, <1>11
    <2> QED
      BY <1>10, <1>11, <2>1
  <1>16. Cuadra(y, S) /\ Deriva(x, y, J)
    <2>1. \A i \in DOMAIN y.tabla :
           /\ g[i] \in DOMAIN x.tabla /\ Pasa(x.tabla[g[i]], y.tabla[i]) /\ y.tabla[i].job \notin J
           /\ Cuadran(x, y.tabla[i].job, y.tabla[i].confirmadas)
           /\ Completa(y.tabla[i].job, y.tabla[i].confirmadas)
      BY <1>2, <1>3, <1>5, <1>10, <1>15 DEF tabla
    <2>2. \A i, k \in DOMAIN y.tabla : g[i] = g[k] => i = k
      BY <1>3, <1>7, <1>9 DEF Quedan
    <2>3. \A k \in DOMAIN x.tabla : x.tabla[k].job \notin J => \E i \in DOMAIN y.tabla : g[i] = k
      <3> SUFFICES ASSUME NEW k \in 1 .. n, tabla[k].job \notin J PROVE \E i \in DOMAIN s : g[i] = k
        BY <1>2, <1>3 DEF tabla
      <3>1. podada[k].job = tabla[k].job
        BY <1>5, Zenon DEF Pasa
      <3>2. ~Afectado(podada[k], c)
        BY <1>11, <1>12, <1>14, <3>1
      <3> QED
        BY <1>12, <3>2
    <2>4. y.tiene = x.tiene /\ \A t \in Tipos : y.rec[t].cola = x.rec[t].cola
      BY <1>3
    <2> QED
      BY <2>1, <2>2, <2>3, <2>4, Subtabla, Zenon
  <1>17. ASSUME NEW i \in DOMAIN e.extraidos
         PROVE  LET w == e.extraidos[i]
                IN  /\ w.confirmadas \in Seq(Allocs) /\ w.job \in S /\ w.job \in J
                    /\ Cuadran(x, w.job, w.confirmadas)
    <2> HIDE DEF e
    <2>1. PICK l \in DOMAIN q : e.extraidos[i] = q[l]
      BY <1>13
    <2>2. q[l] = podada[f[l]] /\ f[l] \in 1 .. n /\ q[l].job \in J
      BY <1>11, <1>14
    <2> QED
      BY <1>5, <2>1, <2>2
  <1>18. ASSUME NEW j \in J PROVE j \in S /\ (Cumple(x, j) => NadaAqui(j))
    <2>1. PICK l \in DOMAIN q : q[l].job = j
      BY <1>14
    <2> DEFINE k == f[l]
               v == podada[k]
    <2>2. k \in 1 .. n /\ v.job = j /\ Afectado(v, c)
      BY <1>11, <2>1
    <2> HIDE DEF k
    <2>3. /\ Pasa(tabla[k], v) /\ v.conn = ERL /\ v.job \in S
          /\ v.confirmadas = << >> => NadaAqui(v.job)
      BY <1>5, <2>2
    <2> HIDE DEF v
    <2>4. ASSUME Cumple(x, j) PROVE NadaAqui(j)
      <3>1. PICK i \in DOMAIN x.tabla : x.tabla[i].job = j /\ Cumplida(x.tabla[i])
        BY <2>4 DEF Cumple
      <3>2. i = k
        BY <1>2, <2>2, <2>3, <3>1, Zenon DEF Cuadra, Pasa, tabla
      <3>3. v.pendientes = << >>
        BY <2>3, <3>1, <3>2 DEF Pasa, Cumplida, tabla
      <3>4. v.confirmadas = << >>
        BY <2>2, <2>3, <3>3 DEF Afectado
      <3> QED
        BY <2>2, <2>3, <3>4
    <2> QED
      BY <2>2, <2>3, <2>4
  <1>19. e.nd = y
    BY <1>1
  <1> HIDE DEF e
  <1> QED
    BY <1>3, <1>16, <1>17, <1>18, <1>19, Zenon DEF e, J

-------------------------------------------------------------------------------
(* The tasks of a job that left the table. *)

(* The tasks the workers build for a job are among what is left of it. *)
LEMMA SonRestos ==
  ASSUME NEW j \in Jobs, NEW t \in Tipos, NEW m \in Nat
  PROVE  /\ purgar(t, j) \in Restos(j)
         /\ Pide(j, t) # 0 => devolver(t, m, j) \in Restos(j)
         /\ \A a \in Allocs, c \in {Ida} : a.tipo = t /\ a.monto = m => avisar(c, a, j) \in Restos(j)
         /\ \A ip \in Ips : [op |-> "avisarA", ip |-> ip, tipo |-> t, monto |-> m, job |-> j] \in Restos(j)
  <1>1. purgar(t, j) \in Comunes /\ purgar(t, j).job = j /\ purgar(t, j).op = "purgar"
    BY SonComunes DEF purgar
  <1>2. /\ devolver(t, m, j) \in Comunes /\ devolver(t, m, j).job = j
        /\ devolver(t, m, j).op = "devolver" /\ devolver(t, m, j).tipo = t
    BY SonComunes DEF devolver
  <1>3. ASSUME NEW a \in Allocs, NEW c \in {Ida}, a.tipo = t, a.monto = m PROVE avisar(c, a, j) \in Restos(j)
    <2>1. avisar(c, a, j) \in Comunes
      BY <1>3, SonComunes, Zenon
    <2>2. avisar(c, a, j).job = j /\ avisar(c, a, j).op = "avisar"
      BY DEF avisar
    <2> QED
      BY <2>1, <2>2 DEF Restos
  <1>4. ASSUME NEW ip \in Ips
        PROVE  [op |-> "avisarA", ip |-> ip, tipo |-> t, monto |-> m, job |-> j] \in Restos(j)
    <2> DEFINE h == [op |-> "avisarA", ip |-> ip, tipo |-> t, monto |-> m, job |-> j]
    <2>1. h \in Comunes
      BY SonComunes, Zenon
    <2>2. h.job = j /\ h.op = "avisarA"
      OBVIOUS
    <2> HIDE DEF h
    <2>3. h \in Restos(j)
      BY <2>1, <2>2 DEF Restos
    <2> QED
      BY <2>3 DEF h
  <1>5. purgar(t, j) \in Restos(j) /\ (Pide(j, t) # 0 => devolver(t, m, j) \in Restos(j))
    <2> DEFINE d == devolver(t, m, j)
               p == purgar(t, j)
    <2> HIDE DEF d, p
    <2>1. p \in Restos(j)
      BY <1>1 DEF Restos, p
    <2>2. Pide(j, t) # 0 => d \in Restos(j)
      BY <1>2 DEF Restos, d
    <2> QED
      BY <2>1, <2>2 DEF d, p
  <1> QED
    BY <1>3, <1>4, <1>5, Zenon

(* So are the purges of all queues. *)
LEMMA PurgasRestos ==
  ASSUME NEW j \in Jobs
  PROVE  Purgas(j) \in Seq(Restos(j))
  <1> DEFINE ts == SetToSeq(Tipos)
  <1>1. ts \in Seq(Tipos) /\ Len(ts) \in Nat /\ DOMAIN ts = 1 .. Len(ts)
    BY Lista, LenProperties
  <1>2. (\A i \in DOMAIN ts : ts[i] \in Tipos) /\ 0 \in Nat
    BY <1>1
  <1> HIDE DEF ts
  <1>3. \A i \in DOMAIN ts : purgar(ts[i], j) \in Restos(j)
    BY <1>2, SonRestos, Zenon
  <1>4. Purgas(j) = [i \in DOMAIN ts |-> purgar(ts[i], j)]
    BY DEF Purgas, ts
  <1> QED
    BY <1>1, <1>3, <1>4

(* Its units are given back for types it asked for. *)
LEMMA TareasRestos ==
  ASSUME NEW j \in Jobs, NEW allocs \in Seq(Allocs),
         \A i \in DOMAIN allocs : allocs[i].lado = "LOCAL" => Pide(j, allocs[i].tipo) # 0
  PROVE  TareasPropias(j, allocs) \in Seq(Restos(j)) /\ Tareas(j, allocs) \in Seq(Restos(j))
  <1> DEFINE R == Restos(j)
             U(a) == [op |-> "avisarA", ip |-> a.ip, tipo |-> a.tipo, monto |-> a.monto, job |-> j]
             T(a) == IF a.lado = "LOCAL" /\ a.result = "RM_GRANTED"
                     THEN <<devolver(a.tipo, a.monto, j)>>
                     ELSE Purgas(j) \o IF a.lado = "REMOTE" THEN <<avisar(a.conn, a, j)>> ELSE << >>
             W(a) == IF a.lado = "REMOTE"
                     THEN <<[op |-> "avisarA", ip |-> a.ip, tipo |-> a.tipo, monto |-> a.monto, job |-> j]>>
                     ELSE IF a.result = "RM_GRANTED" THEN <<devolver(a.tipo, a.monto, j)>> ELSE << >>
             ss == [i \in DOMAIN allocs |-> T(allocs[i])]
             rr == [i \in DOMAIN allocs |-> W(allocs[i])]
  <1>1. Len(allocs) \in Nat /\ DOMAIN allocs = 1 .. Len(allocs) /\ \A i \in DOMAIN allocs : allocs[i] \in Allocs
    BY LenProperties, ElementOfSeq
  <1>2. ASSUME NEW i \in DOMAIN allocs PROVE T(allocs[i]) \in Seq(R) /\ W(allocs[i]) \in Seq(R)
    <2> DEFINE a == allocs[i]
    <2>1. a \in Allocs /\ (a.lado = "LOCAL" => Pide(j, a.tipo) # 0)
      BY <1>1
    <2> HIDE DEF a
    <2>2. a.tipo \in Tipos /\ a.monto \in Nat /\ a.ip \in Ips /\ a.lado \in {"LOCAL", "REMOTE"}
          /\ (a.lado = "REMOTE" => a.conn \in {Ida})
      BY <2>1, DeAlloc
    <2>3. /\ a.lado = "LOCAL" => devolver(a.tipo, a.monto, j) \in R
          /\ a.lado = "REMOTE" => avisar(a.conn, a, j) \in R
          /\ U(a) \in R
      BY <2>1, <2>2, SonRestos, Zenon
    <2> HIDE DEF U, R
    <2> DEFINE u == <<devolver(a.tipo, a.monto, j)>>
               v == IF a.lado = "REMOTE" THEN <<avisar(a.conn, a, j)>> ELSE << >>
    <2>4. (a.lado = "LOCAL" => u \in Seq(R)) /\ v \in Seq(R) /\ << >> \in Seq(R) /\ <<U(a)>> \in Seq(R)
      BY <2>2, <2>3
    <2> HIDE DEF u, v
    <2>5. Purgas(j) \o v \in Seq(R)
      BY <2>4, PurgasRestos, ConcatProperties DEF R
    <2>6. T(a) \in Seq(R)
      BY <2>4, <2>5, Zenon DEF u, v
    <2>7. a.lado # "REMOTE" => a.lado = "LOCAL"
      BY <2>2
    <2>8. W(a) \in Seq(R)
      BY <2>4, <2>7, Zenon DEF u, U
    <2> QED
      BY <2>6, <2>8 DEF a
  <1> HIDE DEF T, W
  <1>3. ss \in Seq(Seq(R)) /\ rr \in Seq(Seq(R))
    BY <1>1, <1>2
  <1>4. TareasPropias(j, allocs) = FlattenSeq(ss) /\ Tareas(j, allocs) = FlattenSeq(rr)
    BY DEF TareasPropias, Tareas, T, W
  <1> QED
    BY <1>3, <1>4, Aplana, Zenon

-------------------------------------------------------------------------------
(* A step, part by part. *)

(* Its messages reach who they are for. *)
LEMMA Reparte ==
  ASSUME Clientes, NEW Q, NEW E, NEW y \in Managers(Q, E), Entregar(y), NEW S, Cuadra(y, S), BienDicho(y)
  PROVE  /\ Cuadra(nd', S) /\ Progresa(y, nd') /\ Siguen
         /\ nd'.rec = y.rec /\ nd'.tiene = y.tiene /\ nd'.tabla = y.tabla
         /\ \A j \in Propios : cliente[j] # "esperando" => cliente'[j] = cliente[j]
  <1> DEFINE Avisados(c, clase) == {e.msg.job : e \in {f \in ToSet(y.tx) :
                                                  f.conn = c /\ f.msg.clase = clase}}
  <1>1. /\ nd' = [y EXCEPT !.tx = << >>]
        /\ cliente' = [j \in Propios |->
                      IF cliente[j] # "esperando" THEN cliente[j]
                      ELSE IF j \in Avisados(ERL, "JOB_GRANTED") THEN "trabajando"
                      ELSE IF j \in Avisados(ERL, "JOB_DENIED") THEN "negado" ELSE cliente[j]]
    BY DEF Entregar
  <1>2. nd'.rec = y.rec /\ nd'.tiene = y.tiene /\ nd'.tabla = y.tabla
    BY <1>1 DEF Managers
  <1>3. Cuadra(nd', S) /\ Progresa(y, nd') /\ \A j : Cumple(nd', j) <=> Cumple(y, j)
    BY <1>2, MismaMesa
  <1>4. ASSUME NEW j, j \in Avisados(ERL, "JOB_GRANTED") PROVE Cumple(nd', j)
    <2>1. PICK e \in ToSet(y.tx) : e.conn = ERL /\ e.msg.clase = "JOB_GRANTED" /\ e.msg.job = j
      BY <1>4
    <2>2. PICK i \in DOMAIN y.tx : y.tx[i] = e
      BY <2>1 DEF ToSet
    <2>3. Cumple(y, j)
      BY <2>1, <2>2 DEF BienDicho
    <2> QED
      BY <1>3, <2>3
  <1> HIDE DEF Avisados
  <1>5. ASSUME NEW j \in Propios
        PROVE  /\ cliente[j] # "esperando" => cliente'[j] = cliente[j]
               /\ cliente'[j] = "nuevo" <=> cliente[j] = "nuevo"
               /\ cliente[j] = "abandonado" => cliente'[j] = "abandonado"
               /\ cliente'[j] = "trabajando" => cliente[j] = "trabajando" \/ Cumple(nd', j)
    BY <1>1, <1>4
  <1> QED
    BY <1>2, <1>3, <1>5 DEF Siguen

(* Who works is served still. *)
LEMMA ServidosSigue ==
  ASSUME Servidos, Siguen, NEW J, Salieron(J)
  PROVE  Servidos'
  <1>1. ASSUME NEW j \in Propios, cliente'[j] = "trabajando"
        PROVE  IF EnTabla(nd', j) THEN Cumple(nd', j) ELSE NadaAqui(j)
    <2>1. EnTabla(nd', j) <=> EnTabla(nd, j) /\ j \notin J
      BY DEF Salieron
    <2>2. CASE cliente[j] = "trabajando"
      BY <1>1, <2>1, <2>2 DEF Servidos, Salieron
    <2>3. CASE cliente[j] # "trabajando"
      <3>1. Cumple(nd', j)
        BY <1>1, <2>3 DEF Siguen
      <3>2. EnTabla(nd', j)
        BY <3>1 DEF Cumple, EnTabla
      <3> QED
        BY <3>1, <3>2
    <2> QED
      BY <2>2, <2>3
  <1> QED
    BY <1>1 DEF Servidos, NadaAqui

(* No RESERVE is with Vecino that is not pending. *)
LEMMA EnViloSigue ==
  ASSUME EnVilo, Clientes, NEW J, Deriva(nd, nd', J), Siguen, enVecino' \in [Propios -> Nat],
         \A j \in Propios : enVecino'[j] <= enVecino[j],
         \A i \in DOMAIN nd'.tabla : nd'.tabla[i].job \in Propios,
         \A i \in DOMAIN nd.tabla : nd.tabla[i].pendientes \in Seq(Salientes)
  PROVE  EnVilo'
  <1>1. ASSUME NEW i \in DOMAIN nd'.tabla PROVE enVecino'[nd'.tabla[i].job] <= Len(nd'.tabla[i].pendientes)
    <2>1. PICK k \in DOMAIN nd.tabla : Pasa(nd.tabla[k], nd'.tabla[i])
      BY DEF Deriva
    <2> DEFINE w == nd.tabla[k]
               v == nd'.tabla[i]
    <2>2. v.job = w.job /\ v.pendientes = w.pendientes /\ v.job \in Propios
      BY <2>1 DEF Pasa
    <2>3. enVecino[w.job] <= Len(w.pendientes) /\ Len(w.pendientes) \in Nat
      BY LenProperties DEF EnVilo
    <2> HIDE DEF v, w
    <2>4. enVecino'[v.job] <= enVecino[v.job] /\ enVecino'[v.job] \in Nat /\ enVecino[v.job] \in Nat
      BY <2>2 DEF Clientes
    <2>5. enVecino'[v.job] <= Len(v.pendientes)
      BY <2>2, <2>3, <2>4
    <2> QED
      BY <2>5 DEF v
  <1>2. ASSUME NEW j \in Propios, cliente'[j] = "nuevo" PROVE enVecino'[j] = 0
    <2>1. enVecino[j] = 0 /\ enVecino'[j] <= enVecino[j] /\ enVecino'[j] \in Nat
      BY <1>2 DEF Siguen, EnVilo
    <2> QED
      BY <2>1
  <1> QED
    BY <1>1, <1>2 DEF EnVilo

(* What is left of a JOB_REQUEST. *)
LEMMA FaltaEs ==
  ASSUME NEW j \in Propios, NEW p \in 0 .. Len(Pedido[j])
  PROVE  LET s == Falta(j, p)
             n == Len(Pedido[j])
         IN  /\ DOMAIN s = 1 .. n - p + 1 /\ Len(s) = n - p + 1 /\ s # << >>
             /\ Head(s) = s[1] /\ s[1].job = j
             /\ s[1].op = IF p = n THEN "insertar" ELSE "item"
             /\ p # n => s[1].it = Pedido[j][p + 1] /\ Tail(s) = Falta(j, p + 1)
             /\ \A i \in DOMAIN s : s[i].op \in {"item", "insertar"}
  <1> DEFINE s == Falta(j, p)
             n == Len(Pedido[j])
             V(i) == IF i > n - p THEN [op |-> "insertar", job |-> j]
                     ELSE [op |-> "item", job |-> j, it |-> Pedido[j][p + i]]
  <1>1. n \in Nat /\ p \in Nat /\ p <= n /\ n - p \in Nat
    BY SonItems
  <1>2. s = [i \in 1 .. n - p + 1 |-> V(i)]
    BY DEF Falta
  <1>3. Falta(j, p + 1) = [i \in 1 .. n - (p + 1) + 1 |->
          IF i > n - (p + 1) THEN [op |-> "insertar", job |-> j]
                     ELSE [op |-> "item", job |-> j, it |-> Pedido[j][(p + 1) + i]]]
    BY DEF Falta
  <1> HIDE DEF n, s
  <1>4. \A i \in Nat : V(i).op = (IF i > n - p THEN "insertar" ELSE "item") /\ V(i).job = j
                       /\ (~(i > n - p) => V(i).it = Pedido[j][p + i])
    BY <1>1
  <1>5. p # n => Falta(j, p + 1) = [i \in 1 .. n - p |-> V(i + 1)]
    <2>1. ASSUME p # n
          PROVE  [i \in 1 .. n - (p + 1) + 1 |->
                    IF i > n - (p + 1) THEN [op |-> "insertar", job |-> j]
                     ELSE [op |-> "item", job |-> j, it |-> Pedido[j][(p + 1) + i]]]
                 = [i \in 1 .. n - p |-> V(i + 1)]
      <3>1. 1 .. n - (p + 1) + 1 = 1 .. n - p
        BY <1>1
      <3>2. \A i \in 1 .. n - p : (i > n - (p + 1) <=> i + 1 > n - p) /\ (p + 1) + i = p + (i + 1)
        BY <1>1
      <3> QED
        BY <3>1, <3>2
    <2> QED
      BY <1>3, <2>1
  <1> HIDE DEF V
  <1>6. Len(s) = n - p + 1 /\ DOMAIN s = 1 .. n - p + 1 /\ s # << >> /\ Head(s) = s[1] /\ s[1] = V(1)
    BY <1>1, <1>2
  <1>7. Tail(s) = [i \in 1 .. n - p |-> V(i + 1)]
    BY <1>1, <1>2
  <1>8. \A i \in DOMAIN s : s[i] = V(i) /\ i \in Nat
    BY <1>1, <1>2
  <1>9. (1 > n - p <=> p = n) /\ 1 \in Nat
    BY <1>1
  <1>10. \A i \in DOMAIN s : s[i].op \in {"item", "insertar"}
    BY <1>4, <1>8
  <1> QED
    BY <1>4, <1>5, <1>6, <1>7, <1>9, <1>10 DEF s, n

(* Whose things stay as they were has the same allocations. *)
LEMMA CuadranIgual ==
  ASSUME NEW x, NEW y, NEW j, NEW s, Cuadran(x, j, s), Igual(x, y, j)
  PROVE  Cuadran(y, j, s)
  BY DEF Cuadran, Igual

(* The JOB_REQUEST under way holds tabla.lock. *)
LEMMA ConCandado ==
  ASSUME EnCurso, lock = ERL
  PROVE  \E j \in Propios : \E p \in 0 .. Len(Pedido[j]) :
           /\ Arma(j, p) /\ Pidiendose(j) /\ hace[ERL] # << >>
           /\ Head(hace[ERL]).op \in {"item", "insertar"} /\ Head(hace[ERL]).job = j
           /\ \A k : Pidiendose(k) => k = j
  <1>1. PICK j \in Propios : \E p \in 0 .. Len(Pedido[j]) : Arma(j, p)
    BY DEF EnCurso
  <1>2. PICK p \in 0 .. Len(Pedido[j]) : Arma(j, p)
    BY <1>1
  <1>3. hace[ERL] = Falta(j, p)
    BY <1>2 DEF Arma
  <1>4. hace[ERL] # << >> /\ Head(hace[ERL]).job = j /\ Head(hace[ERL]).op \in {"item", "insertar"}
    <2> DEFINE s == Falta(j, p)
    <2>1. s # << >> /\ Head(s) = s[1] /\ s[1].job = j /\ s[1].op \in {"item", "insertar"}
      BY FaltaEs
    <2> QED
      BY <1>3, <2>1
  <1> QED
    BY <1>2, <1>4 DEF Pidiendose

(* It stays where it was while others take their steps. *)
LEMMA EnCursoSigue ==
  ASSUME EnCurso, Clientes, NEW J, Salieron(J), Siguen, UNCHANGED <<lock, armando>>,
         lock = ERL => hace'[ERL] = hace[ERL] /\ \A j \in Propios : Pidiendose(j) => Igual(nd, nd', j),
         lock # ERL => \A i \in DOMAIN hace'[ERL] : hace'[ERL][i].op \notin {"item", "insertar"},
         enVecino' \in [Propios -> Nat], \A j \in Propios : enVecino'[j] <= enVecino[j],
         Armado
  PROVE  EnCurso'
  <1>1. CASE lock = ERL
    <2>1. PICK j \in Propios : \E p \in 0 .. Len(Pedido[j]) : Arma(j, p) /\ Pidiendose(j)
      BY <1>1, ConCandado
    <2>2. PICK p \in 0 .. Len(Pedido[j]) : Arma(j, p) /\ Pidiendose(j)
      BY <2>1
    <2>3. /\ hace'[ERL] = Falta(j, p) /\ cliente'[j] # "nuevo" /\ ~EnTabla(nd', j)
          /\ Cuadran(nd', j, armando'.confirmadas)
      BY <1>1, <2>2, CuadranIgual DEF Arma, Siguen, Salieron
    <2>6. cliente'[j] # "trabajando"
      BY <2>2, <2>3 DEF Arma, Siguen, Cumple, EnTabla
    <2>4. enVecino'[j] <= Len(armando'.pendientes)
      <3>1. enVecino[j] <= Len(armando.pendientes) /\ enVecino'[j] <= enVecino[j]
            /\ enVecino'[j] \in Nat /\ enVecino[j] \in Nat
        BY <2>2 DEF Arma, Clientes
      <3>2. Len(armando.pendientes) \in Nat
        BY LenProperties DEF Armado
      <3> QED
        BY <3>1, <3>2
    <2>5. Arma(j, p)'
      BY <2>2, <2>3, <2>4, <2>6 DEF Arma
    <2> QED
      BY <1>1, <2>5 DEF EnCurso
  <1>2. CASE lock # ERL
    BY <1>2 DEF EnCurso
  <1> QED
    BY <1>1, <1>2

(* The tasks that were left of dead jobs go on being that. *)
LEMMA DifuntosSigue ==
  ASSUME Difuntos, hace \in [Conexiones -> Seq(Abiertas \cup Cerrando)], NEW c \in Conexiones, NEW s, Sigue(c, s),
         \A j \in Propios : /\ cliente[j] # "nuevo" => cliente'[j] # "nuevo"
                            /\ cliente[j] = "abandonado" => cliente'[j] = "abandonado"
                            /\ EnTabla(nd', j) => EnTabla(nd, j) \/ cliente[j] = "nuevo" \/ Pidiendose(j)
                            /\ Pidiendose(j)' => Pidiendose(j) \/ cliente[j] = "nuevo",
         \A i \in DOMAIN s : \A j \in Propios : Trata(s[i], j) =>
           /\ Debida(s[i], j)' \/ \E k \in DOMAIN hace[c] : hace[c][k] = s[i]
           /\ ~EnTabla(nd', j) \/ s = hace[c] \/ (Head(s).op = "quitar" /\ Head(s).job = j)
  PROVE  Difuntos'
  <1>1. ASSUME NEW j \in Propios, NEW d \in Conexiones, NEW i \in DOMAIN hace[d], NEW h, h = hace[d][i], Trata(h, j)
        PROVE  /\ Debida(h, j)'
               /\ EnTabla(nd', j) => Head(hace[d]).op = "quitar" /\ Head(hace[d]).job = j
    <2>1. Debida(h, j) /\ (EnTabla(nd, j) => Head(hace[d]).op = "quitar" /\ Head(hace[d]).job = j)
      BY <1>1 DEF Difuntos, Debida
    <2>2. Debida(h, j)' /\ (EnTabla(nd', j) => EnTabla(nd, j))
      BY <2>1 DEF Debida
    <2> QED
      BY <2>1, <2>2
  <1>2. hace'[c] = s /\ \A d \in Conexiones \ {c} : hace'[d] = hace[d]
    BY DEF Sigue
  <1>3. ASSUME NEW d \in Conexiones, NEW i \in DOMAIN hace'[d], NEW j \in Propios, NEW h, h = hace'[d][i], Trata(h, j)
        PROVE  /\ Debida(h, j)'
               /\ EnTabla(nd', j) => Head(hace'[d]).op = "quitar" /\ Head(hace'[d]).job = j
    <2>1. CASE d # c
      <3>1. hace'[d] = hace[d]
        BY <1>2, <2>1
      <3> QED
        BY <1>1, <1>3, <3>1
    <2>2. CASE d = c
      <3>1. i \in DOMAIN s /\ h = s[i]
        BY <1>2, <1>3, <2>2
      <3>2. Debida(h, j)'
        <4>1. CASE \E k \in DOMAIN hace[c] : hace[c][k] = h
          BY <1>1, <1>3, <4>1
        <4>2. CASE Debida(h, j)'
          BY <4>2
        <4> QED
          BY <1>3, <3>1, <4>1, <4>2
      <3>3. EnTabla(nd', j) => Head(s).op = "quitar" /\ Head(s).job = j
        <4>1. CASE s = hace[c]
          BY <1>1, <1>3, <3>1, <4>1
        <4>2. CASE s # hace[c]
          BY <1>3, <3>1, <4>2
        <4> QED
          BY <4>1, <4>2
      <3> QED
        BY <1>2, <2>2, <3>2, <3>3
    <2> QED
      BY <2>1, <2>2
  <1>4. Difuntos'
    <2> SUFFICES ASSUME NEW d \in Conexiones, NEW i \in DOMAIN hace'[d], NEW j \in Propios, Trata(hace'[d][i], j)
                 PROVE  LET h == hace'[d][i]
                        IN  /\ cliente'[j] # "nuevo" /\ ~Pidiendose(j)'
                            /\ h.op = "devolver" => Pide(j, h.tipo) # 0
                            /\ h.op = "quitar" => cliente'[j] = "abandonado"
                            /\ EnTabla(nd', j) => Head(hace'[d]).op = "quitar" /\ Head(hace'[d]).job = j
      BY DEF Difuntos
    <2> DEFINE h == hace'[d][i]
    <2>1. Trata(h, j)
      OBVIOUS
    <2>2. h = hace'[d][i]
      OBVIOUS
    <2> HIDE DEF h
    <2>3. /\ cliente'[j] # "nuevo" /\ ~Pidiendose(j)'
          /\ h.op = "devolver" => Pide(j, h.tipo) # 0
          /\ h.op = "quitar" => cliente'[j] = "abandonado"
          /\ EnTabla(nd', j) => Head(hace'[d]).op = "quitar" /\ Head(hace'[d]).job = j
      BY <1>3, <2>1, <2>2 DEF Debida
    <2> QED
      BY <2>3 DEF h
  <1> QED
    BY <1>4

(* A step that starts, ends or starts over no JOB_REQUEST. *)
LEMMA Mantiene ==
  ASSUME IInv, Orden, Siguen, NEW J, Deriva(nd, nd', J), Cuadra(nd', Pedidos),
         \A j \in Propios : j \in J /\ cliente'[j] = "trabajando" => NadaAqui(j),
         UNCHANGED <<lock, armando>>, enVecino' \in [Propios -> Nat], \A j \in Propios : enVecino'[j] <= enVecino[j],
         NEW c \in Conexiones, NEW s, Sigue(c, s),
         lock = ERL => (c # ERL \/ s = hace[ERL]) /\ \A j \in Propios : Pidiendose(j) => Igual(nd, nd', j),
         c = ERL /\ lock # ERL => \A i \in DOMAIN s : s[i].op \notin {"item", "insertar"},
         \A i \in DOMAIN s : \A j \in Propios : Trata(s[i], j) =>
           /\ Debida(s[i], j)' \/ \E k \in DOMAIN hace[c] : hace[c][k] = s[i]
           /\ ~EnTabla(nd', j) \/ s = hace[c] \/ (Head(s).op = "quitar" /\ Head(s).job = j)
  PROVE  Orden'
  <1>1. Cuadra(nd, Pedidos) /\ EnVilo /\ Servidos /\ EnCurso /\ Difuntos
    BY DEF Orden
  <1>2. Clientes /\ Armado /\ hace \in [Conexiones -> Seq(Abiertas \cup Cerrando)]
    BY DEF IInv, EnManos
  <1>3. Salieron(J)
    <2>1. /\ \A j : EnTabla(nd', j) <=> EnTabla(nd, j) /\ j \notin J
          /\ \A j : Cumple(nd, j) /\ j \notin J => Cumple(nd', j)
      BY DerivaEs
    <2> QED
      BY <2>1 DEF Salieron
  <1>4. Pedidos' = Pedidos /\ Pedidos \subseteq Propios
    BY DEF Pedidos, Siguen
  <1>5. Cuadra(nd, Pedidos)'
    BY <1>4
  <1>6. EnVilo'
    <2>1. \A i \in DOMAIN nd'.tabla : nd'.tabla[i].job \in Propios
      BY <1>4 DEF Cuadra
    <2>2. \A i \in DOMAIN nd.tabla : nd.tabla[i].pendientes \in Seq(Salientes)
      <3>1. nd.tabla \in Seq(Trabajos(Duenos))
        BY Campos DEF IInv, Gestion
      <3>2. \A i \in DOMAIN nd.tabla : nd.tabla[i] \in Trabajos(Duenos)
        BY <3>1, LenProperties, ElementOfSeq
      <3> QED
        BY <3>2 DEF Trabajos
    <2> QED
      BY <1>1, <1>2, <2>1, <2>2, EnViloSigue
  <1>7. Servidos'
    BY <1>1, <1>3, ServidosSigue
  <1>8. hace'[c] = s /\ \A d \in Conexiones \ {c} : hace'[d] = hace[d]
    BY <1>2 DEF Sigue
  <1>9. lock = ERL => hace'[ERL] = hace[ERL]
    BY <1>8 DEF Conexiones
  <1>10. lock # ERL => \A i \in DOMAIN hace'[ERL] : hace'[ERL][i].op \notin {"item", "insertar"}
    BY <1>1, <1>8 DEF Conexiones, EnCurso
  <1>11. EnCurso'
    BY <1>1, <1>2, <1>3, <1>9, <1>10, EnCursoSigue
  <1>12. \A j \in Propios : /\ cliente[j] # "nuevo" => cliente'[j] # "nuevo"
                            /\ cliente[j] = "abandonado" => cliente'[j] = "abandonado"
                            /\ EnTabla(nd', j) => EnTabla(nd, j) \/ cliente[j] = "nuevo" \/ Pidiendose(j)
                            /\ Pidiendose(j)' => Pidiendose(j) \/ cliente[j] = "nuevo"
    BY <1>3, <1>9 DEF Siguen, Salieron, Pidiendose
  <1>13. Difuntos'
    BY <1>1, <1>2, <1>12, DifuntosSigue
  <1> QED
    BY <1>5, <1>6, <1>7, <1>11, <1>13 DEF Orden

(* One that touches no worker's tasks. *)
LEMMA MantieneQuieto ==
  ASSUME IInv, Orden, Siguen, NEW J, Deriva(nd, nd', J), Cuadra(nd', Pedidos),
         \A j \in Propios : j \in J /\ cliente'[j] = "trabajando" => NadaAqui(j),
         UNCHANGED <<lock, armando, hace>>, enVecino' \in [Propios -> Nat],
         \A j \in Propios : enVecino'[j] <= enVecino[j],
         lock = ERL => \A j \in Propios : Pidiendose(j) => Igual(nd, nd', j)
  PROVE  Orden'
  <1> DEFINE c == ERL
             s == hace[c]
  <1>1. Sigue(c, s) /\ c \in Conexiones
    BY DEF IInv, EnManos, Sigue, Conexiones
  <1>2. c = ERL /\ lock # ERL => \A i \in DOMAIN s : s[i].op \notin {"item", "insertar"}
    BY DEF Orden, EnCurso
  <1>3. lock = ERL => (c # ERL \/ s = hace[ERL]) /\ \A j \in Propios : Pidiendose(j) => Igual(nd, nd', j)
    OBVIOUS
  <1>4. \A i \in DOMAIN s : \A j \in Propios : Trata(s[i], j) =>
           /\ Debida(s[i], j)' \/ \E k \in DOMAIN hace[c] : hace[c][k] = s[i]
           /\ ~EnTabla(nd', j) \/ s = hace[c] \/ (Head(s).op = "quitar" /\ Head(s).job = j)
    OBVIOUS
  <1> HIDE DEF c
  <1> QED
    BY <1>1, <1>2, <1>3, <1>4, Mantiene

(* One in which worker c takes the next of its tasks, and adds those in a. *)
LEMMA MantieneTarea ==
  ASSUME IInv, Orden, Siguen, NEW J, Deriva(nd, nd', J), Cuadra(nd', Pedidos),
         \A j \in Propios : j \in J /\ cliente'[j] = "trabajando" => NadaAqui(j),
         UNCHANGED <<lock, armando, enVecino>>,
         NEW c \in Conexiones, hace[c] # << >>, Head(hace[c]).op \notin {"item", "insertar"},
         NEW a \in Seq(Abiertas \cup Cerrando), Sigue(c, a \o Tail(hace[c])),
         lock = ERL => \A j \in Propios : Pidiendose(j) => Igual(nd, nd', j),
         \A i \in DOMAIN a : /\ a[i].op \notin {"item", "insertar"}
                             /\ \A j \in Propios : Trata(a[i], j) => Debida(a[i], j)' /\ ~EnTabla(nd', j),
         \A j \in Propios : Head(hace[c]).op = "quitar" /\ Head(hace[c]).job = j => ~EnTabla(nd', j)
  PROVE  Orden'
  <1> DEFINE U == Abiertas \cup Cerrando
  <1>0. PICK s : s = a \o Tail(hace[c])
    OBVIOUS
  <1>1. hace[c] \in Seq(U) /\ Clientes
    BY DEF IInv, EnManos
  <1>2. enVecino' \in [Propios -> Nat] /\ \A j \in Propios : enVecino'[j] <= enVecino[j]
    BY <1>1 DEF Clientes
  <1>3. lock = ERL => c # ERL
    BY ConCandado DEF Orden
  <1> HIDE DEF U
  <1>4. ASSUME NEW i \in DOMAIN s
        PROVE  (\E k \in DOMAIN a : a[k] = s[i]) \/ \E k \in DOMAIN hace[c] : hace[c][k] = s[i]
    <2> DEFINE q == hace[c]
    <2>1. q \in Seq(U) /\ q # << >> /\ a \in Seq(U)
      BY <1>1 DEF U
    <2>2. Len(q) \in Nat /\ DOMAIN q = 1 .. Len(q) /\ Len(a) \in Nat /\ DOMAIN a = 1 .. Len(a)
      BY <2>1, LenProperties
    <2> HIDE DEF q
    <2>3. /\ s \in Seq(U) /\ Len(s) = Len(a) + Len(q) - 1
          /\ \A k \in 1 .. Len(a) : s[k] = a[k]
          /\ \A k \in 2 .. Len(q) : s[Len(a) + k - 1] = q[k]
      BY <1>0, <2>1, Resto DEF q
    <2>4. i \in 1 .. Len(s)
      BY <2>3, LenProperties
    <2>5. CASE i <= Len(a)
      BY <2>2, <2>3, <2>4, <2>5
    <2>6. CASE ~(i <= Len(a))
      <3> DEFINE k == i - Len(a) + 1
      <3>1. k \in 2 .. Len(q) /\ Len(a) + k - 1 = i /\ k \in DOMAIN q
        BY <2>2, <2>3, <2>4, <2>6
      <3>2. s[i] = q[k]
        BY <2>3, <3>1
      <3> QED
        BY <3>1, <3>2 DEF q
    <2> QED
      BY <2>5, <2>6
  <1>5. ASSUME c = ERL, lock # ERL, NEW i \in DOMAIN s PROVE s[i].op \notin {"item", "insertar"}
    BY <1>4, <1>5 DEF Orden, EnCurso
  <1>6. ASSUME NEW i \in DOMAIN s, NEW j \in Propios, Trata(s[i], j)
        PROVE  /\ Debida(s[i], j)' \/ \E k \in DOMAIN hace[c] : hace[c][k] = s[i]
               /\ ~EnTabla(nd', j)
    <2>1. CASE \E k \in DOMAIN a : a[k] = s[i]
      <3>1. PICK k \in DOMAIN a : a[k] = s[i]
        BY <2>1
      <3>2. Debida(a[k], j)' /\ ~EnTabla(nd', j)
        BY <1>6, <3>1
      <3> QED
        BY <3>1, <3>2
    <2>2. CASE \E k \in DOMAIN hace[c] : hace[c][k] = s[i]
      <3>1. EnTabla(nd, j) => Head(hace[c]).op = "quitar" /\ Head(hace[c]).job = j
        BY <1>6, <2>2 DEF Orden, Difuntos
      <3>2. EnTabla(nd', j) => EnTabla(nd, j)
        BY DerivaEs
      <3> QED
        BY <2>2, <3>1, <3>2
    <2> QED
      BY <1>4, <2>1, <2>2
  <1>7. Sigue(c, s) /\ UNCHANGED <<lock, armando>>
    BY <1>0
  <1> QED
    BY <1>2, <1>3, <1>5, <1>6, <1>7, Mantiene

-------------------------------------------------------------------------------
(* The tasks. *)

(* There is no message to deliver, and the jobs of the table are the client's. *)
LEMMA EnOrden ==
  ASSUME IInv, Orden
  PROVE  /\ nd \in Managers(Pueden, Duenos) /\ Permisos(Pueden, Duenos) /\ nd.tx = << >>
         /\ Cuadra(nd, Pedidos) /\ BienDicho(nd) /\ Pedidos \subseteq Propios
         /\ Clientes /\ Propios \subseteq Jobs
         /\ \A j : EnTabla(nd, j) => j \in Pedidos
         /\ \A c \in Conexiones : hace[c] # << >> => Head(hace[c]) = hace[c][1] /\ 1 \in DOMAIN hace[c]
  <1>1. nd \in Managers(Pueden, Duenos) /\ nd.tx = << >> /\ Clientes /\ Cuadra(nd, Pedidos)
    BY DEF IInv, Gestion, Orden
  <1>2. BienDicho(nd)
    <2> DEFINE s == nd.tx
    <2>1. DOMAIN s = {}
      BY <1>1
    <2> QED
      BY <2>1 DEF BienDicho
  <1>3. \A j : EnTabla(nd, j) => j \in Pedidos
    BY <1>1 DEF EnTabla, Cuadra
  <1>4. ASSUME NEW c \in Conexiones, hace[c] # << >> PROVE Head(hace[c]) = hace[c][1] /\ 1 \in DOMAIN hace[c]
    <2> DEFINE s == hace[c]
    <2>1. s \in Seq(Abiertas \cup Cerrando) /\ s # << >>
      BY <1>4 DEF IInv, EnManos
    <2> HIDE DEF s
    <2> QED
      BY <2>1, LenProperties, Resto, EmptySeq DEF s
  <1> QED
    BY <1>1, <1>2, <1>3, <1>4, SonPermisos, Parametros DEF Pedidos

(* The job whose units or requests a worker deals with is out of the table. *)
LEMMA Muerto ==
  ASSUME IInv, Orden, NEW c \in Conexiones, hace[c] # << >>, Head(hace[c]).op \in {"devolver", "purgar"}
  PROVE  LET h == Head(hace[c])
         IN  /\ ~EnTabla(nd, h.job)
             /\ h.job \in Propios => h.job \in Pedidos /\ Debida(h, h.job)
  <1> DEFINE h == Head(hace[c])
             j == h.job
  <1>1. h = hace[c][1] /\ 1 \in DOMAIN hace[c] /\ h.op \in {"devolver", "purgar"}
    BY EnOrden
  <1>2. ASSUME j \in Propios
        PROVE  ~EnTabla(nd, j) /\ j \in Pedidos /\ Debida(h, j)
    <2>1. Trata(h, j)
      BY <1>1 DEF Trata
    <2>2. /\ cliente[j] # "nuevo" /\ ~Pidiendose(j)
          /\ h.op = "devolver" => Pide(j, h.tipo) # 0
          /\ EnTabla(nd, j) => h.op = "quitar"
      BY <1>1, <1>2, <2>1 DEF Orden, Difuntos
    <2> QED
      BY <1>1, <1>2, <2>2 DEF Pedidos, Debida
  <1>3. j \notin Propios => ~EnTabla(nd, j)
    BY EnOrden
  <1> QED
    BY <1>2, <1>3

(* release_resource of an allocation of a job that was taken out of the     *)
(* table keeps the order.                                                   *)
LEMMA OrdenDevolver ==
  ASSUME IInv, Orden, NEW c \in Conexiones, Devolver(c)
  PROVE  Orden'
  <1> DEFINE h == Head(hace[c])
             y == release_resource(nd, h.tipo, h.monto, h.job)
             e == << >>
  <1>1. /\ hace[c] # << >> /\ h.op = "devolver" /\ lock = NULL /\ Entregar(y)
        /\ Sigue(c, Tail(hace[c])) /\ UNCHANGED <<lock, armando, est, enVecino>>
    BY DEF Devolver, Toca
  <1>2. h.tipo \in Tipos /\ h.monto \in Nat /\ h.job \in Jobs
    BY <1>1, Primera, DeTarea DEF IInv
  <1>3. ~EnTabla(nd, h.job) /\ (h.job \in Propios => h.job \in Pedidos /\ Pide(h.job, h.tipo) # 0)
    BY <1>1, Muerto DEF Debida
  <1>4. y \in Managers(Pueden, Duenos) /\ Bien(nd, y, Pedidos)
    <2> HIDE DEF h
    <2> QED
      BY <1>2, <1>3, EnOrden, LiberaBien
  <1> HIDE DEF y
  <1>5. Cuadra(nd', Pedidos) /\ Progresa(nd, nd') /\ Siguen
    BY <1>1, <1>4, EnOrden, Reparte, Progresan, Zenon DEF Bien
  <1>6. Deriva(nd, nd', {})
    BY <1>5, ProgresaDeriva
  <1>7. Sigue(c, e \o Tail(hace[c])) /\ e \in Seq(Abiertas \cup Cerrando) /\ DOMAIN e = {}
    BY <1>1, Resto DEF IInv, EnManos
  <1>8. lock # ERL /\ h.op # "quitar" /\ h.op \notin {"item", "insertar"}
    BY <1>1 DEF NULL, ERL
  <1> HIDE DEF e
  <1> QED
    BY <1>1, <1>5, <1>6, <1>7, <1>8, MantieneTarea

(* A queue loses requests of jobs that are out of the table. *)
LEMMA OrdenPoda ==
  ASSUME IInv, Orden, NEW t \in Tipos, NEW fuera, nd' = [nd EXCEPT !.rec[t].cola = Sin(@, fuera)],
         UNCHANGED <<lock, armando, cliente, enVecino>>,
         \A i \in DOMAIN nd.rec[t].cola :
           LET j == nd.rec[t].cola[i].job
           IN  nd.rec[t].cola[i] \in fuera => ~EnTabla(nd, j) /\ (j \in Propios => ~Pidiendose(j)),
         NEW c \in Conexiones, hace[c] # << >>, Head(hace[c]).op \notin {"item", "insertar", "quitar"},
         Sigue(c, Tail(hace[c]))
  PROVE  Orden'
  <1> DEFINE F == [u \in Tipos |-> IF u = t THEN fuera ELSE {}]
             e == << >>
  <1>1. nd \in Managers(Pueden, Duenos) /\ Cuadra(nd, Pedidos)
    BY EnOrden
  <1>2. /\ nd'.tabla = nd.tabla /\ nd'.tiene = nd.tiene
        /\ nd'.rec[t].cola = Sin(nd.rec[t].cola, fuera)
        /\ \A u \in Tipos \ {t} : nd'.rec[u].cola = nd.rec[u].cola
    <2>1. nd.rec \in [Tipos -> [libre : Nat, cola : Seq(Encoladas(Conexiones))]]
      BY <1>1, Campos DEF Recursos
    <2> QED
      BY <1>1, <2>1 DEF Managers
  <1>3. /\ F[t] = fuera /\ \A u \in Tipos \ {t} : F[u] = {}
    OBVIOUS
  <1> HIDE DEF F
  <1>4. \A u \in Tipos : nd'.rec[u].cola = nd.rec[u].cola \/ nd'.rec[u].cola = Sin(nd.rec[u].cola, F[u])
    BY <1>2, <1>3
  <1>5. \A u \in Tipos : \A i \in DOMAIN nd.rec[u].cola :
          nd.rec[u].cola[i] \in F[u] => ~EnTabla(nd, nd.rec[u].cola[i].job)
    BY <1>3
  <1>6. /\ Cuadra(nd', Pedidos) /\ Progresa(nd, nd')
        /\ \A j : (\A u \in Tipos : \A i \in DOMAIN nd.rec[u].cola :
                     nd.rec[u].cola[i].job = j => nd.rec[u].cola[i] \notin F[u]) => Igual(nd, nd', j)
    <2> DEFINE P(x, y) ==
                 /\ Cuadra(y, Pedidos) /\ Progresa(x, y)
                 /\ \A j : (\A u \in Tipos : \A i \in DOMAIN x.rec[u].cola :
                              x.rec[u].cola[i].job = j => x.rec[u].cola[i] \notin F[u]) => Igual(x, y, j)
    <2>1. ASSUME NEW x, NEW y, NEW S, x \in Managers(Pueden, Duenos), Cuadra(x, S), y.tabla = x.tabla, y.tiene = x.tiene,
                 \A u \in Tipos : y.rec[u].cola = x.rec[u].cola \/ y.rec[u].cola = Sin(x.rec[u].cola, F[u]),
                 \A u \in Tipos : \A i \in DOMAIN x.rec[u].cola :
                   x.rec[u].cola[i] \in F[u] => ~EnTabla(x, x.rec[u].cola[i].job), S = Pedidos
          PROVE  P(x, y)
      BY <2>1, PodaBien
    <2> HIDE DEF P
    <2>2. P(nd, nd')
      BY <1>1, <1>2, <1>4, <1>5, <2>1
    <2> QED
      BY <2>2 DEF P
  <1>7. \A j \in Propios : Pidiendose(j) => Igual(nd, nd', j)
    <2> SUFFICES ASSUME NEW j \in Propios, Pidiendose(j),
                        NEW u \in Tipos, NEW i \in DOMAIN nd.rec[u].cola,
                        nd.rec[u].cola[i].job = j, nd.rec[u].cola[i] \in F[u]
                 PROVE  FALSE
      BY <1>6
    <2> QED
      BY <1>3
  <1>8. Deriva(nd, nd', {}) /\ Siguen
    BY <1>6, ProgresaDeriva DEF Siguen
  <1>9. Sigue(c, e \o Tail(hace[c])) /\ e \in Seq(Abiertas \cup Cerrando) /\ DOMAIN e = {}
    BY Resto DEF IInv, EnManos
  <1> HIDE DEF e
  <1> QED
    BY <1>6, <1>7, <1>8, <1>9, MantieneTarea

(* So does the purge of one queue of such a job, *)
LEMMA OrdenPurgar ==
  ASSUME IInv, Orden, NEW c \in Conexiones, Purgar(c)
  PROVE  Orden'
  <1> DEFINE h == Head(hace[c])
             t == h.tipo
             fuera == DeJob(nd.rec[t].cola, h.job)
  <1>1. /\ hace[c] # << >> /\ h.op = "purgar" /\ Sigue(c, Tail(hace[c]))
        /\ nd' = [nd EXCEPT !.rec[t].cola = Sin(@, fuera)]
        /\ UNCHANGED <<lock, armando, cliente, enVecino>>
    <2>1. nd' = [nd EXCEPT !.rec[t].cola = Sin(@, DeJob(@, h.job))]
      BY DEF Purgar
    <2>2. [nd EXCEPT !.rec[t].cola = Sin(@, DeJob(@, h.job))] = [nd EXCEPT !.rec[t].cola = Sin(@, fuera)]
      <3> HIDE DEF h
      <3> QED
        BY EnOrden DEF Managers
    <2> QED
      BY <2>1, <2>2 DEF Purgar, Toca
  <1>2. t \in Tipos
    BY <1>1, Primera, DeTarea DEF IInv
  <1>3. ~EnTabla(nd, h.job) /\ (h.job \in Propios => ~Pidiendose(h.job))
    BY <1>1, Muerto DEF Debida
  <1>4. \A p \in fuera : p.job = h.job
    BY DEF DeJob
  <1> HIDE DEF fuera
  <1>5. \A i \in DOMAIN nd.rec[t].cola :
          LET j == nd.rec[t].cola[i].job
          IN  nd.rec[t].cola[i] \in fuera => ~EnTabla(nd, j) /\ (j \in Propios => ~Pidiendose(j))
    BY <1>3, <1>4
  <1>7. h.op \notin {"item", "insertar", "quitar"}
    BY <1>1
  <1> QED
    BY <1>1, <1>2, <1>5, <1>7, OrdenPoda, Zenon

(* the purge of one queue of a connection other than the client's, *)
LEMMA OrdenPurgarConn ==
  ASSUME IInv, Orden, est[ERL] = "abierta", NEW c \in Conexiones, PurgarConn(c)
  PROVE  Orden'
  <1> DEFINE h == Head(hace[c])
             t == h.tipo
             fuera == DeConn(nd.rec[t].cola, c)
  <1>1. /\ hace[c] # << >> /\ h.op = "purgarConn" /\ Sigue(c, Tail(hace[c]))
        /\ nd' = [nd EXCEPT !.rec[t].cola = Sin(@, fuera)]
        /\ UNCHANGED <<lock, armando, cliente, enVecino>>
    <2>1. nd' = [nd EXCEPT !.rec[t].cola = Sin(@, DeConn(@, c))]
      BY DEF PurgarConn
    <2>2. [nd EXCEPT !.rec[t].cola = Sin(@, DeConn(@, c))] = [nd EXCEPT !.rec[t].cola = Sin(@, fuera)]
      <3> HIDE DEF h
      <3> QED
        BY EnOrden DEF Managers
    <2> QED
      BY <2>1, <2>2 DEF PurgarConn, Toca
  <1>2. t \in Tipos
    BY <1>1, Primera, DeTarea DEF IInv
  <1>3. c # ERL
    <2>2. est[c] = "abierta" => hace[c] \in Seq(Abiertas)
      BY DEF IInv, EnManos
    <2>3. \A a \in Abiertas : a.op # "purgarConn"
      BY DeComun DEF Abiertas
    <2>4. est[c] = "abierta" => h \in Abiertas
      BY <1>1, <2>2, Resto, EmptySeq
    <2> QED
      BY <1>1, <2>3, <2>4
  <1>4. \A p \in fuera : p.conn = c
    BY DEF DeConn
  <1> HIDE DEF fuera
  <1>5. ASSUME NEW i \in DOMAIN nd.rec[t].cola, nd.rec[t].cola[i] \in fuera
        PROVE  nd.rec[t].cola[i].job \notin Propios
    <2>1. Fila(nd.rec[t].cola, t, Pedidos)
      <3>1. Cuadra(nd, Pedidos)
        BY EnOrden
      <3> HIDE DEF t
      <3> QED
        BY <1>2, <3>1 DEF Cuadra, EnFila
    <2>2. nd.rec[t].cola[i].conn # ERL
      BY <1>3, <1>4, <1>5
    <2>3. nd.rec[t].cola[i].job \in Ajenos
      <3> HIDE DEF t
      <3> QED
        BY <1>5, <2>1, <2>2 DEF Fila
    <2> QED
      BY <2>3, Parametros
  <1>6. \A i \in DOMAIN nd.rec[t].cola :
          LET j == nd.rec[t].cola[i].job
          IN  nd.rec[t].cola[i] \in fuera => ~EnTabla(nd, j) /\ (j \in Propios => ~Pidiendose(j))
    BY <1>5, EnOrden
  <1>7. h.op \notin {"item", "insertar", "quitar"}
    BY <1>1
  <1> QED
    BY <1>1, <1>2, <1>6, <1>7, OrdenPoda, Zenon

(* The tasks left of jobs that are out of the table are what they should be. *)
LEMMA RestosDebidos ==
  ASSUME NEW J, NEW a \in Seq(UNION {Restos(j) : j \in J}),
         \A j \in J \cap Propios : cliente'[j] # "nuevo" /\ ~Pidiendose(j)' /\ ~EnTabla(nd', j)
  PROVE  /\ a \in Seq(Comunes) /\ a \in Seq(Abiertas \cup Cerrando)
         /\ \A i \in DOMAIN a : /\ a[i].op \notin {"item", "insertar"}
                                /\ \A k \in Propios : Trata(a[i], k) => Debida(a[i], k)' /\ ~EnTabla(nd', k)
  <1> DEFINE R == UNION {Restos(j) : j \in J}
  <1>1. R \subseteq Comunes /\ Comunes \subseteq Abiertas \cup Cerrando
    BY DEF Restos, Abiertas
  <1>2. \A i \in DOMAIN a : a[i] \in R
    BY LenProperties, ElementOfSeq
  <1>3. a \in Seq(Comunes) /\ a \in Seq(Abiertas \cup Cerrando)
    <2> HIDE DEF R
    <2> QED
      BY <1>1, Contiene DEF R
  <1>4. ASSUME NEW i \in DOMAIN a
        PROVE  /\ a[i].op \notin {"item", "insertar"}
               /\ \A k \in Propios : Trata(a[i], k) => Debida(a[i], k)' /\ ~EnTabla(nd', k)
    <2> DEFINE h == a[i]
    <2>1. PICK j \in J : h \in Restos(j)
      BY <1>2
    <2> HIDE DEF h
    <2>2. /\ h \in Comunes /\ h.job = j /\ h.op # "quitar"
          /\ h.op = "devolver" => Pide(j, h.tipo) # 0
      BY <2>1 DEF Restos
    <2>3. h.op \notin {"item", "insertar"}
      BY <2>2, DeComun
    <2>4. ASSUME NEW k \in Propios, Trata(h, k) PROVE Debida(h, k)' /\ ~EnTabla(nd', k)
      <3>1. k = j
        BY <2>2, <2>4 DEF Trata
      <3>2. cliente'[k] # "nuevo" /\ ~Pidiendose(k)' /\ ~EnTabla(nd', k)
        BY <3>1
      <3> QED
        BY <2>2, <3>1, <3>2 DEF Debida
    <2> QED
      BY <2>3, <2>4 DEF h
  <1> QED
    BY <1>3, <1>4

(* What the allocations that go with a job leave to be done. *)
LEMMA DeSusAllocs ==
  ASSUME NEW x, NEW j \in Jobs, NEW s \in Seq(Allocs), Cuadran(x, j, s)
  PROVE  TareasPropias(j, s) \in Seq(Restos(j)) /\ Tareas(j, s) \in Seq(Restos(j))
  <1>1. \A i \in DOMAIN s : s[i].lado = "LOCAL" => Pide(j, s[i].tipo) # 0
    BY DEF Cuadran
  <1> QED
    BY <1>1, TareasRestos

(* a RELEASE sent to the other agent, *)
LEMMA OrdenAvisar ==
  ASSUME IInv, Orden, NEW c \in Conexiones, Avisar(c) \/ AvisarA(c)
  PROVE  Orden'
  <1> DEFINE h == Head(hace[c])
             k == tabla_conns_lookup(nd, h.ip)
             e == << >>
             U == Abiertas \cup Cerrando
  <1>1. /\ hace[c] # << >> /\ h.op \in {"avisar", "avisarA"}
        /\ UNCHANGED <<nd, lock, armando, est, cliente, ajeno, enVecino>>
    BY DEF Avisar, AvisarA, Toca
  <1>2. PICK a : /\ Sigue(c, a \o Tail(hace[c])) /\ a \in Seq(U)
                 /\ \A i \in DOMAIN a : a[i].op = "avisar"
    <2>1. e \in Seq(U) /\ DOMAIN e = {} /\ e \o Tail(hace[c]) = Tail(hace[c])
      BY <1>1, Resto DEF IInv, EnManos
    <2> HIDE DEF e
    <2>2. CASE Sigue(c, Tail(hace[c]))
      BY <2>1, <2>2
    <2>3. CASE AvisarA(c) /\ k # NULL
      <3> DEFINE v == avisar(k, h, h.job)
      <3>1. Sigue(c, <<v>> \o Tail(hace[c])) /\ h.op = "avisarA"
        BY <2>3 DEF AvisarA, Toca
      <3>2. h.tipo \in Tipos /\ h.monto \in Nat /\ h.job \in Jobs /\ h \in U
        BY <1>1, <3>1, Primera, DeTarea DEF IInv
      <3>3. k \in {Ida}
        BY <2>3, EnOrden, BuscaConn
      <3>4. h \in Comunes
        BY <3>1, <3>2 DEF Abiertas, Cerrando
      <3>5. v \in Comunes
        BY <3>2, <3>3, <3>4, SonComunes
      <3>6. v.op = "avisar"
        BY DEF avisar
      <3> HIDE DEF v
      <3>7. <<v>> \in Seq(U) /\ \A i \in DOMAIN <<v>> : <<v>>[i].op = "avisar"
        BY <3>5, <3>6 DEF Abiertas
      <3> QED
        BY <3>1, <3>7
    <2>4. Sigue(c, Tail(hace[c])) \/ (AvisarA(c) /\ k # NULL)
      BY DEF Avisar, AvisarA
    <2> QED
      BY <2>2, <2>3, <2>4
  <1>3. Cuadra(nd', Pedidos) /\ Progresa(nd, nd')
    BY <1>1, EnOrden, MismaMesa
  <1>4. Deriva(nd, nd', {}) /\ Siguen
    BY <1>1, <1>3, ProgresaDeriva DEF Siguen
  <1>5. \A j : Igual(nd, nd', j)
    BY <1>1 DEF Igual
  <1>6. \A i \in DOMAIN a : /\ a[i].op \notin {"item", "insertar"}
                            /\ \A j \in Propios : Trata(a[i], j) => Debida(a[i], j)' /\ ~EnTabla(nd', j)
    BY <1>2 DEF Trata
  <1> QED
    BY <1>1, <1>2, <1>3, <1>4, <1>5, <1>6, MantieneTarea

(* the deletion of the entry of a connection, *)
LEMMA OrdenBorrar ==
  ASSUME IInv, Orden, NEW c \in Conexiones, Borrar(c)
  PROVE  Orden'
  <1> DEFINE e == << >>
  <1>1. /\ hace[c] # << >> /\ Head(hace[c]).op = "borrar" /\ Sigue(c, Tail(hace[c]))
        /\ nd' = tabla_conns_delete_by_conn(nd, c)
        /\ UNCHANGED <<lock, armando, cliente, ajeno, enVecino>>
    BY DEF Borrar, Toca
  <1>2. nd'.tabla = nd.tabla /\ nd'.rec = nd.rec /\ nd'.tiene = nd.tiene
    BY <1>1, EnOrden DEF tabla_conns_delete_by_conn, Managers
  <1>3. Cuadra(nd', Pedidos) /\ Progresa(nd, nd')
    BY <1>2, EnOrden, MismaMesa
  <1>4. Deriva(nd, nd', {}) /\ Siguen
    BY <1>1, <1>3, ProgresaDeriva DEF Siguen
  <1>5. \A j : Igual(nd, nd', j)
    BY <1>2 DEF Igual, Espera
  <1>6. Sigue(c, e \o Tail(hace[c])) /\ e \in Seq(Abiertas \cup Cerrando) /\ DOMAIN e = {}
    BY <1>1, Resto DEF IInv, EnManos
  <1> HIDE DEF e
  <1> QED
    BY <1>1, <1>3, <1>4, <1>5, <1>6, MantieneTarea

(* the second half of JOB_TIMEOUT, *)
LEMMA OrdenQuitar ==
  ASSUME IInv, Orden, NEW c \in Conexiones, Quitar(c)
  PROVE  Orden'
  <1> DEFINE e == << >>
  <1>0. PICK j, k, b : /\ j = Head(hace[c]).job /\ k = tabla_jobs_buscar_por_id(nd, j)
                       /\ b = nd.tabla[k].confirmadas
    OBVIOUS
  <1>1. /\ hace[c] # << >> /\ Head(hace[c]).op = "quitar" /\ lock = NULL
        /\ UNCHANGED <<lock, armando, est, cliente, ajeno, enVecino>>
        /\ \/ k = 0 /\ Sigue(c, Tail(hace[c])) /\ UNCHANGED nd
           \/ /\ k # 0 /\ nd' = tabla_jobs_extract_by_id(nd, k)
              /\ Sigue(c, Tareas(j, b) \o Tail(hace[c]))
    BY <1>0 DEF Quitar, Toca
  <1>2. j \in Jobs /\ (j \in Propios => cliente[j] = "abandonado")
    <2>1. Head(hace[c]) = hace[c][1] /\ 1 \in DOMAIN hace[c]
      BY <1>1, EnOrden
    <2>2. j \in Propios => cliente[j] = "abandonado"
      BY <1>0, <1>1, <2>1 DEF Orden, Difuntos, Trata
    <2> QED
      BY <1>0, <1>1, <2>2, Primera, DeTarea DEF IInv
  <1>3. /\ EnTabla(nd, j) <=> k # 0
        /\ k # 0 => k \in DOMAIN nd.tabla /\ nd.tabla[k].job = j /\ nd.tabla[k] \in Trabajos(Duenos)
    BY <1>0, EnOrden, Encuentra
  <1>4. Siguen /\ ~Pidiendose(j)' /\ lock # ERL
    BY <1>1 DEF Siguen, Pidiendose, NULL, ERL
  <1>5. CASE k = 0
    <2>1. Sigue(c, e \o Tail(hace[c])) /\ e \in Seq(Abiertas \cup Cerrando) /\ DOMAIN e = {} /\ UNCHANGED nd
      BY <1>1, <1>5, Resto DEF IInv, EnManos
    <2> HIDE DEF e
    <2>2. Cuadra(nd', Pedidos) /\ Progresa(nd, nd')
      BY <2>1, EnOrden, MismaMesa
    <2>3. Deriva(nd, nd', {})
      BY <2>2, ProgresaDeriva
    <2>4. ~EnTabla(nd', j)
      BY <1>3, <1>5, <2>1
    <2> QED
      BY <1>0, <1>1, <1>4, <2>1, <2>2, <2>3, <2>4, MantieneTarea
  <1>6. CASE k # 0
    <2>1. k \in 1 .. Len(nd.tabla)
      BY <1>3, <1>6, EnOrden, Campos, LenProperties
    <2>2. Cuadra(nd', Pedidos) /\ Deriva(nd, nd', {j}) /\ ~EnTabla(nd', j)
      <3> DEFINE y == tabla_jobs_extract_by_id(nd, k)
      <3>1. Cuadra(y, Pedidos) /\ Deriva(nd, y, {nd.tabla[k].job}) /\ ~EnTabla(y, nd.tabla[k].job)
        BY <2>1, EnOrden, Saca
      <3>2. nd' = y
        BY <1>1, <1>6
      <3> HIDE DEF y
      <3> QED
        BY <1>3, <1>6, <3>1, <3>2
    <2>3. b \in Seq(Allocs) /\ Cuadran(nd, j, b)
      BY <1>0, <1>3, <1>6, EnOrden DEF Trabajos, Cuadra
    <2>4. PICK a : a = Tareas(j, b)
      OBVIOUS
    <2> DEFINE J == {j}
    <2>5. a \in Seq(UNION {Restos(i) : i \in J}) /\ Sigue(c, a \o Tail(hace[c]))
      <3>1. a \in Seq(Restos(j))
        BY <1>2, <2>3, <2>4, DeSusAllocs
      <3> QED
        BY <1>1, <1>6, <2>4, <3>1
    <2>6. \A i \in J \cap Propios : cliente'[i] # "nuevo" /\ ~Pidiendose(i)' /\ ~EnTabla(nd', i)
      BY <1>1, <1>2, <1>4, <2>2
    <2>7. \A i \in J \cap Propios : cliente'[i] # "trabajando"
      BY <1>1, <1>2
    <2>8. PICK I : I = {j}
      OBVIOUS
    <2>9. /\ a \in Seq(Abiertas \cup Cerrando)
          /\ \A i \in DOMAIN a : /\ a[i].op \notin {"item", "insertar"}
                                 /\ \A l \in Propios : Trata(a[i], l) => Debida(a[i], l)' /\ ~EnTabla(nd', l)
      BY <2>5, <2>6, <2>8, RestosDebidos
    <2> QED
      BY <1>0, <1>1, <1>4, <2>2, <2>5, <2>7, <2>8, <2>9, MantieneTarea
  <1> QED
    BY <1>5, <1>6

(* process_disconnect taking the jobs of a connection out of the table, *)
LEMMA OrdenExtraer ==
  ASSUME IInv, Orden, est[ERL] = "abierta", NEW c \in Conexiones, Extraer(c)
  PROVE  Orden'
  <1>0. PICK e, xs : e = tabla_jobs_extract_by_remote_conn(nd, c) /\ xs = e.extraidos
    OBVIOUS
  <1> DEFINE T(i) == Purgas(xs[i].job) \o Tareas(xs[i].job, xs[i].confirmadas)
             ss == [i \in DOMAIN xs |-> T(i)]
  <1>1. /\ hace[c] # << >> /\ Head(hace[c]).op = "extraer" /\ lock = NULL /\ nd' = e.nd
        /\ Sigue(c, FlattenSeq(ss) \o Tail(hace[c]))
        /\ UNCHANGED <<lock, armando, est, cliente, ajeno, enVecino>>
    BY <1>0 DEF Extraer, Toca
  <1>2. c # ERL
    <2>1. est[c] = "abierta" => hace[c] \in Seq(Abiertas)
      BY DEF IInv, EnManos
    <2>2. \A a \in Abiertas : a.op # "extraer"
      BY DeComun DEF Abiertas
    <2>3. est[c] = "abierta" => Head(hace[c]) \in Abiertas
      BY <1>1, <2>1, Resto, EmptySeq
    <2> QED
      BY <1>1, <2>2, <2>3
  <1>3. PICK J : J = Salen(nd, c)
    OBVIOUS
  <1>4. /\ Cuadra(e.nd, Pedidos) /\ Deriva(nd, e.nd, J)
        /\ \A i \in DOMAIN xs : /\ xs[i].confirmadas \in Seq(Allocs) /\ xs[i].job \in Pedidos /\ xs[i].job \in J
                                /\ Cuadran(nd, xs[i].job, xs[i].confirmadas)
        /\ \A j \in J : j \in Pedidos /\ (Cumple(nd, j) => NadaAqui(j))
    <2> DEFINE d == tabla_jobs_extract_by_remote_conn(nd, c)
    <2>1. /\ Cuadra(d.nd, Pedidos) /\ Deriva(nd, d.nd, Salen(nd, c))
          /\ \A i \in DOMAIN d.extraidos :
                  LET w == d.extraidos[i]
                  IN  /\ w.confirmadas \in Seq(Allocs) /\ w.job \in Pedidos /\ w.job \in Salen(nd, c)
                      /\ Cuadran(nd, w.job, w.confirmadas)
          /\ \A j \in Salen(nd, c) : j \in Pedidos /\ (Cumple(nd, j) => NadaAqui(j))
      BY <1>2, EnOrden, ExtraeBien
    <2> HIDE DEF d
    <2> QED
      BY <1>0, <1>3, <2>1 DEF d
  <1>5. Len(xs) \in Nat /\ DOMAIN xs = 1 .. Len(xs)
    <2>1. xs \in Seq(Trabajos(Duenos))
      BY <1>0, EnOrden, Extrae
    <2> QED
      BY <2>1, LenProperties
  <1> DEFINE R == UNION {Restos(j) : j \in J}
  <1>6. PICK a : a = FlattenSeq(ss)
    OBVIOUS
  <1>7. a \in Seq(R)
    <2>1. ASSUME NEW i \in DOMAIN xs PROVE T(i) \in Seq(R)
      <3> DEFINE j == xs[i].job
                 b == xs[i].confirmadas
      <3>1. j \in J /\ j \in Jobs /\ b \in Seq(Allocs) /\ Cuadran(nd, j, b)
        BY <1>4, EnOrden
      <3> HIDE DEF j, b
      <3>2. Purgas(j) \in Seq(Restos(j)) /\ Tareas(j, b) \in Seq(Restos(j))
        BY <3>1, PurgasRestos, DeSusAllocs
      <3> DEFINE u == Purgas(j)
                 v == Tareas(j, b)
      <3>3. Restos(j) \subseteq R
        BY <3>1
      <3> HIDE DEF u, v, R
      <3>4. u \in Seq(R) /\ v \in Seq(R)
        BY <3>2, <3>3, Contiene DEF u, v
      <3>5. u \o v \in Seq(R)
        BY <3>4, ConcatProperties, Zenon
      <3> QED
        BY <3>5 DEF u, v, j, b
    <2> HIDE DEF R, T
    <2>2. ss \in Seq(Seq(R))
      BY <1>5, <2>1
    <2> HIDE DEF ss
    <2> QED
      BY <1>6, <2>2, Aplana
  <1>8. Sigue(c, a \o Tail(hace[c]))
    BY <1>1, <1>6
  <1> HIDE DEF ss, T
  <1>9. Cuadra(nd', Pedidos) /\ Deriva(nd, nd', J) /\ Siguen /\ lock # ERL
    BY <1>1, <1>4 DEF Siguen, NULL, ERL
  <1>10. \A j \in J \cap Propios : cliente'[j] # "nuevo" /\ ~Pidiendose(j)' /\ ~EnTabla(nd', j)
    <2>1. \A j : j \in J => ~EnTabla(nd', j)
      BY <1>9, DerivaEs
    <2> QED
      BY <1>1, <1>4, <1>9, <2>1 DEF Pedidos, Pidiendose
  <1>11. ASSUME NEW j \in Propios, j \in J, cliente'[j] = "trabajando" PROVE NadaAqui(j)
    BY <1>1, <1>4, <1>11 DEF Orden, Servidos
  <1>12. /\ a \in Seq(Abiertas \cup Cerrando)
         /\ \A i \in DOMAIN a : /\ a[i].op \notin {"item", "insertar"}
                                /\ \A l \in Propios : Trata(a[i], l) => Debida(a[i], l)' /\ ~EnTabla(nd', l)
    BY <1>7, <1>10, RestosDebidos
  <1>13. Head(hace[c]).op \notin {"item", "insertar", "quitar"}
    BY <1>1
  <1> QED
    BY <1>1, <1>8, <1>9, <1>11, <1>12, <1>13, MantieneTarea

-------------------------------------------------------------------------------
(* The handlers that begin. *)

(* With nothing changed but the tasks of c, who had none that count. *)
LEMMA OrdenTareas ==
  ASSUME IInv, Orden, Siguen, UNCHANGED <<nd, lock, armando, enVecino>>,
         NEW c \in Conexiones, c # ERL \/ hace[ERL] = << >>, NEW s, Sigue(c, s),
         \A i \in DOMAIN s : /\ s[i].op \notin {"item", "insertar"}
                             /\ \A j \in Propios : Trata(s[i], j) =>
                                  Debida(s[i], j)' /\ Head(s).op = "quitar" /\ Head(s).job = j
  PROVE  Orden'
  <1>1. Cuadra(nd', Pedidos) /\ Progresa(nd, nd')
    BY EnOrden, MismaMesa
  <1>2. Deriva(nd, nd', {})
    BY <1>1, ProgresaDeriva
  <1>3. \A j : Igual(nd, nd', j)
    BY DEF Igual
  <1>4. lock = ERL => c # ERL
    BY ConCandado DEF Orden
  <1>5. enVecino' \in [Propios -> Nat] /\ \A j \in Propios : enVecino'[j] <= enVecino[j]
    BY EnOrden DEF Clientes
  <1> QED
    BY <1>1, <1>2, <1>3, <1>4, <1>5, Mantiene

(* a RELEASE of the other agent, *)
LEMMA OrdenRelease ==
  ASSUME IInv, Orden, NEW j \in Ajenos, Release(j)
  PROVE  Orden'
  <1> DEFINE d == devolver(Ajeno[j].tipo, Ajeno[j].monto, j)
             q == <<d, [op |-> "quitar", job |-> j]>>
             s == q \o Purgas(j)
             R == {h \in Comunes : h.job = j}
  <1>1. Sigue(Vuelta, s) /\ UNCHANGED <<nd, lock, armando, est, cliente, enVecino>>
    BY DEF Release
  <1>2. j \in Jobs /\ j \notin Propios /\ Ajeno[j].tipo \in Tipos /\ Ajeno[j].monto \in Nat
    BY Parametros
  <1>3. s \in Seq(R)
    <2> DEFINE u == [op |-> "quitar", job |-> j]
    <2>1. d \in Comunes /\ u \in Comunes /\ d.job = j /\ u.job = j
      BY <1>2, SonComunes, Zenon DEF devolver
    <2> HIDE DEF d, u
    <2>2. <<d, u>> \in Seq(R)
      BY <2>1
    <2>3. Restos(j) \subseteq R
      BY DEF Restos
    <2> HIDE DEF R
    <2>4. Purgas(j) \in Seq(R)
      BY <1>2, <2>3, PurgasRestos, Contiene
    <2>5. \A v, w \in Seq(R) : v \o w \in Seq(R)
      BY ConcatProperties, Zenon
    <2>6. s = <<d, u>> \o Purgas(j)
      BY DEF u
    <2> HIDE DEF s
    <2> QED
      BY <2>2, <2>4, <2>5, <2>6
  <1> HIDE DEF s
  <1>4. \A i \in DOMAIN s : s[i] \in R
    BY <1>3, LenProperties, ElementOfSeq
  <1>5. ASSUME NEW i \in DOMAIN s
        PROVE  s[i].op \notin {"item", "insertar"} /\ \A k \in Propios : ~Trata(s[i], k)
    BY <1>2, <1>4, DeComun DEF Trata
  <1>6. Siguen /\ Vuelta \in Conexiones /\ Vuelta # ERL
    BY <1>1 DEF Siguen, Conexiones, Vuelta, ERL
  <1> QED
    BY <1>1, <1>5, <1>6, OrdenTareas

(* the start of process_disconnect, *)
LEMMA OrdenDesconectar ==
  ASSUME IInv, Orden, NEW c \in Conexiones, c # ERL, Desconectar(c)
  PROVE  Orden'
  <1>0. PICK s : s = LET ts == SetToSeq(Tipos)
                     IN  [i \in DOMAIN ts |-> [op |-> "purgarConn", tipo |-> ts[i]]]
                           \o <<[op |-> "extraer"], [op |-> "borrar"]>>
    OBVIOUS
  <1>1. Sigue(c, s) /\ UNCHANGED <<nd, lock, armando, cliente, ajeno, enVecino>>
    BY <1>0 DEF Desconectar
  <1>3. s \in Seq([op : {"purgarConn"}, tipo : Tipos] \cup [op : {"extraer", "borrar"}])
    <2> DEFINE ts == SetToSeq(Tipos)
               n == Len(ts)
               C == [op : {"purgarConn"}, tipo : Tipos] \cup [op : {"extraer", "borrar"}]
               P(i) == [op |-> "purgarConn", tipo |-> ts[i]]
               p == [i \in DOMAIN ts |-> P(i)]
               X == [op |-> "extraer"]
               Y == [op |-> "borrar"]
               q == <<X, Y>>
    <2>1. n \in Nat /\ DOMAIN ts = 1 .. n /\ \A i \in 1 .. n : ts[i] \in Tipos
      BY Lista, LenProperties, ElementOfSeq
    <2>2. X \in C /\ Y \in C /\ \A i \in 1 .. n : P(i) \in C
      BY <2>1
    <2>3. s = p \o q
      BY <1>0
    <2> HIDE DEF n, ts, P, X, Y, C
    <2>4. p \in Seq(C) /\ q \in Seq(C)
      BY <2>1, <2>2
    <2> HIDE DEF p, q
    <2>5. p \o q \in Seq(C)
      BY <2>4, ConcatProperties, Zenon
    <2> QED
      BY <2>3, <2>5 DEF C
  <1>4. \A i \in DOMAIN s : s[i].op \in {"purgarConn", "extraer", "borrar"}
    BY <1>3, LenProperties, ElementOfSeq
  <1>5. Siguen
    BY <1>1 DEF Siguen
  <1> QED
    BY <1>1, <1>4, <1>5, OrdenTareas DEF Trata

(* JOB_TIMEOUT, *)
LEMMA OrdenJobTimeout ==
  ASSUME IInv, Orden, NEW j \in Propios, JobTimeout(j)
  PROVE  Orden'
  <1>0. PICK s : s = <<[op |-> "quitar", job |-> j]>> \o Purgas(j)
    OBVIOUS
  <1> DEFINE u == [op |-> "quitar", job |-> j]
             R == {h \in Comunes : h.job = j /\ h.op # "devolver"}
  <1>1. /\ hace[ERL] = << >> /\ cliente[j] = "esperando" /\ cliente' = [cliente EXCEPT ![j] = "abandonado"]
        /\ Sigue(ERL, s) /\ UNCHANGED <<nd, lock, armando, est, ajeno, enVecino>>
    BY <1>0 DEF JobTimeout, Libre, Cerrado
  <1>2. cliente'[j] = "abandonado" /\ Siguen
    BY <1>1, EnOrden DEF Clientes, Siguen
  <1>3. lock # ERL
    BY <1>1, ConCandado DEF Orden
  <1>4. s \in Seq(R) /\ s[1] = u /\ Head(s) = u
    <2>1. u \in R
      BY EnOrden, SonComunes DEF Comunes
    <2> DEFINE ts == SetToSeq(Tipos)
               p == Purgas(j)
    <2>2. p \in Seq(R)
      <3>1. ts \in Seq(Tipos) /\ Len(ts) \in Nat /\ DOMAIN ts = 1 .. Len(ts)
        BY Lista, LenProperties
      <3>2. \A i \in DOMAIN ts : ts[i] \in Tipos
        BY <3>1
      <3> HIDE DEF ts
      <3>3. ASSUME NEW t \in Tipos PROVE purgar(t, j) \in R
        <4>1. purgar(t, j) \in Comunes
          BY EnOrden, SonRestos DEF Restos
        <4>2. purgar(t, j).job = j /\ purgar(t, j).op = "purgar"
          BY DEF purgar
        <4> QED
          BY <4>1, <4>2
      <3>4. p = [i \in DOMAIN ts |-> purgar(ts[i], j)]
        BY DEF Purgas, ts
      <3> HIDE DEF R, p
      <3> QED
        BY <3>1, <3>2, <3>3, <3>4
    <2>3. s = <<u>> \o p
      BY <1>0
    <2> HIDE DEF R, u, p
    <2> QED
      BY <2>1, <2>2, <2>3
  <1> HIDE DEF u
  <1>5. \A i \in DOMAIN s : s[i] \in R
    BY <1>4, LenProperties, ElementOfSeq
  <1>6. ASSUME NEW i \in DOMAIN s
        PROVE  /\ s[i].op \notin {"item", "insertar"}
               /\ \A k \in Propios : Trata(s[i], k) =>
                    Debida(s[i], k)' /\ Head(s).op = "quitar" /\ Head(s).job = k
    <2>1. s[i].op \notin {"item", "insertar"} /\ s[i].job = j /\ s[i].op # "devolver"
      BY <1>5, DeComun
    <2>2. Head(s).op = "quitar" /\ Head(s).job = j
      BY <1>4 DEF u
    <2>3. cliente'[j] # "nuevo" /\ ~Pidiendose(j)'
      BY <1>1, <1>2, <1>3 DEF Pidiendose
    <2> QED
      BY <1>2, <2>1, <2>2, <2>3 DEF Trata, Debida
  <1>7. ERL \in Conexiones
    BY DEF Conexiones
  <1> QED
    BY <1>1, <1>2, <1>6, <1>7, OrdenTareas

(* JOB_RELEASE, *)
LEMMA OrdenJobRelease ==
  ASSUME IInv, Orden, NEW j \in Propios, JobRelease(j)
  PROVE  Orden'
  <1>0. PICK k, b : k = tabla_jobs_buscar_por_id(nd, j) /\ b = nd.tabla[k].confirmadas
    OBVIOUS
  <1>1. /\ hace[ERL] = << >> /\ lock = NULL /\ cliente[j] # "nuevo" /\ cliente[j] # "abandonado"
        /\ cliente' = [cliente EXCEPT ![j] = Cerrado(j)] /\ Cerrado(j) \in {"abandonado", "fin"}
        /\ UNCHANGED <<lock, armando, est, ajeno, enVecino>>
        /\ \/ k = 0 /\ UNCHANGED <<nd, hace>>
           \/ k # 0 /\ nd' = tabla_jobs_extract_by_id(nd, k) /\ Sigue(ERL, TareasPropias(j, b) \o Purgas(j))
    BY <1>0 DEF JobRelease, Libre, Deja, Cerrado
  <1>2. cliente'[j] \in {"abandonado", "fin"} /\ Siguen /\ lock # ERL /\ ~Pidiendose(j)'
    BY <1>1, EnOrden DEF Clientes, Siguen, NULL, ERL, Pidiendose
  <1>3. /\ EnTabla(nd, j) <=> k # 0
        /\ k # 0 => k \in DOMAIN nd.tabla /\ nd.tabla[k].job = j /\ nd.tabla[k] \in Trabajos(Duenos)
    BY <1>0, EnOrden, Encuentra
  <1>4. enVecino' \in [Propios -> Nat] /\ \A i \in Propios : enVecino'[i] <= enVecino[i]
    BY <1>1, EnOrden DEF Clientes
  <1>5. CASE k = 0
    <2>1. Cuadra(nd', Pedidos) /\ Progresa(nd, nd')
      BY <1>1, <1>5, EnOrden, MismaMesa
    <2>2. Deriva(nd, nd', {})
      BY <2>1, ProgresaDeriva
    <2> QED
      BY <1>1, <1>2, <1>4, <1>5, <2>1, <2>2, MantieneQuieto
  <1>6. CASE k # 0
    <2>1. k \in 1 .. Len(nd.tabla)
      BY <1>3, <1>6, EnOrden, Campos, LenProperties
    <2>2. Cuadra(nd', Pedidos) /\ Deriva(nd, nd', {j}) /\ ~EnTabla(nd', j)
      <3> DEFINE y == tabla_jobs_extract_by_id(nd, k)
      <3>1. Cuadra(y, Pedidos) /\ Deriva(nd, y, {nd.tabla[k].job}) /\ ~EnTabla(y, nd.tabla[k].job)
        BY <2>1, EnOrden, Saca
      <3>2. nd' = y
        BY <1>1, <1>6
      <3> HIDE DEF y
      <3> QED
        BY <1>3, <1>6, <3>1, <3>2
    <2>3. b \in Seq(Allocs) /\ Cuadran(nd, j, b)
      BY <1>0, <1>3, <1>6, EnOrden DEF Trabajos, Cuadra
    <2>4. PICK s, J : s = TareasPropias(j, b) \o Purgas(j) /\ J = {j}
      OBVIOUS
    <2>5. s \in Seq(UNION {Restos(i) : i \in J})
      <3>1. TareasPropias(j, b) \in Seq(Restos(j)) /\ Purgas(j) \in Seq(Restos(j))
        BY <2>3, EnOrden, DeSusAllocs, PurgasRestos
      <3>2. TareasPropias(j, b) \o Purgas(j) \in Seq(Restos(j))
        BY <3>1, ConcatProperties, Zenon
      <3> QED
        BY <2>4, <3>2
    <2>6. \A i \in J \cap Propios : cliente'[i] # "nuevo" /\ ~Pidiendose(i)' /\ ~EnTabla(nd', i)
                                    /\ cliente'[i] # "trabajando"
      <3>1. \A i \in J : i = j
        BY <2>4
      <3>2. cliente'[j] # "nuevo" /\ ~Pidiendose(j)' /\ ~EnTabla(nd', j) /\ cliente'[j] # "trabajando"
        BY <1>2, <2>2
      <3> QED
        BY <3>1, <3>2
    <2>7. \A i \in DOMAIN s : /\ s[i].op \notin {"item", "insertar"}
                              /\ \A l \in Propios : Trata(s[i], l) => Debida(s[i], l)' /\ ~EnTabla(nd', l)
      BY <2>5, <2>6, RestosDebidos
    <2>8. Sigue(ERL, s) /\ ERL \in Conexiones /\ Deriva(nd, nd', J)
      BY <1>1, <1>6, <2>2, <2>4 DEF Conexiones
    <2> QED
      BY <1>1, <1>2, <1>4, <2>2, <2>6, <2>7, <2>8, Mantiene
  <1> QED
    BY <1>5, <1>6

-------------------------------------------------------------------------------
(* The answers of Vecino. *)

(* DENIED of the other agent *)
LEMMA OrdenDenied ==
  ASSUME IInv, Orden, NEW j \in Propios, Denied(j)
  PROVE  Orden'
  <1>0. PICK m : m = Mensaje("DENIED", j)
    OBVIOUS
  <1> DEFINE y == DENIED(nd, Ida, m)
             k == tabla_jobs_buscar_por_id(nd, j)
             c == nd.tabla[k].conn
             z == tabla_jobs_remove(nd, j)
             w == send_message(z, c, Mensaje("JOB_DENIED", j))
             v == IF k = 0 THEN nd ELSE w
  <1>1. /\ enVecino[j] > 0 /\ lock = NULL /\ Entregar(y) /\ enVecino' = [enVecino EXCEPT ![j] = @ - 1]
        /\ UNCHANGED <<lock, hace, armando, est>> /\ j \in Jobs
    BY <1>0, EnOrden DEF Denied
  <1>2. y = limpiar_colas_por_id(v, j)
    BY <1>0 DEF DENIED, Mensaje
  <1>3. /\ EnTabla(nd, j) <=> k # 0
        /\ k # 0 => nd.tabla[k] \in Trabajos(Duenos)
    BY EnOrden, Encuentra
  <1> HIDE DEF k
  <1>4. v \in Managers(Pueden, Duenos) /\ Cuadra(v, Pedidos) /\ BienDicho(v) /\ ~EnTabla(v, j) /\ Deriva(nd, v, {j})
    <2>1. CASE k = 0
      <3>1. Progresa(nd, nd)
        BY EnOrden, MismaMesa
      <3>2. Deriva(nd, nd, {})
        BY <3>1, ProgresaDeriva
      <3>3. \A i \in DOMAIN nd.tabla : nd.tabla[i].job # j
        BY <1>3, <2>1 DEF EnTabla
      <3>4. Deriva(nd, nd, {j})
        BY <3>2, <3>3 DEF Deriva
      <3> QED
        BY <1>3, <2>1, <3>4, EnOrden
    <2>2. CASE k # 0
      <3>1. z \in Managers(Pueden, Duenos) /\ Cuadra(z, Pedidos) /\ BienDicho(z) /\ Deriva(nd, z, {j}) /\ ~EnTabla(z, j)
        BY <1>1, EnOrden, RemueveBien
      <3>2. c \in Conexiones
        <4> HIDE DEF c
        <4>1. c = ERL
          BY <1>3, <2>2 DEF Trabajos, Duenos, c
        <4> QED
          BY <4>1 DEF Conexiones
      <3> HIDE DEF z, c
      <3>3. PICK n : n = Mensaje("JOB_DENIED", j)
        OBVIOUS
      <3>4. n \in Textos /\ n.clase # "JOB_GRANTED"
        BY <1>1, <3>3, Palabras DEF Mensaje
      <3>5. PICK d : d = send_message(z, c, n)
        OBVIOUS
      <3>6. d \in Managers(Pueden, Duenos) /\ Cuadra(d, Pedidos) /\ BienDicho(d) /\ Progresa(z, d)
        BY <3>1, <3>2, <3>4, <3>5, Envia, SeDice
      <3>7. Deriva(nd, d, {j}) /\ ~EnTabla(d, j)
        BY <3>1, <3>6, DerivaYProgresa, ProgresaTabla
      <3> QED
        BY <2>2, <3>3, <3>5, <3>6, <3>7
    <2> QED
      BY <2>1, <2>2
  <1> HIDE DEF v
  <1>5. y \in Managers(Pueden, Duenos) /\ Bien(v, y, Pedidos)
    BY <1>2, <1>4, EnOrden, LimpiaBien
  <1> HIDE DEF y
  <1>6. Cuadra(nd', Pedidos) /\ Progresa(y, nd') /\ Siguen
    BY <1>1, <1>5, EnOrden, Reparte DEF Bien
  <1>7. Deriva(nd, nd', {j})
    BY <1>4, <1>5, <1>6, DerivaYProgresa DEF Bien
  <1>8. cliente'[j] = "trabajando" => NadaAqui(j)
    <2>1. ~Cumple(nd', j)
      <3>1. ~EnTabla(nd', j)
        BY <1>7, DerivaEs
      <3> QED
        BY <3>1 DEF Cumple, EnTabla
    <2>2. ~Cumple(nd, j)
      <3> SUFFICES ASSUME NEW i \in DOMAIN nd.tabla, nd.tabla[i].job = j, Cumplida(nd.tabla[i]) PROVE FALSE
        BY DEF Cumple
      <3>1. nd.tabla[i].pendientes = << >> /\ enVecino[j] <= Len(nd.tabla[i].pendientes)
        BY DEF Orden, EnVilo, Cumplida
      <3>2. enVecino[j] <= 0 /\ enVecino[j] \in Nat
        BY <3>1, EnOrden DEF Clientes
      <3> QED
        BY <1>1, <3>2
    <2>3. cliente[j] = "trabajando" => NadaAqui(j)
      BY <2>2 DEF Orden, Servidos
    <2> QED
      BY <1>6, <2>1, <2>3 DEF Siguen
  <1>9. enVecino' \in [Propios -> Nat] /\ \A i \in Propios : enVecino'[i] <= enVecino[i]
    BY <1>1, EnOrden DEF Clientes
  <1>10. lock # ERL
    BY <1>1 DEF NULL, ERL
  <1> QED
    BY <1>1, <1>6, <1>7, <1>8, <1>9, <1>10, MantieneQuieto

(* A list with one more at its head. *)
LEMMA Antepone ==
  ASSUME NEW S, NEW s \in Seq(S), NEW a \in S
  PROVE  LET u == <<a>> \o s
         IN  /\ u \in Seq(S) /\ Len(s) \in Nat /\ Len(u) = Len(s) + 1
             /\ DOMAIN s = 1 .. Len(s) /\ DOMAIN u = 1 .. Len(s) + 1
             /\ u[1] = a /\ \A i \in DOMAIN s : i + 1 \in DOMAIN u /\ u[i + 1] = s[i]
             /\ \A i \in DOMAIN u : i = 1 \/ (i - 1 \in DOMAIN s /\ u[i] = s[i - 1])
  <1> DEFINE q == <<a>>
             u == q \o s
  <1>1. q \in Seq(S) /\ Len(q) = 1 /\ q[1] = a
    OBVIOUS
  <1> HIDE DEF q
  <1>2. /\ u \in Seq(S) /\ Len(u) = Len(q) + Len(s)
        /\ \A i \in 1 .. Len(q) : u[i] = q[i]
        /\ \A i \in 1 .. Len(s) : u[Len(q) + i] = s[i]
    <2>1. q \in Seq(S) /\ s \in Seq(S)
      BY <1>1
    <2>2. u \in Seq(S) /\ Len(u) = Len(q) + Len(s)
      BY <2>1, Pegar
    <2>3. \A i \in 1 .. Len(q) : u[i] = q[i]
      BY <2>1, Pegar
    <2>4. \A i \in 1 .. Len(s) : u[Len(q) + i] = s[i]
      BY <2>1, Pegar
    <2> HIDE DEF u
    <2> QED
      BY <2>2, <2>3, <2>4
  <1>3. Len(s) \in Nat /\ DOMAIN s = 1 .. Len(s)
    BY LenProperties
  <1> HIDE DEF u
  <1>4. Len(u) = Len(s) + 1 /\ DOMAIN u = 1 .. Len(s) + 1
    BY <1>1, <1>2, <1>3, LenProperties
  <1>5. u[1] = a
    BY <1>1, <1>2
  <1>6. \A i \in DOMAIN s : i + 1 \in DOMAIN u /\ u[i + 1] = s[i]
    BY <1>1, <1>2, <1>3, <1>4
  <1>7. \A i \in DOMAIN u : i = 1 \/ (i - 1 \in DOMAIN s /\ u[i] = s[i - 1])
    <2> SUFFICES ASSUME NEW i \in DOMAIN u, i # 1 PROVE i - 1 \in DOMAIN s /\ u[i] = s[i - 1]
      OBVIOUS
    <2>1. i - 1 \in DOMAIN s /\ (i - 1) + 1 = i
      BY <1>3, <1>4
    <2> QED
      BY <1>6, <2>1
  <1> QED
    BY <1>2, <1>3, <1>4, <1>5, <1>6, <1>7 DEF u, q

(* A grant of Vecino changes nothing of what the job has here. *)
LEMMA SumaRemota ==
  ASSUME NEW s \in Seq(Allocs), NEW a \in Allocs, a.lado # "LOCAL"
  PROVE  LET u == <<a>> \o s
         IN  /\ \A x, j : Cuadran(x, j, s) => Cuadran(x, j, u)
             /\ \A j : Completa(j, s) => Completa(j, u)
             /\ \A t, r : Suya(u, t, r) <=> Suya(s, t, r)
  <1> DEFINE u == <<a>> \o s
  <1>1. /\ u[1] = a /\ \A i \in DOMAIN s : i + 1 \in DOMAIN u /\ u[i + 1] = s[i]
        /\ \A i \in DOMAIN u : i = 1 \/ (i - 1 \in DOMAIN s /\ u[i] = s[i - 1])
        /\ DOMAIN s = 1 .. Len(s) /\ DOMAIN u = 1 .. Len(s) + 1 /\ Len(s) \in Nat
    BY Antepone
  <1> HIDE DEF u
  <1>2. \A i \in DOMAIN u : u[i].lado = "LOCAL" => i - 1 \in DOMAIN s /\ u[i] = s[i - 1]
    BY <1>1
  <1>3. \A t, r : Suya(u, t, r) <=> Suya(s, t, r)
    <2>1. ASSUME NEW t, NEW r, Suya(u, t, r) PROVE Suya(s, t, r)
      BY <1>2, <2>1 DEF Suya
    <2>2. ASSUME NEW t, NEW r, Suya(s, t, r) PROVE Suya(u, t, r)
      BY <1>1, <2>2 DEF Suya
    <2> QED
      BY <2>1, <2>2
  <1>4. ASSUME NEW x, NEW j, Cuadran(x, j, s) PROVE Cuadran(x, j, u)
    <2>1. ASSUME NEW k \in DOMAIN u, NEW l \in DOMAIN u,
                 u[k].lado = "LOCAL", u[l].lado = "LOCAL", u[k].tipo = u[l].tipo
          PROVE  k = l
      <3>1. k - 1 = l - 1
        BY <1>2, <1>4, <2>1 DEF Cuadran
      <3> QED
        BY <1>1, <3>1
    <2>2. \A k \in DOMAIN u : u[k].lado = "LOCAL" => u[k].monto = Pide(j, u[k].tipo) /\ u[k].monto # 0
      BY <1>2, <1>4 DEF Cuadran
    <2>3. \A t \in Tipos :
            /\ Espera(x, t, j) <=> Suya(u, t, "RM_QUEUED")
            /\ x.tiene[t][j] = IF Suya(u, t, "RM_GRANTED") THEN Pide(j, t) ELSE 0
      BY <1>3, <1>4, Zenon DEF Cuadran
    <2> QED
      BY <2>1, <2>2, <2>3 DEF Cuadran
  <1>5. \A j : Completa(j, s) => Completa(j, u)
    BY <1>3, Zenon DEF Completa
  <1> QED
    BY <1>3, <1>4, <1>5 DEF u

(* job_confirmar takes one pending request of one job. *)
Confirmada(x, y, k) ==
  /\ DOMAIN y.tabla = DOMAIN x.tabla
  /\ \A i \in DOMAIN x.tabla :
       /\ y.tabla[i].job = x.tabla[i].job
       /\ Len(y.tabla[i].pendientes) >= Len(x.tabla[i].pendientes) - (IF i = k THEN 1 ELSE 0)
       /\ Cumplida(x.tabla[i]) => Cumplida(y.tabla[i])

(* job_confirmar makes at most one pending request of row k a confirmed     *)
(* allocation, and the table still agrees with the queues.                  *)
LEMMA ConfirmaBien ==
  ASSUME NEW Q, NEW E, NEW x \in Managers(Q, E), NEW k \in 1 .. Len(x.tabla), NEW ip, NEW S, Cuadra(x, S)
  PROVE  LET y == job_confirmar(x, k, ip)
         IN  Cuadra(y, S) /\ y.tx = x.tx /\ Confirmada(x, y, k)
  <1> DEFINE job == x.tabla[k]
             s == job.pendientes
             I == {i \in 1 .. Len(s) : s[i].ip = ip}
             i == IF I # {} THEN Min(I) ELSE 0
             r == s[i]
             nueva == [tipo |-> r.tipo, monto |-> r.monto, lado |-> "REMOTE", ip |-> r.ip,
                       result |-> "RM_GRANTED", conn |-> r.conn]
             p == RemoveAt(s, i)
             q == <<nueva>> \o job.confirmadas
             y == [x EXCEPT !.tabla[k].pendientes = RemoveAt(job.pendientes, i),
                            !.tabla[k].confirmadas = <<nueva>> \o @]
  <1>1. job_confirmar(x, k, ip) = IF i = 0 THEN x ELSE y
    BY DEF job_confirmar, SelectInSeq
  <1>2. x.tabla \in Seq(Trabajos(E)) /\ DOMAIN x.tabla = 1 .. Len(x.tabla) /\ \A l \in DOMAIN x.tabla : x.tabla[l] \in Trabajos(E)
    BY Campos, LenProperties, ElementOfSeq
  <1>3. /\ job \in Trabajos(E) /\ s \in Seq(Salientes) /\ job.confirmadas \in Seq(Allocs)
        /\ \A l \in DOMAIN x.tabla : Len(x.tabla[l].pendientes) \in Nat
    BY <1>2, LenProperties DEF Trabajos
  <1>4. i # 0 => i \in 1 .. Len(s)
    <2>1. Len(s) \in Nat
      BY <1>3, LenProperties
    <2>2. I # {} => Min(I) \in I
      BY <2>1, ElMenor
    <2> QED
      BY <2>2
  <1>5. CASE i = 0
    <2> HIDE DEF i, job, s
    <2>1. Confirmada(x, x, k)
      <3>1. ASSUME NEW l \in DOMAIN x.tabla
            PROVE  Len(x.tabla[l].pendientes) >= Len(x.tabla[l].pendientes) - (IF l = k THEN 1 ELSE 0)
        <4>1. PICK n : n = Len(x.tabla[l].pendientes)
          OBVIOUS
        <4>2. n \in Nat
          BY <1>3, <4>1
        <4>3. \A d \in {0, 1} : n >= n - d
          BY <4>2
        <4>4. (IF l = k THEN 1 ELSE 0) \in {0, 1}
          OBVIOUS
        <4> QED
          BY <4>1, <4>3, <4>4
      <3> QED
        BY <3>1 DEF Confirmada
    <2> QED
      BY <1>1, <1>5, <2>1
  <1>6. CASE i # 0
    <2> HIDE DEF i
    <2>1. r \in Salientes
      BY <1>3, <1>4, <1>6, ElementOfSeq
    <2>2. nueva \in Allocs /\ nueva.lado # "LOCAL"
      <3>1. nueva \in Remotas
        <4> HIDE DEF r
        <4> QED
          BY <2>1 DEF Salientes, Remotas
      <3> QED
        BY <3>1, Zenon DEF Allocs, Remotas
    <2>3. Len(p) = Len(s) - 1 /\ s # << >>
      <3>1. i \in 1 .. Len(s) /\ Len(s) \in Nat
        BY <1>3, <1>4, <1>6, LenProperties
      <3>2. p \in Seq(Salientes)
        BY <1>3, <3>1, QuitaTrabajo
      <3>3. DOMAIN p = 1 .. Len(s) - 1
        BY <1>3, <3>1, SinUno
      <3> HIDE DEF p, s
      <3>4. Len(p) = Len(s) - 1
        BY <3>1, <3>2, <3>3, LenProperties
      <3>5. s # << >>
        BY <3>1
      <3> QED
        BY <3>4, <3>5
    <2> HIDE DEF nueva, p, r
    <2>4. /\ y.rec = x.rec /\ y.tiene = x.tiene /\ y.tx = x.tx /\ DOMAIN y.tabla = DOMAIN x.tabla
          /\ \A l \in DOMAIN x.tabla \ {k} : y.tabla[l] = x.tabla[l]
          /\ y.tabla[k].job = job.job /\ y.tabla[k].pendientes = p /\ y.tabla[k].confirmadas = q
      <3>1. /\ y.rec = x.rec /\ y.tiene = x.tiene /\ y.tx = x.tx
            /\ y.tabla = [x.tabla EXCEPT ![k].pendientes = p, ![k].confirmadas = <<nueva>> \o @]
        BY <1>2 DEF Managers, p
      <3>2. [x.tabla EXCEPT ![k].pendientes = p, ![k].confirmadas = <<nueva>> \o @][k]
              = [job EXCEPT !.pendientes = p, !.confirmadas = q]
        BY <1>2, <1>3 DEF Trabajos
      <3>3. [job EXCEPT !.pendientes = p, !.confirmadas = q].job = job.job
            /\ [job EXCEPT !.pendientes = p, !.confirmadas = q].pendientes = p
            /\ [job EXCEPT !.pendientes = p, !.confirmadas = q].confirmadas = q
        <4> HIDE DEF job, q
        <4> QED
          BY <1>3 DEF Trabajos
      <3> HIDE DEF q, y
      <3> QED
        BY <1>2, <3>1, <3>2, <3>3
    <2> HIDE DEF y
    <2>5. /\ \A z, j : Cuadran(z, j, job.confirmadas) => Cuadran(z, j, q)
          /\ \A j : Completa(j, job.confirmadas) => Completa(j, q)
      BY <1>3, <2>2, SumaRemota
    <2> HIDE DEF q
    <2>6. \A z, j : Cuadran(x, j, z) => Cuadran(y, j, z)
      BY <2>4 DEF Cuadran, Espera
    <2>7. ASSUME NEW l \in DOMAIN y.tabla
          PROVE  /\ y.tabla[l].job = x.tabla[l].job /\ y.tabla[l].job \in S
                 /\ Cuadran(y, y.tabla[l].job, y.tabla[l].confirmadas)
                 /\ Completa(y.tabla[l].job, y.tabla[l].confirmadas)
      <3>1. /\ x.tabla[l].job \in S /\ Cuadran(x, x.tabla[l].job, x.tabla[l].confirmadas)
            /\ Completa(x.tabla[l].job, x.tabla[l].confirmadas)
        BY <2>4 DEF Cuadra
      <3>2. CASE l = k
        BY <2>4, <2>5, <2>6, <3>1, <3>2
      <3>3. CASE l # k
        BY <2>4, <2>6, <3>1, <3>3
      <3> QED
        BY <3>2, <3>3
    <2>8. Cuadra(y, S)
      <3>1. \A a, b \in DOMAIN y.tabla : y.tabla[a].job = y.tabla[b].job => a = b
        BY <2>4, <2>7 DEF Cuadra
      <3>2. EnFila(y, S)
        BY <2>4 DEF Cuadra, EnFila
      <3> QED
        BY <2>7, <3>1, <3>2 DEF Cuadra
    <2>9. Confirmada(x, y, k)
      <3>1. ASSUME NEW l \in DOMAIN x.tabla
            PROVE  /\ Len(y.tabla[l].pendientes) >= Len(x.tabla[l].pendientes) - (IF l = k THEN 1 ELSE 0)
                   /\ Cumplida(x.tabla[l]) => Cumplida(y.tabla[l])
        <4>1. CASE l = k
          <5>1. Len(s) \in Nat /\ ~Cumplida(x.tabla[l])
            BY <1>3, <2>3, <4>1, LenProperties DEF Cumplida
          <5> QED
            BY <2>3, <2>4, <4>1, <5>1
        <4>2. CASE l # k
          BY <1>3, <2>4, <4>2
        <4> QED
          BY <4>1, <4>2
      <3> QED
        BY <2>4, <2>7, <3>1 DEF Confirmada
    <2> QED
      BY <1>1, <1>6, <2>4, <2>8, <2>9
  <1> QED
    BY <1>5, <1>6

(* Progress confirms nothing, which Confirmada allows. *)
LEMMA ProgresaConfirmada ==
  ASSUME NEW Q, NEW E, NEW x \in Managers(Q, E), NEW y, Progresa(x, y), NEW k
  PROVE  Confirmada(x, y, k)
  <1>1. x.tabla \in Seq(Trabajos(E)) /\ \A i \in DOMAIN x.tabla : x.tabla[i] \in Trabajos(E)
    BY Campos, LenProperties, ElementOfSeq
  <1>2. \A n \in Nat : \A d \in {0, 1} : n >= n - d
    OBVIOUS
  <1>3. ASSUME NEW i \in DOMAIN x.tabla
        PROVE  Len(y.tabla[i].pendientes) >= Len(x.tabla[i].pendientes) - (IF i = k THEN 1 ELSE 0)
    <2>1. PICK n : n = Len(x.tabla[i].pendientes)
      OBVIOUS
    <2>2. n \in Nat
      BY <1>1, <2>1, LenProperties DEF Trabajos
    <2>3. Len(y.tabla[i].pendientes) = n
      BY <2>1 DEF Progresa
    <2>4. (IF i = k THEN 1 ELSE 0) \in {0, 1}
      OBVIOUS
    <2> QED
      BY <1>2, <2>1, <2>2, <2>3, <2>4
  <1> QED
    BY <1>3 DEF Confirmada, Progresa

(* GRANTED. *)
LEMMA ConcedeBien ==
  ASSUME NEW Q, NEW E, Permisos(Q, E), NEW x \in Managers(Q, E), NEW j \in Jobs, NEW S, Cuadra(x, S), x.tx = << >>
  PROVE  LET y == GRANTED(x, Ida, Mensaje("GRANTED", j))
         IN  Cuadra(y, S) /\ BienDicho(y) /\ Confirmada(x, y, tabla_jobs_buscar_por_id(x, j))
  <1> DEFINE k == tabla_jobs_buscar_por_id(x, j)
             y == job_confirmar(x, k, tabla_conns_get_ip_by_conn(x, Ida))
             c == x.tabla[k].conn
             w == DevolverNada(x, Ida, j)
             z == send_message(y, c, Mensaje("JOB_GRANTED", j))
             V == {v \in Managers(Q, E) : Cuadra(v, S) /\ BienDicho(v) /\ v.tabla = x.tabla}
             R(v) == Cuadra(v, S) /\ BienDicho(v) /\ Confirmada(x, v, k)
  <1>1. GRANTED(x, Ida, Mensaje("GRANTED", j))
          = IF ~tabla_conns_conoce(x, Ida) THEN x
            ELSE IF k = 0 THEN w
            ELSE IF y # x /\ tabla_jobs_verificar(y, j) THEN z ELSE y
    BY DEF GRANTED, Mensaje
  <1>2. k # 0 => k \in 1 .. Len(x.tabla) /\ x.tabla[k] \in Trabajos(E)
    BY Busca
  <1>3. k # 0 => c \in Conexiones
    <2> HIDE DEF k
    <2> QED
      BY <1>2 DEF Trabajos, Permisos, Conexiones
  <1> HIDE DEF c, k
  <1>4. BienDicho(x)
    BY DEF BienDicho
  <1>5. \A v : v.tabla = x.tabla => Confirmada(x, v, k)
    <2>1. \A v : v.tabla = x.tabla => Progresa(x, v)
      BY DEF Progresa
    <2> QED
      BY <2>1, ProgresaConfirmada
  <1>6. R(x)
    BY <1>4, <1>5
  <1>7. R(w)
    <2>1. x \in V
      BY <1>4
    <2>2. ASSUME NEW v \in V, NEW t \in Tipos
          PROVE  send_message(v, Ida, MensajeRecurso("RELEASE", j, t, 0)) \in V
      <3>1. PICK m, u : m = MensajeRecurso("RELEASE", j, t, 0) /\ u = send_message(v, Ida, m)
        OBVIOUS
      <3>2. m \in Textos /\ Ida # ERL /\ Ida \in Conexiones
        BY <3>1, SonTextos DEF Clases, Ida, ERL, Conexiones
      <3>3. v \in Managers(Q, E) /\ Cuadra(v, S) /\ BienDicho(v) /\ v.tabla = x.tabla
        BY <2>2
      <3> HIDE DEF V
      <3>4. u \in Managers(Q, E) /\ Cuadra(u, S) /\ BienDicho(u) /\ u.tabla = v.tabla
        BY <3>1, <3>2, <3>3, Envia, SeDice
      <3>5. u \in V
        BY <3>3, <3>4 DEF V
      <3> QED
        BY <3>1, <3>5
    <2> HIDE DEF V
    <2>3. w \in V
      BY <2>1, <2>2, RecorreNada
    <2> HIDE DEF w
    <2> QED
      BY <1>5, <2>3 DEF V
  <1> HIDE DEF w
  <1>8. CASE k # 0
    <2>1. y \in Managers(Q, E) /\ Cuadra(y, S) /\ y.tx = x.tx /\ Confirmada(x, y, k)
      BY <1>2, <1>8, Confirma, ConfirmaBien
    <2> HIDE DEF y
    <2>2. R(y)
      BY <2>1 DEF BienDicho
    <2>3. ASSUME tabla_jobs_verificar(y, j) PROVE R(z)
      <3>1. PICK m : m = Mensaje("JOB_GRANTED", j)
        OBVIOUS
      <3>2. m \in Textos /\ m.job = j
        BY <3>1, Palabras DEF Mensaje
      <3>3. Cumple(y, j)
        BY <2>1, <2>3, Verifica
      <3>4. PICK u : u = send_message(y, c, m)
        OBVIOUS
      <3>5. c \in Conexiones
        BY <1>3, <1>8
      <3>6. Cuadra(u, S) /\ BienDicho(u) /\ u.tabla = y.tabla
        BY <2>1, <2>2, <3>2, <3>3, <3>4, <3>5, SeDice
      <3>7. Confirmada(x, u, k)
        BY <2>1, <3>6 DEF Confirmada
      <3>8. u = z
        BY <3>1, <3>4
      <3> HIDE DEF z
      <3> QED
        BY <3>6, <3>7, <3>8
    <2> HIDE DEF z, R
    <2> QED
      BY <1>1, <1>6, <1>8, <2>2, <2>3 DEF R, k
  <1>9. CASE k = 0
    <2> HIDE DEF R
    <2>1. R(GRANTED(x, Ida, Mensaje("GRANTED", j)))
      BY <1>1, <1>6, <1>7, <1>9
    <2> QED
      BY <2>1 DEF R, k
  <1> QED
    BY <1>8, <1>9

(* and its GRANTED. *)
LEMMA OrdenGranted ==
  ASSUME IInv, Orden, NEW j \in Propios, Granted(j)
  PROVE  Orden'
  <1>0. PICK k, y : k = tabla_jobs_buscar_por_id(nd, j) /\ y = GRANTED(nd, Ida, Mensaje("GRANTED", j))
    OBVIOUS
  <1>1. /\ enVecino[j] > 0 /\ lock = NULL /\ Entregar(y) /\ enVecino' = [enVecino EXCEPT ![j] = @ - 1]
        /\ UNCHANGED <<lock, hace, armando, est>> /\ j \in Jobs
    BY <1>0, EnOrden DEF Granted
  <1>2. y \in Managers(Pueden, Duenos) /\ Cuadra(y, Pedidos) /\ BienDicho(y) /\ Confirmada(nd, y, k)
    <2>1. y \in Managers(Pueden, Duenos)
      BY <1>0, <1>1, EnOrden, Concede
    <2>2. Cuadra(y, Pedidos) /\ BienDicho(y) /\ Confirmada(nd, y, k)
      BY <1>0, <1>1, EnOrden, ConcedeBien
    <2> QED
      BY <2>1, <2>2
  <1>3. Cuadra(nd', Pedidos) /\ nd'.tabla = y.tabla /\ Siguen
    BY <1>1, <1>2, EnOrden, Reparte
  <1>4. Pedidos' = Pedidos /\ Pedidos \subseteq Propios /\ lock # ERL
    BY <1>1, <1>3 DEF Pedidos, Siguen, NULL, ERL
  <1>5. Cuadra(nd, Pedidos)'
    BY <1>3, <1>4
  <1>6. Confirmada(nd, nd', k)
    BY <1>2, <1>3 DEF Confirmada
  <1>7. EnVilo'
    <2>1. ASSUME NEW i \in DOMAIN nd'.tabla PROVE enVecino'[nd'.tabla[i].job] <= Len(nd'.tabla[i].pendientes)
      <3>1. PICK r, w, v : r = nd'.tabla[i].job /\ w = Len(nd.tabla[i].pendientes) /\ v = Len(nd'.tabla[i].pendientes)
        OBVIOUS
      <3>2. i \in DOMAIN nd.tabla /\ nd.tabla[i].job = r /\ r \in Propios
        BY <1>3, <1>4, <1>6, <2>1, <3>1 DEF Confirmada, Cuadra
      <3>3. i = k => r = j
        <4>1. k # 0 => nd.tabla[k].job = j
          BY <1>0, EnOrden, Encuentra
        <4>2. i # 0
          BY <3>2, EnOrden, Campos, LenProperties
        <4> QED
          BY <3>2, <4>1, <4>2
      <3>4. v >= w - (IF i = k THEN 1 ELSE 0) /\ enVecino[r] <= w
        BY <1>6, <3>1, <3>2 DEF Confirmada, Orden, EnVilo
      <3>5. w \in Nat /\ v \in Nat
        <4>1. \A Q, E : \A x \in Managers(Q, E) : \A l \in DOMAIN x.tabla : Len(x.tabla[l].pendientes) \in Nat
          <5> SUFFICES ASSUME NEW Q, NEW E, NEW x \in Managers(Q, E), NEW l \in DOMAIN x.tabla
                       PROVE  Len(x.tabla[l].pendientes) \in Nat
            OBVIOUS
          <5>1. x.tabla[l] \in Trabajos(E)
            BY Campos, LenProperties, ElementOfSeq
          <5> QED
            BY <5>1, LenProperties DEF Trabajos
        <4>2. i \in DOMAIN y.tabla /\ nd'.tabla[i] = y.tabla[i]
          BY <1>3, <2>1
        <4> QED
          BY <1>2, <3>1, <3>2, <4>1, <4>2, EnOrden
      <3>6. enVecino[r] \in Nat /\ enVecino'[r] = IF r = j THEN enVecino[r] - 1 ELSE enVecino[r]
        BY <1>1, <3>2, EnOrden DEF Clientes
      <3>7. enVecino'[r] <= v
        BY <3>3, <3>4, <3>5, <3>6
      <3> QED
        BY <3>1, <3>7
    <2>2. ASSUME NEW i \in Propios, cliente'[i] = "nuevo" PROVE enVecino'[i] = 0
      <3>1. enVecino[i] = 0
        BY <1>3, <2>2 DEF Siguen, Orden, EnVilo
      <3> QED
        BY <1>1, <3>1, EnOrden DEF Clientes
    <2> QED
      BY <2>1, <2>2 DEF EnVilo
  <1>8. Salieron({})
    <2>1. \A i : EnTabla(nd', i) <=> EnTabla(nd, i)
      BY <1>6 DEF Confirmada, EnTabla
    <2>2. \A i : Cumple(nd, i) => Cumple(nd', i)
      BY <1>6 DEF Confirmada, Cumple
    <2> QED
      BY <2>1, <2>2 DEF Salieron
  <1>9. Servidos'
    BY <1>3, <1>8, ServidosSigue DEF Orden
  <1>10. EnCurso'
    BY <1>1, <1>4 DEF Orden, EnCurso
  <1>11. Difuntos'
    <2>1. PICK c, s : c = ERL /\ s = hace[c]
      OBVIOUS
    <2>2. Sigue(c, s) /\ c \in Conexiones /\ hace \in [Conexiones -> Seq(Abiertas \cup Cerrando)]
      BY <1>1, <2>1 DEF IInv, EnManos, Sigue, Conexiones
    <2>3. \A i \in Propios : /\ cliente[i] # "nuevo" => cliente'[i] # "nuevo"
                             /\ cliente[i] = "abandonado" => cliente'[i] = "abandonado"
                             /\ EnTabla(nd', i) => EnTabla(nd, i) \/ cliente[i] = "nuevo" \/ Pidiendose(i)
                             /\ Pidiendose(i)' => Pidiendose(i) \/ cliente[i] = "nuevo"
      BY <1>1, <1>3, <1>8 DEF Siguen, Salieron, Pidiendose
    <2>4. \A i \in DOMAIN s : \A l \in Propios : Trata(s[i], l) =>
            /\ Debida(s[i], l)' \/ \E q \in DOMAIN hace[c] : hace[c][q] = s[i]
            /\ ~EnTabla(nd', l) \/ s = hace[c] \/ (Head(s).op = "quitar" /\ Head(s).job = l)
      BY <2>1
    <2> QED
      BY <2>2, <2>3, <2>4, DifuntosSigue DEF Orden
  <1> QED
    BY <1>5, <1>7, <1>9, <1>10, <1>11 DEF Orden

-------------------------------------------------------------------------------
(* The requests. *)

(* y is x after reserve_resource for job j, which answered r; a is what it *)
(* leaves in the queue when it has to.                                     *)
Reservada(x, y, t, j, m, a, r) ==
  /\ y.tabla = x.tabla /\ y.tx = x.tx
  /\ \A u \in Tipos \ {t} : y.rec[u].cola = x.rec[u].cola
  /\ \A u \in Tipos : \A i \in Jobs : u # t \/ i # j => y.tiene[u][i] = x.tiene[u][i]
  /\ r = "RM_GRANTED" => y.rec[t].cola = x.rec[t].cola /\ y.tiene[t][j] = x.tiene[t][j] + m
  /\ r = "RM_QUEUED" => y.rec[t].cola = Append(x.rec[t].cola, a) /\ y.tiene[t][j] = x.tiene[t][j]
  /\ r = "RM_DENIED" => y = x

(* reserve_resource lends the units or queues the request, and no more. *)
LEMMA HaceReserva ==
  ASSUME NEW Q, NEW E, NEW x \in Managers(Q, E), NEW t \in Tipos, NEW m \in Nat, NEW j \in Jobs, NEW c, NEW origen
  PROVE  LET r == reserve_resource(x, t, m, j, c, origen)
         IN  Reservada(x, r.nd, t, j, m, [job |-> j, monto |-> m, conn |-> c, origen |-> origen], r.result)
  <1> DEFINE a == [job |-> j, monto |-> m, conn |-> c, origen |-> origen]
             rr == reserve_resource(x, t, m, j, c, origen)
             s == x.rec[t]
  <1>1. x.rec \in [Tipos -> [libre : Nat, cola : Seq(Encoladas(Conexiones))]] /\ x.tiene \in [Tipos -> [Jobs -> Int]]
    BY Campos DEF Recursos
  <1>2. CASE s.libre >= m
    <2> DEFINE q == [s EXCEPT !.libre = @ - m]
               d == x.tiene[t][j] + m
               y == [x EXCEPT !.rec[t].libre = @ - m, !.tiene[t][j] = @ + m]
    <2>1. rr = [result |-> "RM_GRANTED", nd |-> y]
      BY <1>2 DEF reserve_resource
    <2>2. /\ y.tabla = x.tabla /\ y.tx = x.tx
          /\ y.rec = [x.rec EXCEPT ![t] = q] /\ y.tiene = [x.tiene EXCEPT ![t][j] = d]
      BY DEF Managers
    <2>3. q.cola = s.cola
      <3> HIDE DEF s
      <3>1. s \in [libre : Nat, cola : Seq(Encoladas(Conexiones))]
        BY <1>1 DEF s
      <3> QED
        BY <3>1
    <2> HIDE DEF y, q, d, s
    <2>4. y.rec[t] = q /\ \A u \in Tipos \ {t} : y.rec[u] = x.rec[u]
      BY <1>1, <2>2
    <2>5. y.tiene[t][j] = d /\ \A u \in Tipos : \A i \in Jobs : u # t \/ i # j => y.tiene[u][i] = x.tiene[u][i]
      BY <1>1, <2>2
    <2>6. Reservada(x, y, t, j, m, a, "RM_GRANTED")
      BY <2>2, <2>3, <2>4, <2>5 DEF Reservada, d, s
    <2> HIDE DEF rr, a
    <2>7. Reservada(x, rr.nd, t, j, m, a, rr.result)
      BY <2>1, <2>6
    <2> QED
      BY <2>7 DEF rr, a
  <1>3. CASE ~(s.libre >= m) /\ Total[x.ip][t] < m
    <2>1. rr = [result |-> "RM_DENIED", nd |-> x]
      BY <1>3 DEF reserve_resource
    <2>2. Reservada(x, x, t, j, m, a, "RM_DENIED")
      BY DEF Reservada
    <2> HIDE DEF rr, a
    <2>3. Reservada(x, rr.nd, t, j, m, a, rr.result)
      BY <2>1, <2>2
    <2> QED
      BY <2>3 DEF rr, a
  <1>4. CASE ~(s.libre >= m) /\ ~(Total[x.ip][t] < m)
    <2> DEFINE q == [s EXCEPT !.cola = Append(@, a)]
               y == [x EXCEPT !.rec[t].cola = Append(@, a)]
    <2>1. rr = [result |-> "RM_QUEUED", nd |-> y]
      BY <1>4 DEF reserve_resource
    <2>2. /\ y.tabla = x.tabla /\ y.tx = x.tx /\ y.tiene = x.tiene
          /\ y.rec = [x.rec EXCEPT ![t] = q]
      <3> HIDE DEF a
      <3> QED
        BY DEF Managers
    <2>3. q.cola = Append(s.cola, a)
      <3> HIDE DEF s, a
      <3>1. s \in [libre : Nat, cola : Seq(Encoladas(Conexiones))]
        BY <1>1 DEF s
      <3> QED
        BY <3>1
    <2> HIDE DEF y, q, s
    <2>4. y.rec[t] = q /\ \A u \in Tipos \ {t} : y.rec[u] = x.rec[u]
      BY <1>1, <2>2
    <2> HIDE DEF a
    <2>5. Reservada(x, y, t, j, m, a, "RM_QUEUED")
      BY <2>2, <2>3, <2>4 DEF Reservada, s
    <2> HIDE DEF rr
    <2>6. Reservada(x, rr.nd, t, j, m, a, rr.result)
      BY <2>1, <2>5
    <2> QED
      BY <2>6 DEF rr, a
  <1> QED
    BY <1>2, <1>3, <1>4

(* A queue with one more at its end. *)
Cabe(a, s, t, S) ==
  IF a.origen = "LOCAL"
  THEN /\ a.job \in S /\ a.conn = ERL /\ a.monto = Pide(a.job, t) /\ a.monto # 0
       /\ \A i \in DOMAIN s : s[i].job # a.job
  ELSE a.job \in Ajenos

UnoMas(u, s, j) == \A k : (\E i \in DOMAIN u : u[i].job = k) <=> k = j \/ \E i \in DOMAIN s : s[i].job = k

(* A queue with one more request of a job that had none there. *)
LEMMA FilaMas ==
  ASSUME NEW C, NEW s \in Seq(C), NEW a \in C, NEW t, NEW S, Fila(s, t, S),
         Cabe(a, s, t, S), NEW u, u = Append(s, a)
  PROVE  Fila(u, t, S) /\ UnoMas(u, s, a.job)
  <1> DEFINE n == Len(s)
  <1>1. /\ n \in Nat /\ DOMAIN s = 1 .. n /\ DOMAIN u = 1 .. n + 1 /\ u[n + 1] = a
        /\ \A i \in 1 .. n : u[i] = s[i]
    BY AppendProperties, LenProperties
  <1> HIDE DEF n
  <1>2. \A i \in DOMAIN u : i = n + 1 \/ i \in DOMAIN s
    BY <1>1
  <1>3. ASSUME NEW i \in DOMAIN u, NEW k \in DOMAIN u, u[i].origen = "LOCAL", u[k].origen = "LOCAL", u[i].job = u[k].job
        PROVE  i = k
    <2>1. CASE i \in DOMAIN s /\ k \in DOMAIN s
      BY <1>1, <1>3, <2>1 DEF Fila
    <2>2. CASE i = n + 1 /\ k \in DOMAIN s
      BY <1>1, <1>3, <2>2 DEF Cabe
    <2>3. CASE i \in DOMAIN s /\ k = n + 1
      BY <1>1, <1>3, <2>3 DEF Cabe
    <2> QED
      BY <1>2, <2>1, <2>2, <2>3
  <1>4. ASSUME NEW i \in DOMAIN u
        PROVE  IF u[i].origen = "LOCAL"
               THEN u[i].job \in S /\ u[i].conn = ERL /\ u[i].monto = Pide(u[i].job, t) /\ u[i].monto # 0
               ELSE u[i].job \in Ajenos
    <2>1. CASE i \in DOMAIN s
      <3>1. u[i] = s[i]
        BY <1>1, <2>1
      <3> QED
        BY <2>1, <3>1 DEF Fila
    <2>2. CASE i = n + 1
      BY <1>1, <2>2 DEF Cabe
    <2> QED
      BY <1>2, <2>1, <2>2
  <1>5. ASSUME NEW j PROVE (\E i \in DOMAIN u : u[i].job = j) <=> j = a.job \/ \E i \in DOMAIN s : s[i].job = j
    <2>1. ASSUME NEW i \in DOMAIN u, u[i].job = j PROVE j = a.job \/ \E k \in DOMAIN s : s[k].job = j
      BY <1>1, <1>2, <2>1
    <2>2. ASSUME NEW i \in DOMAIN s, s[i].job = j PROVE i \in DOMAIN u /\ u[i].job = j
      BY <1>1, <2>2
    <2>3. n + 1 \in DOMAIN u /\ u[n + 1].job = a.job
      BY <1>1
    <2> QED
      BY <2>1, <2>2, <2>3
  <1> QED
    BY <1>3, <1>4, <1>5 DEF Fila, UnoMas

(* The queues after a reservation, and what changes for its job. *)
LEMMA ReservaBien ==
  ASSUME NEW Q, NEW E, Permisos(Q, E), NEW x \in Managers(Q, E), NEW t \in Tipos, NEW m \in Nat, NEW j \in Jobs,
         NEW c \in Q[t], NEW origen \in {"LOCAL", "REMOTE"}, NEW S, S \subseteq Propios, Cuadra(x, S), ~EnTabla(x, j),
         IF origen = "LOCAL" THEN j \in S /\ c = ERL /\ m = Pide(j, t) /\ m # 0 /\ ~Espera(x, t, j) ELSE j \in Ajenos
  PROVE  LET r == reserve_resource(x, t, m, j, c, origen)
         IN  /\ Cuadra(r.nd, S) /\ Progresa(x, r.nd) /\ r.nd.tx = x.tx /\ r.nd.tabla = x.tabla
             /\ \A i \in Propios : i # j => Igual(x, r.nd, i)
             /\ \A u \in Tipos \ {t} : (Espera(r.nd, u, j) <=> Espera(x, u, j)) /\ r.nd.tiene[u][j] = x.tiene[u][j]
             /\ r.result = "RM_GRANTED" =>
                  (Espera(r.nd, t, j) <=> Espera(x, t, j)) /\ r.nd.tiene[t][j] = x.tiene[t][j] + m
             /\ r.result = "RM_QUEUED" => Espera(r.nd, t, j) /\ r.nd.tiene[t][j] = x.tiene[t][j]
             /\ r.result = "RM_DENIED" => r.nd = x
  <1>0. PICK a, y, res : /\ a = [job |-> j, monto |-> m, conn |-> c, origen |-> origen]
                         /\ y = reserve_resource(x, t, m, j, c, origen).nd
                         /\ res = reserve_resource(x, t, m, j, c, origen).result
    OBVIOUS
  <1>1. Reservada(x, y, t, j, m, a, res) /\ res \in {"RM_GRANTED", "RM_DENIED", "RM_QUEUED"}
    <2>1. Reservada(x, y, t, j, m, a, res)
      BY <1>0, HaceReserva
    <2>2. res \in {"RM_GRANTED", "RM_DENIED", "RM_QUEUED"}
      BY <1>0, Reserva
    <2> QED
      BY <2>1, <2>2
  <1>2. a \in Encoladas(Q[t]) /\ x.rec[t].cola \in Seq(Encoladas(Q[t])) /\ x.tiene \in [Tipos -> [Jobs -> Int]]
    <2>1. a \in Encoladas(Q[t])
      BY <1>0 DEF Encoladas
    <2>2. x.rec[t] \in Recurso(t, Q[t]) /\ x.tiene \in [Tipos -> [Jobs -> Int]]
      BY Campos DEF Recursos
    <2> QED
      BY <2>1, <2>2 DEF Recurso
  <1>3. Fila(x.rec[t].cola, t, S)
    BY DEF Cuadra, EnFila
  <1>4. Cabe(a, x.rec[t].cola, t, S)
    BY <1>0 DEF Espera, Cabe
  <1>5. /\ Fila(y.rec[t].cola, t, S)
        /\ \A i : i # j => (Espera(y, t, i) <=> Espera(x, t, i))
        /\ res # "RM_QUEUED" => (Espera(y, t, j) <=> Espera(x, t, j))
        /\ res = "RM_QUEUED" => Espera(y, t, j)
    <2>1. CASE res # "RM_QUEUED"
      <3>1. y.rec[t].cola = x.rec[t].cola
        BY <1>1, <2>1 DEF Reservada
      <3> QED
        BY <1>3, <2>1, <3>1 DEF Espera
    <2>2. CASE res = "RM_QUEUED"
      <3>1. PICK s, u : s = x.rec[t].cola /\ u = Append(s, a)
        OBVIOUS
      <3>2. y.rec[t].cola = u /\ s \in Seq(Encoladas(Q[t]))
        BY <1>1, <1>2, <2>2, <3>1 DEF Reservada
      <3>3. Fila(u, t, S) /\ UnoMas(u, s, a.job)
        <4>1. PICK C : C = Encoladas(Q[t])
          OBVIOUS
        <4>2. s \in Seq(C) /\ a \in C /\ Fila(s, t, S) /\ Cabe(a, s, t, S)
          BY <1>2, <1>3, <1>4, <3>1, <3>2, <4>1
        <4> QED
          BY <3>1, <4>2, FilaMas
      <3>4. a.job = j
        BY <1>0
      <3>5. \A i : (Espera(y, t, i) <=> \E k \in DOMAIN u : u[k].job = i)
                 /\ (Espera(x, t, i) <=> \E k \in DOMAIN s : s[k].job = i)
        BY <3>1, <3>2, Zenon DEF Espera
      <3>6. Fila(y.rec[t].cola, t, S) /\ \A i : Espera(y, t, i) <=> i = j \/ Espera(x, t, i)
        BY <3>2, <3>3, <3>4, <3>5, Zenon DEF UnoMas
      <3> QED
        BY <2>2, <3>6
    <2> QED
      BY <2>1, <2>2
  <1>6. \A u \in Tipos \ {t} : y.rec[u].cola = x.rec[u].cola /\ \A i : Espera(y, u, i) <=> Espera(x, u, i)
    BY <1>1 DEF Reservada, Espera
  <1>7. Propios \subseteq Jobs /\ Ajenos \cap Propios = {}
    BY Parametros
  <1>8. \A i \in Propios : i # j => Igual(x, y, i)
    BY <1>1, <1>5, <1>6, <1>7 DEF Reservada, Igual
  <1>9. ASSUME NEW i \in Propios, y.tiene[t][i] # 0 PROVE i \in S /\ Pide(i, t) # 0
    <2>1. CASE i # j
      BY <1>8, <1>9, <2>1 DEF Igual, Cuadra, EnFila
    <2>2. CASE i = j /\ j \in S
      BY <1>7, <2>2
    <2>3. CASE i = j /\ j \notin S
      BY <1>7, <2>3
    <2> QED
      BY <2>1, <2>2, <2>3
  <1>10. EnFila(y, S)
    <2>1. ASSUME NEW u \in Tipos \ {t} PROVE Fila(y.rec[u].cola, u, S) /\ \A i \in Propios : y.tiene[u][i] # 0 => i \in S /\ Pide(i, u) # 0
      <3>1. \A i \in Propios : y.tiene[u][i] = x.tiene[u][i]
        BY <1>1, <1>7 DEF Reservada
      <3> QED
        BY <1>6, <3>1 DEF Cuadra, EnFila
    <2> QED
      BY <1>5, <1>9, <2>1 DEF EnFila
  <1>11. y.tabla = x.tabla /\ y.tx = x.tx
    BY <1>1 DEF Reservada
  <1>12. Cuadra(y, S) /\ Progresa(x, y)
    <2>1. \A i \in S : EnTabla(x, i) => Igual(x, y, i)
      BY <1>8
    <2> QED
      BY <1>10, <1>11, <2>1, Aparte
  <1>13. \A u \in Tipos \ {t} : y.tiene[u][j] = x.tiene[u][j]
    BY <1>1 DEF Reservada
  <1>14. /\ res = "RM_GRANTED" => y.tiene[t][j] = x.tiene[t][j] + m
         /\ res = "RM_QUEUED" => y.tiene[t][j] = x.tiene[t][j]
         /\ res = "RM_DENIED" => y = x
    BY <1>1 DEF Reservada
  <1> QED
    BY <1>0, <1>5, <1>6, <1>8, <1>11, <1>12, <1>13, <1>14

(* RESERVE of Vecino. *)
LEMMA OrdenReserve ==
  ASSUME IInv, Orden, NEW j \in Ajenos, Reserve(j)
  PROVE  Orden'
  <1> DEFINE x == [nd EXCEPT !.tx = << >>]
             t == Ajeno[j].tipo
             m == Ajeno[j].monto
             r == reserve_resource(x, t, m, j, Vuelta, "REMOTE")
             v == RESERVE(x, Vuelta, MensajeRecurso("RESERVE", j, t, m))
  <1>1. /\ est[Vuelta] = "abierta" /\ nd' = [v EXCEPT !.tx = << >>]
        /\ UNCHANGED <<lock, hace, armando, est, cliente, enVecino>>
    BY DEF Reserve, Libre
  <1>2. j \in Jobs /\ t \in Tipos /\ m \in Nat /\ j \notin Propios
    BY Parametros
  <1>3. x = nd
    BY EnOrden DEF Managers
  <1>4. Vuelta \in Pueden[t]
    BY <1>1, <1>2 DEF Pueden, Conexiones
  <1>5. PICK y : y = r.nd
    OBVIOUS
  <1> HIDE DEF x, t, m
  <1>6. y \in Managers(Pueden, Duenos)
    BY <1>2, <1>3, <1>4, <1>5, EnOrden, Reserva
  <1>7. Cuadra(y, Pedidos) /\ Progresa(nd, y) /\ \A i \in Propios : i # j => Igual(nd, y, i)
    <2>1. ~EnTabla(nd, j) /\ nd \in Managers(Pueden, Duenos) /\ Permisos(Pueden, Duenos) /\ Cuadra(nd, Pedidos)
          /\ Pedidos \subseteq Propios
      BY <1>2, EnOrden
    <2> QED
      BY <1>2, <1>3, <1>4, <1>5, <2>1, ReservaBien
  <1>8. v \in {y} \cup {send_message(y, Vuelta, Mensaje(k, j)) : k \in {"GRANTED", "DENIED"}}
    <2> HIDE DEF r
    <2>1. v = CASE r.result = "RM_DENIED"  -> send_message(y, Vuelta, Mensaje("DENIED", j))
                [] r.result = "RM_GRANTED" -> send_message(y, Vuelta, Mensaje("GRANTED", j))
                [] OTHER -> y
      BY <1>5 DEF RESERVE, MensajeRecurso, r
    <2>2. r.result \in {"RM_GRANTED", "RM_DENIED", "RM_QUEUED"}
      BY <1>2, <1>3, <1>4, EnOrden, Reserva DEF r
    <2> HIDE DEF v
    <2> QED
      BY <2>1, <2>2
  <1> HIDE DEF r, v
  <1>9. v \in Managers(Pueden, Duenos) /\ v.tabla = y.tabla /\ v.rec = y.rec /\ v.tiene = y.tiene
    <2>1. ASSUME NEW k \in {"GRANTED", "DENIED"}, NEW u, u = send_message(y, Vuelta, Mensaje(k, j))
          PROVE  u \in Managers(Pueden, Duenos) /\ u.tabla = y.tabla /\ u.rec = y.rec /\ u.tiene = y.tiene
      <3>1. Mensaje(k, j) \in Textos /\ Vuelta \in Conexiones
        BY <1>2, Palabras DEF Conexiones
      <3>2. u \in Managers(Pueden, Duenos)
        BY <1>6, <2>1, <3>1, Envia
      <3>3. u.tabla = y.tabla /\ u.rec = y.rec /\ u.tiene = y.tiene
        BY <1>6, <2>1 DEF send_message, Managers
      <3> QED
        BY <3>2, <3>3
    <2> QED
      BY <1>6, <1>8, <2>1
  <1>10. nd'.tabla = y.tabla /\ nd'.rec = y.rec /\ nd'.tiene = y.tiene
    BY <1>1, <1>9 DEF Managers
  <1>11. Cuadra(nd', Pedidos) /\ Progresa(y, nd')
    BY <1>7, <1>10, MismaMesa
  <1>12. Deriva(nd, nd', {})
    BY <1>7, <1>11, Progresan, ProgresaDeriva
  <1>13. \A i \in Propios : Igual(nd, nd', i)
    BY <1>2, <1>7, <1>10 DEF Igual, Espera
  <1>14. Siguen /\ enVecino' \in [Propios -> Nat] /\ \A i \in Propios : enVecino'[i] <= enVecino[i]
    BY <1>1, EnOrden DEF Siguen, Clientes
  <1> QED
    BY <1>1, <1>11, <1>12, <1>13, <1>14, MantieneQuieto

(* A new job of the client. *)
LEMMA OrdenJobRequest ==
  ASSUME IInv, Orden, NEW j \in Propios, JobRequest(j)
  PROVE  Orden'
  <1>1. /\ hace[ERL] = << >> /\ cliente[j] = "nuevo" /\ lock = NULL /\ lock' = ERL
        /\ armando' = [confirmadas |-> << >>, pendientes |-> << >>]
        /\ cliente' = [cliente EXCEPT ![j] = "esperando"]
        /\ UNCHANGED <<nd, est, ajeno, enVecino>>
    BY DEF JobRequest, Libre
  <1>2. PICK s : s = Falta(j, 0) /\ Sigue(ERL, s)
    <2>1. Len(Pedido[j]) \in Nat
      BY SonItems
    <2> DEFINE f == [i \in 1 .. Len(Pedido[j]) + 1 |->
                      IF i > Len(Pedido[j]) THEN [op |-> "insertar", job |-> j]
                      ELSE [op |-> "item", job |-> j, it |-> Pedido[j][i]]]
    <2>2. Sigue(ERL, f)
      BY DEF JobRequest
    <2>3. f = Falta(j, 0)
      <3>1. PICK n : n = Len(Pedido[j])
        OBVIOUS
      <3>2. n - 0 = n /\ \A i \in 1 .. n + 1 : 0 + i = i
        BY <2>1, <3>1
      <3> QED
        BY <3>1, <3>2 DEF Falta
    <2> QED
      BY <2>2, <2>3
  <1>3. /\ s # << >> /\ Head(s).job = j /\ \A i \in DOMAIN s : s[i].op \in {"item", "insertar"}
    <2>1. 0 \in 0 .. Len(Pedido[j])
      BY SonItems
    <2> QED
      BY <1>2, <2>1, FaltaEs
  <1>4. hace'[ERL] = s /\ \A c \in Conexiones \ {ERL} : hace'[c] = hace[c]
    BY <1>2 DEF Sigue, IInv, EnManos, Conexiones
  <1>5. Pedidos' = Pedidos \cup {j} /\ j \notin Pedidos /\ cliente'[j] = "esperando"
    BY <1>1, EnOrden DEF Pedidos, Clientes
  <1>6. ~EnTabla(nd, j) /\ \A t \in Tipos : ~Espera(nd, t, j) /\ nd.tiene[t][j] = 0
    <2>1. ~EnTabla(nd, j)
      BY <1>5, EnOrden
    <2>2. \A t \in Tipos : nd.tiene[t][j] = 0
      BY <1>5 DEF Orden, Cuadra, EnFila
    <2>3. ASSUME NEW t \in Tipos PROVE ~Espera(nd, t, j)
      <3>1. Fila(nd.rec[t].cola, t, Pedidos)
        BY DEF Orden, Cuadra, EnFila
      <3>2. j \notin Ajenos
        BY Parametros
      <3> QED
        BY <1>5, <3>1, <3>2 DEF Espera, Fila
    <2> QED
      BY <2>1, <2>2, <2>3
  <1>7. Cuadra(nd, Pedidos)'
    <2>1. Cuadra(nd, Pedidos \cup {j})
      <3>1. \A u, t : Fila(u, t, Pedidos) => Fila(u, t, Pedidos \cup {j})
        BY DEF Fila
      <3>2. EnFila(nd, Pedidos \cup {j})
        BY <3>1, EnOrden DEF Cuadra, EnFila
      <3> QED
        BY <3>2, EnOrden DEF Cuadra
    <2> QED
      BY <1>1, <1>5, <2>1
  <1>8. EnVilo' /\ enVecino[j] = 0
    BY <1>1, EnOrden DEF Orden, EnVilo, Clientes
  <1>9. Servidos'
    BY <1>1, <1>5, EnOrden DEF Orden, Servidos, Clientes, NadaAqui
  <1>10. EnCurso'
    <2>1. 0 \in 0 .. Len(Pedido[j])
      BY SonItems
    <2>2. PICK e : e = << >> /\ armando' = [confirmadas |-> e, pendientes |-> e]
      BY <1>1
    <2>3. /\ DOMAIN e = {} /\ Len(e) = 0
      BY <2>2
    <2>4. \A t, r : ~Suya(e, t, r)
      BY <2>3 DEF Suya
    <2>5. Cuadran(nd, j, e)
      BY <1>6, <2>3, <2>4 DEF Cuadran
    <2>6. \A t \in Tipos : Hasta(j, 0, t) = 0
      BY HastaCero
    <2>7. enVecino'[j] <= Len(armando'.pendientes)
      BY <1>1, <1>8, <2>2, <2>3
    <2>8. Arma(j, 0)'
      <3>1. hace'[ERL] = Falta(j, 0) /\ cliente'[j] \notin {"nuevo", "trabajando"} /\ ~EnTabla(nd', j)
        BY <1>1, <1>2, <1>4, <1>5, <1>6
      <3>2. Cuadran(nd', j, armando'.confirmadas)
        BY <1>1, <2>2, <2>5
      <3>3. \A t \in Tipos : Hasta(j, 0, t) # 0 <=>
              Suya(armando'.confirmadas, t, "RM_QUEUED") \/ Suya(armando'.confirmadas, t, "RM_GRANTED")
        BY <2>2, <2>4, <2>6
      <3> QED
        BY <2>7, <3>1, <3>2, <3>3 DEF Arma
    <2> QED
      BY <1>1, <2>1, <2>8 DEF EnCurso
  <1>11. Difuntos'
    <2>1. ERL \in Conexiones /\ hace \in [Conexiones -> Seq(Abiertas \cup Cerrando)]
      BY DEF IInv, EnManos, Conexiones
    <2>2. \A i \in Propios : /\ cliente[i] # "nuevo" => cliente'[i] # "nuevo"
                             /\ cliente[i] = "abandonado" => cliente'[i] = "abandonado"
                             /\ EnTabla(nd', i) => EnTabla(nd, i) \/ cliente[i] = "nuevo" \/ Pidiendose(i)
                             /\ Pidiendose(i)' => Pidiendose(i) \/ cliente[i] = "nuevo"
      BY <1>1, <1>3, <1>4, EnOrden DEF Clientes, Pidiendose
    <2>3. \A i \in DOMAIN s : \A l \in Propios : ~Trata(s[i], l)
      BY <1>3 DEF Trata
    <2> QED
      BY <1>2, <2>1, <2>2, <2>3, DifuntosSigue DEF Orden
  <1> QED
    BY <1>7, <1>8, <1>9, <1>10, <1>11 DEF Orden

(* The JOB_REQUEST under way, at its next item or at its end. *)
LEMMA AlPedir ==
  ASSUME IInv, Orden, hace[ERL] # << >>, Head(hace[ERL]).op \in {"item", "insertar"}
  PROVE  \E j \in Propios : \E p \in 0 .. Len(Pedido[j]) :
           LET h == Head(hace[ERL])
           IN  /\ Arma(j, p) /\ lock = ERL /\ h.job = j /\ Pidiendose(j) /\ j \in Pedidos
               /\ h.op = "insertar" => p = Len(Pedido[j])
               /\ h.op = "item" => /\ p + 1 \in 1 .. Len(Pedido[j]) /\ h.it = Pedido[j][p + 1]
                                   /\ Tail(hace[ERL]) = Falta(j, p + 1)
               /\ est[ERL] = "abierta" /\ ERL \in Duenos /\ \A t \in Tipos : ERL \in Pueden[t]
  <1> DEFINE h == Head(hace[ERL])
  <1>1. lock = ERL
    <2>1. h = hace[ERL][1] /\ 1 \in DOMAIN hace[ERL]
      BY EnOrden DEF Conexiones
    <2> HIDE DEF h
    <2>2. hace[ERL][1].op \in {"item", "insertar"}
      BY <2>1 DEF h
    <2> QED
      BY <2>1, <2>2 DEF Orden, EnCurso
  <1>2. PICK j \in Propios : \E p \in 0 .. Len(Pedido[j]) : Arma(j, p) /\ Pidiendose(j) /\ h.job = j
    BY <1>1, ConCandado DEF Orden
  <1>3. PICK p \in 0 .. Len(Pedido[j]) : Arma(j, p) /\ Pidiendose(j) /\ h.job = j
    BY <1>2
  <1>4. PICK s : s = Falta(j, p)
    OBVIOUS
  <1>5. /\ hace[ERL] = s /\ Head(s) = s[1] /\ s[1].op = IF p = Len(Pedido[j]) THEN "insertar" ELSE "item"
        /\ p # Len(Pedido[j]) => s[1].it = Pedido[j][p + 1] /\ Tail(s) = Falta(j, p + 1)
    <2>1. hace[ERL] = s
      BY <1>3, <1>4 DEF Arma
    <2> QED
      BY <1>4, <2>1, FaltaEs
  <1>6. j \in Pedidos
    BY <1>3 DEF Arma, Pedidos
  <1>7. p # Len(Pedido[j]) => p + 1 \in 1 .. Len(Pedido[j])
    BY SonItems
  <1>8. est[ERL] = "abierta" /\ ERL \in Duenos /\ \A t \in Tipos : ERL \in Pueden[t]
    BY Pidiendo DEF IInv
  <1>9. h = s[1] /\ Tail(hace[ERL]) = Tail(s)
    BY <1>5
  <1> HIDE DEF h
  <1>10. /\ h.op = "insertar" => p = Len(Pedido[j])
         /\ h.op = "item" => /\ p + 1 \in 1 .. Len(Pedido[j]) /\ h.it = Pedido[j][p + 1]
                             /\ Tail(hace[ERL]) = Falta(j, p + 1)
    BY <1>5, <1>7, <1>9
  <1> QED
    BY <1>1, <1>3, <1>6, <1>8, <1>10 DEF h

(* The table with one more job. *)
LEMMA MesaMas ==
  ASSUME NEW Q, NEW E, NEW x \in Managers(Q, E), NEW w \in Trabajos(E), NEW S, Cuadra(x, S),
         w.job \in S, ~EnTabla(x, w.job), Cuadran(x, w.job, w.confirmadas), Completa(w.job, w.confirmadas),
         NEW y, y = tabla_jobs_insertar_job(x, w)
  PROVE  /\ y \in Managers(Q, E) /\ Cuadra(y, S) /\ y.tx = x.tx
         /\ \A i \in DOMAIN y.tabla : y.tabla[i] = w \/ \E k \in DOMAIN x.tabla : y.tabla[i] = x.tabla[k]
         /\ \A j : EnTabla(y, j) <=> j = w.job \/ EnTabla(x, j)
         /\ \A j : Cumple(x, j) => Cumple(y, j)
  <1>1. PICK s, u : s = x.tabla /\ u = <<w>> \o s
    OBVIOUS
  <1>2. s \in Seq(Trabajos(E))
    BY <1>1, Campos
  <1>3. /\ u \in Seq(Trabajos(E)) /\ Len(s) \in Nat
        /\ DOMAIN s = 1 .. Len(s) /\ DOMAIN u = 1 .. Len(s) + 1
        /\ u[1] = w /\ \A i \in DOMAIN s : i + 1 \in DOMAIN u /\ u[i + 1] = s[i]
        /\ \A i \in DOMAIN u : i = 1 \/ (i - 1 \in DOMAIN s /\ u[i] = s[i - 1])
    BY <1>1, <1>2, Antepone
  <1>4. y = [x EXCEPT !.tabla = u]
    BY <1>1 DEF tabla_jobs_insertar_job, Managers
  <1>5. y \in Managers(Q, E)
    BY <1>3, <1>4, CambiaTabla
  <1>6. y.tabla = u /\ y.tx = x.tx /\ y.rec = x.rec /\ y.tiene = x.tiene
    BY <1>4 DEF Managers
  <1>7. \A i, l : Cuadran(x, i, l) => Cuadran(y, i, l)
    BY <1>6 DEF Cuadran, Espera
  <1>8. \A i \in DOMAIN u : i = 1 \/ \E k \in DOMAIN s : i = k + 1 /\ u[i] = s[k]
    <2> SUFFICES ASSUME NEW i \in DOMAIN u, i # 1 PROVE \E k \in DOMAIN s : i = k + 1 /\ u[i] = s[k]
      OBVIOUS
    <2>1. i - 1 \in DOMAIN s /\ u[i] = s[i - 1] /\ i = (i - 1) + 1
      BY <1>3
    <2> QED
      BY <2>1
  <1>9. ASSUME NEW i \in DOMAIN u
        PROVE  u[i].job \in S /\ Cuadran(y, u[i].job, u[i].confirmadas) /\ Completa(u[i].job, u[i].confirmadas)
    <2>1. CASE i = 1
      BY <1>3, <1>7, <2>1
    <2>2. CASE i # 1
      BY <1>1, <1>7, <1>8, <2>2 DEF Cuadra
    <2> QED
      BY <2>1, <2>2
  <1>10. ASSUME NEW i \in DOMAIN u, NEW k \in DOMAIN u, u[i].job = u[k].job PROVE i = k
    <2>1. \A l \in DOMAIN s : s[l].job # w.job
      BY <1>1 DEF EnTabla
    <2>2. \A l, m \in DOMAIN s : s[l].job = s[m].job => l = m
      BY <1>1 DEF Cuadra
    <2>3. CASE i = 1 \/ k = 1
      BY <1>3, <1>8, <1>10, <2>1, <2>3
    <2>4. CASE i # 1 /\ k # 1
      BY <1>8, <1>10, <2>2, <2>4
    <2> QED
      BY <2>3, <2>4
  <1>11. Cuadra(y, S)
    <2>1. EnFila(y, S)
      BY <1>6 DEF Cuadra, EnFila
    <2> QED
      BY <1>6, <1>9, <1>10, <2>1 DEF Cuadra
  <1>12. \A i \in DOMAIN u : u[i] = w \/ \E k \in DOMAIN s : u[i] = s[k]
    BY <1>3, <1>8
  <1>13. ASSUME NEW j PROVE EnTabla(y, j) <=> j = w.job \/ EnTabla(x, j)
    <2>1. ASSUME EnTabla(y, j) PROVE j = w.job \/ EnTabla(x, j)
      BY <1>1, <1>6, <1>12, <2>1 DEF EnTabla
    <2>2. ASSUME EnTabla(x, j) PROVE EnTabla(y, j)
      <3>1. PICK k \in DOMAIN s : s[k].job = j
        BY <1>1, <2>2 DEF EnTabla
      <3>2. k + 1 \in DOMAIN u /\ u[k + 1].job = j
        BY <1>3, <3>1
      <3> QED
        BY <1>6, <3>2 DEF EnTabla
    <2>3. EnTabla(y, w.job)
      <3>1. 1 \in DOMAIN u
        BY <1>3
      <3> QED
        BY <1>3, <1>6, <3>1 DEF EnTabla
    <2> QED
      BY <2>1, <2>2, <2>3
  <1>14. ASSUME NEW j, Cumple(x, j) PROVE Cumple(y, j)
    BY <1>1, <1>3, <1>6, <1>14 DEF Cumple
  <1> QED
    BY <1>1, <1>5, <1>6, <1>11, <1>12, <1>13, <1>14

(* A job enters the table, and its client is told if nothing is left. *)
LEMMA OrdenInsertar ==
  ASSUME UnoPorTipo, IInv, Orden, Insertar
  PROVE  Orden'
  <1> DEFINE h == Head(hace[ERL])
             w == [job |-> h.job, conn |-> ERL,
                   confirmadas |-> armando.confirmadas, pendientes |-> armando.pendientes]
             x == tabla_jobs_insertar_job(nd, w)
             z == send_message(x, ERL, Mensaje("JOB_GRANTED", h.job))
             y == IF tabla_jobs_verificar(x, h.job) THEN z ELSE x
             e == << >>
  <1>1. /\ hace[ERL] # << >> /\ h.op = "insertar" /\ Entregar(y)
        /\ lock' = NULL /\ Sigue(ERL, e) /\ UNCHANGED <<armando, est, enVecino>>
    BY DEF Insertar, Toca
  <1>2. PICK j \in Propios : \E p \in 0 .. Len(Pedido[j]) :
          /\ Arma(j, p) /\ lock = ERL /\ h.job = j /\ Pidiendose(j) /\ j \in Pedidos
          /\ p = Len(Pedido[j]) /\ ERL \in Duenos
    BY <1>1, AlPedir, Zenon
  <1>3. /\ Arma(j, Len(Pedido[j])) /\ lock = ERL /\ h.job = j /\ Pidiendose(j) /\ j \in Pedidos
        /\ ERL \in Duenos /\ j \in Jobs
    BY <1>2, EnOrden
  <1> HIDE DEF h
  <1>4. PICK s : s = armando.confirmadas
    OBVIOUS
  <1>5. Cuadran(nd, j, s) /\ Completa(j, s) /\ ~EnTabla(nd, j)
    <2>1. \A t \in Tipos : Pide(j, t) = Hasta(j, Len(Pedido[j]), t)
      BY PideEs
    <2> QED
      BY <1>3, <1>4, <2>1 DEF Arma, Completa
  <1>6. w \in Trabajos(Duenos) /\ w.job = j /\ w.confirmadas = s /\ w.pendientes = armando.pendientes
    BY <1>3, <1>4 DEF IInv, Armado, Trabajos
  <1> HIDE DEF w
  <1>7. /\ x \in Managers(Pueden, Duenos) /\ Cuadra(x, Pedidos) /\ x.tx = nd.tx
        /\ \A i \in DOMAIN x.tabla : x.tabla[i] = w \/ \E k \in DOMAIN nd.tabla : x.tabla[i] = nd.tabla[k]
        /\ \A i : EnTabla(x, i) <=> i = j \/ EnTabla(nd, i)
        /\ \A i : Cumple(nd, i) => Cumple(x, i)
    BY <1>3, <1>5, <1>6, EnOrden, MesaMas
  <1> HIDE DEF x
  <1>8. y \in Managers(Pueden, Duenos) /\ Cuadra(y, Pedidos) /\ BienDicho(y) /\ y.tabla = x.tabla
    <2>1. BienDicho(x)
      BY <1>7, EnOrden DEF BienDicho
    <2>2. CASE tabla_jobs_verificar(x, h.job)
      <3>1. PICK m : m = Mensaje("JOB_GRANTED", h.job)
        OBVIOUS
      <3>2. m \in Textos /\ m.job = j /\ ERL \in Conexiones
        BY <1>3, <3>1, Palabras DEF Mensaje, Conexiones
      <3>3. Cumple(x, j)
        BY <1>3, <1>7, <2>2, Verifica
      <3>4. PICK u : u = send_message(x, ERL, m)
        OBVIOUS
      <3>5. u \in Managers(Pueden, Duenos) /\ Cuadra(u, Pedidos) /\ BienDicho(u) /\ u.tabla = x.tabla
        BY <1>7, <2>1, <3>2, <3>3, <3>4, SeDice, Envia
      <3>6. u = y
        BY <2>2, <3>1, <3>4
      <3> QED
        BY <3>5, <3>6
    <2>3. CASE ~tabla_jobs_verificar(x, h.job)
      BY <1>7, <2>1, <2>3
    <2> QED
      BY <2>2, <2>3
  <1> HIDE DEF y
  <1>9. Cuadra(nd', Pedidos) /\ Siguen /\ nd'.tabla = x.tabla
    BY <1>1, <1>8, EnOrden, Reparte
  <1>10. Pedidos' = Pedidos /\ Cuadra(nd, Pedidos)'
    BY <1>9 DEF Pedidos, Siguen
  <1>11. /\ \A i : EnTabla(nd', i) <=> i = j \/ EnTabla(nd, i)
         /\ \A i : Cumple(nd, i) => Cumple(nd', i)
    BY <1>7, <1>9 DEF EnTabla, Cumple
  <1>12. EnVilo'
    <2>1. \A i \in DOMAIN nd'.tabla : enVecino'[nd'.tabla[i].job] <= Len(nd'.tabla[i].pendientes)
      BY <1>1, <1>3, <1>6, <1>7, <1>9 DEF Orden, EnVilo, Arma
    <2> QED
      BY <1>1, <1>9, <2>1 DEF Orden, EnVilo, Siguen
  <1>13. Servidos'
    <2>1. ASSUME NEW i \in Propios, cliente'[i] = "trabajando"
          PROVE  IF EnTabla(nd', i) THEN Cumple(nd', i) ELSE NadaAqui(i)
      <3>1. cliente[i] = "trabajando" \/ Cumple(nd', i)
        BY <1>9, <2>1 DEF Siguen
      <3>2. CASE Cumple(nd', i)
        BY <3>2 DEF Cumple, EnTabla
      <3>3. CASE cliente[i] = "trabajando"
        <4>1. i # j
          BY <1>3, <3>3 DEF Arma
        <4> QED
          BY <1>11, <3>3, <4>1 DEF Orden, Servidos
      <3> QED
        BY <3>1, <3>2, <3>3
    <2> QED
      BY <2>1 DEF Servidos, NadaAqui
  <1>14. hace'[ERL] = e /\ lock' # ERL
    BY <1>1 DEF Sigue, IInv, EnManos, Conexiones, NULL, ERL
  <1>15. EnCurso'
    BY <1>14 DEF EnCurso
  <1>16. Difuntos'
    <2>1. ERL \in Conexiones /\ hace \in [Conexiones -> Seq(Abiertas \cup Cerrando)]
      BY DEF IInv, EnManos, Conexiones
    <2>2. \A i \in Propios : /\ cliente[i] # "nuevo" => cliente'[i] # "nuevo"
                             /\ cliente[i] = "abandonado" => cliente'[i] = "abandonado"
                             /\ EnTabla(nd', i) => EnTabla(nd, i) \/ cliente[i] = "nuevo" \/ Pidiendose(i)
                             /\ Pidiendose(i)' => Pidiendose(i) \/ cliente[i] = "nuevo"
      BY <1>3, <1>9, <1>11, <1>14 DEF Siguen, Pidiendose
    <2>3. PICK s0 : s0 = e
      OBVIOUS
    <2>4. Sigue(ERL, s0) /\ \A i \in DOMAIN s0 : FALSE
      BY <1>1, <2>3
    <2> QED
      BY <2>1, <2>2, <2>4, DifuntosSigue DEF Orden
  <1> QED
    BY <1>10, <1>12, <1>13, <1>15, <1>16 DEF Orden

Alguna(s, t) == Suya(s, t, "RM_QUEUED") \/ Suya(s, t, "RM_GRANTED")

(* The job j, with the allocations s, got the allocation a of type t. *)
Anotada(x, y, t, j, a, s) ==
  /\ Cuadran(x, j, s) /\ ~Alguna(s, t)
  /\ a.lado = "LOCAL" /\ a.tipo = t /\ a.monto = Pide(j, t) /\ a.monto # 0
  /\ \A v \in Tipos \ {t} : (Espera(y, v, j) <=> Espera(x, v, j)) /\ y.tiene[v][j] = x.tiene[v][j]
  /\ a.result = "RM_GRANTED" => (Espera(y, t, j) <=> Espera(x, t, j)) /\ y.tiene[t][j] = x.tiene[t][j] + a.monto
  /\ a.result = "RM_QUEUED" => Espera(y, t, j) /\ y.tiene[t][j] = x.tiene[t][j]

(* A reservation here adds its allocation to those of the job. *)
LEMMA SumaLocal ==
  ASSUME NEW s \in Seq(Allocs), NEW a \in Allocs, NEW t \in Tipos, NEW j, NEW x, NEW y, Anotada(x, y, t, j, a, s)
  PROVE  LET u == <<a>> \o s
         IN  Cuadran(y, j, u) /\ \A v \in Tipos : Alguna(u, v) <=> v = t \/ Alguna(s, v)
  <1>0. PICK u : u = <<a>> \o s
    OBVIOUS
  <1>12. /\ Cuadran(x, j, s) /\ ~Alguna(s, t)
        /\ a.lado = "LOCAL" /\ a.tipo = t /\ a.monto = Pide(j, t) /\ a.monto # 0
    BY DEF Anotada
  <1>1. /\ u[1] = a /\ \A i \in DOMAIN s : i + 1 \in DOMAIN u /\ u[i + 1] = s[i]
        /\ \A i \in DOMAIN u : i = 1 \/ (i - 1 \in DOMAIN s /\ u[i] = s[i - 1])
        /\ DOMAIN s = 1 .. Len(s) /\ DOMAIN u = 1 .. Len(s) + 1 /\ Len(s) \in Nat
    BY <1>0, Antepone
  <1>2. \A i \in DOMAIN u : i = 1 \/ \E k \in DOMAIN s : i = k + 1 /\ u[i] = s[k]
    <2> SUFFICES ASSUME NEW i \in DOMAIN u, i # 1 PROVE \E k \in DOMAIN s : i = k + 1 /\ u[i] = s[k]
      OBVIOUS
    <2>1. i - 1 \in DOMAIN s /\ u[i] = s[i - 1] /\ i = (i - 1) + 1
      BY <1>1
    <2> QED
      BY <2>1
  <1>3. a.result \in {"RM_GRANTED", "RM_QUEUED"} /\ a.monto \in Nat
    BY <1>12 DEF Allocs, Locales, Remotas, Anotada
  <1>4. \A i \in DOMAIN s : s[i].lado = "LOCAL" => s[i].tipo # t
    <2> SUFFICES ASSUME NEW i \in DOMAIN s, s[i].lado = "LOCAL", s[i].tipo = t PROVE FALSE
      OBVIOUS
    <2>1. s[i] \in Allocs
      BY LenProperties, ElementOfSeq
    <2>2. s[i].result \in {"RM_GRANTED", "RM_QUEUED"}
      BY <2>1 DEF Allocs, Locales, Remotas
    <2> QED
      BY <1>12, <2>2 DEF Suya, Alguna
  <1>5. 1 \in DOMAIN u
    BY <1>1
  <1>6. \A v, q : v # t => (Suya(u, v, q) <=> Suya(s, v, q))
    <2>1. ASSUME NEW v, NEW q, v # t, Suya(u, v, q) PROVE Suya(s, v, q)
      <3>1. PICK i \in DOMAIN u : u[i].lado = "LOCAL" /\ u[i].tipo = v /\ u[i].result = q
        BY <2>1 DEF Suya
      <3>2. i # 1
        BY <1>1, <1>12, <2>1, <3>1
      <3> QED
        BY <1>2, <3>1, <3>2 DEF Suya
    <2>2. ASSUME NEW v, NEW q, Suya(s, v, q) PROVE Suya(u, v, q)
      <3>1. PICK k \in DOMAIN s : s[k].lado = "LOCAL" /\ s[k].tipo = v /\ s[k].result = q
        BY <2>2 DEF Suya
      <3>2. k + 1 \in DOMAIN u /\ u[k + 1] = s[k]
        BY <1>1
      <3> QED
        BY <3>1, <3>2 DEF Suya
    <2> QED
      BY <2>1, <2>2
  <1>7. \A q : Suya(u, t, q) <=> q = a.result
    <2>1. Suya(u, t, a.result)
      BY <1>1, <1>5, <1>12 DEF Suya
    <2>2. ASSUME NEW q, Suya(u, t, q) PROVE q = a.result
      <3>1. PICK i \in DOMAIN u : u[i].lado = "LOCAL" /\ u[i].tipo = t /\ u[i].result = q
        BY <2>2 DEF Suya
      <3>2. i = 1
        BY <1>2, <1>4, <3>1
      <3> QED
        BY <1>1, <3>1, <3>2
    <2> QED
      BY <2>1, <2>2
  <1>8. ASSUME NEW i \in DOMAIN u, NEW k \in DOMAIN u, u[i].lado = "LOCAL", u[k].lado = "LOCAL", u[i].tipo = u[k].tipo
        PROVE  i = k
    <2>1. CASE i = 1 \/ k = 1
      BY <1>1, <1>2, <1>4, <1>8, <1>12, <2>1
    <2>2. CASE i # 1 /\ k # 1
      BY <1>2, <1>8, <1>12, <2>2 DEF Cuadran
    <2> QED
      BY <2>1, <2>2
  <1>9. ASSUME NEW i \in DOMAIN u, u[i].lado = "LOCAL" PROVE u[i].monto = Pide(j, u[i].tipo) /\ u[i].monto # 0
    BY <1>1, <1>2, <1>9, <1>12 DEF Cuadran
  <1>10. ASSUME NEW v \in Tipos
         PROVE  /\ Espera(y, v, j) <=> Suya(u, v, "RM_QUEUED")
                /\ y.tiene[v][j] = IF Suya(u, v, "RM_GRANTED") THEN Pide(j, v) ELSE 0
    <2>1. /\ Espera(x, v, j) <=> Suya(s, v, "RM_QUEUED")
          /\ x.tiene[v][j] = IF Suya(s, v, "RM_GRANTED") THEN Pide(j, v) ELSE 0
      BY <1>12 DEF Cuadran
    <2>2. CASE v # t
      BY <1>6, <2>1, <2>2 DEF Anotada
    <2>3. CASE v = t /\ a.result = "RM_GRANTED"
      <3>1. x.tiene[v][j] = 0 /\ y.tiene[v][j] = x.tiene[v][j] + a.monto
        BY <1>12, <2>1, <2>3 DEF Anotada, Alguna
      <3>2. y.tiene[v][j] = a.monto
        BY <1>3, <3>1
      <3> QED
        BY <1>7, <1>12, <2>1, <2>3, <3>2 DEF Anotada, Alguna
    <2>4. CASE v = t /\ a.result = "RM_QUEUED"
      BY <1>7, <1>12, <2>1, <2>4 DEF Anotada, Alguna
    <2> QED
      BY <1>3, <2>2, <2>3, <2>4
  <1>11. ASSUME NEW v \in Tipos
         PROVE  Alguna(u, v) <=> v = t \/ Alguna(s, v)
    BY <1>3, <1>6, <1>7 DEF Alguna
  <1> QED
    BY <1>0, <1>8, <1>9, <1>10, <1>11 DEF Cuadran

(* A request that is given up gives back what it has got. *)
LEMMA AbortaBien ==
  ASSUME NEW Q, NEW E, Permisos(Q, E), NEW acc \in Accs(Q, E), NEW S, S \subseteq Propios, NEW j \in S, j \in Jobs,
         Cuadra(acc.nd, S), BienDicho(acc.nd), ~EnTabla(acc.nd, j), Cuadran(acc.nd, j, acc.confirmadas)
  PROVE  LET r == AbortarPedido(acc, j)
         IN  /\ Cuadra(r.nd, S) /\ BienDicho(r.nd) /\ Progresa(acc.nd, r.nd)
             /\ r.pendientes = acc.pendientes /\ ~r.sigue
  <1> DEFINE x == limpiar_colas_por_id(acc.nd, j)
             y == LiberarAllocs(x, j, acc.confirmadas)
             z == send_message(y, ERL, Mensaje("JOB_DENIED", j))
  <1>1. acc.nd \in Managers(Q, E) /\ acc.confirmadas \in Seq(Allocs)
    BY DEF Accs
  <1>2. x \in Managers(Q, E) /\ Bien(acc.nd, x, S)
    BY <1>1, LimpiaBien
  <1> HIDE DEF x
  <1>3. ~EnTabla(x, j)
    BY <1>2, ProgresaTabla DEF Bien
  <1>4. \A k \in DOMAIN acc.confirmadas : acc.confirmadas[k].lado = "LOCAL" => Pide(j, acc.confirmadas[k].tipo) # 0
    BY DEF Cuadran
  <1>5. y \in Managers(Q, E) /\ Bien(x, y, S)
    <2>1. Cuadra(x, S) /\ BienDicho(x)
      BY <1>2 DEF Bien
    <2> QED
      BY <1>1, <1>2, <1>3, <1>4, <2>1, LiberaAllocsBien
  <1> HIDE DEF y
  <1>6. Bien(y, z, S)
    <2>1. PICK m : m = Mensaje("JOB_DENIED", j)
      OBVIOUS
    <2>2. m \in Textos /\ m.clase # "JOB_GRANTED" /\ ERL \in Conexiones
      BY <2>1, Palabras DEF Mensaje, Conexiones
    <2>3. PICK u : u = send_message(y, ERL, m)
      OBVIOUS
    <2>4. Cuadra(y, S) /\ BienDicho(y)
      BY <1>5 DEF Bien
    <2>5. Bien(y, u, S)
      BY <1>5, <2>2, <2>3, <2>4, SeDice DEF Bien
    <2> QED
      BY <2>1, <2>3, <2>5
  <1> HIDE DEF z
  <1>7. Bien(acc.nd, z, S)
    BY <1>2, <1>5, <1>6, BienYBien
  <1>8. AbortarPedido(acc, j) = [acc EXCEPT !.sigue = FALSE, !.nd = z]
    BY DEF AbortarPedido, z, y, x
  <1>9. /\ [acc EXCEPT !.sigue = FALSE, !.nd = z].nd = z
        /\ [acc EXCEPT !.sigue = FALSE, !.nd = z].pendientes = acc.pendientes
        /\ [acc EXCEPT !.sigue = FALSE, !.nd = z].sigue = FALSE
    BY DEF Accs
  <1> QED
    BY <1>7, <1>8, <1>9 DEF Bien

(* An item of a JOB_REQUEST for this agent. *)
LEMMA PideLocalBien ==
  ASSUME NEW Q, NEW E, Permisos(Q, E), NEW acc \in Accs(Q, E), NEW S, S \subseteq Propios, NEW j \in S, j \in Jobs,
         Cuadra(acc.nd, S), acc.nd.tx = << >>, ~EnTabla(acc.nd, j), Cuadran(acc.nd, j, acc.confirmadas),
         NEW it \in Items, ERL \in Q[it.tipo], it.monto = Pide(j, it.tipo),
         ~Alguna(acc.confirmadas, it.tipo)
  PROVE  LET r == PedidoLocal(acc, j, it)
         IN  /\ Cuadra(r.nd, S) /\ BienDicho(r.nd) /\ Progresa(acc.nd, r.nd)
             /\ r.pendientes = acc.pendientes
             /\ r.sigue =>
                  /\ Cuadran(r.nd, j, r.confirmadas)
                  /\ \A t \in Tipos : Alguna(r.confirmadas, t) <=> t = it.tipo \/ Alguna(acc.confirmadas, t)
  <1> DEFINE rr == reserve_resource(acc.nd, it.tipo, it.monto, j, ERL, "LOCAL")
             a == [tipo |-> it.tipo, monto |-> it.monto, lado |-> "LOCAL",
                   ip |-> it.ip, result |-> rr.result, conn |-> ERL]
  <1>1. /\ it.tipo \in Tipos /\ it.monto \in Nat /\ it.monto # 0 /\ it.ip \in Ips /\ acc.nd \in Managers(Q, E)
        /\ acc.confirmadas \in Seq(Allocs)
    BY DEF Items, Ips, Accs
  <1>2. PedidoLocal(acc, j, it) = IF rr.result = "RM_DENIED" THEN AbortarPedido(acc, j)
                                  ELSE [acc EXCEPT !.nd = rr.nd, !.confirmadas = <<a>> \o @]
    BY DEF PedidoLocal
  <1>3. rr.result \in {"RM_GRANTED", "RM_DENIED", "RM_QUEUED"} /\ rr.nd \in Managers(Q, E)
    BY <1>1, Reserva
  <1>4. BienDicho(acc.nd)
    BY DEF BienDicho
  <1>5. PICK t, y, s : t = it.tipo /\ y = rr.nd /\ s = acc.confirmadas
    OBVIOUS
  <1>6. /\ Cuadra(y, S) /\ Progresa(acc.nd, y) /\ y.tx = acc.nd.tx
        /\ \A u \in Tipos \ {t} : (Espera(y, u, j) <=> Espera(acc.nd, u, j)) /\ y.tiene[u][j] = acc.nd.tiene[u][j]
        /\ rr.result = "RM_GRANTED" =>
             (Espera(y, t, j) <=> Espera(acc.nd, t, j)) /\ y.tiene[t][j] = acc.nd.tiene[t][j] + it.monto
        /\ rr.result = "RM_QUEUED" => Espera(y, t, j) /\ y.tiene[t][j] = acc.nd.tiene[t][j]
    <2>1. ~Espera(acc.nd, it.tipo, j)
      BY <1>1 DEF Cuadran, Alguna
    <2>2. PICK x, m, o : x = acc.nd /\ m = it.monto /\ o = "LOCAL"
      OBVIOUS
    <2>3. /\ x \in Managers(Q, E) /\ t \in Tipos /\ m \in Nat /\ ERL \in Q[t] /\ o \in {"LOCAL", "REMOTE"}
          /\ Cuadra(x, S) /\ ~EnTabla(x, j)
          /\ IF o = "LOCAL" THEN j \in S /\ ERL = ERL /\ m = Pide(j, t) /\ m # 0 /\ ~Espera(x, t, j) ELSE j \in Ajenos
      BY <1>1, <1>5, <2>1, <2>2
    <2>4. LET r == reserve_resource(x, t, m, j, ERL, o)
          IN  /\ Cuadra(r.nd, S) /\ Progresa(x, r.nd) /\ r.nd.tx = x.tx
              /\ \A u \in Tipos \ {t} : (Espera(r.nd, u, j) <=> Espera(x, u, j)) /\ r.nd.tiene[u][j] = x.tiene[u][j]
              /\ r.result = "RM_GRANTED" =>
                   (Espera(r.nd, t, j) <=> Espera(x, t, j)) /\ r.nd.tiene[t][j] = x.tiene[t][j] + m
              /\ r.result = "RM_QUEUED" => Espera(r.nd, t, j) /\ r.nd.tiene[t][j] = x.tiene[t][j]
      BY <2>3, ReservaBien
    <2>5. rr = reserve_resource(x, t, m, j, ERL, o)
      BY <1>5, <2>2
    <2> HIDE DEF rr
    <2> QED
      BY <1>5, <2>2, <2>4, <2>5
  <1>7. CASE rr.result = "RM_DENIED"
    <2>1. PedidoLocal(acc, j, it) = AbortarPedido(acc, j)
      BY <1>2, <1>7
    <2>2. LET r == AbortarPedido(acc, j)
          IN  /\ Cuadra(r.nd, S) /\ BienDicho(r.nd) /\ Progresa(acc.nd, r.nd)
              /\ r.pendientes = acc.pendientes /\ ~r.sigue
      BY <1>4, AbortaBien
    <2> QED
      BY <2>1, <2>2
  <1>8. CASE rr.result # "RM_DENIED"
    <2>1. a \in Allocs
      <3>1. a \in Locales
        BY <1>1, <1>3, <1>8 DEF Locales
      <3> QED
        BY <3>1, Zenon DEF Allocs
    <2>2. a.lado = "LOCAL" /\ a.tipo = t /\ a.monto = it.monto /\ a.result = rr.result
      BY <1>5
    <2> HIDE DEF a
    <2>3. PICK u : u = <<a>> \o s
      OBVIOUS
    <2> HIDE DEF rr
    <2>4. /\ Cuadran(y, j, u)
          /\ \A v \in Tipos : Alguna(u, v) <=> v = t \/ Alguna(s, v)
      <3>1. PICK x, b : x = acc.nd /\ b = a
        OBVIOUS
      <3>2. /\ s \in Seq(Allocs) /\ b \in Allocs /\ t \in Tipos /\ u = <<b>> \o s
            /\ Cuadran(x, j, s) /\ ~Alguna(s, t)
            /\ b.lado = "LOCAL" /\ b.tipo = t /\ b.monto = Pide(j, t) /\ b.monto # 0
        BY <1>1, <1>5, <2>1, <2>2, <2>3, <3>1
      <3>3. Anotada(x, y, t, j, b, s)
        BY <1>6, <2>2, <3>1, <3>2 DEF Anotada
      <3> QED
        BY <3>2, <3>3, SumaLocal
    <2>5. BienDicho(y)
      BY <1>6 DEF BienDicho
    <2>6. PedidoLocal(acc, j, it) = [acc EXCEPT !.nd = y, !.confirmadas = u]
      <3>1. [acc EXCEPT !.nd = y, !.confirmadas = <<a>> \o @] = [acc EXCEPT !.nd = y, !.confirmadas = u]
        BY <1>5, <2>3 DEF Accs
      <3> QED
        BY <1>2, <1>5, <1>8, <3>1
    <2>7. /\ [acc EXCEPT !.nd = y, !.confirmadas = u].nd = y
          /\ [acc EXCEPT !.nd = y, !.confirmadas = u].confirmadas = u
          /\ [acc EXCEPT !.nd = y, !.confirmadas = u].pendientes = acc.pendientes
      BY DEF Accs
    <2> QED
      BY <1>5, <1>6, <2>4, <2>5, <2>6, <2>7
  <1> QED
    BY <1>7, <1>8

(* One for another agent: with no connection to it the job is given up. *)
LEMMA PideRemotoBien ==
  ASSUME NEW Q, NEW E, Permisos(Q, E), NEW acc \in Accs(Q, E), NEW S, S \subseteq Propios, NEW j \in S, j \in Jobs,
         Cuadra(acc.nd, S), acc.nd.tx = << >>, ~EnTabla(acc.nd, j), Cuadran(acc.nd, j, acc.confirmadas),
         NEW it \in Items, acc.sigue
  PROVE  LET r == PedidoRemoto(acc, j, it, {})
         IN  /\ Cuadra(r.nd, S) /\ BienDicho(r.nd) /\ Progresa(acc.nd, r.nd)
             /\ r.sigue \/ r.pendientes = acc.pendientes
             /\ r.sigue => Cuadran(r.nd, j, r.confirmadas) /\ r.confirmadas = acc.confirmadas
  <1> DEFINE c == tabla_conns_lookup(acc.nd, it.ip)
             m == MensajeRecurso("RESERVE", j, it.tipo, it.monto)
             q == crear_outrequest(it.ip, c, it.tipo, it.monto)
  <1>1. it.tipo \in Tipos /\ it.monto \in Nat /\ acc.nd \in Managers(Q, E)
    BY DEF Items, Accs
  <1>2. c \in {NULL, Ida}
    BY <1>1, BuscaConn
  <1>3. PedidoRemoto(acc, j, it, {}) = IF c # NULL
          THEN [acc EXCEPT !.nd = send_message(@, c, m), !.pendientes = <<q>> \o @]
          ELSE AbortarPedido(acc, j)
    BY DEF PedidoRemoto
  <1>4. BienDicho(acc.nd)
    BY DEF BienDicho
  <1> HIDE DEF c, q
  <1>5. CASE c = NULL
    <2>1. PedidoRemoto(acc, j, it, {}) = AbortarPedido(acc, j)
      BY <1>3, <1>5
    <2>2. LET r == AbortarPedido(acc, j)
          IN  /\ Cuadra(r.nd, S) /\ BienDicho(r.nd) /\ Progresa(acc.nd, r.nd)
              /\ r.pendientes = acc.pendientes /\ ~r.sigue
      BY <1>4, AbortaBien
    <2> QED
      BY <2>1, <2>2
  <1>6. CASE c # NULL
    <2>1. c \in Conexiones /\ m \in Textos /\ c # ERL
      <3>1. "RESERVE" \in Clases
        BY DEF Clases
      <3>2. m \in Textos
        BY <1>1, <3>1, SonTextos, Zenon
      <3> QED
        BY <1>2, <1>6, <3>2 DEF Conexiones, Ida, ERL
    <2> HIDE DEF m
    <2>2. PICK y : y = send_message(acc.nd, c, m)
      OBVIOUS
    <2>3. Cuadra(y, S) /\ BienDicho(y) /\ Progresa(acc.nd, y) /\ y.rec = acc.nd.rec /\ y.tiene = acc.nd.tiene
      BY <1>1, <1>4, <2>1, <2>2, SeDice
    <2>4. Cuadran(y, j, acc.confirmadas)
      BY <2>3 DEF Cuadran, Espera
    <2>5. PICK u : u = <<q>> \o acc.pendientes
      OBVIOUS
    <2>6. PedidoRemoto(acc, j, it, {}) = [acc EXCEPT !.nd = y, !.pendientes = u]
      <3>1. [acc EXCEPT !.nd = send_message(@, c, m), !.pendientes = <<q>> \o @] = [acc EXCEPT !.nd = y, !.pendientes = u]
        BY <2>2, <2>5 DEF Accs
      <3> QED
        BY <1>3, <1>6, <3>1
    <2>7. /\ [acc EXCEPT !.nd = y, !.pendientes = u].nd = y
          /\ [acc EXCEPT !.nd = y, !.pendientes = u].confirmadas = acc.confirmadas
          /\ [acc EXCEPT !.nd = y, !.pendientes = u].sigue = acc.sigue
      BY DEF Accs
    <2> QED
      BY <2>3, <2>4, <2>6, <2>7
  <1> QED
    BY <1>5, <1>6

(* The allocations s are those of the first p items of job j, not in the   *)
(* table yet.                                                              *)
Lleva(x, j, p, s) ==
  /\ ~EnTabla(x, j) /\ Cuadran(x, j, s)
  /\ \A t \in Tipos : Hasta(j, p, t) # 0 <=> Alguna(s, t)

(* What Item does with the item it of job j. *)
Pedida(acc, j, it) == IF it.ip = Yo THEN PedidoLocal(acc, j, it) ELSE PedidoRemoto(acc, j, it, {})

(* An item more, or the job is given up: v is what is left. *)
Anade(acc, v, j, p, S) ==
  /\ Cuadra(v.nd, S) /\ BienDicho(v.nd) /\ Progresa(acc.nd, v.nd)
  /\ v.sigue \/ v.pendientes = acc.pendientes
  /\ v.sigue => Lleva(v.nd, j, p, v.confirmadas)

(* One item of a JOB_REQUEST: the job has asked for one more, here or at    *)
(* the other agent, or it was aborted.                                      *)
LEMMA ItemBien ==
  ASSUME UnoPorTipo, NEW Q, NEW E, Permisos(Q, E), NEW acc \in Accs(Q, E), NEW S, S \subseteq Propios, NEW j \in S,
         Cuadra(acc.nd, S), acc.nd.tx = << >>, acc.sigue, NEW p \in 1 .. Len(Pedido[j]),
         Lleva(acc.nd, j, p - 1, acc.confirmadas), NEW it, it = Pedido[j][p], ERL \in Q[it.tipo]
  PROVE  Anade(acc, Pedida(acc, j, it), j, p, S)
  <1>1. j \in Jobs /\ j \in Propios /\ it \in Items /\ it.tipo \in Tipos /\ it.monto # 0
    BY SonItems, Parametros
  <1>2. /\ ~EnTabla(acc.nd, j) /\ Cuadran(acc.nd, j, acc.confirmadas)
        /\ \A t \in Tipos : Hasta(j, p - 1, t) # 0 <=> Alguna(acc.confirmadas, t)
    BY DEF Lleva
  <1>3. \A x : Progresa(acc.nd, x) => ~EnTabla(x, j)
    BY <1>2, ProgresaTabla
  <1>4. CASE it.ip = Yo
    <2>1. \A t : IF t = it.tipo THEN Hasta(j, p - 1, t) = 0 /\ Hasta(j, p, t) # 0
                 ELSE Hasta(j, p, t) = Hasta(j, p - 1, t)
      BY <1>1, <1>4, HastaSigue
    <2>2. it.monto = Pide(j, it.tipo)
      BY <1>1, <1>4, PideItem
    <2>3. ~Alguna(acc.confirmadas, it.tipo)
      BY <1>1, <1>2, <2>1
    <2>4. PICK r : r = PedidoLocal(acc, j, it)
      OBVIOUS
    <2>5. /\ Cuadra(r.nd, S) /\ BienDicho(r.nd) /\ Progresa(acc.nd, r.nd)
          /\ r.pendientes = acc.pendientes
          /\ r.sigue =>
               /\ Cuadran(r.nd, j, r.confirmadas)
               /\ \A t \in Tipos : Alguna(r.confirmadas, t) <=> t = it.tipo \/ Alguna(acc.confirmadas, t)
      BY <1>1, <1>2, <2>2, <2>3, <2>4, PideLocalBien
    <2>6. r.sigue => Lleva(r.nd, j, p, r.confirmadas)
      BY <1>2, <1>3, <2>1, <2>5 DEF Lleva
    <2> QED
      BY <1>4, <2>4, <2>5, <2>6 DEF Pedida, Anade
  <1>5. CASE it.ip # Yo
    <2>1. \A t : Hasta(j, p, t) = Hasta(j, p - 1, t)
      BY <1>1, <1>5, HastaSigue
    <2>2. PICK r : r = PedidoRemoto(acc, j, it, {})
      OBVIOUS
    <2>3. /\ Cuadra(r.nd, S) /\ BienDicho(r.nd) /\ Progresa(acc.nd, r.nd)
          /\ r.sigue \/ r.pendientes = acc.pendientes
          /\ r.sigue => Cuadran(r.nd, j, r.confirmadas) /\ r.confirmadas = acc.confirmadas
      BY <1>1, <1>2, <2>2, PideRemotoBien
    <2>4. r.sigue => Lleva(r.nd, j, p, r.confirmadas)
      BY <1>2, <1>3, <2>1, <2>3 DEF Lleva
    <2> QED
      BY <1>5, <2>2, <2>3, <2>4 DEF Pedida, Anade
  <1> QED
    BY <1>4, <1>5

(* A JOB_REQUEST goes on with its next item, or is given up. *)
LEMMA OrdenItem ==
  ASSUME UnoPorTipo, IInv, Orden, Item
  PROVE  Orden'
  <1> DEFINE h == Head(hace[ERL])
             acc == [nd |-> nd, confirmadas |-> armando.confirmadas,
                     pendientes |-> armando.pendientes, sigue |-> TRUE, n |-> 0]
             r == IF h.it.ip = Yo THEN PedidoLocal(acc, h.job, h.it)
                  ELSE PedidoRemoto(acc, h.job, h.it, {})
             e == << >>
  <1>1. /\ hace[ERL] # << >> /\ h.op = "item" /\ Entregar(r.nd)
        /\ armando' = [confirmadas |-> r.confirmadas, pendientes |-> r.pendientes]
        /\ enVecino' = [enVecino EXCEPT ![h.job] = @ + Len(r.pendientes) - Len(armando.pendientes)]
        /\ \/ r.sigue /\ Sigue(ERL, Tail(hace[ERL])) /\ UNCHANGED lock
           \/ ~r.sigue /\ Sigue(ERL, e) /\ lock' = NULL
    BY DEF Item, Toca
  <1>2. PICK j \in Propios : \E p \in 0 .. Len(Pedido[j]) :
          /\ Arma(j, p) /\ lock = ERL /\ h.job = j /\ Pidiendose(j) /\ j \in Pedidos
          /\ p + 1 \in 1 .. Len(Pedido[j]) /\ h.it = Pedido[j][p + 1]
          /\ Tail(hace[ERL]) = Falta(j, p + 1)
          /\ ERL \in Duenos /\ \A t \in Tipos : ERL \in Pueden[t]
    BY <1>1, AlPedir, Zenon
  <1>3. PICK p \in 0 .. Len(Pedido[j]) :
          /\ Arma(j, p) /\ lock = ERL /\ h.job = j /\ Pidiendose(j) /\ j \in Pedidos
          /\ p + 1 \in 1 .. Len(Pedido[j]) /\ h.it = Pedido[j][p + 1]
          /\ Tail(hace[ERL]) = Falta(j, p + 1)
          /\ ERL \in Duenos /\ \A t \in Tipos : ERL \in Pueden[t]
    BY <1>2
  <1>4. PICK q, it : q = p + 1 /\ it = Pedido[j][q]
    OBVIOUS
  <1>5. /\ q \in 1 .. Len(Pedido[j]) /\ q \in 0 .. Len(Pedido[j]) /\ p = q - 1 /\ h.it = it
        /\ Tail(hace[ERL]) = Falta(j, q) /\ j \in Jobs
    BY <1>3, <1>4, SonItems, EnOrden
  <1>6. acc \in Accs(Pueden, Duenos) /\ acc.pendientes = armando.pendientes /\ acc.confirmadas = armando.confirmadas
        /\ acc.nd = nd /\ acc.sigue
    BY DEF IInv, Gestion, Armado, Accs
  <1> HIDE DEF h, acc
  <1>7. Lleva(acc.nd, j, q - 1, acc.confirmadas)
    BY <1>3, <1>5, <1>6 DEF Lleva, Arma, Alguna
  <1>8. it.tipo \in Tipos /\ it \in Items
    BY <1>4, <1>5, SonItems
  <1>9. r = Pedida(acc, j, it)
    BY <1>3, <1>5 DEF Pedida
  <1>10. /\ Cuadra(r.nd, Pedidos) /\ BienDicho(r.nd) /\ Progresa(nd, r.nd)
         /\ r.sigue \/ r.pendientes = armando.pendientes
         /\ r.sigue => Lleva(r.nd, j, q, r.confirmadas)
    <2>1. /\ Cuadra(acc.nd, Pedidos) /\ acc.nd.tx = << >> /\ Permisos(Pueden, Duenos)
          /\ Pedidos \subseteq Propios /\ ERL \in Pueden[it.tipo] /\ acc.sigue
      BY <1>3, <1>6, <1>8, EnOrden
    <2>2. PICK Q, E, S : Q = Pueden /\ E = Duenos /\ S = Pedidos
      OBVIOUS
    <2>3. /\ Permisos(Q, E) /\ acc \in Accs(Q, E) /\ S \subseteq Propios /\ j \in S /\ Cuadra(acc.nd, S)
          /\ ERL \in Q[it.tipo]
      BY <1>3, <1>6, <2>1, <2>2
    <2>4. PICK x : x = acc
      OBVIOUS
    <2>5. /\ x \in Accs(Q, E) /\ Cuadra(x.nd, S) /\ x.nd.tx = << >> /\ x.sigue
          /\ Lleva(x.nd, j, q - 1, x.confirmadas)
      BY <1>6, <1>7, <2>1, <2>3, <2>4
    <2>6. Anade(x, Pedida(x, j, it), j, q, S)
      BY <1>4, <1>5, <2>3, <2>5, ItemBien
    <2> HIDE DEF r
    <2> QED
      BY <1>6, <1>9, <2>2, <2>4, <2>6 DEF Anade
  <1>11. r \in Accs(Pueden, Duenos) /\ Len(r.pendientes) >= Len(armando.pendientes)
    <2>1. PICK Q, E : Q = Pueden /\ E = Duenos
      OBVIOUS
    <2>2. Permisos(Q, E) /\ acc \in Accs(Q, E) /\ ERL \in Q[it.tipo]
      BY <1>3, <1>6, <1>8, <2>1, SonPermisos
    <2>3. r \in Accs(Q, E)
      BY <1>5, <1>8, <1>9, <2>2, PideLocal, PideRemoto DEF Pedida
    <2>4. Len(r.pendientes) >= Len(acc.pendientes)
      BY <1>9, <2>2, Largo DEF Pedida
    <2> QED
      BY <1>6, <2>1, <2>3, <2>4
  <1> HIDE DEF r
  <1>12. r.nd \in Managers(Pueden, Duenos) /\ Len(r.pendientes) \in Nat /\ Len(armando.pendientes) \in Nat
    BY <1>11, LenProperties DEF Accs, IInv, Armado
  <1>13. /\ Cuadra(nd', Pedidos) /\ Siguen /\ nd'.tabla = r.nd.tabla /\ nd'.rec = r.nd.rec /\ nd'.tiene = r.nd.tiene
         /\ \A i \in Propios : cliente[i] # "esperando" => cliente'[i] = cliente[i]
    BY <1>1, <1>10, <1>12, EnOrden, Reparte
  <1>14. Pedidos' = Pedidos /\ Cuadra(nd, Pedidos)'
    BY <1>13 DEF Pedidos, Siguen
  <1>15. Progresa(nd, nd')
    BY <1>10, <1>13 DEF Progresa
  <1>16. (\A i : EnTabla(nd', i) <=> EnTabla(nd, i)) /\ (\A i : Cumple(nd, i) => Cumple(nd', i))
    BY <1>15, ProgresaTabla
  <1>17. ~EnTabla(nd, j) /\ enVecino[j] <= Len(armando.pendientes) /\ cliente[j] \notin {"nuevo", "trabajando"}
    BY <1>3 DEF Arma
  <1>18. /\ \A i \in Propios \ {j} : enVecino'[i] = enVecino[i]
         /\ enVecino'[j] <= Len(r.pendientes)
         /\ ERL \in Conexiones /\ hace \in [Conexiones -> Seq(Abiertas \cup Cerrando)]
    <2>1. enVecino \in [Propios -> Nat] /\ ERL \in Conexiones /\ hace \in [Conexiones -> Seq(Abiertas \cup Cerrando)]
      BY DEF IInv, Clientes, EnManos, Conexiones
    <2>2. h.job = j /\ enVecino[j] \in Nat
      BY <1>3, <2>1
    <2>3. enVecino' = [enVecino EXCEPT ![j] = @ + Len(r.pendientes) - Len(armando.pendientes)]
      BY <1>1, <2>2
    <2>4. enVecino'[j] = enVecino[j] + Len(r.pendientes) - Len(armando.pendientes)
      BY <2>1, <2>3
    <2>5. PICK a, b, n : a = enVecino[j] /\ b = Len(armando.pendientes) /\ n = Len(r.pendientes)
      OBVIOUS
    <2>6. enVecino'[j] <= Len(r.pendientes)
      <3>1. a \in Nat /\ b \in Nat /\ n \in Nat /\ a <= b
        BY <1>12, <1>17, <2>2, <2>5
      <3>2. a + n - b <= n
        BY <3>1
      <3> QED
        BY <2>4, <2>5, <3>2
    <2> QED
      BY <2>1, <2>3, <2>6
  <1>19. EnVilo'
    <2>1. ASSUME NEW i \in DOMAIN nd'.tabla
          PROVE  enVecino'[nd'.tabla[i].job] <= Len(nd'.tabla[i].pendientes)
      <3>1. /\ i \in DOMAIN nd.tabla /\ nd'.tabla[i].job = nd.tabla[i].job
            /\ nd'.tabla[i].pendientes = nd.tabla[i].pendientes
        BY <1>15 DEF Progresa
      <3>2. nd.tabla[i].job # j /\ nd.tabla[i].job \in Propios
        BY <1>17, <3>1, EnOrden DEF EnTabla
      <3>3. enVecino[nd.tabla[i].job] <= Len(nd.tabla[i].pendientes)
        BY <3>1 DEF Orden, EnVilo
      <3> QED
        BY <1>18, <3>1, <3>2, <3>3
    <2>2. ASSUME NEW i \in Propios, cliente'[i] = "nuevo" PROVE enVecino'[i] = 0
      <3>1. cliente[i] = "nuevo" /\ i # j
        BY <1>13, <1>17, <2>2 DEF Siguen
      <3> QED
        BY <1>18, <3>1 DEF Orden, EnVilo
    <2> QED
      BY <2>1, <2>2 DEF EnVilo
  <1>20. Servidos'
    <2>1. Salieron({})
      BY <1>16 DEF Salieron
    <2> QED
      BY <1>13, <2>1, ServidosSigue DEF Orden
  <1>21. CASE r.sigue
    <2>1. PICK s : s = Falta(j, q)
      OBVIOUS
    <2>2. Sigue(ERL, s) /\ lock' = lock /\ hace'[ERL] = s
      BY <1>1, <1>5, <1>18, <1>21, <2>1 DEF Sigue
    <2>3. Head(s).job = j /\ \A i \in DOMAIN s : s[i].op \in {"item", "insertar"}
      BY <1>5, <2>1, FaltaEs
    <2>4. EnCurso'
      <3>1. PICK u : u = r.confirmadas
        OBVIOUS
      <3>2. armando'.confirmadas = u /\ armando'.pendientes = r.pendientes
        BY <1>1, <3>1
      <3>3. Lleva(r.nd, j, q, u)
        BY <1>10, <1>21, <3>1
      <3>4. Cuadran(nd', j, u)
        BY <1>13, <3>3 DEF Lleva, Cuadran, Espera
      <3>5. ~EnTabla(nd', j)
        BY <1>16, <1>17
      <3>6. cliente'[j] \notin {"nuevo", "trabajando"}
        <4>1. ~Cumple(nd', j)
          BY <3>5 DEF Cumple, EnTabla
        <4> QED
          BY <1>13, <1>17, <4>1 DEF Siguen
      <3>7. \A t \in Tipos : Hasta(j, q, t) # 0 <=> Suya(u, t, "RM_QUEUED") \/ Suya(u, t, "RM_GRANTED")
        BY <3>3 DEF Lleva, Alguna
      <3>8. Arma(j, q)'
        <4>1. hace'[ERL] = Falta(j, q)
          BY <2>1, <2>2
        <4>2. enVecino'[j] <= Len(armando'.pendientes)
          BY <1>18, <3>2
        <4>3. Cuadran(nd', j, armando'.confirmadas)
          BY <3>2, <3>4
        <4>4. \A t \in Tipos : Hasta(j, q, t) # 0 <=>
                Suya(armando'.confirmadas, t, "RM_QUEUED") \/ Suya(armando'.confirmadas, t, "RM_GRANTED")
          BY <3>2, <3>7
        <4> QED
          BY <3>5, <3>6, <4>1, <4>2, <4>3, <4>4 DEF Arma
      <3>9. lock' = ERL
        BY <1>3, <2>2
      <3> QED
        BY <1>5, <3>8, <3>9 DEF EnCurso
    <2>5. Difuntos'
      <3>1. \A i \in Propios : /\ cliente[i] # "nuevo" => cliente'[i] # "nuevo"
                               /\ cliente[i] = "abandonado" => cliente'[i] = "abandonado"
                               /\ EnTabla(nd', i) => EnTabla(nd, i)
                               /\ Pidiendose(i)' => Pidiendose(i)
        BY <1>3, <1>13, <1>16, <2>2, <2>3 DEF Siguen, Pidiendose
      <3>2. \A i \in DOMAIN s : \A k \in Propios : ~Trata(s[i], k)
        BY <2>3 DEF Trata
      <3> QED
        BY <1>18, <2>2, <3>1, <3>2, DifuntosSigue DEF Orden
    <2> QED
      BY <1>14, <1>19, <1>20, <2>4, <2>5 DEF Orden
  <1>22. CASE ~r.sigue
    <2>1. PICK s : s = e
      OBVIOUS
    <2>2. Sigue(ERL, s) /\ lock' # ERL /\ hace'[ERL] = s /\ \A i \in DOMAIN s : FALSE
      BY <1>1, <1>18, <1>22, <2>1 DEF Sigue, NULL, ERL
    <2>3. EnCurso'
      BY <2>2 DEF EnCurso
    <2>4. Difuntos'
      <3>1. \A i \in Propios : /\ cliente[i] # "nuevo" => cliente'[i] # "nuevo"
                               /\ cliente[i] = "abandonado" => cliente'[i] = "abandonado"
                               /\ EnTabla(nd', i) => EnTabla(nd, i)
                               /\ ~Pidiendose(i)'
        BY <1>13, <1>16, <2>2 DEF Siguen, Pidiendose
      <3> QED
        BY <1>18, <2>2, <3>1, DifuntosSigue DEF Orden
    <2> QED
      BY <1>14, <1>19, <1>20, <2>3, <2>4 DEF Orden
  <1> QED
    BY <1>21, <1>22, Zenon

(* With nothing asked for yet everything is in order. *)
LEMMA OrdenAlEmpezar ==
  ASSUME Init
  PROVE  KInv
  <1>1. PICK e : e = << >>
    OBVIOUS
  <1>2. DOMAIN e = {}
    BY <1>1
  <1>3. nd.tabla = e /\ \A t \in Tipos : nd.rec[t].cola = e /\ \A j \in Jobs : nd.tiene[t][j] = 0
    BY <1>1 DEF Init, manager_init
  <1>4. Cuadra(nd, Pedidos)
    BY <1>2, <1>3, Parametros DEF Cuadra, EnFila, Fila
  <1>5. \A c \in Conexiones : hace[c] = e
    BY <1>1 DEF Init
  <1>6. ERL \in Conexiones /\ lock # ERL
    BY DEF Init, Conexiones, NULL, ERL
  <1>7. (\A j \in Propios : cliente[j] = "nuevo" /\ enVecino[j] = 0)
    BY DEF Init
  <1>8. EnVilo /\ Servidos
    BY <1>2, <1>3, <1>7 DEF EnVilo, Servidos
  <1>9. EnCurso /\ Difuntos
    BY <1>2, <1>5, <1>6 DEF EnCurso, Difuntos
  <1> QED
    BY <1>4, <1>8, <1>9 DEF KInv, Orden

(* The client's connection never comes back. *)
LEMMA NoVuelve ==
  ASSUME IInv, [Next]_vars, est'[ERL] = "abierta"
  PROVE  est[ERL] = "abierta" /\ ~Desconectar(ERL)
  <1>1. ERL \in Conexiones /\ est \in [Conexiones -> {"abierta", "cerrando", "liberada"}]
    BY DEF IInv, EnManos, Conexiones
  <1>2. ASSUME NEW c \in Conexiones, Desconectar(c) \/ Borrar(c)
        PROVE  c # ERL /\ est[ERL] = "abierta"
    <2>1. est' = [est EXCEPT ![c] = "cerrando"] \/ est' = [est EXCEPT ![c] = "liberada"]
      BY <1>2 DEF Desconectar, Borrar
    <2> QED
      BY <1>1, <2>1
  <1>3. \/ UNCHANGED est
        \/ \E c \in Conexiones : Desconectar(c) \/ Borrar(c)
    BY Zenon DEF Next, vars, Trabajador, Mensajes, Percance, Item, Insertar, Devolver, Purgar, PurgarConn, Avisar,
           AvisarA, Quitar, Extraer, JobRequest, JobRelease, Granted, Denied, Reserve, Release, JobTimeout
  <1> QED
    BY <1>1, <1>2, <1>3

(* Every step keeps it while the client is there. *)
LEMMA OrdenSeMantiene ==
  ASSUME UnoPorTipo, IInv, KInv, [Next]_vars
  PROVE  KInv'
  <1> SUFFICES ASSUME est'[ERL] = "abierta" PROVE Orden'
    BY DEF KInv
  <1>1. est[ERL] = "abierta" /\ ~Desconectar(ERL) /\ Orden
    BY NoVuelve DEF KInv
  <1>2. CASE UNCHANGED vars
    <2>1. /\ Pedidos' = Pedidos /\ EnVilo' /\ Servidos'
          /\ nd' = nd /\ hace' = hace /\ lock' = lock /\ cliente' = cliente
      BY <1>1, <1>2 DEF vars, Orden, EnVilo, Servidos, Pedidos
    <2>2. EnCurso'
      BY <1>1, <1>2 DEF vars, Orden, EnCurso, Arma
    <2>3. Difuntos'
      BY <1>1, <2>1 DEF Orden, Difuntos, Pidiendose
    <2> QED
      BY <1>1, <2>1, <2>2, <2>3 DEF Orden
  <1>3. CASE Trabajador
    BY <1>1, <1>3, OrdenItem, OrdenInsertar, OrdenDevolver, OrdenPurgar, OrdenPurgarConn, OrdenAvisar,
       OrdenQuitar, OrdenExtraer, OrdenBorrar DEF Trabajador
  <1>4. CASE Mensajes
    BY <1>1, <1>4, OrdenJobRequest, OrdenJobRelease, OrdenGranted, OrdenDenied, OrdenReserve, OrdenRelease
       DEF Mensajes
  <1>5. CASE Percance
    <2>1. CASE \E j \in Propios : JobTimeout(j)
      BY <1>1, <2>1, OrdenJobTimeout
    <2>2. CASE \E c \in Conexiones : Desconectar(c)
      BY <1>1, <2>2, OrdenDesconectar
    <2> QED
      BY <1>5, <2>1, <2>2 DEF Percance
  <1> QED
    BY <1>2, <1>3, <1>4, <1>5 DEF Next

(* What waits in the queues and what the table says is one. *)
LEMMA ColaConTabla ==
  ASSUME IInv, KInv
  PROVE  ColaYTabla
  <1> SUFFICES ASSUME est[ERL] = "abierta", NEW i \in DOMAIN nd.tabla, NEW t \in Tipos
               PROVE  Encolados(t, nd.tabla[i].job) =
                        Cardinality({k \in DOMAIN nd.tabla[i].confirmadas :
                                       LET a == nd.tabla[i].confirmadas[k]
                                       IN  a.lado = "LOCAL" /\ a.tipo = t /\ a.result = "RM_QUEUED"})
    BY DEF ColaYTabla
  <1>1. PICK j, s, q : j = nd.tabla[i].job /\ s = nd.tabla[i].confirmadas /\ q = nd.rec[t].cola
    OBVIOUS
  <1>2. Orden /\ Cuadra(nd, Pedidos) /\ j \in Pedidos /\ j \in Propios /\ j \notin Ajenos
    BY <1>1, Parametros DEF KInv, Orden, Cuadra, Pedidos
  <1>3. Cuadran(nd, j, s) /\ Fila(q, t, Pedidos)
    BY <1>1, <1>2 DEF Cuadra, EnFila
  <1>4. PICK A, B : /\ A = {k \in DOMAIN q : q[k].job = j}
                    /\ B = {k \in DOMAIN s : s[k].lado = "LOCAL" /\ s[k].tipo = t /\ s[k].result = "RM_QUEUED"}
    OBVIOUS
  <1>5. \A k \in A : q[k].origen = "LOCAL"
    BY <1>2, <1>3, <1>4 DEF Fila
  <1>6. \A k, l \in A : k = l
    BY <1>3, <1>4, <1>5 DEF Fila
  <1>7. \A k, l \in B : k = l
    BY <1>3, <1>4 DEF Cuadran
  <1>8. A = {} <=> B = {}
    BY <1>1, <1>3, <1>4 DEF Cuadran, Espera, Suya
  <1>9. Cardinality(A) = Cardinality(B)
    <2>1. CASE A = {}
      BY <1>8, <2>1
    <2>2. CASE A # {}
      <3>1. PICK k, l : k \in A /\ l \in B
        BY <1>8, <2>2
      <3>2. A = {k} /\ B = {l}
        BY <1>6, <1>7, <3>1
      <3> QED
        BY <3>2, FS_Singleton
    <2> QED
      BY <2>1, <2>2
  <1> QED
    BY <1>1, <1>4, <1>9 DEF Encolados

(* Whoever works has all it asked for. *)
LEMMA TrabajaConTodo ==
  ASSUME IInv, KInv
  PROVE  OtorgadoCompleto
  <1> SUFFICES ASSUME NEW j \in Propios, cliente[j] = "trabajando", est[ERL] = "abierta", NEW t \in Tipos
               PROVE  nd.tiene[t][j] = Pide(j, t)
    BY DEF OtorgadoCompleto
  <1>1. Orden /\ Cuadra(nd, Pedidos) /\ IF EnTabla(nd, j) THEN Cumple(nd, j) ELSE NadaAqui(j)
    BY DEF KInv, Orden, Servidos
  <1>2. CASE EnTabla(nd, j)
    <2>1. PICK i \in DOMAIN nd.tabla : nd.tabla[i].job = j /\ Cumplida(nd.tabla[i])
      BY <1>1, <1>2 DEF Cumple
    <2>2. PICK s : s = nd.tabla[i].confirmadas
      OBVIOUS
    <2>3. Cuadran(nd, j, s) /\ Completa(j, s)
      BY <1>1, <2>1, <2>2 DEF Cuadra
    <2>4. ~Suya(s, t, "RM_QUEUED")
      BY <2>1, <2>2 DEF Cumplida, Suya
    <2> QED
      BY <2>3, <2>4 DEF Cuadran, Completa
  <1>3. CASE ~EnTabla(nd, j)
    BY <1>1, <1>3 DEF NadaAqui, Cuadra, EnFila
  <1> QED
    BY <1>2, <1>3

(***************************************************************************)
(* The inductive invariant of the table and the queues: while the client is*)
(* there, each type a job asks for is queued or granted once, in the table *)
(* and in the queue alike, through every purge, grant, release and lost    *)
(* connection the other workers put between two steps of a handler.        *)
(***************************************************************************)
THEOREM OrdenSiempre ==
  ASSUME UnoPorTipo
  PROVE  Spec => []KInv
  <1>1. Init => KInv
    BY OrdenAlEmpezar
  <1>2. IInv /\ KInv /\ [Next]_vars => KInv'
    BY OrdenSeMantiene
  <1> QED
    BY <1>1, <1>2, Induccion, PTL DEF Spec

(***************************************************************************)
(* A request waits in a queue exactly where the allocation of its job says *)
(* RM_QUEUED: tabla_jobs_cambio_alloc finds what a worker serves, and no   *)
(* job in the table waits for a request that is nowhere.  The client asks  *)
(* for each type once, as the comment of tabla_jobs_cambio_alloc requires. *)
(***************************************************************************)
THEOREM ColasConTabla ==
  ASSUME UnoPorTipo
  PROVE  Spec => []ColaYTabla
  BY ColaConTabla, OrdenSiempre, Induccion, PTL

(***************************************************************************)
(* JOB_GRANTED is never early: a job that works has all it asked of this   *)
(* agent, whatever other workers served, purged, gave back or took out of  *)
(* the table meanwhile.                                                    *)
(***************************************************************************)
THEOREM OtorgadoEntero ==
  ASSUME UnoPorTipo
  PROVE  Spec => []OtorgadoCompleto
  BY TrabajaConTodo, OrdenSiempre, Induccion, PTL

===============================================================================
