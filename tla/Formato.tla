------------------------------- MODULE Formato -------------------------------
(***************************************************************************)
(* What becomes of the amounts a node announces on their way to a request: *)
(* the text of an ANNOUNCE parsed into the nodes table (parsing.c), the    *)
(* NODES line made of the table (GET_NODES in resource_manager.c), the     *)
(* planner's maps and the command it draws from them (c_agent_client.erl), *)
(* and the list of requests its agent parses out of that command.          *)
(*                                                                         *)
(* A text is the sequence of its tokens.  Addresses are numbers in the     *)
(* order in which lists:sort puts them; lengths count characters.          *)
(***************************************************************************)
EXTENDS Integers, Sequences, FiniteSets, SequencesExt

CONSTANTS Hosts,        \* addresses
          Cubetas,      \* the hosts in the order of the table's buckets
          Anuncios,     \* datagrams: [puerto, comps], puerto: whether it is a number
          BUFF_SIZE,    \* room of the NODES line
          Fijo,         \* characters of an entry of NODES besides its amounts
          CANT_NODOS,   \* nodes of a request
          DIVISOR

Tipos == {"cpu", "mem", "gpu"}

Par(t, n) == [tipo |-> t, n |-> n]

ASSUME Parametros ==
  /\ Hosts \subseteq Nat /\ ToSet(Cubetas) = Hosts /\ Len(Cubetas) = Cardinality(Hosts)
  /\ BUFF_SIZE \in Nat /\ Fijo \in Nat /\ CANT_NODOS \in Nat \ {0} /\ DIVISOR \in Nat \ {0}

NULL == << >>

VARIABLES tabla,    \* tabla[h]: the amounts of its entry, or NULL
          dijo,     \* history: the last good announcement of h, or NULL
          fase,     \* "libre", "lista" after GET_NODES, "comando", "pedido"
          nodes,    \* the entries of the NODES line
          fuente,   \* history: dijo when that line was made
          comando,  \* the tokens of the JOB_REQUEST line
          sorteo,   \* history: what was drawn, for each host chosen
          pedido    \* what parse_job_request returns

vars == <<tabla, dijo, fase, nodes, fuente, comando, sorteo, pedido>>

SinPedido == [valido |-> FALSE, lista |-> << >>]

Init ==
  /\ tabla = [h \in Hosts |-> NULL] /\ dijo = [h \in Hosts |-> NULL] /\ fuente = dijo
  /\ fase = "libre" /\ nodes = << >> /\ comando = << >> /\ sorteo = << >>
  /\ pedido = SinPedido

-------------------------------------------------------------------------------
(* The agent: announcements. *)

(* The loop over the components: at most three are read, in any order, and *)
(* an unknown one ends it.                                                 *)
Componentes(comps) ==
  FoldLeft(LAMBDA a, c : IF a.mal \/ a.i = 3 THEN a
                         ELSE IF c.tipo \in Tipos
                              THEN [a EXCEPT !.i = @ + 1, !.val[c.tipo] = c.n]
                              ELSE [a EXCEPT !.mal = TRUE],
           [mal |-> FALSE, i |-> 0, val |-> [t \in Tipos |-> -1]], comps)

(* Mutant: the components are taken in the order cpu, mem, gpu. *)
AnuncioEnOrden(m) ==
  LET r == Componentes(m.comps)
  IN  [valido |-> m.puerto /\ ~r.mal /\ \A t \in Tipos : r.val[t] # -1,
       val |-> [t \in Tipos |-> LET k == CASE t = "cpu" -> 1 [] t = "mem" -> 2 [] t = "gpu" -> 3
                                IN  IF k \in DOMAIN m.comps THEN m.comps[k].n ELSE -1]]

parse_announce(m) ==
  LET r == Componentes(m.comps)
  IN  [valido |-> m.puerto /\ ~r.mal /\ \A t \in Tipos : r.val[t] # -1, val |-> r.val]

(* What the author of an announcement means: the three types, once each. *)
Bueno(m) ==
  /\ m.puerto /\ Len(m.comps) >= 3
  /\ {m.comps[k].tipo : k \in 1 .. 3} = Tipos /\ \A k \in 1 .. 3 : m.comps[k].n # -1

process_announce(h, m) ==
  /\ tabla' = [tabla EXCEPT ![h] = IF parse_announce(m).valido THEN parse_announce(m).val ELSE @]
  /\ dijo' = [dijo EXCEPT ![h] = IF Bueno(m) THEN m.comps ELSE @]
  /\ UNCHANGED <<fase, nodes, fuente, comando, sorteo, pedido>>

-------------------------------------------------------------------------------
(* GET_NODES. *)

Digitos(n) == IF n < 10 THEN 1 ELSE 2

Largo(e) == Fijo + Digitos(e.pares[1].n) + Digitos(e.pares[2].n) + Digitos(e.pares[3].n)

LargoTotal(s) == FoldLeft(LAMBDA a, e : a + Largo(e), 6, s)

Entrada(h) ==
  [host |-> h, pares |-> <<Par("cpu", tabla[h]["cpu"]), Par("mem", tabla[h]["mem"]),
                           Par("gpu", tabla[h]["gpu"])>>]

(* The entries of the table, bucket by bucket. *)
Entradas ==
  LET conocidos == SelectSeq(Cubetas, LAMBDA h : tabla[h] # NULL)
  IN  [k \in DOMAIN conocidos |-> Entrada(conocidos[k])]

(* Mutant: every entry is appended. *)
SinTope == Entradas

(* One that does not fit is left out, a shorter one after it may fit. *)
ArmarNodes ==
  FoldLeft(LAMBDA s, e : IF LargoTotal(s) + Largo(e) < BUFF_SIZE - 2 THEN Append(s, e) ELSE s,
           << >>, Entradas)

GET_NODES ==
  /\ fase # "comando"
  /\ nodes' = ArmarNodes /\ fuente' = dijo /\ fase' = "lista"
  /\ comando' = << >> /\ sorteo' = << >> /\ pedido' = SinPedido
  /\ UNCHANGED <<tabla, dijo>>

-------------------------------------------------------------------------------
(* The planner. *)

(* The map of one entry. *)
armar_lista(e) ==
  [host |-> e.host,
   cant |-> FoldLeft(LAMBDA mapa, p : [mapa EXCEPT ![p.tipo] = p.n], [t \in Tipos |-> 0], e.pares)]

(* What rand:uniform may give. *)
rand_desde_cero(n) ==
  IF n = 0 THEN {0} ELSE 0 .. (IF n \div DIVISOR > 1 THEN n \div DIVISOR ELSE 1)

(* The nodes a draw may choose, in the order of host_sort. *)
Elegibles ==
  LET n == IF Len(nodes) < CANT_NODOS THEN Len(nodes) ELSE CANT_NODOS
  IN  {SetToSortSeq({armar_lista(nodes[k]) : k \in ks}, LAMBDA a, b : a.host < b.host) :
         ks \in {x \in SUBSET DOMAIN nodes : Cardinality(x) = n}}

(* The text for one node: a token with its non-zero amounts, or nothing. *)
Token(h, cant) ==
  LET pares == SelectSeq(<<Par("cpu", cant["cpu"]), Par("mem", cant["mem"]), Par("gpu", cant["gpu"])>>,
                         LAMBDA p : p.n # 0)
  IN  IF pares = << >> THEN << >> ELSE <<[host |-> h, pares |-> pares]>>

armar_comando_ordenado(elegidos, cants) ==
  FlattenSeq([k \in DOMAIN elegidos |-> Token(elegidos[k].host, cants[k])])

(* The amounts that may be drawn for one node. *)
Sorteos(cant) ==
  [cpu : rand_desde_cero(cant["cpu"]), mem : rand_desde_cero(cant["mem"]), gpu : rand_desde_cero(cant["gpu"])]

(* A request of the burst; an empty command is not sent. *)
armar_comando ==
  /\ fase \in {"lista", "pedido"} /\ nodes # << >>
  /\ \E elegidos \in Elegibles :
       \E cants \in [DOMAIN elegidos -> UNION {Sorteos(elegidos[k].cant) : k \in DOMAIN elegidos}] :
         /\ \A k \in DOMAIN elegidos : cants[k] \in Sorteos(elegidos[k].cant)
         /\ armar_comando_ordenado(elegidos, cants) # << >>
         /\ comando' = armar_comando_ordenado(elegidos, cants)
         /\ sorteo' = [k \in DOMAIN elegidos |-> [host |-> elegidos[k].host, cant |-> cants[k]]]
  /\ fase' = "comando" /\ pedido' = SinPedido
  /\ UNCHANGED <<tabla, dijo, nodes, fuente>>

-------------------------------------------------------------------------------
(* The agent: JOB_REQUEST. *)

Items(token, pares) ==
  [k \in DOMAIN pares |-> [host |-> token.host, tipo |-> pares[k].tipo, n |-> pares[k].n]]

(* A token without a pair, or with an unknown type, spoils the whole line; *)
(* an amount that is not positive is left out.                             *)
parse_job_request(tokens) ==
  IF \A k \in DOMAIN tokens : tokens[k].pares # << >> /\ \A p \in ToSet(tokens[k].pares) : p.tipo \in Tipos
  THEN [valido |-> TRUE,
        lista |-> FlattenSeq([k \in DOMAIN tokens |->
                    Items(tokens[k], SelectSeq(tokens[k].pares, LAMBDA p : p.n > 0))])]
  ELSE SinPedido

JOB_REQUEST ==
  /\ fase = "comando"
  /\ pedido' = parse_job_request(comando) /\ fase' = "pedido"
  /\ UNCHANGED <<tabla, dijo, nodes, fuente, comando, sorteo>>

-------------------------------------------------------------------------------
Next ==
  \/ \E h \in Hosts, m \in Anuncios : process_announce(h, m)
  \/ GET_NODES \/ armar_comando \/ JOB_REQUEST

Spec == Init /\ [][Next]_vars

Cantidades == [Tipos -> Nat]

(* Tables, lines and lists hold hosts, known types and natural amounts: no  *)
(* component that parse_announce did not find gets into an entry.          *)
TypeOK ==
  /\ \A h \in Hosts : tabla[h] = NULL \/ tabla[h] \in Cantidades
  /\ fase \in {"libre", "lista", "comando", "pedido"}
  /\ nodes \in Seq([host : Hosts, pares : Seq([tipo : Tipos, n : Nat])])
  /\ comando \in Seq([host : Hosts, pares : Seq([tipo : Tipos, n : Nat])])
  /\ pedido.valido \in BOOLEAN /\ pedido.lista \in Seq([host : Hosts, tipo : Tipos, n : Nat])

(***************************************************************************)
(* The NODES line that GET_NODES builds fits its buffer with the newline   *)
(* and the NUL, holds whole entries of the table, and leaves out none that *)
(* would still fit.                                                        *)
(***************************************************************************)
NodesCabeYCompleta ==
  [][GET_NODES =>
       /\ LargoTotal(nodes') + 2 <= BUFF_SIZE
       /\ ToSet(nodes') \subseteq ToSet(Entradas)
       /\ \A e \in ToSet(Entradas) \ ToSet(nodes') : LargoTotal(nodes') + Largo(e) >= BUFF_SIZE - 2]_vars

(* No amount above what the node last announced under that type, hosts in  *)
(* the common order, at most one amount per host and type.                 *)
Posible(lista) ==
  \A i, k \in DOMAIN lista :
    LET a == lista[i]
        b == lista[k]
    IN  /\ a.n > 0 /\ fuente[a.host] # NULL
        /\ \E c \in 1 .. 3 : fuente[a.host][c].tipo = a.tipo /\ a.n <= fuente[a.host][c].n
        /\ i < k => a.host < b.host \/ (a.host = b.host /\ a.tipo # b.tipo)

(***************************************************************************)
(* What the agent reads is what the planner drew and what can be granted:  *)
(* parse_job_request takes from the command every amount armar_comando put *)
(* in it, under its host and type, also when nodes with nothing are skipped*)
(* on the way, and none is above the total its node announced, so          *)
(* reserve_resource refuses none.  That needs all the way there:           *)
(* parse_announce "permite recibir un ANNOUNCE cualquiera sin importar el  *)
(* orden de los recursos", and a malformed one, with a type missing or     *)
(* repeated, changes nothing.                                              *)
(***************************************************************************)
PedidoExacto ==
  fase = "pedido" =>
    /\ pedido.valido /\ pedido.lista # << >> /\ Posible(pedido.lista)
    /\ ToSet(pedido.lista) =
         {x \in [host : Hosts, tipo : Tipos, n : 1 .. 99] :
            \E s \in ToSet(sorteo) : s.host = x.host /\ s.cant[x.tipo] = x.n}
===============================================================================
