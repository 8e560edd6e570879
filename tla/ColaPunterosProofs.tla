-------------------------- MODULE ColaPunterosProofs --------------------------
(***************************************************************************)
(* The linked list of pending_request.c stays well formed, and implements  *)
(* the FIFO of ColaAbs, for a heap of any size.                            *)
(***************************************************************************)
EXTENDS ColaPunteros, InduccionNat

-------------------------------------------------------------------------------
(* What the folds of the model compute, step by step. *)

(* Injections of positions into the heap. *)
Distintas(l) == \A i, j \in 1 .. Len(l) : l[i] = l[j] => i = j

LEMMA CabenEnElHeap ==
  ASSUME NEW l \in Seq(Celdas), Distintas(l)
  PROVE  Len(l) \in Nat /\ Cardinality(Celdas) \in Nat /\ Len(l) <= Cardinality(Celdas)
  <1>1. IsFiniteSet(Celdas)
    BY HeapFinito
  <1>2. Len(l) \in Nat /\ l \in [1 .. Len(l) -> Celdas]
    BY LenProperties
  <1>3. l \in Injection(1 .. Len(l), Celdas)
    BY <1>2 DEF Distintas, Injection, IsInjective
  <1>4. Cardinality(1 .. Len(l)) <= Cardinality(Celdas) /\ Cardinality(Celdas) \in Nat
    BY <1>1, <1>3, FS_Injection, FS_CardinalityType
  <1>5. Cardinality(1 .. Len(l)) = IF 1 > Len(l) THEN 0 ELSE Len(l) - 1 + 1
    BY <1>2, FS_Interval
  <1> QED
    BY <1>2, <1>4, <1>5

(* MontoDe adds the amounts of the cells one by one. *)
LEMMA PliegueMonto ==
  ASSUME NEW l \in Seq(Celdas), \A k \in 1 .. Len(l) : mem[l[k]].amount \in Nat
  PROVE  \E e : /\ e[0] = 0 /\ MontoDe(l) = e[Len(l)]
                /\ \A k \in 1 .. Len(l) : e[k] = e[k - 1] + mem[l[k]].amount
  <1> DEFINE n == Len(l)
             Paso(v, k) == v + mem[l[k]].amount
             Valor(it, s) == IF s = {} THEN 0 ELSE Paso(it[s \ {Max(s)}], Max(s))
             Solucion(it) == it = [s \in SUBSET (1 .. n) |-> Valor(it, s)]
             h == CHOOSE it : Solucion(it)
             W == [k \in 0 .. n |-> Nat]
             G == [x \in Nat \X (1 .. n) |-> Paso(x[1], x[2])]
  <1>1. n \in Nat /\ DOMAIN l = 1 .. n
    BY LenProperties
  <1>2. MontoDe(l) = h[1 .. n]
    BY <1>1 DEF MontoDe, FoldLeft, MapThenFoldSet
  <1>3. 0 \in W[0] /\ \A k \in 1 .. n : W[k - 1] = Nat /\ W[k] = Nat
    BY <1>1
  <1>4. \A v \in Nat, k \in 1 .. n : Paso(v, k) \in Nat /\ G[<<v, k>>] = Paso(v, k)
    OBVIOUS
  <1>5. Pliega(G, W, n)
    <2> HIDE DEF G, W, Paso
    <2>1. ASSUME NEW k \in 1 .. n
          PROVE  W[k - 1] \subseteq W[k] /\ \A v \in W[k - 1] : G[<<v, k>>] \in W[k]
      <3>1. W[k - 1] = Nat /\ W[k] = Nat /\ \A v \in Nat : G[<<v, k>>] \in Nat
        BY <1>3, <1>4
      <3> QED
        BY <3>1, Zenon
    <2> QED
      BY <2>1, Zenon DEF Pliega
  <1> HIDE DEF n, G, W, Paso
  <1>6. PICK it : EsPliegue(it, G, W, n, 0)
    BY <1>1, <1>3, <1>5, HayPliegue, Zenon
  <1>7. Solucion(it)
    <2>1. ASSUME NEW s \in SUBSET (1 .. n) PROVE it[s] = Valor(it, s)
      <3>1. CASE s = {}
        BY <3>1, <1>6 DEF EsPliegue
      <3>2. CASE s # {}
        <4>1. Max(s) \in 1 .. n
          <5>1. Max(s) \in s
            BY <3>2, <1>1, ElMayor, Zenon
          <5> QED
            BY <5>1
        <4>2. it[s] = G[<<it[s \ {Max(s)}], Max(s)>>] /\ it[s \ {Max(s)}] \in W[Max(s) - 1]
          BY <3>2, <1>6, Zenon DEF EsPliegue
        <4>3. it[s] = Paso(it[s \ {Max(s)}], Max(s))
          BY <4>1, <4>2, <1>3, <1>4, Zenon
        <4> QED
          BY <3>2, <4>3, Zenon
      <3> QED
        BY <3>1, <3>2
    <2>2. it = [s \in SUBSET (1 .. n) |-> it[s]]
      BY <1>6 DEF EsPliegue
    <2> HIDE DEF Valor
    <2> QED
      BY <2>1, <2>2
  <1>8. Solucion(h)
    <2> HIDE DEF Solucion
    <2> QED
      BY <1>7
  <1> HIDE DEF h
  <1>9. \A s \in SUBSET (1 .. n) : h[s] = Valor(h, s)
    BY <1>8, Zenon
  <1> DEFINE e == [k \in 0 .. n |-> h[1 .. k]]
  <1>10. e[0] = 0 /\ e[n] = h[1 .. n] /\ \A k \in 1 .. n : e[k] = h[1 .. k] /\ e[k - 1] = h[1 .. (k - 1)]
    <2>1. {} \in SUBSET (1 .. n) /\ 1 .. 0 = {}
      OBVIOUS
    <2>2. h[1 .. 0] = 0
      BY <2>1, <1>9, Zenon
    <2> QED
      BY <2>2, <1>1
  <1>11. ASSUME NEW k \in 1 .. n PROVE h[1 .. k] = Paso(h[1 .. (k - 1)], k)
    <2>1. /\ 1 .. k \in SUBSET (1 .. n) /\ 1 .. k # {}
          /\ Max(1 .. k) = k /\ (1 .. k) \ {k} = 1 .. (k - 1)
      BY <1>1, Escalones
    <2> QED
      BY <2>1, <1>9, Zenon
  <1> HIDE DEF e
  <1> QED
    BY <1>2, <1>10, <1>11 DEF Paso, n

(* Desde follows the links, a cell at each step. *)
LEMMA PliegueDesde ==
  ASSUME NEW t \in Celdas \cup {NULL}, NEW f \in [Celdas -> Celdas \cup {NULL}]
  PROVE  LET N == Cardinality(Celdas) IN
         \E e : /\ e[0] = (IF t = NULL THEN << >> ELSE <<t>>) /\ Desde(t, f) = e[N]
                /\ \A k \in 1 .. N :
                     e[k] = IF e[k - 1] = << >> \/ f[Last(e[k - 1])] = NULL THEN e[k - 1]
                            ELSE Append(e[k - 1], f[Last(e[k - 1])])
  <1> DEFINE N == Cardinality(Celdas)
             b == IF t = NULL THEN << >> ELSE <<t>>
             n == N
             Paso(v, k) == IF v = << >> \/ f[Last(v)] = NULL THEN v ELSE Append(v, f[Last(v)])
             Valor(it, s) == IF s = {} THEN b ELSE Paso(it[s \ {Max(s)}], Max(s))
             Solucion(it) == it = [s \in SUBSET (1 .. n) |-> Valor(it, s)]
             h == CHOOSE it : Solucion(it)
             W == [k \in 0 .. n |-> Seq(Celdas)]
             G == [x \in Seq(Celdas) \X (1 .. n) |-> Paso(x[1], x[2])]
  <1>1. n \in Nat /\ DOMAIN [k \in 1 .. N |-> k] = 1 .. n
    BY HeapFinito, FS_CardinalityType
  <1>2. Desde(t, f) = h[1 .. n]
    BY <1>1 DEF Desde, FoldLeft, MapThenFoldSet
  <1>3. b \in W[0] /\ \A k \in 1 .. n : W[k - 1] = Seq(Celdas) /\ W[k] = Seq(Celdas)
    <2>1. b \in Seq(Celdas)
      OBVIOUS
    <2> QED
      BY <1>1, <2>1
  <1>4. \A v \in Seq(Celdas), k \in 1 .. n : Paso(v, k) \in Seq(Celdas) /\ G[<<v, k>>] = Paso(v, k)
    <2>1. ASSUME NEW v \in Seq(Celdas), NEW k PROVE Paso(v, k) \in Seq(Celdas)
      <3>1. CASE v = << >>
        BY <3>1
      <3>2. CASE v # << >>
        <4>1. Last(v) \in Celdas
          BY <3>2, LenProperties, EmptySeq DEF Last
        <4> QED
          BY <4>1, <3>2
      <3> QED
        BY <3>1, <3>2
    <2> HIDE DEF Paso
    <2> QED
      BY <2>1

  <1>5. Pliega(G, W, n)
    <2> HIDE DEF G, W, Paso
    <2>1. ASSUME NEW k \in 1 .. n
          PROVE  W[k - 1] \subseteq W[k] /\ \A v \in W[k - 1] : G[<<v, k>>] \in W[k]
      <3>1. W[k - 1] = Seq(Celdas) /\ W[k] = Seq(Celdas) /\ \A v \in Seq(Celdas) : G[<<v, k>>] \in Seq(Celdas)
        BY <1>3, <1>4
      <3> QED
        BY <3>1, Zenon
    <2> QED
      BY <2>1, Zenon DEF Pliega
  <1> HIDE DEF b
  <1> HIDE DEF n, G, W, Paso
  <1>6. PICK it : EsPliegue(it, G, W, n, b)
    BY <1>1, <1>3, <1>5, HayPliegue, Zenon
  <1>7. Solucion(it)
    <2>1. ASSUME NEW s \in SUBSET (1 .. n) PROVE it[s] = Valor(it, s)
      <3>1. CASE s = {}
        BY <3>1, <1>6 DEF EsPliegue
      <3>2. CASE s # {}
        <4>1. Max(s) \in 1 .. n
          <5>1. Max(s) \in s
            BY <3>2, <1>1, ElMayor, Zenon
          <5> QED
            BY <5>1
        <4>2. it[s] = G[<<it[s \ {Max(s)}], Max(s)>>] /\ it[s \ {Max(s)}] \in W[Max(s) - 1]
          BY <3>2, <1>6, Zenon DEF EsPliegue
        <4>3. it[s] = Paso(it[s \ {Max(s)}], Max(s))
          BY <4>1, <4>2, <1>3, <1>4, Zenon
        <4> QED
          BY <3>2, <4>3, Zenon
      <3> QED
        BY <3>1, <3>2
    <2>2. it = [s \in SUBSET (1 .. n) |-> it[s]]
      BY <1>6 DEF EsPliegue
    <2> HIDE DEF Valor
    <2> QED
      BY <2>1, <2>2
  <1>8. Solucion(h)
    <2> HIDE DEF Solucion
    <2> QED
      BY <1>7
  <1> HIDE DEF h
  <1>9. \A s \in SUBSET (1 .. n) : h[s] = Valor(h, s)
    BY <1>8, Zenon
  <1> DEFINE e == [k \in 0 .. n |-> h[1 .. k]]
  <1>10. e[0] = b /\ e[n] = h[1 .. n] /\ \A k \in 1 .. n : e[k] = h[1 .. k] /\ e[k - 1] = h[1 .. (k - 1)]
    <2>1. {} \in SUBSET (1 .. n) /\ 1 .. 0 = {}
      OBVIOUS
    <2>2. h[1 .. 0] = b
      BY <2>1, <1>9, Zenon
    <2> QED
      BY <2>2, <1>1
  <1>11. ASSUME NEW k \in 1 .. n PROVE h[1 .. k] = Paso(h[1 .. (k - 1)], k)
    <2>1. /\ 1 .. k \in SUBSET (1 .. n) /\ 1 .. k # {}
          /\ Max(1 .. k) = k /\ (1 .. k) \ {k} = 1 .. (k - 1)
      BY <1>1, Escalones
    <2> QED
      BY <2>1, <1>9, Zenon
  <1> HIDE DEF e
  <1>12. \A k \in 1 .. n : e[k] = Paso(e[k - 1], k)
    BY <1>10, <1>11
  <1> QED
    BY <1>2, <1>10, <1>12, Zenon DEF Paso, n, b

(* The states of a deletion loop, and one turn of it field by field. *)
Vueltas ==
  [mem : [Celdas -> Pedidos \cup {NULL}], sig : [Celdas -> Celdas \cup {NULL}],
   top : Celdas \cup {NULL}, bottom : Celdas \cup {NULL}, amount : Int, prev : Celdas \cup {NULL}]

Vuelta(q, c, fuera, r) ==
  /\ c \notin fuera =>
       /\ r.mem = q.mem /\ r.sig = q.sig /\ r.top = q.top /\ r.bottom = q.bottom
       /\ r.amount = q.amount /\ r.prev = c /\ r \in Vueltas
  /\ c \in fuera =>
       /\ r.mem = [q.mem EXCEPT ![c] = NULL]
       /\ r.sig = (IF q.prev = NULL THEN q.sig ELSE [q.sig EXCEPT ![q.prev] = q.sig[c]])
       /\ r.top = (IF q.prev = NULL THEN q.sig[c] ELSE q.top)
       /\ r.bottom = (IF q.bottom = c THEN q.prev ELSE q.bottom)
       /\ r.amount = q.amount - q.mem[c].amount /\ r.prev = q.prev
       /\ q.mem[c] \in Pedidos => r \in Vueltas

LEMMA UnaVuelta ==
  ASSUME NEW q \in Vueltas, NEW c \in Celdas, NEW fuera
  PROVE  Vuelta(q, c, fuera, paso_delete(q, c, fuera))
  <1> DEFINE r == paso_delete(q, c, fuera)
             a == q.amount - q.mem[c].amount
             s == IF q.prev = NULL THEN q.sig ELSE [q.sig EXCEPT ![q.prev] = q.sig[c]]
             t == IF q.prev = NULL THEN q.sig[c] ELSE q.top
             b == IF q.bottom = c THEN q.prev ELSE q.bottom
             m == [q.mem EXCEPT ![c] = NULL]
  <1>1. q = [mem |-> q.mem, sig |-> q.sig, top |-> q.top, bottom |-> q.bottom, amount |-> q.amount,
             prev |-> q.prev]
    BY DEF Vueltas
  <1>2. CASE c \notin fuera
    <2>1. r = [mem |-> q.mem, sig |-> q.sig, top |-> q.top, bottom |-> q.bottom, amount |-> q.amount,
               prev |-> c]
      BY <1>1, <1>2 DEF paso_delete
    <2> HIDE DEF r
    <2>2. r \in Vueltas
      BY <2>1 DEF Vueltas
    <2>3. Vuelta(q, c, fuera, r)
      BY <1>2, <2>1, <2>2 DEF Vuelta
    <2> QED
      BY <2>3 DEF r
  <1>3. CASE c \in fuera
    <2>1. r = [mem |-> m, sig |-> s, top |-> t, bottom |-> b, amount |-> a, prev |-> q.prev]
      BY <1>1, <1>3 DEF paso_delete
    <2>2. m \in [Celdas -> Pedidos \cup {NULL}] /\ s \in [Celdas -> Celdas \cup {NULL}]
      BY DEF Vueltas
    <2>3. t \in Celdas \cup {NULL} /\ b \in Celdas \cup {NULL} /\ q.prev \in Celdas \cup {NULL}
      BY DEF Vueltas
    <2>4. q.mem[c] \in Pedidos => a \in Int
      <3>1. q.mem[c] \in Pedidos => q.mem[c].amount \in Nat
        BY HeapFinito DEF Pedidos
      <3>2. q.amount \in Int
        BY DEF Vueltas
      <3> QED
        BY <3>1, <3>2
    <2>5. r.mem = m /\ r.sig = s /\ r.top = t /\ r.bottom = b /\ r.amount = a /\ r.prev = q.prev
      <3> HIDE DEF r, m, s, t, b, a
      <3> QED
        BY <2>1
    <2>6. q.mem[c] \in Pedidos => r \in Vueltas
      <3> HIDE DEF r, m, s, t, b, a
      <3> QED
        BY <2>1, <2>2, <2>3, <2>4 DEF Vueltas
    <2>7. Vuelta(q, c, fuera, r)
      <3> HIDE DEF r
      <3> QED
        BY <1>3, <2>5, <2>6, Zenon DEF Vuelta
    <2> QED
      BY <2>7
  <1> QED
    BY <1>2, <1>3

(* borrado is the turns of the loop, one for each cell of the list. *)
LEMMA PliegueBorrado ==
  ASSUME TypeOK, NEW l \in Seq(Celdas), Lista = l, Distintas(l), NEW fuera,
         \A k \in 1 .. Len(l) : mem[l[k]] \in Pedidos
  PROVE  \E e : /\ e[0] = [mem |-> mem, sig |-> sig, top |-> top, bottom |-> bottom,
                          amount |-> amount, prev |-> NULL]
                /\ borrado(fuera) = e[Len(l)]
                /\ \A k \in 1 .. Len(l) : e[k] = paso_delete(e[k - 1], l[k], fuera)
  <1> DEFINE b == [mem |-> mem, sig |-> sig, top |-> top, bottom |-> bottom, amount |-> amount, prev |-> NULL]
             n == Len(l)
             Paso(v, k) == paso_delete(v, l[k], fuera)
             Valor(it, s) == IF s = {} THEN b ELSE Paso(it[s \ {Max(s)}], Max(s))
             Solucion(it) == it = [s \in SUBSET (1 .. n) |-> Valor(it, s)]
             h == CHOOSE it : Solucion(it)
             W == [k \in 0 .. n |-> {q \in Vueltas : \A j \in k + 1 .. n : q.mem[l[j]] \in Pedidos}]
             G == [x \in Vueltas \X (1 .. n) |-> Paso(x[1], x[2])]
  <1>1. n \in Nat /\ DOMAIN l = 1 .. n
    BY LenProperties
  <1>2. borrado(fuera) = h[1 .. n]
    BY <1>1 DEF borrado, FoldLeft, MapThenFoldSet
  <1>3. b \in W[0] /\ \A k \in 1 .. n : W[k - 1] \subseteq Vueltas
    <2>1. b \in Vueltas
      BY DEF TypeOK, Vueltas
    <2>2. b.mem = mem
      OBVIOUS
    <2> HIDE DEF b
    <2>3. \A j \in 0 + 1 .. n : b.mem[l[j]] \in Pedidos
      BY <2>2
    <2> QED
      BY <1>1, <2>1, <2>3
  <1>4. \A v \in Vueltas, k \in 1 .. n : G[<<v, k>>] = Paso(v, k)
    <2> HIDE DEF Paso
    <2> QED
      OBVIOUS

  <1>5. Pliega(G, W, n)
    <2>1. ASSUME NEW k \in 1 .. n, NEW v \in W[k - 1] PROVE v \in W[k] /\ G[<<v, k>>] \in W[k]
      <3>1. /\ k - 1 \in 0 .. n /\ k \in 0 .. n /\ (k - 1) + 1 = k /\ l[k] \in Celdas
            /\ \A j \in k + 1 .. n : j \in k .. n /\ l[j] # l[k] /\ l[j] \in Celdas
        BY <1>1 DEF Distintas
      <3>2. v \in Vueltas /\ \A j \in k .. n : v.mem[l[j]] \in Pedidos
        BY <3>1
      <3>3. v.mem[l[k]] \in Pedidos /\ \A j \in k + 1 .. n : v.mem[l[j]] \in Pedidos
        BY <3>1, <3>2
      <3>4. v \in W[k]
        BY <3>1, <3>2, <3>3
      <3> DEFINE r == paso_delete(v, l[k], fuera)
      <3>5. r \in Vueltas /\ (r.mem = v.mem \/ r.mem = [v.mem EXCEPT ![l[k]] = NULL])
        <4>1. Vuelta(v, l[k], fuera, r)
          BY <3>1, <3>2, UnaVuelta, Zenon
        <4> HIDE DEF r
        <4> QED
          BY <4>1, <3>3, Zenon DEF Vuelta
      <3>6. \A j \in k + 1 .. n : r.mem[l[j]] = v.mem[l[j]]
        <4> HIDE DEF r
        <4> QED
          BY <3>1, <3>2, <3>5 DEF Vueltas
      <3>7. r \in W[k]
        <4> HIDE DEF r
        <4> QED
          BY <3>1, <3>3, <3>5, <3>6
      <3> QED
        BY <3>2, <3>4, <3>7, <1>4
    <2> HIDE DEF G, W, Paso
    <2> QED
      BY <2>1, Zenon DEF Pliega
  <1> HIDE DEF b
  <1> HIDE DEF n, G, W, Paso
  <1>6. PICK it : EsPliegue(it, G, W, n, b)
    BY <1>1, <1>3, <1>5, HayPliegue, Zenon
  <1>7. Solucion(it)
    <2>1. ASSUME NEW s \in SUBSET (1 .. n) PROVE it[s] = Valor(it, s)
      <3>1. CASE s = {}
        BY <3>1, <1>6 DEF EsPliegue
      <3>2. CASE s # {}
        <4>1. Max(s) \in 1 .. n
          <5>1. Max(s) \in s
            BY <3>2, <1>1, ElMayor, Zenon
          <5> QED
            BY <5>1
        <4>2. it[s] = G[<<it[s \ {Max(s)}], Max(s)>>] /\ it[s \ {Max(s)}] \in W[Max(s) - 1]
          BY <3>2, <1>6, Zenon DEF EsPliegue
        <4>3. it[s] = Paso(it[s \ {Max(s)}], Max(s))
          <5>1. it[s \ {Max(s)}] \in Vueltas
            BY <4>1, <4>2, <1>3
          <5> QED
            BY <4>1, <4>2, <5>1, <1>4, Zenon
        <4> QED
          BY <3>2, <4>3, Zenon
      <3> QED
        BY <3>1, <3>2
    <2>2. it = [s \in SUBSET (1 .. n) |-> it[s]]
      BY <1>6 DEF EsPliegue
    <2> HIDE DEF Valor
    <2> QED
      BY <2>1, <2>2
  <1>8. Solucion(h)
    <2> HIDE DEF Solucion
    <2> QED
      BY <1>7
  <1> HIDE DEF h
  <1>9. \A s \in SUBSET (1 .. n) : h[s] = Valor(h, s)
    BY <1>8, Zenon
  <1> DEFINE e == [k \in 0 .. n |-> h[1 .. k]]
  <1>10. e[0] = b /\ e[n] = h[1 .. n] /\ \A k \in 1 .. n : e[k] = h[1 .. k] /\ e[k - 1] = h[1 .. (k - 1)]
    <2>1. {} \in SUBSET (1 .. n) /\ 1 .. 0 = {}
      OBVIOUS
    <2>2. h[1 .. 0] = b
      BY <2>1, <1>9, Zenon
    <2> QED
      BY <2>2, <1>1
  <1>11. ASSUME NEW k \in 1 .. n PROVE h[1 .. k] = Paso(h[1 .. (k - 1)], k)
    <2>1. /\ 1 .. k \in SUBSET (1 .. n) /\ 1 .. k # {}
          /\ Max(1 .. k) = k /\ (1 .. k) \ {k} = 1 .. (k - 1)
      BY <1>1, Escalones
    <2> QED
      BY <2>1, <1>9, Zenon
  <1> HIDE DEF e
  <1>12. \A k \in 1 .. n : e[k] = Paso(e[k - 1], k)
    BY <1>10, <1>11
  <1> QED
    BY <1>2, <1>10, <1>12, Zenon DEF Paso, n, b

(* Sin keeps the requests one by one. *)
LEMMA PliegueSin ==
  ASSUME NEW l \in Seq(Celdas), Lista = l, NEW fuera,
         \A k \in 1 .. Len(l) : mem[l[k]] \in Pedidos
  PROVE  \E e : /\ e[0] = << >> /\ Abs!Sin(fuera) = e[Len(l)]
                /\ \A k \in 1 .. Len(l) :
                     e[k] = IF mem[l[k]] \in fuera THEN e[k - 1] ELSE Append(e[k - 1], mem[l[k]])
  <1> DEFINE cola == [i \in DOMAIN Lista |-> mem[Lista[i]]]
             n == Len(l)
             Paso(v, k) == IF cola[k] \in fuera THEN v ELSE Append(v, cola[k])
             Valor(it, s) == IF s = {} THEN << >> ELSE Paso(it[s \ {Max(s)}], Max(s))
             Solucion(it) == it = [s \in SUBSET (1 .. n) |-> Valor(it, s)]
             h == CHOOSE it : Solucion(it)
             W == [k \in 0 .. n |-> Seq(Pedidos)]
             G == [x \in Seq(Pedidos) \X (1 .. n) |-> Paso(x[1], x[2])]
  <1>1. n \in Nat /\ DOMAIN cola = 1 .. n
    BY LenProperties
  <1>2. Abs!Sin(fuera) = h[1 .. n]
    BY <1>1 DEF Abs!Sin, Abs!FoldLeft, Abs!MapThenFoldSet, Abs!Max, Max
  <1>3. << >> \in W[0] /\ \A k \in 1 .. n : W[k - 1] = Seq(Pedidos) /\ W[k] = Seq(Pedidos)
    BY <1>1
  <1>31. \A k \in 1 .. n : cola[k] = mem[l[k]] /\ cola[k] \in Pedidos
    BY <1>1
  <1> HIDE DEF cola
  <1>4. \A v \in Seq(Pedidos), k \in 1 .. n : Paso(v, k) \in Seq(Pedidos) /\ G[<<v, k>>] = Paso(v, k)
    <2>1. ASSUME NEW v \in Seq(Pedidos), NEW k \in 1 .. n PROVE Paso(v, k) \in Seq(Pedidos)
      BY <1>31
    <2> HIDE DEF Paso
    <2> QED
      BY <2>1

  <1>5. Pliega(G, W, n)
    <2> HIDE DEF G, W, Paso
    <2>1. ASSUME NEW k \in 1 .. n
          PROVE  W[k - 1] \subseteq W[k] /\ \A v \in W[k - 1] : G[<<v, k>>] \in W[k]
      <3>1. W[k - 1] = Seq(Pedidos) /\ W[k] = Seq(Pedidos) /\ \A v \in Seq(Pedidos) : G[<<v, k>>] \in Seq(Pedidos)
        BY <1>3, <1>4
      <3> QED
        BY <3>1, Zenon
    <2> QED
      BY <2>1, Zenon DEF Pliega
  <1> HIDE DEF n, G, W, Paso
  <1>6. PICK it : EsPliegue(it, G, W, n, << >>)
    BY <1>1, <1>3, <1>5, HayPliegue, Zenon
  <1>7. Solucion(it)
    <2>1. ASSUME NEW s \in SUBSET (1 .. n) PROVE it[s] = Valor(it, s)
      <3>1. CASE s = {}
        BY <3>1, <1>6 DEF EsPliegue
      <3>2. CASE s # {}
        <4>1. Max(s) \in 1 .. n
          <5>1. Max(s) \in s
            BY <3>2, <1>1, ElMayor, Zenon
          <5> QED
            BY <5>1
        <4>2. it[s] = G[<<it[s \ {Max(s)}], Max(s)>>] /\ it[s \ {Max(s)}] \in W[Max(s) - 1]
          BY <3>2, <1>6, Zenon DEF EsPliegue
        <4>3. it[s] = Paso(it[s \ {Max(s)}], Max(s))
          BY <4>1, <4>2, <1>3, <1>4, Zenon
        <4> QED
          BY <3>2, <4>3, Zenon
      <3> QED
        BY <3>1, <3>2
    <2>2. it = [s \in SUBSET (1 .. n) |-> it[s]]
      BY <1>6 DEF EsPliegue
    <2> HIDE DEF Valor
    <2> QED
      BY <2>1, <2>2
  <1>8. Solucion(h)
    <2> HIDE DEF Solucion
    <2> QED
      BY <1>7
  <1> HIDE DEF h
  <1>9. \A s \in SUBSET (1 .. n) : h[s] = Valor(h, s)
    BY <1>8, Zenon
  <1> DEFINE e == [k \in 0 .. n |-> h[1 .. k]]
  <1>10. e[0] = << >> /\ e[n] = h[1 .. n] /\ \A k \in 1 .. n : e[k] = h[1 .. k] /\ e[k - 1] = h[1 .. (k - 1)]
    <2>1. {} \in SUBSET (1 .. n) /\ 1 .. 0 = {}
      OBVIOUS
    <2>2. h[1 .. 0] = << >>
      BY <2>1, <1>9, Zenon
    <2> QED
      BY <2>2, <1>1
  <1>11. ASSUME NEW k \in 1 .. n PROVE h[1 .. k] = Paso(h[1 .. (k - 1)], k)
    <2>1. /\ 1 .. k \in SUBSET (1 .. n) /\ 1 .. k # {}
          /\ Max(1 .. k) = k /\ (1 .. k) \ {k} = 1 .. (k - 1)
      BY <1>1, Escalones
    <2> QED
      BY <2>1, <1>9, Zenon
  <1> HIDE DEF e
  <1>12. \A k \in 1 .. n : e[k] = Paso(e[k - 1], k)
    BY <1>10, <1>11
  <1>13. \A k \in 1 .. n : e[k] = IF mem[l[k]] \in fuera THEN e[k - 1] ELSE Append(e[k - 1], mem[l[k]])
    BY <1>12, <1>31 DEF Paso
  <1> QED
    BY <1>2, <1>10, <1>13, Zenon DEF n

-------------------------------------------------------------------------------
(* The list. *)

(* The cells of l, in order, are the list that starts at t and ends at b. *)
Forma(l, m, f, t, b) ==
  /\ Distintas(l)
  /\ \A c \in Celdas : m[c] # NULL <=> \E i \in 1 .. Len(l) : l[i] = c
  /\ t = IF Len(l) = 0 THEN NULL ELSE l[1]
  /\ b = IF Len(l) = 0 THEN NULL ELSE l[Len(l)]
  /\ \A i \in 1 .. Len(l) : f[l[i]] = IF i = Len(l) THEN NULL ELSE l[i + 1]

(* a is what the cells of l ask for: s has the sums of its beginnings. *)
Suma(l, m, a) ==
  \E s \in [0 .. Len(l) -> Nat] :
    /\ s[0] = 0 /\ s[Len(l)] = a
    /\ \A i \in 1 .. Len(l) : s[i] = s[i - 1] + m[l[i]].amount

(* A cell in use holds a request. *)
LEMMA Ocupadas ==
  ASSUME NEW l \in Seq(Celdas), NEW m \in [Celdas -> Pedidos \cup {NULL}], NEW f, NEW t, NEW b,
         Forma(l, m, f, t, b)
  PROVE  \A k \in 1 .. Len(l) : l[k] \in Celdas /\ m[l[k]] \in Pedidos /\ m[l[k]].amount \in Nat
  <1> SUFFICES ASSUME NEW k \in 1 .. Len(l)
               PROVE  l[k] \in Celdas /\ m[l[k]] \in Pedidos /\ m[l[k]].amount \in Nat
    OBVIOUS
  <1>1. l[k] \in Celdas
    BY LenProperties
  <1>2. m[l[k]] \in Pedidos
    BY <1>1 DEF Forma
  <1> QED
    BY <1>1, <1>2, HeapFinito DEF Pedidos

(* l without its p-th cell. *)
Quita(l, p) == [i \in 1 .. Len(l) - 1 |-> IF i < p THEN l[i] ELSE l[i + 1]]

LEMMA QuitaEs ==
  ASSUME NEW l \in Seq(Celdas), NEW p \in 1 .. Len(l)
  PROVE  /\ Quita(l, p) \in Seq(Celdas) /\ Len(Quita(l, p)) = Len(l) - 1 /\ Len(l) \in Nat
         /\ \A i \in 1 .. Len(l) - 1 :
              /\ i < p => Quita(l, p)[i] = l[i]
              /\ i >= p => Quita(l, p)[i] = l[i + 1]
  <1>1. Len(l) \in Nat /\ Len(l) - 1 \in Nat /\ \A i \in 1 .. Len(l) : l[i] \in Celdas
    BY LenProperties
  <1>2. \A i \in 1 .. Len(l) - 1 : (IF i < p THEN l[i] ELSE l[i + 1]) \in Celdas
    BY <1>1
  <1>3. Quita(l, p) \in [1 .. Len(l) - 1 -> Celdas]
    BY <1>2 DEF Quita
  <1>4. Quita(l, p) \in Seq(Celdas) /\ Len(Quita(l, p)) = Len(l) - 1
    BY <1>1, <1>3
  <1> QED
    BY <1>1, <1>4 DEF Quita

(* g is f with the p-th cell of l skipped; prev is the cell before it. *)
Puente(l, p, f, g, prev) ==
  /\ prev = IF p = 1 THEN NULL ELSE l[p - 1]
  /\ \A x \in Celdas \ {prev, l[p]} : g[x] = f[x]
  /\ p # 1 => g[prev] = f[l[p]]

(***************************************************************************)
(* Unlinking the cell at position p: the one before it, or top, takes its  *)
(* link, and bottom moves back when it was the last.                       *)
(***************************************************************************)
LEMMA Desenlazar ==
  ASSUME NEW l \in Seq(Celdas), NEW p \in 1 .. Len(l), NEW m \in [Celdas -> Pedidos \cup {NULL}],
         NEW f, NEW t, NEW b, Forma(l, m, f, t, b),
         NEW prev, NEW g, Puente(l, p, f, g, prev)
  PROVE  Forma(Quita(l, p), [m EXCEPT ![l[p]] = NULL], g,
               IF p = 1 THEN f[l[p]] ELSE t, IF b = l[p] THEN prev ELSE b)
  <1> DEFINE r == Quita(l, p)
             n == Len(l)
             c == l[p]
             w == [m EXCEPT ![c] = NULL]
  <1>1. /\ r \in Seq(Celdas) /\ Len(r) = n - 1 /\ n \in Nat /\ p \in 1 .. n
        /\ \A i \in 1 .. n - 1 : (i < p => r[i] = l[i]) /\ (i >= p => r[i] = l[i + 1])
    BY QuitaEs
  <1>2. /\ \A i, j \in 1 .. n : l[i] = l[j] => i = j
        /\ \A x \in Celdas : m[x] # NULL <=> \E i \in 1 .. n : l[i] = x
        /\ t = IF n = 0 THEN NULL ELSE l[1]
        /\ b = IF n = 0 THEN NULL ELSE l[n]
        /\ \A i \in 1 .. n : f[l[i]] = IF i = n THEN NULL ELSE l[i + 1]
        /\ \A i \in 1 .. n : l[i] \in Celdas
    BY DEF Forma, Distintas
  <1>0. /\ prev = IF p = 1 THEN NULL ELSE l[p - 1]
        /\ \A x \in Celdas \ {prev, l[p]} : g[x] = f[x]
        /\ p # 1 => g[prev] = f[l[p]]
    BY DEF Puente
  <1> HIDE DEF r, n
  <1>3. \A i, j \in 1 .. n - 1 : r[i] = r[j] => i = j
    BY <1>1, <1>2
  <1>4. \A x \in Celdas : w[x] # NULL <=> \E i \in 1 .. n - 1 : r[i] = x
    <2> SUFFICES ASSUME NEW x \in Celdas PROVE w[x] # NULL <=> \E i \in 1 .. n - 1 : r[i] = x
      OBVIOUS
    <2>1. w[x] # NULL <=> x # c /\ m[x] # NULL
      BY <1>1, <1>2
    <2>2. ASSUME NEW i \in 1 .. n - 1, r[i] = x PROVE x # c /\ m[x] # NULL
      <3>1. \E j \in 1 .. n : j # p /\ l[j] = x
        <4>1. CASE i < p
          <5>1. i \in 1 .. n /\ i # p /\ l[i] = x
            BY <4>1, <1>1, <2>2
          <5> QED
            BY <5>1
        <4>2. CASE i >= p
          <5>1. i + 1 \in 1 .. n /\ i + 1 # p /\ l[i + 1] = x
            BY <4>2, <1>1, <2>2
          <5> QED
            BY <5>1
        <4> QED
          BY <4>1, <4>2, <1>1
      <3> QED
        BY <3>1, <1>1, <1>2
    <2>3. ASSUME x # c, m[x] # NULL PROVE \E i \in 1 .. n - 1 : r[i] = x
      <3>1. PICK j \in 1 .. n : l[j] = x
        BY <2>3, <1>2
      <3>2. j # p
        BY <2>3, <3>1
      <3>3. CASE j < p
        <4>1. j \in 1 .. n - 1 /\ r[j] = x
          BY <3>1, <3>3, <1>1
        <4> QED
          BY <4>1
      <3>4. CASE j > p
        <4>1. j - 1 \in 1 .. n - 1 /\ r[j - 1] = l[(j - 1) + 1] /\ (j - 1) + 1 = j
          BY <3>1, <3>4, <1>1
        <4> QED
          BY <3>1, <4>1
      <3> QED
        BY <3>2, <3>3, <3>4, <1>1
    <2> HIDE DEF w
    <2> QED
      BY <2>1, <2>2, <2>3
  <1>5. (IF p = 1 THEN f[c] ELSE t) = IF n - 1 = 0 THEN NULL ELSE r[1]
    BY <1>1, <1>2
  <1>6. (IF b = c THEN prev ELSE b) = IF n - 1 = 0 THEN NULL ELSE r[n - 1]
    <2>1. b = l[n] /\ (b = c <=> p = n)
      BY <1>1, <1>2
    <2> QED
      BY <2>1, <1>0, <1>1
  <1>7. \A i \in 1 .. n - 1 : g[r[i]] = IF i = n - 1 THEN NULL ELSE r[i + 1]
    <2> SUFFICES ASSUME NEW i \in 1 .. n - 1 PROVE g[r[i]] = IF i = n - 1 THEN NULL ELSE r[i + 1]
      OBVIOUS
    <2>1. CASE i + 1 = p
      <3>1. r[i] = prev /\ p # 1 /\ i = p - 1
        BY <2>1, <1>0, <1>1
      <3>2. g[r[i]] = IF p = n THEN NULL ELSE l[p + 1]
        BY <3>1, <1>0, <1>1, <1>2
      <3> QED
        BY <2>1, <3>2, <1>1
    <2>2. CASE i + 1 # p
      <3> DEFINE j == IF i < p THEN i ELSE i + 1
      <3>1. j \in 1 .. n /\ r[i] = l[j] /\ j # p /\ j # p - 1
        BY <2>2, <1>1
      <3>2. l[j] \in Celdas /\ l[j] # l[p]
        BY <3>1, <1>1, <1>2
      <3>3. l[j] # prev
        <4>1. CASE p = 1
          BY <4>1, <3>2, <1>0, HeapFinito
        <4>2. CASE p # 1
          <5>1. p - 1 \in 1 .. n
            BY <4>2, <1>1
          <5> QED
            BY <4>2, <5>1, <3>1, <1>0, <1>2
        <4> QED
          BY <4>1, <4>2
      <3>4. g[r[i]] = IF j = n THEN NULL ELSE l[j + 1]
        <4>1. g[l[j]] = f[l[j]]
          BY <3>2, <3>3, <1>0
        <4> HIDE DEF j
        <4> QED
          BY <4>1, <3>1, <1>2
      <3>5. (j = n <=> i = n - 1) /\ (j # n => r[i + 1] = l[j + 1])
        BY <2>2, <3>1, <1>1
      <3> QED
        BY <3>4, <3>5
    <2> QED
      BY <2>1, <2>2
  <1> HIDE DEF w, c
  <1>8. Forma(r, w, g, IF p = 1 THEN f[c] ELSE t, IF b = c THEN prev ELSE b)
    BY <1>1, <1>3, <1>4, <1>5, <1>6, <1>7 DEF Forma, Distintas
  <1> QED
    BY <1>8 DEF r, w, c

(* What is left to ask for when a cell goes. *)
LEMMA RestaSuma ==
  ASSUME NEW l \in Seq(Celdas), NEW p \in 1 .. Len(l), NEW m \in [Celdas -> Pedidos \cup {NULL}],
         NEW f, NEW t, NEW b, Forma(l, m, f, t, b), NEW a, Suma(l, m, a)
  PROVE  /\ Suma(Quita(l, p), [m EXCEPT ![l[p]] = NULL], a - m[l[p]].amount)
         /\ a - m[l[p]].amount \in Nat
  <1> DEFINE r == Quita(l, p)
             n == Len(l)
             c == l[p]
             w == [m EXCEPT ![c] = NULL]
             x == m[c].amount
             M(i) == m[l[i]].amount
  <1>1. /\ r \in Seq(Celdas) /\ Len(r) = n - 1 /\ n \in Nat /\ p \in 1 .. n
        /\ \A i \in 1 .. n - 1 : (i < p => r[i] = l[i]) /\ (i >= p => r[i] = l[i + 1])
    BY QuitaEs
  <1>2. PICK s \in [0 .. n -> Nat] : s[0] = 0 /\ s[n] = a /\ \A i \in 1 .. n : s[i] = s[i - 1] + M(i)
    BY DEF Suma
  <1>3. \A k \in 1 .. n : l[k] \in Celdas /\ M(k) \in Nat
    BY Ocupadas, Zenon
  <1>4. \A k \in 1 .. n : k # p => l[k] # c
    BY <1>1 DEF Forma, Distintas
  <1>5. \A i \in 1 .. n - 1 : (i < p => w[r[i]].amount = M(i)) /\ (i >= p => w[r[i]].amount = M(i + 1))
    <2> SUFFICES ASSUME NEW i \in 1 .. n - 1
                 PROVE  (i < p => w[r[i]].amount = M(i)) /\ (i >= p => w[r[i]].amount = M(i + 1))
      OBVIOUS
    <2>1. CASE i < p
      <3>1. i \in 1 .. n /\ i # p /\ r[i] = l[i]
        <4> HIDE DEF r, w, n
        <4> QED
          BY <2>1, <1>1
      <3>2. w[l[i]] = m[l[i]]
        BY <3>1, <1>3, <1>4
      <3> HIDE DEF r, w, n
      <3> QED
        BY <2>1, <3>1, <3>2, <1>1
    <2>2. CASE i >= p
      <3>1. i + 1 \in 1 .. n /\ i + 1 # p /\ r[i] = l[i + 1]
        <4> HIDE DEF r, w, n
        <4> QED
          BY <2>2, <1>1
      <3>2. w[l[i + 1]] = m[l[i + 1]]
        BY <3>1, <1>3, <1>4
      <3> HIDE DEF r, w, n
      <3> QED
        BY <2>2, <3>1, <3>2, <1>1
    <2> QED
      BY <2>1, <2>2
  <1>6. x = M(p) /\ x \in Nat
    BY <1>1, <1>3
  <1> HIDE DEF n, r, w, x, c, M
  <1>n. n \in Nat /\ p \in 1 .. n
    BY <1>1
  <1>s. \A i \in 0 .. n : s[i] \in Nat
    OBVIOUS
  (* From p on every sum has x in it. *)
  <1>7. \A k \in 0 .. n : k >= p => s[k] >= x
    <2> DEFINE Mas(k) == p + k <= n => s[p + k] >= x
               T == {k \in Nat : Mas(k)}
    <2>1. Mas(0)
      <3>1. s[p] = s[p - 1] + M(p) /\ s[p - 1] \in Nat /\ s[p] \in Nat /\ p + 0 = p
        BY <1>1, <1>2
      <3> QED
        BY <3>1, <1>6
    <2>2. ASSUME NEW k \in Nat, Mas(k) PROVE Mas(k + 1)
      <3> SUFFICES ASSUME p + (k + 1) <= n PROVE s[p + (k + 1)] >= x
        OBVIOUS
      <3>1. p + (k + 1) \in 1 .. n /\ (p + (k + 1)) - 1 = p + k /\ p + k \in 0 .. n
        BY <1>1
      <3>2. s[p + (k + 1)] = s[p + k] + M(p + (k + 1)) /\ M(p + (k + 1)) \in Nat
        BY <3>1, <1>2, <1>3
      <3>3. s[p + k] >= x /\ s[p + k] \in Nat /\ s[p + (k + 1)] \in Nat
        BY <3>1, <2>2
      <3> QED
        BY <3>2, <3>3, <1>6
    <2>3. Nat \subseteq T
      <3> HIDE DEF Mas
      <3>1. 0 \in T /\ \A k \in Nat : k \in T => k + 1 \in T
        BY <2>1, <2>2
      <3> HIDE DEF T
      <3> QED
        BY <3>1, PorInduccion
    <2>4. ASSUME NEW k \in 0 .. n, k >= p PROVE s[k] >= x
      <3>1. k - p \in Nat /\ p + (k - p) = k /\ k <= n
        BY <2>4, <1>1
      <3>2. Mas(k - p)
        BY <2>3, <3>1
      <3> QED
        BY <3>1, <3>2
    <2> QED
      BY <2>4
  <1> DEFINE z == [i \in 0 .. n - 1 |-> IF i < p THEN s[i] ELSE s[i + 1] - x]
  <1>8. z \in [0 .. n - 1 -> Nat]
    <2>1. ASSUME NEW i \in 0 .. n - 1 PROVE (IF i < p THEN s[i] ELSE s[i + 1] - x) \in Nat
      <3>1. i \in 0 .. n /\ i + 1 \in 0 .. n /\ (i < p \/ i + 1 >= p)
        BY <1>n
      <3>2. s[i] \in Nat /\ s[i + 1] \in Nat
        BY <3>1, <1>s
      <3>3. CASE i < p
        BY <3>2, <3>3
      <3>4. CASE ~(i < p)
        <4>1. s[i + 1] >= x
          BY <3>1, <3>4, <1>7
        <4> QED
          BY <3>2, <3>4, <4>1, <1>6
      <3> QED
        BY <3>3, <3>4
    <2> QED
      BY <2>1
  <1>9. z[0] = 0 /\ z[n - 1] = a - x /\ a - x \in Nat
    <2>1. /\ n \in 0 .. n /\ n >= p /\ n \in 1 .. n /\ n - 1 \in 0 .. n - 1 /\ n - 1 \in 0 .. n
          /\ 0 \in 0 .. n - 1 /\ 0 < p /\ (n - 1) + 1 = n
      BY <1>n
    <2>2. s[n] >= x /\ s[n] \in Nat /\ s[n - 1] \in Nat
      BY <2>1, <1>7, <1>s
    <2>3. s[0] = 0 /\ s[n] = a
      BY <1>2
    <2>4. a - x \in Nat
      BY <2>2, <2>3, <1>6
    <2>5. z[0] = 0
      BY <2>1, <2>3
    <2>6. z[n - 1] = a - x
      <3>1. CASE n - 1 < p
        <4>1. n = p
          BY <3>1, <1>n
        <4>2. s[n] = s[n - 1] + M(n)
          BY <2>1, <1>2
        <4>3. z[n - 1] = s[n - 1]
          BY <2>1, <3>1
        <4> HIDE DEF z
        <4> QED
          BY <4>1, <4>2, <4>3, <2>2, <2>3, <1>6
      <3>2. CASE ~(n - 1 < p)
        BY <2>1, <2>3, <3>2
      <3> QED
        BY <3>1, <3>2
    <2> QED
      BY <2>4, <2>5, <2>6
  <1>10. ASSUME NEW i \in 1 .. n - 1 PROVE z[i] = z[i - 1] + w[r[i]].amount
    <2>0. /\ i \in 0 .. n - 1 /\ i - 1 \in 0 .. n - 1 /\ i \in 1 .. n /\ i + 1 \in 1 .. n
          /\ (i + 1) - 1 = i /\ (i - 1) + 1 = i
          /\ i \in 0 .. n /\ i - 1 \in 0 .. n /\ i + 1 \in 0 .. n
      BY <1>n
    <2>1. s[i] \in Nat /\ s[i - 1] \in Nat /\ s[i + 1] \in Nat /\ M(i) \in Nat /\ M(i + 1) \in Nat
      BY <2>0, <1>s, <1>3
    <2>2. s[i] = s[i - 1] + M(i)
      BY <2>0, <1>2
    <2>3. s[i + 1] = s[i] + M(i + 1)
      <3>1. s[i + 1] = s[(i + 1) - 1] + M(i + 1)
        BY <2>0, <1>2, Zenon
      <3> QED
        BY <2>0, <3>1
    <2>4. CASE i < p
      <3>1. z[i] = s[i] /\ z[i - 1] = s[i - 1]
        <4>1. i - 1 < p
          BY <2>0, <2>4, <1>n
        <4> QED
          BY <2>0, <2>4, <4>1
      <3>2. w[r[i]].amount = M(i)
        BY <2>4, <1>5
      <3> HIDE DEF z
      <3> QED
        BY <2>2, <3>1, <3>2
    <2>5. CASE i >= p
      <3>1. z[i] = s[i + 1] - x
        <4>1. ~(i < p)
          BY <2>0, <2>5, <1>n
        <4> QED
          BY <2>0, <4>1
      <3>2. w[r[i]].amount = M(i + 1)
        BY <2>5, <1>5
      <3>3. z[i - 1] = s[i] - x
        <4>1. CASE i = p
          <5>1. i - 1 < p
            BY <4>1, <2>0, <1>n
          <5>2. z[i - 1] = s[i - 1]
            BY <5>1, <2>0
          <5>3. M(i) = x
            BY <4>1, <1>6
          <5> HIDE DEF z
          <5> QED
            BY <5>2, <5>3, <2>1, <2>2
        <4>2. CASE i # p
          <5>1. ~(i - 1 < p)
            BY <4>2, <2>0, <2>5, <1>n
          <5>2. z[i - 1] = s[(i - 1) + 1] - x
            BY <5>1, <2>0
          <5> HIDE DEF z
          <5> QED
            BY <5>2, <2>0
        <4> QED
          BY <4>1, <4>2
      <3> DEFINE si == s[i]  si1 == s[i + 1]  mi == M(i + 1)  y == w[r[i]].amount
                 zi == z[i]  zi1 == z[i - 1]
      <3>4. si \in Nat /\ si1 \in Nat /\ mi \in Nat /\ x \in Nat /\ si1 = si + mi
        BY <2>1, <2>3, <1>6
      <3>5. zi = si1 - x /\ y = mi /\ zi1 = si - x
        BY <3>1, <3>2, <3>3
      <3> HIDE DEF z, si, si1, mi, y, zi, zi1
      <3>6. zi = zi1 + y
        BY <3>4, <3>5
      <3> QED
        BY <3>6 DEF zi, zi1, y
    <2> QED
      BY <2>0, <2>4, <2>5, <1>n
  <1>11. Suma(r, w, a - x)
    <2> HIDE DEF z
    <2>1. Len(r) = n - 1
      BY <1>1
    <2>2. \A i \in 1 .. n - 1 : z[i] = z[i - 1] + w[r[i]].amount
      BY <1>10
    <2>3. z[0] = 0 /\ z[n - 1] = a - x
      BY <1>9
    <2> QED
      BY <2>1, <2>2, <2>3, <1>8, Zenon DEF Suma
  <1> QED
    BY <1>9, <1>11 DEF r, w, x, c

(* queue_enqueue with the cell that malloc took. *)
Enlace(c, d) ==
  /\ mem[c] = NULL
  /\ mem' = [mem EXCEPT ![c] = d]
  /\ sig' = IF queue_is_empty THEN [sig EXCEPT ![c] = NULL]
            ELSE [sig EXCEPT ![c] = NULL, ![bottom] = c]
  /\ top' = IF queue_is_empty THEN c ELSE top
  /\ bottom' = c
  /\ amount' = amount + d.amount

(***************************************************************************)
(* Linking a free cell behind the last one.                                *)
(***************************************************************************)
LEMMA Enlazar ==
  ASSUME TypeOK, NEW l \in Seq(Celdas), Forma(l, mem, sig, top, bottom), Suma(l, mem, amount),
         NEW c \in Celdas, NEW d \in Pedidos, Enlace(c, d)
  PROVE  /\ Forma(Append(l, c), mem', sig', top', bottom') /\ Suma(Append(l, c), mem', amount')
         /\ sig' \in [Celdas -> Celdas \cup {NULL}]
  <1> DEFINE w == [mem EXCEPT ![c] = d]
             vacia == top = NULL /\ bottom = NULL
             g == IF vacia THEN [sig EXCEPT ![c] = NULL] ELSE [sig EXCEPT ![c] = NULL, ![bottom] = c]
             n == Len(l)
             r == Append(l, c)
  <1>0. /\ mem \in [Celdas -> Pedidos \cup {NULL}] /\ sig \in [Celdas -> Celdas \cup {NULL}]
        /\ mem[c] = NULL
    BY DEF TypeOK, Enlace
  <1>1. /\ r \in Seq(Celdas) /\ Len(r) = n + 1 /\ n \in Nat /\ r[n + 1] = c
        /\ \A i \in 1 .. n : r[i] = l[i] /\ l[i] \in Celdas
    OBVIOUS
  <1>2. /\ \A i, j \in 1 .. n : l[i] = l[j] => i = j
        /\ \A x \in Celdas : mem[x] # NULL <=> \E i \in 1 .. n : l[i] = x
        /\ top = IF n = 0 THEN NULL ELSE l[1]
        /\ bottom = IF n = 0 THEN NULL ELSE l[n]
        /\ \A i \in 1 .. n : sig[l[i]] = IF i = n THEN NULL ELSE l[i + 1]
    BY DEF Forma, Distintas
  <1>3. \A i \in 1 .. n : l[i] # c
    BY <1>0, <1>2
  <1>4. vacia <=> n = 0
    BY <1>1, <1>2, HeapFinito
  <1> HIDE DEF n, r
  <1>5. n # 0 => bottom = l[n] /\ bottom \in Celdas /\ bottom # c
    BY <1>1, <1>2, <1>3
  <1>6. g \in [Celdas -> Celdas \cup {NULL}] /\ g[c] = NULL
    BY <1>0, <1>4, <1>5
  <1>7. (n # 0 => g[bottom] = c) /\ \A x \in Celdas : x # c /\ (n # 0 => x # bottom) => g[x] = sig[x]
    BY <1>0, <1>4, <1>5
  <1>8. \A i, j \in 1 .. n + 1 : r[i] = r[j] => i = j
    <2>1. \A i \in 1 .. n + 1 : i = n + 1 \/ i \in 1 .. n
      BY <1>1
    <2> QED
      BY <2>1, <1>1, <1>2, <1>3
  <1>9. ASSUME NEW x \in Celdas PROVE w[x] # NULL <=> \E i \in 1 .. n + 1 : r[i] = x
    <2>1. n + 1 \in 1 .. n + 1 /\ \A i \in 1 .. n : i \in 1 .. n + 1
      BY <1>1
    <2>2. CASE x = c
      <3>1. w[x] = d
        BY <2>2, <1>0
      <3> QED
        BY <2>1, <2>2, <3>1, <1>1, HeapFinito
    <2>3. CASE x # c
      <3>1. w[x] = mem[x]
        BY <2>3, <1>0
      <3>2. \A i \in 1 .. n + 1 : r[i] = x => i \in 1 .. n
        BY <2>3, <1>1
      <3> QED
        BY <3>1, <3>2, <2>1, <1>1, <1>2
    <2> QED
      BY <2>2, <2>3
  <1>10. ASSUME NEW i \in 1 .. n + 1 PROVE g[r[i]] = IF i = n + 1 THEN NULL ELSE r[i + 1]
    <2>1. CASE i = n + 1
      BY <2>1, <1>1, <1>6
    <2>2. CASE i = n
      <3>1. n # 0 /\ i # n + 1 /\ r[i] = bottom /\ r[i + 1] = c
        BY <2>2, <1>1, <1>5
      <3> HIDE DEF g
      <3> QED
        BY <3>1, <1>7
    <2>3. CASE i # n /\ i # n + 1
      <3>1. i \in 1 .. n /\ i + 1 \in 1 .. n /\ r[i] = l[i] /\ r[i + 1] = l[i + 1] /\ l[i] \in Celdas
        BY <2>3, <1>1
      <3>2. n \in 1 .. n /\ n # 0 /\ l[i] # l[n]
        BY <2>3, <3>1, <1>1, <1>2
      <3>3. l[i] # c /\ l[i] # bottom
        BY <3>1, <3>2, <1>3, <1>5
      <3>4. g[l[i]] = sig[l[i]]
        <4> HIDE DEF g
        <4> QED
          BY <3>1, <3>3, <1>7
      <3> HIDE DEF g
      <3> QED
        BY <2>3, <3>1, <3>4, <1>2
    <2> QED
      BY <2>1, <2>2, <2>3
  <1>11. (IF vacia THEN c ELSE top) = r[1]
    <2>1. CASE n = 0
      BY <2>1, <1>1, <1>4
    <2>2. CASE n # 0
      <3>1. 1 \in 1 .. n
        BY <2>2, <1>1
      <3> QED
        BY <2>2, <3>1, <1>1, <1>2, <1>4
    <2> QED
      BY <2>1, <2>2
  <1>12. Forma(r, w, g, IF vacia THEN c ELSE top, c)
    <2> HIDE DEF w, g, vacia
    <2> QED
      BY <1>1, <1>8, <1>9, <1>10, <1>11 DEF Forma, Distintas
  <1>13. Suma(r, w, amount + d.amount)
    <2>1. PICK s \in [0 .. n -> Nat] :
             s[0] = 0 /\ s[n] = amount /\ \A i \in 1 .. n : s[i] = s[i - 1] + mem[l[i]].amount
      BY DEF Suma, n
    <2>2. d.amount \in Nat
      BY HeapFinito DEF Pedidos
    <2>3. \A i \in 1 .. n : w[r[i]] = mem[l[i]]
      BY <1>0, <1>1, <1>3
    <2>4. w[r[n + 1]] = d
      BY <1>0, <1>1
    <2> HIDE DEF w
    <2> DEFINE z == [i \in 0 .. n + 1 |-> IF i = n + 1 THEN amount + d.amount ELSE s[i]]
    <2>5. z \in [0 .. n + 1 -> Nat] /\ z[0] = 0 /\ z[n + 1] = amount + d.amount
      BY <2>1, <2>2, <1>1
    <2>6. ASSUME NEW i \in 1 .. n + 1 PROVE z[i] = z[i - 1] + w[r[i]].amount
      <3>1. CASE i = n + 1
        <4>1. z[i] = amount + d.amount /\ z[i - 1] = s[n] /\ w[r[i]] = d
          BY <3>1, <1>1, <2>4
        <4> HIDE DEF z
        <4> QED
          BY <4>1, <2>1
      <3>2. CASE i # n + 1
        <4>1. i \in 1 .. n /\ z[i] = s[i] /\ z[i - 1] = s[i - 1]
          BY <3>2, <1>1
        <4> HIDE DEF z
        <4> QED
          BY <4>1, <2>1, <2>3
      <3> QED
        BY <3>1, <3>2
    <2> HIDE DEF z
    <2> QED
      BY <2>5, <2>6, <1>1 DEF Suma
  <1>14. /\ mem' = w /\ sig' = g /\ top' = (IF vacia THEN c ELSE top) /\ bottom' = c
         /\ amount' = amount + d.amount
    BY Zenon DEF Enlace, queue_is_empty
  <1> HIDE DEF w, g, vacia
  <1> QED
    BY <1>6, <1>12, <1>13, <1>14 DEF r

(***************************************************************************)
(* Desde finds the list: after k steps it has its first k + 1 cells, and   *)
(* the heap has as many steps as the list may have cells.                  *)
(***************************************************************************)
LEMMA DesdeEs ==
  ASSUME NEW l \in Seq(Celdas), NEW m, NEW f \in [Celdas -> Celdas \cup {NULL}], NEW t, NEW b,
         Forma(l, m, f, t, b)
  PROVE  Desde(t, f) = l
  <1> DEFINE N == Cardinality(Celdas)
             n == Len(l)
             Hasta(k) == IF k + 1 <= n THEN k + 1 ELSE n
             Prefijo(v, k) == v \in Seq(Celdas) /\ Len(v) = Hasta(k) /\ \A i \in 1 .. Hasta(k) : v[i] = l[i]
  <1>1. n \in Nat /\ N \in Nat /\ n <= N /\ \A i \in 1 .. n : l[i] \in Celdas
    BY CabenEnElHeap DEF Forma
  <1>2. /\ t = IF n = 0 THEN NULL ELSE l[1]
        /\ \A i \in 1 .. n : f[l[i]] = IF i = n THEN NULL ELSE l[i + 1]
    BY DEF Forma
  <1>3. t \in Celdas \cup {NULL}
    BY <1>1, <1>2
  <1>4. PICK e : /\ e[0] = (IF t = NULL THEN << >> ELSE <<t>>) /\ Desde(t, f) = e[N]
                 /\ \A k \in 1 .. N :
                      e[k] = IF e[k - 1] = << >> \/ f[Last(e[k - 1])] = NULL THEN e[k - 1]
                             ELSE Append(e[k - 1], f[Last(e[k - 1])])
    BY <1>3, PliegueDesde, Zenon
  <1> HIDE DEF N, n
  <1> DEFINE Va(k) == k <= N => Prefijo(e[k], k)
             T == {k \in Nat : Va(k)}
  <1>5. Va(0)
    <2>1. CASE n = 0
      <3>1. e[0] = << >> /\ Hasta(0) = 0
        BY <2>1, <1>2, <1>4
      <3> QED
        BY <3>1
    <2>2. CASE n # 0
      <3>1. t = l[1] /\ t \in Celdas /\ t # NULL /\ Hasta(0) = 1
        BY <2>2, <1>1, <1>2, HeapFinito
      <3>2. e[0] = <<t>>
        BY <3>1, <1>4
      <3> HIDE DEF Hasta
      <3> QED
        BY <3>1, <3>2
    <2> QED
      BY <2>1, <2>2
  <1>6. ASSUME NEW k \in Nat, Va(k) PROVE Va(k + 1)
    <2> SUFFICES ASSUME k + 1 <= N PROVE Prefijo(e[k + 1], k + 1)
      OBVIOUS
    <2> DEFINE v == e[k]
    <2>1. k + 1 \in 1 .. N /\ (k + 1) - 1 = k /\ k <= N
      BY <1>1
    <2>2. v \in Seq(Celdas) /\ Len(v) = Hasta(k) /\ \A i \in 1 .. Hasta(k) : v[i] = l[i]
      BY <2>1, <1>6
    <2>3. e[k + 1] = IF v = << >> \/ f[Last(v)] = NULL THEN v ELSE Append(v, f[Last(v)])
      BY <2>1, <1>4, Zenon
    <2> HIDE DEF v
    <2>4. CASE n = 0
      <3>1. Hasta(k) = 0 /\ Hasta(k + 1) = 0
        BY <2>4
      <3>2. v = << >>
        BY <2>2, <3>1, EmptySeq
      <3>3. e[k + 1] = v
        BY <2>3, <3>2, Zenon
      <3> HIDE DEF Hasta
      <3> QED
        BY <2>2, <3>1, <3>3
    <2>5. CASE n # 0 /\ k + 1 >= n
      <3>1. Hasta(k) = n /\ Hasta(k + 1) = n /\ n \in 1 .. n
        BY <2>5, <1>1
      <3>2. f[Last(v)] = NULL
        <4>1. Last(v) = l[n]
          BY <2>2, <3>1 DEF Last
        <4> QED
          BY <4>1, <3>1, <1>2
      <3>3. e[k + 1] = v
        BY <2>3, <3>2, Zenon
      <3> HIDE DEF Hasta
      <3> QED
        BY <2>2, <3>1, <3>3
    <2>6. CASE k + 1 < n
      <3>1. /\ Hasta(k) = k + 1 /\ Hasta(k + 1) = k + 2 /\ k + 1 \in 1 .. n /\ k + 1 # n
            /\ k + 2 \in 1 .. n /\ (k + 1) + 1 = k + 2
        BY <2>6, <1>1
      <3>2. Last(v) = l[k + 1] /\ v # << >>
        BY <2>2, <3>1 DEF Last
      <3>3. f[Last(v)] = l[k + 2] /\ l[k + 2] \in Celdas /\ l[k + 2] # NULL
        BY <3>1, <3>2, <1>1, <1>2, HeapFinito
      <3>4. e[k + 1] = Append(v, l[k + 2])
        BY <2>3, <3>2, <3>3, Zenon
      <3> HIDE DEF Hasta
      <3>5. Append(v, l[k + 2]) \in Seq(Celdas) /\ Len(Append(v, l[k + 2])) = k + 2
        BY <2>2, <3>1, <3>3
      <3>6. \A i \in 1 .. k + 2 : Append(v, l[k + 2])[i] = l[i]
        BY <2>2, <3>1
      <3> QED
        BY <3>1, <3>4, <3>5, <3>6
    <2> QED
      BY <2>4, <2>5, <2>6, <1>1
  <1>7. Prefijo(e[N], N)
    <2> HIDE DEF Va
    <2>1. 0 \in T /\ \A k \in Nat : k \in T => k + 1 \in T
      BY <1>5, <1>6
    <2>2. Nat \subseteq T
      <3> HIDE DEF T
      <3> QED
        BY <2>1, PorInduccion
    <2>3. N \in T /\ N <= N
      BY <2>2, <1>1
    <2> QED
      BY <2>3 DEF Va
  <1>8. Hasta(N) = n
    BY <1>1
  <1>9. e[N] = l
    <2> HIDE DEF Hasta
    <2>1. e[N] \in Seq(Celdas) /\ Len(e[N]) = Len(l) /\ \A i \in 1 .. Len(l) : e[N][i] = l[i]
      BY <1>7, <1>8 DEF n
    <2> QED
      BY <2>1
  <1> QED
    BY <1>4, <1>9

(* And MontoDe adds it up. *)
LEMMA MontoEs ==
  ASSUME NEW l \in Seq(Celdas), mem \in [Celdas -> Pedidos \cup {NULL}], NEW f, NEW t, NEW b,
         Forma(l, mem, f, t, b), NEW a, Suma(l, mem, a)
  PROVE  a = MontoDe(l)
  <1> DEFINE n == Len(l)
             M(i) == mem[l[i]].amount
  <1>1. n \in Nat /\ \A k \in 1 .. n : M(k) \in Nat
    BY Ocupadas, LenProperties
  <1>2. PICK s \in [0 .. n -> Nat] : s[0] = 0 /\ s[n] = a /\ \A i \in 1 .. n : s[i] = s[i - 1] + M(i)
    BY DEF Suma
  <1>3. PICK e : e[0] = 0 /\ MontoDe(l) = e[n] /\ \A k \in 1 .. n : e[k] = e[k - 1] + M(k)
    BY <1>1, PliegueMonto
  <1> HIDE DEF n, M
  <1> DEFINE Igual(k) == k <= n => e[k] = s[k]
             T == {k \in Nat : Igual(k)}
  <1>4. Igual(0)
    BY <1>2, <1>3
  <1>5. ASSUME NEW k \in Nat, Igual(k) PROVE Igual(k + 1)
    <2> SUFFICES ASSUME k + 1 <= n PROVE e[k + 1] = s[k + 1]
      OBVIOUS
    <2>1. k + 1 \in 1 .. n /\ (k + 1) - 1 = k /\ k <= n
      BY <1>1
    <2>2. e[k + 1] = e[k] + M(k + 1) /\ s[k + 1] = s[k] + M(k + 1)
      BY <2>1, <1>2, <1>3
    <2> QED
      BY <2>1, <2>2, <1>5
  <1>6. Igual(n)
    <2> HIDE DEF Igual
    <2>1. 0 \in T /\ \A k \in Nat : k \in T => k + 1 \in T
      BY <1>4, <1>5
    <2>2. Nat \subseteq T
      <3> HIDE DEF T
      <3> QED
        BY <2>1, PorInduccion
    <2> QED
      BY <2>2, <1>1
  <1> QED
    BY <1>1, <1>2, <1>3, <1>6

(***************************************************************************)
(* A deletion loop over L after k cells: l is the list as it stands, its   *)
(* first p cells were kept (v has their requests) and the others are those *)
(* of L still to be seen.                                                  *)
(***************************************************************************)
Enmedio(q, l, p, k, v, L) ==
  /\ Len(l) = p + (Len(L) - k)
  /\ \A j \in 1 .. Len(L) - k : l[p + j] = L[k + j]
  /\ q.prev = IF p = 0 THEN NULL ELSE l[p]
  /\ Forma(l, q.mem, q.sig, q.top, q.bottom) /\ Suma(l, q.mem, q.amount)
  /\ \A i \in 1 .. Len(l) : q.mem[l[i]] = mem[l[i]]
  /\ v \in Seq(Pedidos) /\ Len(v) = p /\ \A i \in 1 .. p : v[i] = mem[l[i]]

Marcha(q, k, v, L) ==
  q \in Vueltas /\ \E l \in Seq(Celdas) : \E p \in 0 .. Len(l) : Enmedio(q, l, p, k, v, L)

LEMMA UnPaso ==
  ASSUME NEW L \in Seq(Celdas), NEW k \in 0 .. Len(L) - 1, NEW q, NEW v, Marcha(q, k, v, L),
         NEW fuera, NEW quitados, L[k + 1] \in fuera <=> mem[L[k + 1]] \in quitados,
         NEW r, Vuelta(q, L[k + 1], fuera, r),
         NEW u, u = IF mem[L[k + 1]] \in quitados THEN v ELSE Append(v, mem[L[k + 1]])
  PROVE  Marcha(r, k + 1, u, L)
  <1> DEFINE c == L[k + 1]
             N == Len(L)
  <1>1. q \in Vueltas
    BY DEF Marcha
  <1>20. PICK l \in Seq(Celdas) : \E p \in 0 .. Len(l) : Enmedio(q, l, p, k, v, L)
    BY DEF Marcha
  <1>2. PICK p \in 0 .. Len(l) : Enmedio(q, l, p, k, v, L)
    BY <1>20
  <1> DEFINE n == Len(l)
  <1>3. /\ n \in Nat /\ N \in Nat /\ n = p + (N - k) /\ p \in 0 .. n /\ k \in 0 .. N - 1
        /\ \A i \in 1 .. n : l[i] \in Celdas
    BY <1>2 DEF Enmedio
  <1>4. \A j \in 1 .. N - k : l[p + j] = L[k + j]
    BY <1>2 DEF Enmedio
  <1>5. /\ q.prev = IF p = 0 THEN NULL ELSE l[p]
        /\ Forma(l, q.mem, q.sig, q.top, q.bottom) /\ Suma(l, q.mem, q.amount)
        /\ \A i \in 1 .. n : q.mem[l[i]] = mem[l[i]]
        /\ v \in Seq(Pedidos) /\ Len(v) = p /\ \A i \in 1 .. p : v[i] = mem[l[i]]
    BY <1>2 DEF Enmedio
  <1>6. p + 1 \in 1 .. n /\ c = l[p + 1] /\ c \in Celdas
    <2>1. p + 1 \in 1 .. n /\ 1 \in 1 .. N - k
      BY <1>3
    <2> QED
      BY <2>1, <1>3, <1>4
  <1>7. /\ q.mem \in [Celdas -> Pedidos \cup {NULL}] /\ q.sig \in [Celdas -> Celdas \cup {NULL}]
        /\ q.prev \in Celdas \cup {NULL}
    BY <1>1 DEF Vueltas
  <1>8. q.mem[c] \in Pedidos /\ q.mem[c] = mem[c]
    <2>1. \A i \in 1 .. n : q.mem[l[i]] \in Pedidos
      BY <1>5, <1>7, Ocupadas, Zenon
    <2> QED
      BY <2>1, <1>5, <1>6
  <1>9. q.prev = NULL <=> p = 0
    BY <1>3, <1>5, HeapFinito
  <1>10. c \in fuera <=> mem[c] \in quitados
    OBVIOUS
  <1>11. Vuelta(q, c, fuera, r) /\ u = IF mem[c] \in quitados THEN v ELSE Append(v, mem[c])
    OBVIOUS
  <1> HIDE DEF c, N, n
  <1>12. CASE c \notin fuera
    <2>1. /\ r.mem = q.mem /\ r.sig = q.sig /\ r.top = q.top /\ r.bottom = q.bottom
          /\ r.amount = q.amount /\ r.prev = c /\ r \in Vueltas
      BY <1>11, <1>12, Zenon DEF Vuelta
    <2>2. u = Append(v, mem[c]) /\ u \in Seq(Pedidos) /\ Len(u) = p + 1
      BY <1>5, <1>8, <1>10, <1>11, <1>12
    <2>3. \A i \in 1 .. p + 1 : u[i] = mem[l[i]]
      <3>1. \A i \in 1 .. p : u[i] = v[i]
        BY <2>2, <1>5, <1>8
      <3>2. u[p + 1] = mem[c]
        BY <2>2, <1>5, <1>8
      <3> QED
        BY <3>1, <3>2, <1>3, <1>5, <1>6
    <2>4. \A j \in 1 .. N - (k + 1) : l[(p + 1) + j] = L[(k + 1) + j]
      <3> SUFFICES ASSUME NEW j \in 1 .. N - (k + 1) PROVE l[(p + 1) + j] = L[(k + 1) + j]
        OBVIOUS
      <3>1. j + 1 \in 1 .. N - k /\ p + (j + 1) = (p + 1) + j /\ k + (j + 1) = (k + 1) + j
        BY <1>3
      <3>2. l[p + (j + 1)] = L[k + (j + 1)]
        BY <3>1, <1>4
      <3> QED
        BY <3>1, <3>2
    <2>5. n = (p + 1) + (N - (k + 1)) /\ p + 1 \in 0 .. n /\ p + 1 # 0
      <3>1. n \in Nat /\ N \in Nat /\ k \in Nat /\ p \in Nat /\ n = p + (N - k) /\ p + 1 <= n
        BY <1>3, <1>6
      <3> QED
        BY <3>1
    <2>6. Enmedio(r, l, p + 1, k + 1, u, L)
      BY <2>1, <2>2, <2>3, <2>4, <2>5, <1>5, <1>6 DEF Enmedio, n, N
    <2> QED
      BY <2>1, <2>5, <2>6 DEF Marcha, n
  <1>13. CASE c \in fuera
    <2> DEFINE w == Quita(l, p + 1)
    <2>1. /\ r.mem = [q.mem EXCEPT ![c] = NULL]
          /\ r.sig = (IF q.prev = NULL THEN q.sig ELSE [q.sig EXCEPT ![q.prev] = q.sig[c]])
          /\ r.top = (IF q.prev = NULL THEN q.sig[c] ELSE q.top)
          /\ r.bottom = (IF q.bottom = c THEN q.prev ELSE q.bottom)
          /\ r.amount = q.amount - q.mem[c].amount /\ r.prev = q.prev
          /\ r \in Vueltas
      BY <1>8, <1>11, <1>13, Zenon DEF Vuelta
    <2>2. u = v
      BY <1>10, <1>11, <1>13
    <2>3. /\ w \in Seq(Celdas) /\ Len(w) = n - 1
          /\ \A i \in 1 .. n - 1 : (i < p + 1 => w[i] = l[i]) /\ (i >= p + 1 => w[i] = l[i + 1])
      BY <1>6, QuitaEs DEF n
    <2>4. Forma(w, r.mem, r.sig, r.top, r.bottom)
      <3>1. q.prev = IF p + 1 = 1 THEN NULL ELSE l[(p + 1) - 1]
        BY <1>3, <1>5
      <3>2. p + 1 # 1 => r.sig[q.prev] = q.sig[l[p + 1]]
        BY <2>1, <1>3, <1>6, <1>7, <1>9
      <3>3. \A x \in Celdas \ {q.prev, l[p + 1]} : r.sig[x] = q.sig[x]
        BY <2>1, <1>7
      <3>4. p + 1 \in 1 .. Len(l)
        BY <1>6 DEF n
      <3>5. Forma(w, [q.mem EXCEPT ![l[p + 1]] = NULL], r.sig,
                  IF p + 1 = 1 THEN q.sig[l[p + 1]] ELSE q.top,
                  IF q.bottom = l[p + 1] THEN q.prev ELSE q.bottom)
        <4>1. Puente(l, p + 1, q.sig, r.sig, q.prev)
          BY <3>1, <3>2, <3>3 DEF Puente
        <4> QED
          BY <4>1, <3>4, <1>5, <1>7, Desenlazar
      <3>6. p + 1 = 1 <=> q.prev = NULL
        BY <1>3, <1>9
      <3> HIDE DEF w
      <3> QED
        BY <3>5, <3>6, <2>1, <1>6
    <2>5. Suma(w, r.mem, r.amount)
      <3>1. p + 1 \in 1 .. Len(l)
        BY <1>6 DEF n
      <3>2. Suma(w, [q.mem EXCEPT ![l[p + 1]] = NULL], q.amount - q.mem[l[p + 1]].amount)
        BY <3>1, <1>5, <1>7, RestaSuma
      <3> HIDE DEF w
      <3> QED
        BY <3>2, <2>1, <1>6
    <2> HIDE DEF w
    <2>6. p \in 0 .. n - 1 /\ n - 1 = p + (N - (k + 1))
      BY <1>3, <1>6
    <2>7. \A j \in 1 .. N - (k + 1) : w[p + j] = L[(k + 1) + j]
      <3> SUFFICES ASSUME NEW j \in 1 .. N - (k + 1) PROVE w[p + j] = L[(k + 1) + j]
        OBVIOUS
      <3>1. /\ j + 1 \in 1 .. N - k /\ p + (j + 1) = (p + j) + 1 /\ k + (j + 1) = (k + 1) + j
            /\ p + j \in 1 .. n - 1 /\ p + j >= p + 1
        BY <1>3, <2>6
      <3>2. w[p + j] = l[(p + j) + 1]
        BY <2>3, <3>1
      <3>3. l[p + (j + 1)] = L[k + (j + 1)]
        BY <3>1, <1>4
      <3> QED
        BY <3>1, <3>2, <3>3
    <2>8. r.prev = IF p = 0 THEN NULL ELSE w[p]
      BY <2>1, <2>3, <2>6, <1>5
    <2>9. \A i \in 1 .. n - 1 : r.mem[w[i]] = mem[w[i]]
      <3> SUFFICES ASSUME NEW i \in 1 .. n - 1 PROVE r.mem[w[i]] = mem[w[i]]
        OBVIOUS
      <3>1. PICK j \in 1 .. n : j # p + 1 /\ w[i] = l[j]
        <4>1. CASE i < p + 1
          BY <4>1, <2>3, <1>3
        <4>2. CASE i >= p + 1
          <5>1. i + 1 \in 1 .. n /\ i + 1 # p + 1 /\ w[i] = l[i + 1]
            BY <4>2, <2>3, <1>3
          <5> QED
            BY <5>1
        <4> QED
          BY <4>1, <4>2, <1>3
      <3>2. l[j] # c /\ l[j] \in Celdas
        BY <3>1, <1>3, <1>5, <1>6 DEF Forma, Distintas, n
      <3> QED
        BY <3>1, <3>2, <2>1, <1>5, <1>7
    <2>10. \A i \in 1 .. p : u[i] = mem[w[i]]
      <3>1. \A i \in 1 .. p : i \in 1 .. n - 1 /\ i < p + 1
        BY <2>6, <1>3, SMTT(30)
      <3> QED
        BY <3>1, <2>2, <2>3, <1>5
    <2>11. Enmedio(r, w, p, k + 1, u, L)
      BY <2>2, <2>3, <2>4, <2>5, <2>6, <2>7, <2>8, <2>9, <2>10, <1>5 DEF Enmedio, N
    <2> QED
      BY <2>1, <2>3, <2>6, <2>11 DEF Marcha
  <1> QED
    BY <1>12, <1>13

(* The whole loop, from the whole list to the end of it. *)
LEMMA BorradoEs ==
  ASSUME TypeOK, NEW L \in Seq(Celdas), Forma(L, mem, sig, top, bottom), Suma(L, mem, amount),
         NEW fuera, NEW quitados, \A k \in 1 .. Len(L) : L[k] \in fuera <=> mem[L[k]] \in quitados
  PROVE  Marcha(borrado(fuera), Len(L), Abs!Sin(quitados), L)
  <1> DEFINE N == Len(L)
             ini == [mem |-> mem, sig |-> sig, top |-> top, bottom |-> bottom,
                     amount |-> amount, prev |-> NULL]
  <1>1. N \in Nat /\ Lista = L /\ Distintas(L) /\ \A k \in 1 .. N : L[k] \in Celdas /\ mem[L[k]] \in Pedidos
    <2>1. mem \in [Celdas -> Pedidos \cup {NULL}] /\ sig \in [Celdas -> Celdas \cup {NULL}]
      BY DEF TypeOK
    <2>2. Lista = L
      BY <2>1, DesdeEs DEF Lista
    <2>3. \A k \in 1 .. N : L[k] \in Celdas /\ mem[L[k]] \in Pedidos
      BY <2>1, Ocupadas, Zenon
    <2> QED
      BY <2>2, <2>3 DEF Forma
  <1>2. PICK e : /\ e[0] = ini /\ borrado(fuera) = e[N]
                 /\ \A k \in 1 .. N : e[k] = paso_delete(e[k - 1], L[k], fuera)
    <2>1. \E e : /\ e[0] = ini /\ borrado(fuera) = e[Len(L)]
                 /\ \A k \in 1 .. Len(L) : e[k] = paso_delete(e[k - 1], L[k], fuera)
      <3>1. Lista = L /\ Distintas(L) /\ \A k \in 1 .. Len(L) : mem[L[k]] \in Pedidos
        BY <1>1
      <3> HIDE DEF N
      <3> QED
        BY <3>1, PliegueBorrado, SMT
    <2> QED
      BY <2>1
  <1>3. PICK d : /\ d[0] = << >> /\ Abs!Sin(quitados) = d[N]
                 /\ \A k \in 1 .. N :
                      d[k] = IF mem[L[k]] \in quitados THEN d[k - 1] ELSE Append(d[k - 1], mem[L[k]])
    BY <1>1, PliegueSin, Zenon
  <1> DEFINE Va(k) == k <= N => Marcha(e[k], k, d[k], L)
             T == {k \in Nat : Va(k)}
  <1>4. Va(0)
    <2>1. ini \in Vueltas
      BY DEF TypeOK, Vueltas
    <2>2. /\ ini.mem = mem /\ ini.sig = sig /\ ini.top = top /\ ini.bottom = bottom
          /\ ini.amount = amount /\ ini.prev = NULL
      OBVIOUS
    <2> HIDE DEF ini
    <2>3. Enmedio(ini, L, 0, 0, << >>, L)
      <3>1. Len(L) = 0 + (Len(L) - 0) /\ \A j \in 1 .. Len(L) - 0 : L[0 + j] = L[0 + j]
        BY <1>1
      <3>2. << >> \in Seq(Pedidos) /\ Len(<< >>) = 0 /\ \A i \in 1 .. 0 : FALSE
        OBVIOUS
      <3> QED
        BY <3>1, <3>2, <2>2 DEF Enmedio
    <2>4. 0 \in 0 .. Len(L)
      BY <1>1
    <2> QED
      BY <2>1, <2>3, <2>4, <1>2, <1>3 DEF Marcha
  <1>5. ASSUME NEW k \in Nat, Va(k) PROVE Va(k + 1)
    <2> SUFFICES ASSUME k + 1 <= N PROVE Marcha(e[k + 1], k + 1, d[k + 1], L)
      OBVIOUS
    <2>1. k + 1 \in 1 .. N /\ (k + 1) - 1 = k /\ k <= N /\ k \in 0 .. Len(L) - 1
      BY <1>1
    <2>2. Marcha(e[k], k, d[k], L)
      BY <2>1, <1>5
    <2>3. e[k + 1] = paso_delete(e[k], L[k + 1], fuera)
      BY <2>1, <1>2, Zenon
    <2>4. d[k + 1] = IF mem[L[k + 1]] \in quitados THEN d[k] ELSE Append(d[k], mem[L[k + 1]])
      BY <2>1, <1>3, Zenon
    <2>5. Vuelta(e[k], L[k + 1], fuera, e[k + 1])
      <3>1. e[k] \in Vueltas /\ L[k + 1] \in Celdas
        BY <2>1, <2>2, <1>1 DEF Marcha
      <3> QED
        BY <3>1, <2>3, UnaVuelta
    <2>6. L[k + 1] \in fuera <=> mem[L[k + 1]] \in quitados
      BY <2>1
    <2> QED
      BY <2>1, <2>2, <2>4, <2>5, <2>6, UnPaso, Zenon
  <1>6. Va(N)
    <2> HIDE DEF Va
    <2>1. 0 \in T /\ \A k \in Nat : k \in T => k + 1 \in T
      BY <1>4, <1>5
    <2>2. Nat \subseteq T
      <3> HIDE DEF T
      <3> QED
        BY <2>1, PorInduccion
    <2> QED
      BY <2>2, <1>1
  <1>7. N <= N
    BY <1>1
  <1> QED
    BY <1>2, <1>3, <1>6, <1>7

-------------------------------------------------------------------------------
(* The inductive invariant: some sequence of cells is the list. *)
Bien(m, f, t, b, a) ==
  \E l \in Seq(Celdas) : Forma(l, m, f, t, b) /\ Suma(l, m, a)

IInv == TypeOK /\ Bien(mem, sig, top, bottom, amount)

(* The requests in the order of the list. *)
Leida(l, m) == [i \in 1 .. Len(l) |-> m[l[i]]]

ColaDesde(m, f, t) == [i \in DOMAIN Desde(t, f) |-> m[Desde(t, f)[i]]]

Cola == [i \in DOMAIN Lista |-> mem[Lista[i]]]

LEMMA ColaEs ==
  ASSUME NEW l \in Seq(Celdas), NEW m, NEW f \in [Celdas -> Celdas \cup {NULL}], NEW t, NEW b,
         Forma(l, m, f, t, b)
  PROVE  ColaDesde(m, f, t) = Leida(l, m)
  <1>1. Desde(t, f) = l /\ DOMAIN l = 1 .. Len(l)
    BY DesdeEs, LenProperties
  <1> QED
    BY <1>1 DEF Leida, ColaDesde

(* The sum of a list is a natural. *)
LEMMA SumaNat ==
  ASSUME NEW l \in Seq(Celdas), NEW m, NEW a, Suma(l, m, a)
  PROVE  a \in Nat
  <1>1. Len(l) \in 0 .. Len(l)
    BY LenProperties
  <1> QED
    BY <1>1 DEF Suma

LEMMA InicioBien == Init => IInv /\ Cola = << >>
  <1> SUFFICES ASSUME Init PROVE IInv /\ Cola = << >>
    OBVIOUS
  <1>1. TypeOK
    BY DEF Init, TypeOK
  <1>2. << >> \in Seq(Celdas) /\ Len(<< >>) = 0 /\ \A i \in 1 .. 0 : FALSE
    OBVIOUS
  <1>3. Forma(<< >>, mem, sig, top, bottom)
    <2>1. \A c \in Celdas : mem[c] = NULL
      BY DEF Init
    <2> QED
      BY <1>2, <2>1 DEF Init, Forma, Distintas
  <1>4. Suma(<< >>, mem, amount)
    <2> DEFINE s == [i \in 0 .. 0 |-> 0]
    <2>1. s \in [0 .. 0 -> Nat] /\ s[0] = 0
      OBVIOUS
    <2> HIDE DEF s
    <2> QED
      BY <1>2, <2>1 DEF Init, Suma
  <1>5. Cola = << >>
    <2>1. Cola = Leida(<< >>, mem)
      <3>1. sig \in [Celdas -> Celdas \cup {NULL}]
        BY <1>1 DEF TypeOK
      <3>2. ColaDesde(mem, sig, top) = Leida(<< >>, mem)
        BY <1>2, <1>3, <3>1, ColaEs, Zenon
      <3> QED
        BY <3>2 DEF Cola, Lista, ColaDesde
    <2> QED
      BY <1>2, <2>1 DEF Leida
  <1> QED
    BY <1>1, <1>2, <1>3, <1>4, <1>5 DEF IInv, Bien

(***************************************************************************)
(* What each operation does to the list and to the requests read off it.   *)
(***************************************************************************)
Llega(cola) ==
  /\ TypeOK'
  /\ \E l \in Seq(Celdas) : /\ Forma(l, mem', sig', top', bottom') /\ Suma(l, mem', amount')
                            /\ Leida(l, mem') = cola

LEMMA Encolar ==
  ASSUME TypeOK, NEW l \in Seq(Celdas), Forma(l, mem, sig, top, bottom), Suma(l, mem, amount),
         NEW p \in Pedidos, queue_enqueue(p)
  PROVE  Llega(Append(Leida(l, mem), p))
  <1>1. /\ mem \in [Celdas -> Pedidos \cup {NULL}] /\ sig \in [Celdas -> Celdas \cup {NULL}]
        /\ top \in Celdas \cup {NULL} /\ bottom \in Celdas \cup {NULL} /\ amount \in Nat
    BY DEF TypeOK
  <1>0. PICK c \in Celdas : Enlace(c, p)
    BY Zenon DEF queue_enqueue, Enlace
  <1>2. mem[c] = NULL /\ mem' = [mem EXCEPT ![c] = p] /\ bottom' = c /\ (top' = c \/ top' = top)
    BY <1>0 DEF Enlace
  <1>3. /\ Forma(Append(l, c), mem', sig', top', bottom') /\ Suma(Append(l, c), mem', amount')
        /\ sig' \in [Celdas -> Celdas \cup {NULL}]
    BY <1>0, Enlazar, Zenon
  <1>4. Append(l, c) \in Seq(Celdas)
    OBVIOUS
  <1>5. TypeOK'
    <2>1. amount' \in Nat
      BY <1>3, <1>4, SumaNat
    <2> QED
      BY <1>1, <1>2, <1>3, <2>1 DEF TypeOK
  <1>6. Leida(Append(l, c), mem') = Append(Leida(l, mem), p)
    <2> DEFINE n == Len(l)
               r == Append(l, c)
    <2>1. n \in Nat /\ r \in Seq(Celdas) /\ Len(r) = n + 1 /\ r[n + 1] = c /\ \A i \in 1 .. n : r[i] = l[i]
      OBVIOUS
    <2>2. \A i \in 1 .. n : l[i] \in Celdas /\ mem[l[i]] \in Pedidos
      BY <1>1, Ocupadas, Zenon
    <2>3. \A i \in 1 .. n : l[i] # c
      BY <2>2, <1>2, HeapFinito
    <2> HIDE DEF n, r
    <2>4. \A i \in 1 .. n : mem'[r[i]] = mem[l[i]]
      BY <2>1, <2>2, <2>3, <1>1, <1>2
    <2>5. mem'[r[n + 1]] = p
      BY <2>1, <1>1, <1>2
    <2> DEFINE s == [i \in 1 .. n |-> mem[l[i]]]
               z == [i \in 1 .. n + 1 |-> mem'[r[i]]]
    <2>6. s \in Seq(Pedidos) /\ Len(s) = n /\ \A i \in 1 .. n : s[i] = mem[l[i]]
      BY <2>1, <2>2
    <2>7. z \in Seq(Pedidos) /\ Len(z) = n + 1 /\ (\A i \in 1 .. n : z[i] = mem[l[i]]) /\ z[n + 1] = p
      <3>1. \A i \in 1 .. n + 1 : mem'[r[i]] \in Pedidos
        BY <2>1, <2>2, <2>4, <2>5
      <3>2. n + 1 \in Nat
        BY <2>1
      <3>3. z \in Seq(Pedidos) /\ Len(z) = n + 1
        BY <3>1, <3>2
      <3>4. \A i \in 1 .. n + 1 : z[i] = mem'[r[i]]
        OBVIOUS
      <3>5. n + 1 \in 1 .. n + 1 /\ \A i \in 1 .. n : i \in 1 .. n + 1
        BY <2>1
      <3> HIDE DEF z
      <3> QED
        BY <3>3, <3>4, <3>5, <2>4, <2>5
    <2> HIDE DEF s, z
    <2>8. z = Append(s, p)
      BY <2>1, <2>6, <2>7, SMTT(30)
    <2> QED
      BY <2>1, <2>8 DEF Leida, s, z, n, r
  <1> QED
    BY <1>3, <1>4, <1>5, <1>6 DEF Llega

LEMMA Desencolar ==
  ASSUME TypeOK, NEW l \in Seq(Celdas), Forma(l, mem, sig, top, bottom), Suma(l, mem, amount),
         queue_dequeue
  PROVE  Leida(l, mem) # << >> /\ Llega(Tail(Leida(l, mem)))
  <1> DEFINE n == Len(l)
             r == Quita(l, 1)
  <1>1. /\ mem \in [Celdas -> Pedidos \cup {NULL}] /\ sig \in [Celdas -> Celdas \cup {NULL}]
        /\ top \in Celdas \cup {NULL} /\ bottom \in Celdas \cup {NULL} /\ amount \in Nat
    BY DEF TypeOK
  <1>2. /\ ~(top = NULL /\ bottom = NULL)
        /\ top' = sig[top] /\ bottom' = IF sig[top] = NULL THEN NULL ELSE bottom
        /\ sig' = [sig EXCEPT ![top] = NULL] /\ amount' = amount - mem[top].amount
        /\ mem' = [mem EXCEPT ![top] = NULL]
    BY DEF queue_dequeue, queue_is_empty
  <1>3. /\ n \in Nat /\ top = (IF n = 0 THEN NULL ELSE l[1]) /\ bottom = (IF n = 0 THEN NULL ELSE l[n])
        /\ \A i \in 1 .. n : sig[l[i]] = IF i = n THEN NULL ELSE l[i + 1]
        /\ \A i, j \in 1 .. n : l[i] = l[j] => i = j
    BY LenProperties DEF Forma, Distintas
  <1>4. \A i \in 1 .. n : l[i] \in Celdas /\ mem[l[i]] \in Pedidos
    BY <1>1, Ocupadas, Zenon
  <1>5. n # 0 /\ 1 \in 1 .. n /\ n \in 1 .. n /\ top = l[1] /\ bottom = l[n] /\ top \in Celdas
    BY <1>2, <1>3, <1>4
  <1>6. /\ r \in Seq(Celdas) /\ Len(r) = n - 1
        /\ \A i \in 1 .. n - 1 : r[i] = l[i + 1]
    BY <1>5, QuitaEs
  <1>7. bottom' = IF bottom = l[1] THEN NULL ELSE bottom
    <2>1. sig[top] = IF 1 = n THEN NULL ELSE l[1 + 1]
      BY <1>3, <1>5
    <2>2. bottom = l[1] <=> n = 1
      BY <1>3, <1>5
    <2>3. n # 1 => l[1 + 1] # NULL
      <3>0. n \in Nat /\ n # 0
        BY <1>3, <1>5
      <3> HIDE DEF n
      <3>1. n # 1 => 1 + 1 \in 1 .. n
        BY <3>0
      <3>2. n # 1 => l[1 + 1] \in Celdas
        BY <3>1, <1>4, Zenon
      <3> QED
        BY <3>2, HeapFinito, Zenon
    <2> QED
      BY <2>1, <2>2, <2>3, <1>2
  <1>8. Puente(l, 1, sig, sig', NULL)
    BY <1>1, <1>2, <1>5 DEF Puente
  <1>9. Forma(r, mem', sig', top', bottom')
    <2>1. Forma(r, [mem EXCEPT ![l[1]] = NULL], sig',
                IF 1 = 1 THEN sig[l[1]] ELSE top, IF bottom = l[1] THEN NULL ELSE bottom)
      BY <1>1, <1>5, <1>8, Desenlazar
    <2> HIDE DEF r
    <2> QED
      BY <2>1, <1>2, <1>5, <1>7
  <1>10. Suma(r, mem', amount') /\ amount' \in Nat
    <2>1. /\ Suma(r, [mem EXCEPT ![l[1]] = NULL], amount - mem[l[1]].amount)
          /\ amount - mem[l[1]].amount \in Nat
      BY <1>1, <1>5, RestaSuma
    <2> HIDE DEF r
    <2> QED
      BY <2>1, <1>2, <1>5
  <1>11. TypeOK'
    BY <1>1, <1>2, <1>5, <1>10 DEF TypeOK
  <1> HIDE DEF n, r
  <1> DEFINE s == [i \in 1 .. n |-> mem[l[i]]]
             z == [i \in 1 .. n - 1 |-> mem'[r[i]]]
  <1>12. s \in Seq(Pedidos) /\ Len(s) = n /\ s # << >> /\ \A i \in 1 .. n : s[i] = mem[l[i]]
    BY <1>3, <1>4, <1>5, SMTT(30)
  <1>13. \A i \in 1 .. n - 1 : mem'[r[i]] = mem[l[i + 1]] /\ mem'[r[i]] \in Pedidos
    <2> SUFFICES ASSUME NEW i \in 1 .. n - 1
                 PROVE  mem'[r[i]] = mem[l[i + 1]] /\ mem'[r[i]] \in Pedidos
      OBVIOUS
    <2>1. i + 1 \in 1 .. n /\ i + 1 # 1 /\ r[i] = l[i + 1]
      BY <1>3, <1>6
    <2>2. l[i + 1] # top /\ l[i + 1] \in Celdas /\ mem[l[i + 1]] \in Pedidos
      BY <2>1, <1>3, <1>4, <1>5
    <2> QED
      BY <2>1, <2>2, <1>1, <1>2
  <1>14. z \in Seq(Pedidos) /\ Len(z) = n - 1 /\ \A i \in 1 .. n - 1 : z[i] = mem[l[i + 1]]
    <2>1. n - 1 \in Nat
      BY <1>3, <1>5
    <2>2. z \in Seq(Pedidos) /\ Len(z) = n - 1
      BY <1>13, <2>1
    <2> QED
      BY <1>13, <2>2
  <1> HIDE DEF s, z
  <1>15. z = Tail(s)
    <2>1. Tail(s) \in Seq(Pedidos) /\ Len(Tail(s)) = n - 1 /\ \A i \in 1 .. n - 1 : Tail(s)[i] = s[i + 1]
      BY <1>12, <1>3, <1>5, HeadTailProperties
    <2>2. \A i \in 1 .. n - 1 : i + 1 \in 1 .. n
      BY <1>3
    <2>3. \A i \in 1 .. n - 1 : Tail(s)[i] = z[i]
      BY <2>1, <2>2, <1>12, <1>14
    <2> QED
      BY <2>1, <2>3, <1>14
  <1> QED
    BY <1>6, <1>9, <1>10, <1>11, <1>12, <1>15 DEF Llega, Leida, s, z, n

LEMMA Borrar ==
  ASSUME TypeOK, NEW L \in Seq(Celdas), Forma(L, mem, sig, top, bottom), Suma(L, mem, amount),
         NEW fuera, NEW quitados, \A k \in 1 .. Len(L) : L[k] \in fuera <=> mem[L[k]] \in quitados,
         queue_delete(fuera)
  PROVE  Llega(Abs!Sin(quitados))
  <1> DEFINE q == borrado(fuera)
             v == Abs!Sin(quitados)
  <1>1. Marcha(q, Len(L), v, L)
    BY BorradoEs, Zenon
  <1>2. mem' = q.mem /\ sig' = q.sig /\ top' = q.top /\ bottom' = q.bottom /\ amount' = q.amount
    BY DEF queue_delete
  <1> HIDE DEF q, v
  <1>3. PICK l \in Seq(Celdas) : \E p \in 0 .. Len(l) : Enmedio(q, l, p, Len(L), v, L)
    BY <1>1 DEF Marcha
  <1>4. PICK p \in 0 .. Len(l) : Enmedio(q, l, p, Len(L), v, L)
    BY <1>3
  <1>5. Len(L) \in Nat /\ Len(l) = p + (Len(L) - Len(L))
    BY <1>4, LenProperties DEF Enmedio
  <1>6. Len(l) = p /\ p \in Nat
    BY <1>5
  <1>7. /\ Forma(l, mem', sig', top', bottom') /\ Suma(l, mem', amount')
        /\ \A i \in 1 .. Len(l) : mem'[l[i]] = mem[l[i]]
        /\ v \in Seq(Pedidos) /\ Len(v) = p /\ \A i \in 1 .. p : v[i] = mem[l[i]]
    BY <1>2, <1>4 DEF Enmedio
  <1>8. TypeOK'
    <2>1. amount' \in Nat
      BY <1>7, SumaNat
    <2>2. q \in Vueltas
      BY <1>1 DEF Marcha
    <2> QED
      BY <1>2, <2>1, <2>2 DEF TypeOK, Vueltas
  <1>9. Leida(l, mem') = v
    <2>1. v = [i \in 1 .. p |-> v[i]]
      BY <1>6, <1>7
    <2>2. \A i \in 1 .. p : v[i] = mem'[l[i]]
      BY <1>6, <1>7
    <2> QED
      BY <2>1, <2>2, <1>6 DEF Leida
  <1> QED
    BY <1>7, <1>8, <1>9 DEF Llega, v

(***************************************************************************)
(* Every step keeps the list and is a step of the FIFO.                    *)
(***************************************************************************)
LEMMA PasoBien == IInv /\ [Next]_vars => IInv' /\ [Abs!Next]_Cola
  <1> SUFFICES ASSUME IInv, [Next]_vars PROVE IInv' /\ [Abs!Next]_Cola
    OBVIOUS
  <1>1. TypeOK /\ sig \in [Celdas -> Celdas \cup {NULL}] /\ mem \in [Celdas -> Pedidos \cup {NULL}]
    BY DEF IInv, TypeOK
  <1>2. PICK l \in Seq(Celdas) : Forma(l, mem, sig, top, bottom) /\ Suma(l, mem, amount)
    BY DEF IInv, Bien
  <1>3. Cola = Leida(l, mem)
    <2>1. ColaDesde(mem, sig, top) = Leida(l, mem)
      BY <1>1, <1>2, ColaEs, Zenon
    <2> QED
      BY <2>1 DEF Cola, Lista, ColaDesde
  <1>4. ASSUME NEW cola, Llega(cola) PROVE IInv' /\ Cola' = cola
    <2>1. TypeOK' /\ sig' \in [Celdas -> Celdas \cup {NULL}]
      BY <1>4 DEF Llega, TypeOK
    <2>2. PICK r \in Seq(Celdas) : /\ Forma(r, mem', sig', top', bottom') /\ Suma(r, mem', amount')
                                   /\ Leida(r, mem') = cola
      BY <1>4 DEF Llega
    <2>3. ColaDesde(mem', sig', top') = Leida(r, mem')
      BY <2>1, <2>2, ColaEs, Zenon
    <2>4. Cola' = cola
      BY <2>2, <2>3 DEF Cola, Lista, ColaDesde
    <2> QED
      BY <2>1, <2>2, <2>4 DEF IInv, Bien
  <1>5. ASSUME NEW p \in Pedidos, queue_enqueue(p) PROVE IInv' /\ [Abs!Next]_Cola
    <2>1. Llega(Append(Leida(l, mem), p))
      BY <1>1, <1>2, <1>5, Encolar
    <2>2. IInv' /\ Cola' = Append(Cola, p)
      BY <1>3, <1>4, <2>1
    <2>3. Abs!enqueue(p)
      BY <2>2 DEF Abs!enqueue, Cola
    <2> QED
      BY <2>2, <2>3 DEF Abs!Next
  <1>6. ASSUME queue_dequeue PROVE IInv' /\ [Abs!Next]_Cola
    <2>1. Leida(l, mem) # << >> /\ Llega(Tail(Leida(l, mem)))
      BY <1>1, <1>2, <1>6, Desencolar
    <2>2. IInv' /\ Cola # << >> /\ Cola' = Tail(Cola)
      BY <1>3, <1>4, <2>1
    <2>3. Abs!dequeue
      BY <2>2 DEF Abs!dequeue, Cola
    <2> QED
      BY <2>2, <2>3 DEF Abs!Next
  <1>7. \A i \in 1 .. Len(l) : l[i] \in Celdas /\ mem[l[i]] \in Pedidos
    BY <1>1, <1>2, Ocupadas, Zenon
  (* Without requests there is no abstract deletion: the queue is empty. *)
  <1>8. ASSUME NEW r \in Seq(Celdas), NEW m \in [Celdas -> Pedidos \cup {NULL}],
               NEW f, NEW t, NEW b, Forma(r, m, f, t, b), Pedidos = {}
        PROVE  Leida(r, m) = << >>
    <2>1. \A k \in 1 .. Len(r) : m[r[k]] \in Pedidos
      BY <1>8, Ocupadas, Zenon
    <2>2. Len(r) \in Nat /\ \A k \in 1 .. Len(r) : FALSE
      BY <1>8, <2>1, LenProperties
    <2>3. Len(r) = 0
      BY <2>2
    <2> QED
      BY <2>3 DEF Leida
  <1>9. ASSUME Pedidos = {}, NEW cola, Llega(cola) PROVE Cola' = Cola
    <2>1. Cola = << >>
      BY <1>1, <1>2, <1>3, <1>8, <1>9
    <2>2. PICK r \in Seq(Celdas) : /\ Forma(r, mem', sig', top', bottom') /\ Leida(r, mem') = cola
      BY <1>9 DEF Llega
    <2>3. mem' \in [Celdas -> Pedidos \cup {NULL}]
      BY <1>9 DEF Llega, TypeOK
    <2>4. Leida(r, mem') = << >>
      BY <2>2, <2>3, <1>8, <1>9
    <2> QED
      BY <2>1, <2>2, <2>4, <1>4, <1>9
  <1>10. ASSUME NEW conn \in Conns, queue_delete_by_conn(conn) PROVE IInv' /\ [Abs!Next]_Cola
    <2> DEFINE fuera == {c \in Celdas : mem[c] # NULL /\ mem[c].conn = conn}
               quitados == {p \in Pedidos : p.conn = conn}
    <2>1. \A k \in 1 .. Len(l) : l[k] \in fuera <=> mem[l[k]] \in quitados
      BY <1>7, HeapFinito
    <2>2. queue_delete(fuera)
      BY <1>10 DEF queue_delete_by_conn
    <2> HIDE DEF fuera
    <2>3. Llega(Abs!Sin(quitados))
      <3> HIDE DEF quitados
      <3> QED
        BY <2>1, <2>2, <1>1, <1>2, Borrar, Zenon
    <2>4. IInv' /\ Cola' = Abs!Sin(quitados)
      BY <2>3, <1>4
    <2>5. CASE Pedidos = {}
      BY <2>3, <2>4, <2>5, <1>9
    <2>6. ASSUME NEW x \in Pedidos PROVE [Abs!Next]_Cola
      <3> DEFINE p == [x EXCEPT !.conn = conn]
      <3>1. p \in Pedidos /\ p.conn = conn
        BY <1>10 DEF Pedidos
      <3> HIDE DEF p
      <3>2. Abs!delete_by_conn(p.conn)
        BY <2>4, <3>1 DEF Abs!delete_by_conn, Cola
      <3> QED
        BY <3>1, <3>2 DEF Abs!Next
    <2> QED
      BY <2>4, <2>5, <2>6
  <1>11. ASSUME NEW job \in Jobs, queue_delete_by_job_id(job) PROVE IInv' /\ [Abs!Next]_Cola
    <2> DEFINE fuera == {c \in Celdas : mem[c] # NULL /\ mem[c].job = job}
               quitados == {p \in Pedidos : p.job = job}
    <2>1. \A k \in 1 .. Len(l) : l[k] \in fuera <=> mem[l[k]] \in quitados
      BY <1>7, HeapFinito
    <2>2. queue_delete(fuera)
      BY <1>11 DEF queue_delete_by_job_id
    <2> HIDE DEF fuera
    <2>3. Llega(Abs!Sin(quitados))
      <3> HIDE DEF quitados
      <3> QED
        BY <2>1, <2>2, <1>1, <1>2, Borrar, Zenon
    <2>4. IInv' /\ Cola' = Abs!Sin(quitados)
      BY <2>3, <1>4
    <2>5. CASE Pedidos = {}
      BY <2>3, <2>4, <2>5, <1>9
    <2>6. ASSUME NEW x \in Pedidos PROVE [Abs!Next]_Cola
      <3> DEFINE p == [x EXCEPT !.job = job]
      <3>1. p \in Pedidos /\ p.job = job
        BY <1>11 DEF Pedidos
      <3> HIDE DEF p
      <3>2. Abs!delete_by_job_id(p.job)
        BY <2>4, <3>1 DEF Abs!delete_by_job_id, Cola
      <3> QED
        BY <3>1, <3>2 DEF Abs!Next
    <2> QED
      BY <2>4, <2>5, <2>6
  <1>12. CASE UNCHANGED vars
    <2>1. mem' = mem /\ sig' = sig /\ top' = top /\ bottom' = bottom /\ amount' = amount
      BY <1>12 DEF vars
    <2>2. Llega(Leida(l, mem))
      BY <2>1, <1>1, <1>2 DEF Llega, TypeOK
    <2> QED
      BY <2>2, <1>3, <1>4
  <1> QED
    BY <1>5, <1>6, <1>10, <1>11, <1>12 DEF Next

(***************************************************************************)
(* The list stays whole: some sequence of distinct cells, all the cells in *)
(* use, goes from top to bottom along sig, and amount is its sum.          *)
(***************************************************************************)
THEOREM Induccion == Spec => []IInv
  <1>1. Init => IInv
    BY InicioBien
  <1>2. IInv /\ [Next]_vars => IInv'
    BY PasoBien
  <1> QED
    BY <1>1, <1>2, PTL DEF Spec

(* So nothing that queue_print walks over leaks, is free or comes twice. *)
LEMMA BienFormada == IInv => ListaBienFormada
  <1> SUFFICES ASSUME IInv PROVE ListaBienFormada
    OBVIOUS
  <1>1. /\ mem \in [Celdas -> Pedidos \cup {NULL}] /\ sig \in [Celdas -> Celdas \cup {NULL}]
    BY DEF IInv, TypeOK
  <1>2. PICK l \in Seq(Celdas) : Forma(l, mem, sig, top, bottom) /\ Suma(l, mem, amount)
    BY DEF IInv, Bien
  <1>3. Lista = l
    BY <1>1, <1>2, DesdeEs DEF Lista
  <1>4. Len(l) \in Nat /\ Len(l) <= Cardinality(Celdas)
    BY <1>2, CabenEnElHeap DEF Forma
  <1>5. amount = MontoDe(l)
    BY <1>1, <1>2, MontoEs
  <1>6. IF l = << >> THEN bottom = NULL ELSE bottom = Last(l) /\ sig[bottom] = NULL
    <2>1. l = << >> <=> Len(l) = 0
      BY EmptySeq
    <2>2. Len(l) # 0 => Len(l) \in 1 .. Len(l)
      BY <1>4
    <2> QED
      BY <2>1, <2>2, <1>2 DEF Forma, Last
  <1>7. ToSet(l) = {c \in Celdas : mem[c] # NULL}
    <2>1. \A i \in 1 .. Len(l) : l[i] \in Celdas
      BY LenProperties
    <2>2. DOMAIN l = 1 .. Len(l)
      BY LenProperties
    <2>3. \A c \in Celdas : mem[c] # NULL <=> \E i \in 1 .. Len(l) : l[i] = c
      BY <1>2 DEF Forma
    <2>4. ToSet(l) = {l[i] : i \in 1 .. Len(l)}
      BY <2>2 DEF ToSet
    <2> QED
      BY <2>1, <2>3, <2>4
  <1> QED
    BY <1>3, <1>4, <1>5, <1>6, <1>7 DEF ListaBienFormada

(***************************************************************************)
(* The list of pending_request.c is well formed after any sequence of      *)
(* operations, for a heap of any size: bottom is the last cell, there is   *)
(* no cycle, no cell leaks or is used after free, and amount is the sum of *)
(* the requests queued.                                                    *)
(***************************************************************************)
THEOREM LaListaSeConserva == Spec => []ListaBienFormada
  BY Induccion, BienFormada, PTL

(* Pointers name cells or NULL, and amount never falls below 0. *)
THEOREM Tipado == Spec => []TypeOK
  <1>1. IInv => TypeOK
    BY DEF IInv
  <1> QED
    BY Induccion, <1>1, PTL

(***************************************************************************)
(* The linked list implements the FIFO of ColaAbs: an enqueue appends, a   *)
(* dequeue takes the first, and a deletion by connection or job takes out  *)
(* exactly its requests and keeps the order of the others.                 *)
(***************************************************************************)
THEOREM ImplementaLaCola == Spec => EsCola
  <1>1. Init => Abs!Init
    BY InicioBien DEF Abs!Init, Cola
  <1>2. IInv /\ [Next]_vars => [Abs!Next]_Cola
    BY PasoBien
  <1>3. [Abs!Next]_Cola <=> [Abs!Next]_([i \in DOMAIN Lista |-> mem[Lista[i]]])
    BY DEF Cola
  <1> QED
    BY <1>1, <1>2, <1>3, Induccion, PTL DEF Spec, EsCola, Abs!Spec
===============================================================================
