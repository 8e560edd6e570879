----------------------------- MODULE InduccionNat -----------------------------
(***************************************************************************)
(* Induction over the naturals for the proofs of this directory, on a set  *)
(* rather than on an operator, and what it gives for FlattenSeq.           *)
(***************************************************************************)
EXTENDS Integers, Sequences, SequencesExt, FiniteSetTheorems, WellFoundedInduction,
        NaturalsInduction, SequenceTheorems, TLAPS

(* A set of naturals that has an element has a least one: the intervals 0 .. x *)
(* are finite, and strict inclusion is well founded on them.                   *)
LEMMA TieneMinimo ==
  ASSUME NEW T, T \subseteq Nat, NEW n \in T
  PROVE  \E x \in T : \A y \in T : x <= y
  <1> DEFINE S == 0 .. n
             U == {0 .. x : x \in T \cap S}
  <1>1. IsFiniteSet(S)
    BY FS_Interval
  <1>2. IsWellFoundedOn(StrictSubsetOrdering(S), FiniteSubsetsOf(S))
    BY <1>1, FS_StrictSubsetOrderingWellFounded
  <1>3. U \subseteq FiniteSubsetsOf(S) /\ U # {}
    <2>1. \A x \in S : 0 .. x \in SUBSET S /\ IsFiniteSet(0 .. x)
      BY FS_Interval
    <2>2. 0 .. n \in U
      OBVIOUS
    <2> QED
      BY <2>1, <2>2 DEF FiniteSubsetsOf
  <1> HIDE DEF S
  <1>4. PICK u \in U : \A v \in U : <<v, u>> \notin StrictSubsetOrdering(S)
    <2> HIDE DEF U
    <2> QED
      BY <1>2, <1>3, WFMin
  <1>5. PICK x \in T \cap S : u = 0 .. x
    BY <1>4
  <1>6. ASSUME NEW y \in T \cap S, y < x PROVE FALSE
    <2>1. 0 .. y \in U
      OBVIOUS
    <2>2. 0 .. y \in SUBSET S /\ 0 .. x \in SUBSET S
      BY DEF S
    <2>3. 0 .. y \subseteq 0 .. x /\ 0 .. y # 0 .. x
      BY <1>6 DEF S
    <2>4. <<0 .. y, 0 .. x>> \in StrictSubsetOrdering(S)
      BY <2>2, <2>3 DEF StrictSubsetOrdering
    <2> QED
      BY <2>1, <2>4, <1>4, <1>5
  <1> QED
    BY <1>5, <1>6 DEF S

(* Induction: a set with 0 and, with each natural, the next one. *)
LEMMA PorInduccion ==
  ASSUME NEW T, 0 \in T, \A n \in Nat : n \in T => n + 1 \in T
  PROVE  Nat \subseteq T
  <1> DEFINE F == Nat \ T
  <1>1. SUFFICES ASSUME F # {} PROVE FALSE
    OBVIOUS
  <1>2. PICK x \in F : \A y \in F : x <= y
    BY <1>1, TieneMinimo
  <1>3. x - 1 \in Nat /\ x - 1 \notin F
    BY <1>2
  <1> QED
    BY <1>2, <1>3

(* The recursion of FlattenSeq has a solution: the prefixes, one after another. *)
LEMMA HayPrefijos ==
  ASSUME NEW S, NEW ss \in Seq(Seq(S))
  PROVE  \E f \in [1 .. Len(ss) -> Seq(S)] :
           \A i \in 1 .. Len(ss) : f[i] = IF i = 1 THEN ss[i] ELSE f[i - 1] \o ss[i]
  <1> DEFINE Pega(a, b) == a \o b
             Solucion(f, m) == \A i \in 1 .. m : f[i] = IF i = 1 THEN ss[i] ELSE Pega(f[i - 1], ss[i])
             Hay(m) == m <= Len(ss) => \E f \in [1 .. m -> Seq(S)] : Solucion(f, m)
             T == {m \in Nat : Hay(m)}
  <1>1. /\ Len(ss) \in Nat /\ \A i \in 1 .. Len(ss) : ss[i] \in Seq(S)
        /\ \A a, b \in Seq(S) : Pega(a, b) \in Seq(S)
    BY LenProperties, ElementOfSeq, ConcatProperties
  <1> HIDE DEF Pega
  <1>2. Hay(0)
    <2>1. \A i \in 1 .. 0 : FALSE
      OBVIOUS
    <2>2. [i \in 1 .. 0 |-> ss[1]] \in [1 .. 0 -> Seq(S)]
      BY <2>1
    <2>3. Solucion([i \in 1 .. 0 |-> ss[1]], 0)
      BY <2>1
    <2> QED
      BY <2>2, <2>3
  <1>3. ASSUME NEW m \in Nat, Hay(m) PROVE Hay(m + 1)
    <2> SUFFICES ASSUME m + 1 <= Len(ss)
                 PROVE  \E f \in [1 .. m + 1 -> Seq(S)] : Solucion(f, m + 1)
      OBVIOUS
    <2>0. m <= Len(ss)
      BY <1>1
    <2>1. PICK f \in [1 .. m -> Seq(S)] : Solucion(f, m)
      BY <2>0, <1>3, Zenon
    <2> DEFINE g == [i \in 1 .. m + 1 |-> IF i <= m THEN f[i]
                                           ELSE IF i = 1 THEN ss[i] ELSE Pega(f[m], ss[i])]
    <2>2. ss[m + 1] \in Seq(S) /\ (m # 0 => f[m] \in Seq(S) /\ Pega(f[m], ss[m + 1]) \in Seq(S))
      BY <1>1
    <2>3. g \in [1 .. m + 1 -> Seq(S)]
      BY <2>2
    <2>4. Solucion(g, m + 1)
      <3> SUFFICES ASSUME NEW i \in 1 .. m + 1
                   PROVE  g[i] = IF i = 1 THEN ss[i] ELSE Pega(g[i - 1], ss[i])
        OBVIOUS
      <3>1. CASE i <= m
        BY <3>1, <2>1
      <3>2. CASE i = m + 1
        BY <3>2
      <3> QED
        BY <3>1, <3>2
    <2> QED
      BY <2>3, <2>4
  <1>4. Hay(Len(ss))
    <2> HIDE DEF Hay
    <2>1. 0 \in T /\ \A m \in Nat : m \in T => m + 1 \in T
      BY <1>2, <1>3
    <2>2. Nat \subseteq T
      <3> HIDE DEF T
      <3> QED
        BY <2>1, PorInduccion
    <2> QED
      BY <1>1, <2>2
  <1>5. Len(ss) <= Len(ss)
    BY <1>1
  <1> QED
    BY <1>4, <1>5, Zenon DEF Pega

(* What FlattenSeq is: the last of those prefixes. *)
LEMMA Aplanar ==
  ASSUME NEW S, NEW ss \in Seq(Seq(S)), Len(ss) # 0
  PROVE  \E f \in [1 .. Len(ss) -> Seq(S)] :
           /\ f[1] = ss[1] /\ \A i \in 2 .. Len(ss) : f[i] = f[i - 1] \o ss[i]
           /\ FlattenSeq(ss) = f[Len(ss)]
  <1> DEFINE Solucion(f) == f = [i \in 1 .. Len(ss) |-> IF i = 1 THEN ss[i] ELSE f[i - 1] \o ss[i]]
             h == CHOOSE f : Solucion(f)
  <1>1. FlattenSeq(ss) = h[Len(ss)]
    BY DEF FlattenSeq
  <1>2. PICK f \in [1 .. Len(ss) -> Seq(S)] :
             \A i \in 1 .. Len(ss) : f[i] = IF i = 1 THEN ss[i] ELSE f[i - 1] \o ss[i]
    BY HayPrefijos, Zenon
  <1>3. Solucion(f)
    BY <1>2, Zenon
  <1>4. Solucion(h)
    <2> HIDE DEF Solucion
    <2> QED
      BY <1>3
  <1> HIDE DEF h
  <1>5. \A i \in 1 .. Len(ss) : h[i] = IF i = 1 THEN ss[i] ELSE h[i - 1] \o ss[i]
    BY <1>4, Zenon
  <1> DEFINE Igual(m) == m + 1 <= Len(ss) => h[m + 1] = f[m + 1]
             T == {m \in Nat : Igual(m)}
  <1>6. Len(ss) \in Nat \ {0}
    BY LenProperties
  <1>7. Igual(0)
    <2>1. 1 \in 1 .. Len(ss) /\ 0 + 1 = 1
      BY <1>6
    <2> QED
      BY <1>2, <1>5, <2>1, Zenon
  <1>8. ASSUME NEW m \in Nat, Igual(m) PROVE Igual(m + 1)
    <2>1. ASSUME NEW i \in 1 .. Len(ss), i # 1, h[i - 1] = f[i - 1] PROVE h[i] = f[i]
      <3>1. h[i] = h[i - 1] \o ss[i]
        BY <2>1, <1>5, Zenon
      <3>2. f[i] = f[i - 1] \o ss[i]
        BY <2>1, <1>2, Zenon
      <3> QED
        BY <2>1, <3>1, <3>2, Zenon
    <2> QED
      BY <1>6, <1>8, <2>1
  <1>9. Igual(Len(ss) - 1)
    <2> HIDE DEF Igual
    <2>1. 0 \in T /\ \A m \in Nat : m \in T => m + 1 \in T
      BY <1>7, <1>8
    <2>2. Nat \subseteq T
      <3> HIDE DEF T
      <3> QED
        BY <2>1, PorInduccion
    <2> QED
      BY <1>6, <2>2
  <1>10. h[Len(ss)] = f[Len(ss)]
    <2>1. Len(ss) - 1 + 1 = Len(ss) /\ Len(ss) <= Len(ss)
      BY <1>6
    <2> QED
      BY <1>9, <2>1, Zenon
  <1>11. f[1] = ss[1]
    <2>1. 1 \in 1 .. Len(ss)
      BY <1>6
    <2> QED
      BY <1>2, <2>1, Zenon
  <1>12. ASSUME NEW i \in 2 .. Len(ss) PROVE f[i] = f[i - 1] \o ss[i]
    <2>1. i \in 1 .. Len(ss) /\ i # 1
      BY <1>6
    <2> QED
      BY <1>2, <2>1, Zenon
  <1> QED
    BY <1>1, <1>2, <1>10, <1>11, <1>12, Zenon

(* Concatenation. *)
LEMMA Pegar ==
  ASSUME NEW S, NEW a \in Seq(S), NEW b \in Seq(S)
  PROVE  /\ a \o b \in Seq(S) /\ Len(a \o b) = Len(a) + Len(b) /\ Len(a) \in Nat /\ Len(b) \in Nat
         /\ \A i \in 1 .. Len(a) : (a \o b)[i] = a[i]
         /\ \A i \in 1 .. Len(b) : (a \o b)[Len(a) + i] = b[i]
  OBVIOUS

(* Those prefixes are prefixes of the whole. *)
Acumula(f, ss) == \A i \in 2 .. Len(ss) : f[i] = f[i - 1] \o ss[i]

LEMMA SonPrefijos ==
  ASSUME NEW S, NEW ss \in Seq(Seq(S)), NEW f \in [1 .. Len(ss) -> Seq(S)], Len(ss) # 0,
         Acumula(f, ss)
  PROVE  \A l \in 1 .. Len(ss) :
           Len(f[l]) <= Len(f[Len(ss)]) /\ \A i \in 1 .. Len(f[l]) : f[Len(ss)][i] = f[l][i]
  <1> DEFINE Prefijo(a, b) == Len(a) <= Len(b) /\ \A i \in 1 .. Len(a) : b[i] = a[i]
             Todos(m) == m + 1 <= Len(ss) => \A l \in 1 .. m + 1 : Prefijo(f[l], f[m + 1])
             T == {m \in Nat : Todos(m)}
  <1>1. Len(ss) \in Nat /\ \A i \in 1 .. Len(ss) : ss[i] \in Seq(S) /\ f[i] \in Seq(S)
    BY LenProperties, ElementOfSeq
  <1>2. \A i \in 1 .. Len(ss) : Prefijo(f[i], f[i])
    BY <1>1, LenProperties
  <1>3. ASSUME NEW i \in 1 .. Len(ss), i # 1 PROVE Prefijo(f[i - 1], f[i])
    <2>1. i - 1 \in 1 .. Len(ss) /\ i \in 2 .. Len(ss)
      BY <1>1, <1>3
    <2>2. f[i] = f[i - 1] \o ss[i] /\ f[i - 1] \in Seq(S) /\ ss[i] \in Seq(S)
      BY <1>1, <2>1, Zenon DEF Acumula
    <2> DEFINE x == f[i - 1]
               y == ss[i]
    <2>3. f[i] = x \o y /\ x \in Seq(S) /\ y \in Seq(S)
      BY <2>2
    <2> HIDE DEF x, y
    <2>4. Prefijo(x, x \o y)
      BY <2>3, Pegar
    <2> QED
      BY <2>3, <2>4 DEF x
  <1>4. ASSUME NEW a \in Seq(S), NEW b \in Seq(S), NEW c \in Seq(S), Prefijo(a, b), Prefijo(b, c)
        PROVE  Prefijo(a, c)
    BY <1>4, LenProperties
  <1> HIDE DEF Prefijo
  <1>5. Todos(0)
    BY <1>1, <1>2
  <1>6. ASSUME NEW m \in Nat, Todos(m) PROVE Todos(m + 1)
    <2> SUFFICES ASSUME m + 1 + 1 <= Len(ss), NEW l \in 1 .. m + 1 + 1
                 PROVE  Prefijo(f[l], f[m + 1 + 1])
      OBVIOUS
    <2>1. Prefijo(f[m + 1], f[m + 1 + 1])
      <3>1. m + 1 + 1 \in 1 .. Len(ss) /\ m + 1 + 1 # 1 /\ (m + 1 + 1) - 1 = m + 1
        BY <1>1
      <3> QED
        BY <1>3, <3>1
    <2>2. CASE l = m + 1 + 1
      BY <2>2, <1>1, <1>2
    <2>3. CASE l \in 1 .. m + 1
      <3>1. Prefijo(f[l], f[m + 1])
        BY <2>3, <1>1, <1>6
      <3>2. f[l] \in Seq(S) /\ f[m + 1] \in Seq(S) /\ f[m + 1 + 1] \in Seq(S)
        BY <1>1
      <3> QED
        BY <2>1, <3>1, <3>2, <1>4
    <2> QED
      BY <2>2, <2>3
  <1>7. Todos(Len(ss) - 1)
    <2> HIDE DEF Todos
    <2>1. 0 \in T /\ \A m \in Nat : m \in T => m + 1 \in T
      BY <1>5, <1>6
    <2>2. Nat \subseteq T
      <3> HIDE DEF T
      <3> QED
        BY <2>1, PorInduccion
    <2> QED
      BY <1>1, <2>2
  <1>8. \A l \in 1 .. Len(ss) : Prefijo(f[l], f[Len(ss)])
    <2>1. (Len(ss) - 1) + 1 = Len(ss) /\ Len(ss) <= Len(ss)
      BY <1>1
    <2> QED
      BY <1>7, <2>1
  <1> QED
    BY <1>8, Zenon DEF Prefijo

(* Where each sequence is in the flattened one: b[l] is where the l-th ends. *)
LEMMA Posiciones ==
  ASSUME NEW S, NEW ss \in Seq(Seq(S))
  PROVE  /\ FlattenSeq(ss) \in Seq(S)
         /\ \E b \in [0 .. Len(ss) -> Nat] :
              /\ b[0] = 0 /\ Len(FlattenSeq(ss)) = b[Len(ss)]
              /\ \A l \in 1 .. Len(ss) :
                   /\ b[l] = b[l - 1] + Len(ss[l]) /\ b[l] <= b[Len(ss)]
                   /\ \A i \in 1 .. Len(ss[l]) : FlattenSeq(ss)[b[l - 1] + i] = ss[l][i]
  <1>1. Len(ss) \in Nat /\ \A i \in 1 .. Len(ss) : ss[i] \in Seq(S)
    BY LenProperties, ElementOfSeq
  <1>2. CASE Len(ss) = 0
    <2>1. ss = << >> /\ FlattenSeq(ss) = << >> /\ << >> \in Seq(S) /\ Len(<< >>) = 0
      BY <1>2, EmptySeq DEF FlattenSeq
    <2> DEFINE b == [l \in 0 .. 0 |-> 0]
    <2>2. b \in [0 .. Len(ss) -> Nat] /\ b[0] = 0 /\ \A l \in 1 .. Len(ss) : FALSE
      BY <1>2
    <2> HIDE DEF b
    <2> QED
      BY <1>2, <2>1, <2>2
  <1>3. CASE Len(ss) # 0
    <2>1. PICK f \in [1 .. Len(ss) -> Seq(S)] :
             /\ f[1] = ss[1] /\ \A i \in 2 .. Len(ss) : f[i] = f[i - 1] \o ss[i]
             /\ FlattenSeq(ss) = f[Len(ss)]
      BY <1>3, Aplanar, Zenon
    <2>2. Len(ss) \in 1 .. Len(ss)
      BY <1>1, <1>3
    <2>3. \A l \in 1 .. Len(ss) :
            /\ Len(f[l]) <= Len(f[Len(ss)]) /\ f[l] \in Seq(S) /\ Len(f[l]) \in Nat
            /\ \A i \in 1 .. Len(f[l]) : f[Len(ss)][i] = f[l][i]
      <3>1. \A l \in 1 .. Len(ss) :
              Len(f[l]) <= Len(f[Len(ss)]) /\ \A i \in 1 .. Len(f[l]) : f[Len(ss)][i] = f[l][i]
        <4>1. Acumula(f, ss)
          BY <2>1, Zenon DEF Acumula
        <4> QED
          BY <4>1, <1>3, SonPrefijos, ZenonT(60)
      <3>2. \A l \in 1 .. Len(ss) : f[l] \in Seq(S) /\ Len(f[l]) \in Nat
        BY LenProperties
      <3> QED
        BY <3>1, <3>2, Zenon
    <2> DEFINE b == [l \in 0 .. Len(ss) |-> IF l = 0 THEN 0 ELSE Len(f[l])]
    <2>4. b \in [0 .. Len(ss) -> Nat] /\ b[0] = 0 /\ b[Len(ss)] = Len(f[Len(ss)])
      BY <2>2, <2>3, <1>1, <1>3
    <2>5. ASSUME NEW l \in 1 .. Len(ss)
          PROVE  /\ b[l] = b[l - 1] + Len(ss[l]) /\ b[l] <= b[Len(ss)]
                 /\ \A i \in 1 .. Len(ss[l]) : FlattenSeq(ss)[b[l - 1] + i] = ss[l][i]
      <3>1. ss[l] \in Seq(S) /\ Len(ss[l]) \in Nat /\ b[l] = Len(f[l])
        BY <1>1, LenProperties
      <3>2. b[l] = b[l - 1] + Len(ss[l]) /\ \A i \in 1 .. Len(ss[l]) : f[l][b[l - 1] + i] = ss[l][i]
        <4>1. CASE l = 1
          <5>1. f[l] = ss[l] /\ b[l - 1] = 0 /\ \A i \in 1 .. Len(ss[l]) : 0 + i = i
            BY <4>1, <2>1, <2>4, <3>1
          <5> HIDE DEF b
          <5> QED
            BY <5>1, <3>1
        <4>2. CASE l # 1
          <5>1. l - 1 \in 1 .. Len(ss) /\ l \in 2 .. Len(ss)
            BY <4>2, <1>1
          <5>2. b[l - 1] = Len(f[l - 1])
            BY <5>1, <1>1
          <5>3. f[l] = f[l - 1] \o ss[l] /\ f[l - 1] \in Seq(S)
            BY <5>1, <2>1, <2>3, Zenon
          <5> DEFINE x == f[l - 1]
                     y == ss[l]
                     z == f[l]
          <5>4. z = x \o y /\ x \in Seq(S) /\ y \in Seq(S) /\ b[l - 1] = Len(x) /\ b[l] = Len(z)
            BY <3>1, <5>2, <5>3
          <5> HIDE DEF x, y, z, b
          <5>5. b[l] = b[l - 1] + Len(y) /\ \A i \in 1 .. Len(y) : z[b[l - 1] + i] = y[i]
            BY <5>4, Pegar
          <5> QED
            BY <5>5 DEF y, z
        <4> QED
          BY <4>1, <4>2
      <3>3. b[l] <= b[Len(ss)]
        BY <2>3, <2>4, <3>1
      <3>4. ASSUME NEW i \in 1 .. Len(ss[l]) PROVE f[Len(ss)][b[l - 1] + i] = ss[l][i]
        <4>1. b[l - 1] \in Nat
          BY <2>4, <1>1
        <4>2. b[l - 1] + i \in 1 .. Len(f[l])
          <5> HIDE DEF b
          <5> QED
            BY <4>1, <3>1, <3>2
        <4> HIDE DEF b
        <4> QED
          BY <4>2, <3>2, <2>3
      <3> QED
        BY <2>1, <3>2, <3>3, <3>4
    <2> HIDE DEF b
    <2> QED
      BY <2>1, <2>2, <2>3, <2>4, <2>5
  <1> QED
    BY <1>2, <1>3

(* The largest element of a set of positions. *)
LEMMA ElMayor ==
  ASSUME NEW n \in Nat, NEW s \in SUBSET (1 .. n), s # {}
  PROVE  Max(s) \in s /\ \A y \in s : Max(s) >= y
  <1> DEFINE T == {n - y : y \in s}
  <1>1. PICK z \in s : TRUE
    OBVIOUS
  <1>2. T \subseteq Nat /\ n - z \in T
    OBVIOUS
  <1>3. PICK x \in T : \A y \in T : x <= y
    <2> HIDE DEF T
    <2> QED
      BY <1>2, TieneMinimo
  <1>4. PICK w \in s : x = n - w
    BY <1>3
  <1>5. ASSUME NEW y \in s PROVE w >= y
    <2>1. n - y \in T /\ y \in 1 .. n /\ w \in 1 .. n
      OBVIOUS
    <2> HIDE DEF T
    <2> QED
      BY <1>3, <1>4, <2>1
  <1> QED
    BY <1>4, <1>5 DEF Max

(* And the smallest. *)
LEMMA ElMenor ==
  ASSUME NEW n \in Nat, NEW s \in SUBSET (1 .. n), s # {}
  PROVE  Min(s) \in s /\ \A y \in s : Min(s) <= y
  <1>1. PICK z \in s : TRUE
    OBVIOUS
  <1>2. s \subseteq Nat
    OBVIOUS
  <1>3. PICK x \in s : \A y \in s : x <= y
    BY <1>1, <1>2, TieneMinimo
  <1> QED
    BY <1>3 DEF Min

(* The intervals that begin at 1, as the fold takes them apart. *)
LEMMA Escalones ==
  ASSUME NEW n \in Nat, NEW k \in 1 .. n
  PROVE  /\ 1 .. k \in SUBSET (1 .. n) /\ 1 .. (k - 1) \in SUBSET (1 .. n) /\ 1 .. k # {}
         /\ Max(1 .. k) = k /\ (1 .. k) \ {k} = 1 .. (k - 1)
  <1>1. 1 .. k \in SUBSET (1 .. n) /\ 1 .. k # {} /\ k \in 1 .. k /\ 1 .. (k - 1) \in SUBSET (1 .. n)
    OBVIOUS
  <1>2. Max(1 .. k) \in 1 .. k /\ Max(1 .. k) >= k
    BY <1>1, ElMayor
  <1>3. (1 .. k) \ {k} = 1 .. (k - 1)
    OBVIOUS
  <1> QED
    BY <1>1, <1>2, <1>3

(* The values of a fold, the step G being a function of the value so far   *)
(* and the position: W[k] has them after the first k positions.            *)
Pliega(G, W, n) ==
  \A k \in 1 .. n : W[k - 1] \subseteq W[k] /\ \A v \in W[k - 1] : G[<<v, k>>] \in W[k]

(* The recursion of FoldLeft, over the subsets of the positions. *)
EsPliegue(it, G, W, n, base) ==
  /\ it \in [SUBSET (1 .. n) -> W[n]]
  /\ \A s \in SUBSET (1 .. n) :
       /\ it[s] = IF s = {} THEN base ELSE G[<<it[s \ {Max(s)}], Max(s)>>]
       /\ s # {} => it[s \ {Max(s)}] \in W[Max(s) - 1]

(***************************************************************************)
(* That recursion has a solution: the largest position comes last.         *)
(***************************************************************************)
LEMMA HayPliegue ==
  ASSUME NEW n \in Nat, NEW W, NEW G, NEW base, base \in W[0], Pliega(G, W, n)
  PROVE  \E it : EsPliegue(it, G, W, n, base)
  <1> DEFINE Valor(it, s) == IF s = {} THEN base ELSE G[<<it[s \ {Max(s)}], Max(s)>>]
             Previo(it, s) == s # {} => it[s \ {Max(s)}] \in W[Max(s) - 1]
             Solucion(it, m) == \A s \in SUBSET (1 .. m) : it[s] = Valor(it, s) /\ Previo(it, s)
             Hay(m) == m <= n => \E it \in [SUBSET (1 .. m) -> W[m]] : Solucion(it, m)
             T == {m \in Nat : Hay(m)}
  <1>1. Hay(0)
    <2> DEFINE it == [s \in SUBSET (1 .. 0) |-> base]
    <2>1. \A s \in SUBSET (1 .. 0) : s = {}
      OBVIOUS
    <2>2. it \in [SUBSET (1 .. 0) -> W[0]] /\ \A s \in SUBSET (1 .. 0) : it[s] = base
      OBVIOUS
    <2> HIDE DEF it
    <2>3. Solucion(it, 0)
      BY <2>1, <2>2
    <2> QED
      BY <2>2, <2>3
  <1>2. ASSUME NEW m \in Nat, Hay(m) PROVE Hay(m + 1)
    <2> SUFFICES ASSUME m + 1 <= n
                 PROVE  \E it \in [SUBSET (1 .. m + 1) -> W[m + 1]] : Solucion(it, m + 1)
      OBVIOUS
    <2>0. m <= n /\ m + 1 \in 1 .. n /\ (m + 1) - 1 = m
      OBVIOUS
    <2>00. W[m] \subseteq W[m + 1] /\ \A v \in W[m] : G[<<v, m + 1>>] \in W[m + 1]
      BY <2>0, Zenon DEF Pliega
    <2>1. PICK f \in [SUBSET (1 .. m) -> W[m]] : Solucion(f, m)
      BY <2>0, <1>2
    <2> DEFINE D == SUBSET (1 .. m + 1)
               it == [s \in D |-> IF m + 1 \in s THEN G[<<f[s \ {m + 1}], m + 1>>] ELSE f[s]]
    <2>2. \A s \in D : s \ {m + 1} \in SUBSET (1 .. m) /\ (m + 1 \notin s => s \in SUBSET (1 .. m))
      OBVIOUS
    <2>3. it \in [D -> W[m + 1]]
      <3>1. ASSUME NEW s \in D
            PROVE  (IF m + 1 \in s THEN G[<<f[s \ {m + 1}], m + 1>>] ELSE f[s]) \in W[m + 1]
        <4>1. CASE m + 1 \in s
          <5>1. f[s \ {m + 1}] \in W[m]
            BY <2>2
          <5> QED
            BY <4>1, <5>1, <2>00, Zenon
        <4>2. CASE m + 1 \notin s
          <5>1. f[s] \in W[m]
            BY <4>2, <2>2
          <5> QED
            BY <4>2, <5>1, <2>00, Zenon
        <4> QED
          BY <4>1, <4>2, Zenon
      <3> HIDE DEF D
      <3> QED
        BY <3>1
    <2>4. ASSUME NEW s \in D PROVE it[s] = Valor(it, s) /\ Previo(it, s)
      <3>1. CASE m + 1 \in s
        <4>0. m + 1 \in Nat /\ s \in SUBSET (1 .. m + 1) /\ s # {}
          BY <3>1
        <4>1. Max(s) \in s /\ \A y \in s : Max(s) >= y
          BY <4>0, ElMayor
        <4>2. Max(s) = m + 1
          <5>1. Max(s) \in 1 .. m + 1 /\ Max(s) >= m + 1
            BY <4>0, <4>1, <3>1
          <5> QED
            BY <5>1
        <4>3. s \ {m + 1} \in D /\ m + 1 \notin s \ {m + 1}
          OBVIOUS
        <4>4. it[s \ {m + 1}] = f[s \ {m + 1}]
          <5> HIDE DEF D
          <5> QED
            BY <4>3
        <4>5. it[s] = G[<<f[s \ {m + 1}], m + 1>>]
          BY <3>1
        <4>6. f[s \ {m + 1}] \in W[m] /\ (m + 1) - 1 = m
          BY <2>2
        <4> HIDE DEF it, D
        <4> QED
          BY <4>0, <4>2, <4>4, <4>5, <4>6
      <3>2. CASE m + 1 \notin s
        <4>1. s \in SUBSET (1 .. m)
          BY <3>2, <2>2
        <4>2. it[s] = f[s]
          BY <3>2
        <4>3. f[s] = Valor(f, s) /\ Previo(f, s)
          BY <4>1, <2>1
        <4>4. CASE s = {}
          BY <4>2, <4>3, <4>4
        <4>5. CASE s # {}
          <5>1. s \ {Max(s)} \in D /\ m + 1 \notin s \ {Max(s)}
            BY <3>2
          <5>2. it[s \ {Max(s)}] = f[s \ {Max(s)}]
            <6> HIDE DEF D
            <6> QED
              BY <5>1
          <5> HIDE DEF it, D
          <5> QED
            BY <4>2, <4>3, <4>5, <5>2
        <4> QED
          BY <4>4, <4>5
      <3> QED
        BY <3>1, <3>2
    <2> HIDE DEF it, Valor, Previo
    <2> QED
      BY <2>3, <2>4
  <1>3. Hay(n)
    <2> HIDE DEF Hay
    <2>1. 0 \in T /\ \A m \in Nat : m \in T => m + 1 \in T
      BY <1>1, <1>2
    <2>2. Nat \subseteq T
      <3> HIDE DEF T
      <3> QED
        BY <2>1, PorInduccion
    <2> QED
      BY <2>2
  <1>4. PICK it \in [SUBSET (1 .. n) -> W[n]] : Solucion(it, n)
    <2>1. n <= n
      OBVIOUS
    <2> HIDE DEF Solucion
    <2> QED
      BY <1>3, <2>1
  <1> QED
    BY <1>4 DEF EsPliegue

(* A recursion of that form gives at each position what its steps lead to. *)
EnW(h, W, n, base) ==
  /\ h[{}] = base
  /\ \A s \in SUBSET (1 .. n) :
       s # {} /\ h[s \ {Max(s)}] \in W[Max(s) - 1] => h[s] \in W[Max(s)]

LEMMA LlegaAlFin ==
  ASSUME NEW n \in Nat, NEW W, NEW h, NEW base \in W[0], EnW(h, W, n, base)
  PROVE  h[1 .. n] \in W[n]
  <1> DEFINE T == {m \in Nat : m <= n => h[1 .. m] \in W[m]}
  <1>1. 0 \in T
    <2>1. 1 .. 0 = {}
      OBVIOUS
    <2> QED
      BY <2>1 DEF EnW
  <1>2. ASSUME NEW m \in Nat, m \in T PROVE m + 1 \in T
    <2> SUFFICES ASSUME m + 1 <= n PROVE h[1 .. m + 1] \in W[m + 1]
      OBVIOUS
    <2>1. h[1 .. m] \in W[m] /\ m + 1 \in 1 .. n /\ (m + 1) - 1 = m
      BY <1>2
    <2> DEFINE s == 1 .. m + 1
    <2>2. s \in SUBSET (1 .. n) /\ s # {} /\ Max(s) = m + 1 /\ s \ {m + 1} = 1 .. m
      BY <2>1, Escalones
    <2> HIDE DEF s
    <2> QED
      BY <2>1, <2>2 DEF EnW, s
  <1>3. Nat \subseteq T
    <2> HIDE DEF T
    <2> QED
      BY <1>1, <1>2, PorInduccion
  <1>4. n \in T /\ n <= n
    BY <1>3
  <1> QED
    BY <1>4

(* The same with one set, which its steps do not leave. *)
EnV(h, V, n, base) ==
  /\ h[{}] = base
  /\ \A s \in SUBSET (1 .. n) : s # {} /\ h[s \ {Max(s)}] \in V => h[s] \in V

LEMMA SeQueda ==
  ASSUME NEW n \in Nat, NEW V, NEW h, NEW base \in V, EnV(h, V, n, base)
  PROVE  h[1 .. n] \in V
  <1> DEFINE W == [k \in 0 .. n |-> V]
  <1>1. W[0] = V /\ W[n] = V /\ \A k \in 1 .. n : W[k] = V /\ W[k - 1] = V
    OBVIOUS
  <1>2. \A s \in SUBSET (1 .. n) : s # {} => Max(s) \in 1 .. n
    <2> SUFFICES ASSUME NEW s \in SUBSET (1 .. n), s # {} PROVE Max(s) \in 1 .. n
      OBVIOUS
    <2>1. Max(s) \in s
      BY ElMayor, Zenon
    <2> QED
      BY <2>1
  <1> HIDE DEF W
  <1>3. EnW(h, W, n, base)
    BY <1>1, <1>2, Zenon DEF EnW, EnV
  <1> QED
    BY <1>1, <1>3, LlegaAlFin, Zenon

(* The same set for every position. *)
NoSale(G, V, n) == \A v \in V : \A k \in 1 .. n : G[<<v, k>>] \in V

EsRecorrido(it, G, V, n, base) ==
  /\ it = [s \in SUBSET (1 .. n) |-> it[s]] /\ it[{}] = base
  /\ \A s \in SUBSET (1 .. n) :
       s # {} => /\ it[s] = G[<<it[s \ {Max(s)}], Max(s)>>]
                 /\ it[s \ {Max(s)}] \in V /\ Max(s) \in 1 .. n

LEMMA HayPliegueEn ==
  ASSUME NEW n \in Nat, NEW V, NEW G, NEW base \in V, NoSale(G, V, n)
  PROVE  \E it : EsRecorrido(it, G, V, n, base)
  <1> DEFINE W == [k \in 0 .. n |-> V]
  <1>1. W[0] = V /\ \A k \in 1 .. n : W[k] = V /\ W[k - 1] = V
    OBVIOUS
  <1> HIDE DEF W
  <1>2. Pliega(G, W, n)
    BY <1>1, Zenon DEF Pliega, NoSale
  <1>3. PICK it : EsPliegue(it, G, W, n, base)
    BY <1>1, <1>2, HayPliegue, Zenon
  <1>4. it = [s \in SUBSET (1 .. n) |-> it[s]] /\ it[{}] = base
    <2>1. {} \in SUBSET (1 .. n)
      OBVIOUS
    <2> QED
      BY <1>3, <2>1, Zenon DEF EsPliegue
  <1>5. ASSUME NEW s \in SUBSET (1 .. n), s # {}
        PROVE  it[s] = G[<<it[s \ {Max(s)}], Max(s)>>] /\ it[s \ {Max(s)}] \in V /\ Max(s) \in 1 .. n
    <2>1. Max(s) \in 1 .. n
      <3>1. Max(s) \in s
        BY <1>5, ElMayor, Zenon
      <3> QED
        BY <3>1
    <2> QED
      BY <1>1, <1>3, <1>5, <2>1, Zenon DEF EsPliegue
  <1> QED
    BY <1>4, <1>5, Zenon DEF EsRecorrido
===============================================================================
