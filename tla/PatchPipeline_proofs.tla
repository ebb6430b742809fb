----------------------- MODULE PatchPipeline_proofs -----------------------
(***************************************************************************)
(* Proofs about the way of a patch, from the writer through the file and   *)
(* the reader to the decoder's sink, and about the decoder by itself.      *)
(***************************************************************************)
EXTENDS PatchPipeline, Lemmas

-----------------------------------------------------------------------------
(* FlattenSeq of the community modules puts all of them one after another. *)
LEMMA FlattenIs ==
    ASSUME NEW items, AreLists(items), List(items)
    PROVE  FlattenSeq(items) = Together(items)[Len(items)]
<1> DEFINE n == Len(items)
           J == Together(items)
           Eq(f) == f = [i \in 1 .. n |-> IF i = 1 THEN items[i] ELSE f[i - 1] \o items[i]]
<1>1. n \in Nat
  BY DEF AreLists
<1>2. J[0] = <<>> /\ \A k \in 1 .. n : J[k] = J[k - 1] \o items[k]
  BY TogetherIs
<1>3. CASE n = 0
  <2>1. FlattenSeq(items) = items
    BY <1>3 DEF FlattenSeq
  <2>2. items = <<>>
    BY <1>3, ListEmpty
  <2> QED
    BY <1>2, <1>3, <2>1, <2>2
<1>4. CASE n # 0
  <2>1. FlattenSeq(items) = (CHOOSE f : Eq(f))[n]
    BY <1>4 DEF FlattenSeq
  <2> DEFINE f == [i \in 1 .. n |-> J[i]]
  <2> HIDE DEF J, n
  <2>2. J[1] = items[1]
    <3>1. 1 \in 1 .. n /\ 1 - 1 = 0
      BY <1>1, <1>4
    <3>2. <<>> \o items[1] = items[1]
      BY <3>1, ListEmpty DEF AreLists, n
    <3> QED
      BY <1>2, <3>1, <3>2
  <2>3. Eq(f)
    <3>1. ASSUME NEW i \in 1 .. n PROVE f[i] = IF i = 1 THEN items[i] ELSE f[i - 1] \o items[i]
      <4>1. i = 1 \/ i - 1 \in 1 .. n
        BY <1>1
      <4> QED
        BY <1>2, <2>2, <4>1
    <3> HIDE DEF f
    <3>2. f = [i \in 1 .. n |-> f[i]]
      BY DEF f
    <3> QED
      BY <3>1, <3>2
  <2>4. Eq(CHOOSE g : Eq(g))
    <3> HIDE DEF Eq
    <3> QED
      BY <2>3
  <2> DEFINE g == CHOOSE g : Eq(g)
  <2>5. \A i \in 1 .. n : g[i] = IF i = 1 THEN items[i] ELSE g[i - 1] \o items[i]
    <3> HIDE DEF g
    <3>1. Eq(g)
      BY <2>4 DEF g
    <3> QED
      BY <3>1
  <2> HIDE DEF g
  <2> DEFINE T == {i \in 1 .. n : g[i] = J[i]}
  <2>6. 1 .. n \subseteq T
    <3>1. 1 \in T
      BY <1>1, <1>4, <2>2, <2>5
    <3>2. ASSUME NEW p \in 1 + 1 .. n, p - 1 \in T PROVE p \in T
      <4>1. p \in 1 .. n /\ p # 1
        BY <1>1
      <4> QED
        BY <1>2, <2>5, <3>2, <4>1
    <3> HIDE DEF T
    <3> QED
      BY <1>1, <3>1, <3>2, Upwards
  <2>7. n \in 1 .. n
    BY <1>1, <1>4
  <2> QED
    BY <2>1, <2>6, <2>7 DEF g, J, n
<1> QED
  BY <1>3, <1>4

(* Numbers in the file: what write_u_varint writes, read_u_varint reads. *)
LEMMA Division ==
    ASSUME NEW n \in Nat
    PROVE  /\ n % VARINT_BASE \in 0 .. VARINT_BASE - 1 /\ n \div VARINT_BASE \in Nat
           /\ n = (n % VARINT_BASE) + VARINT_BASE * (n \div VARINT_BASE)
           /\ n % VARINT_BASE \in Nat
           /\ ~ (n < VARINT_BASE) => n \div VARINT_BASE < n
<1> DEFINE b == VARINT_BASE
           q == n \div b
           r == n % b
<1>1. b \in Nat /\ b >= 2
  BY WireAssumption
<1> HIDE DEF b
<1>2. q \in Int /\ r \in 0 .. b - 1 /\ n = b * q + r
  BY <1>1
<1> HIDE DEF q, r
<1>3. q >= 0
  <2> SUFFICES ASSUME q <= -1 PROVE FALSE
    BY <1>2
  <2>1. b * q <= b * (-1)
    BY <1>1, <1>2
  <2> QED
    BY <1>1, <1>2, <2>1
<1>4. ASSUME n >= b PROVE q < n
  <2>1. 2 * q <= b * q
    BY <1>1, <1>2, <1>3
  <2> QED
    BY <1>1, <1>2, <1>3, <1>4, <2>1
<1>5. r \in Nat
  BY <1>1, <1>2
<1> QED
  BY <1>1, <1>2, <1>3, <1>4, <1>5 DEF q, r, b

LEMMA Single ==
    ASSUME NEW S, NEW x \in S PROVE <<x>> \in Seq(S)
OBVIOUS

VarintFields == [kind : {"varint"}, value : [low : Nat, more : BOOLEAN]]

LEMMA VarintByteIs ==
    ASSUME NEW low \in Nat, NEW more \in BOOLEAN
    PROVE  VarintByte(low, more) \in VarintFields
BY DEF VarintByte, Field, VarintFields

LEMMA VarintIs ==
    /\ \A n \in Nat : u_varint[n] \in Seq(VarintFields)
    /\ \A n \in Nat :
          u_varint[n] = IF n < VARINT_BASE THEN <<VarintByte(n, FALSE)>>
                        ELSE <<VarintByte(n % VARINT_BASE, TRUE)>> \o u_varint[n \div VARINT_BASE]
<1> DEFINE S0 == Seq(VarintFields)
           S == [Nat -> S0]
           E(v, n) == IF n < VARINT_BASE THEN <<VarintByte(n, FALSE)>>
                      ELSE <<VarintByte(n % VARINT_BASE, TRUE)>> \o v[n \div VARINT_BASE]
           Eq(f) == f = [n \in Nat |-> IF n < VARINT_BASE THEN <<VarintByte(n, FALSE)>>
                                       ELSE <<VarintByte(n % VARINT_BASE, TRUE)>>
                                            \o f[n \div VARINT_BASE]]
           x == [n \in Nat |-> <<VarintByte(0, FALSE)>>]
           G == [n \in Nat |-> [v \in S |-> [i \in Nat |-> IF i = n THEN E(v, n) ELSE v[i]]]]
<1>0. VARINT_BASE \in Nat /\ VARINT_BASE >= 2
  BY WireAssumption
<1>1. ASSUME NEW n \in Nat, NEW v, \A i \in Nat : v[i] \in S0 PROVE E(v, n) \in S0
  <2>1. n % VARINT_BASE \in Nat /\ n \div VARINT_BASE \in Nat
    BY <1>0, Division
  <2>2. VarintByte(n, FALSE) \in VarintFields /\ VarintByte(n % VARINT_BASE, TRUE) \in VarintFields
    BY <2>1, VarintByteIs
  <2>3. <<VarintByte(n, FALSE)>> \in S0 /\ <<VarintByte(n % VARINT_BASE, TRUE)>> \in S0
    BY <2>2, Single
  <2>4. v[n \div VARINT_BASE] \in S0
    BY <1>1, <2>1
  <2>5. <<VarintByte(n % VARINT_BASE, TRUE)>> \o v[n \div VARINT_BASE] \in S0
    BY <2>3, <2>4, ConcatProperties
  <2> QED
    BY <2>3, <2>5
<1>2. x \in S
  <2>1. VarintByte(0, FALSE) \in VarintFields
    BY VarintByteIs
  <2>2. <<VarintByte(0, FALSE)>> \in S0
    BY <2>1, Single
  <2> HIDE DEF S0
  <2> QED
    BY <2>2
<1> HIDE DEF E, S0
<1>3. \A n \in Nat, v \in S :
         G[n][v] \in S /\ \A i \in Nat : G[n][v][i] = IF i = n THEN E(v, n) ELSE v[i]
  BY <1>1
<1>4. \A i \in Nat : x[i] = <<VarintByte(0, FALSE)>>
  OBVIOUS
<1> HIDE DEF G, x
<1>5. \A n \in Nat : StaysIn(G, 1, n, S)
  <2>1. \A n \in Nat : \A p \in 1 .. n : p \in Nat
    OBVIOUS
  <2> HIDE DEF S
  <2> QED
    BY <1>3, <2>1 DEF StaysIn
<1>6. PICK f : RunsOn(f, x, G, S)
  <2> HIDE DEF S
  <2> QED
    BY <1>2, <1>5, DefinedOnNat
<1>7. /\ \A n \in Nat : f[n] \in S
      /\ f[0] = x /\ \A n \in Nat : f[n + 1] = G[n + 1][f[n]]
  BY <1>6 DEF RunsOn
<1>8. \A n \in Nat, i \in Nat : f[n + 1][i] = IF i = n + 1 THEN E(f[n], n + 1) ELSE f[n][i]
  <2> SUFFICES ASSUME NEW n \in Nat, NEW i \in Nat
               PROVE  f[n + 1][i] = IF i = n + 1 THEN E(f[n], n + 1) ELSE f[n][i]
    OBVIOUS
  <2>1. n + 1 \in Nat /\ f[n] \in S /\ f[n + 1] = G[n + 1][f[n]]
    BY <1>7
  <2> HIDE DEF S
  <2> QED
    BY <1>3, <2>1
<1>9. ASSUME NEW m \in Nat PROVE \A i \in 0 .. m : f[m][i] = f[i][i]
  <2> DEFINE T(i) == {k \in i .. m : f[k][i] = f[i][i]}
  <2> SUFFICES ASSUME NEW i \in 0 .. m PROVE f[m][i] = f[i][i]
    OBVIOUS
  <2>1. i \in T(i)
    OBVIOUS
  <2>2. ASSUME NEW k \in i + 1 .. m, k - 1 \in T(i) PROVE k \in T(i)
    <3>1. k - 1 \in Nat /\ i \in Nat /\ (k - 1) + 1 = k /\ i # k /\ k \in i .. m
      OBVIOUS
    <3>2. f[k][i] = f[k - 1][i]
      BY <1>8, <3>1
    <3> QED
      BY <2>2, <3>1, <3>2
  <2>3. i .. m \subseteq T(i)
    <3> DEFINE R == T(i)
    <3>1. i \in Int /\ m \in Int /\ i \in R /\ \A k \in i + 1 .. m : k - 1 \in R => k \in R
      BY <2>1, <2>2
    <3> HIDE DEF R
    <3>2. i .. m \subseteq R
      BY <3>1, Upwards
    <3> QED
      BY <3>2 DEF R
  <2> QED
    BY <2>3
<1> DEFINE u == [n \in Nat |-> f[n][n]]
<1>10. Eq(u)
  <2>1. ASSUME NEW n \in Nat
        PROVE  u[n] = IF n < VARINT_BASE THEN <<VarintByte(n, FALSE)>>
                      ELSE <<VarintByte(n % VARINT_BASE, TRUE)>> \o u[n \div VARINT_BASE]
    <3>1. CASE n = 0
      <4>1. u[0] = f[0][0]
        OBVIOUS
      <4>2. f[0] = x
        BY <1>7
      <4>3. x[0] = <<VarintByte(0, FALSE)>>
        BY <1>4
      <4>4. 0 < VARINT_BASE
        BY <1>0
      <4> HIDE DEF u
      <4> QED
        BY <3>1, <4>1, <4>2, <4>3, <4>4
    <3>2. CASE n # 0
      <4>1. n - 1 \in Nat /\ (n - 1) + 1 = n
        BY <3>2
      <4>2. f[n][n] = E(f[n - 1], n)
        BY <1>8, <4>1
      <4>3. CASE n < VARINT_BASE
        BY <4>2, <4>3 DEF E
      <4>4. CASE ~ (n < VARINT_BASE)
        <5>1. n \div VARINT_BASE \in 0 .. n - 1
          <6> DEFINE d == n \div VARINT_BASE
          <6>1. d \in Nat /\ d < n
            BY <4>4, Division, Zenon
          <6> HIDE DEF d
          <6> QED
            BY <6>1 DEF d
        <5>2. f[n - 1][n \div VARINT_BASE] = u[n \div VARINT_BASE]
          BY <1>9, <4>1, <5>1
        <5> QED
          BY <4>2, <4>4, <5>2 DEF E
      <4> QED
        BY <4>3, <4>4
    <3> QED
      BY <3>1, <3>2
  <2> HIDE DEF u
  <2>2. u = [n \in Nat |-> u[n]]
    BY DEF u
  <2> QED
    BY <2>1, <2>2
<1>11. Eq(CHOOSE g : Eq(g))
  <2> HIDE DEF Eq
  <2> QED
    BY <1>10
<1>12. u_varint = CHOOSE g : Eq(g)
  BY DEF u_varint
<1>13. Eq(u_varint)
  BY <1>11, <1>12
<1>14. \A n \in Nat : u_varint[n] = E(u_varint, n)
  <2> DEFINE w == u_varint
  <2>1. Eq(w)
    BY <1>13
  <2> HIDE DEF w
  <2>2. \A n \in Nat : w[n] = E(w, n)
    BY <2>1 DEF E
  <2> QED
    BY <2>2 DEF w
<1>15. \A n \in Nat : u_varint[n] \in S0
  <2> DEFINE W == {n \in Nat : u_varint[n] \notin S0}
  <2> SUFFICES ASSUME W # {} PROVE FALSE
    OBVIOUS
  <2>1. PICK n \in W : \A m \in W : n <= m
    <3>1. W \subseteq Nat
      OBVIOUS
    <3> HIDE DEF W
    <3> QED
      BY <3>1, LeastElement
  <2>2. n \in Nat /\ u_varint[n] \notin S0
    OBVIOUS
  <2>3. CASE n < VARINT_BASE
    <3>1. u_varint[n] = <<VarintByte(n, FALSE)>>
      BY <1>14, <2>2, <2>3 DEF E
    <3>2. VarintByte(n, FALSE) \in VarintFields
      BY <2>2, VarintByteIs
    <3>3. <<VarintByte(n, FALSE)>> \in S0
      BY <3>2, Single DEF S0
    <3> QED
      BY <2>2, <3>1, <3>3
  <2>4. CASE ~ (n < VARINT_BASE)
    <3>1. n \div VARINT_BASE \in Nat /\ n \div VARINT_BASE < n /\ n % VARINT_BASE \in Nat
      <4> HIDE DEF W
      <4> QED
        BY <2>2, <2>4, Division
    <3>2. u_varint[n \div VARINT_BASE] \in S0
      <4>1. ~ (n <= n \div VARINT_BASE)
        BY <2>2, <3>1
      <4>2. n \div VARINT_BASE \notin W
        BY <2>1, <4>1
      <4> QED
        BY <3>1, <4>2
    <3>3. u_varint[n] = <<VarintByte(n % VARINT_BASE, TRUE)>> \o u_varint[n \div VARINT_BASE]
      BY <1>14, <2>2, <2>4 DEF E
    <3>4. <<VarintByte(n % VARINT_BASE, TRUE)>> \in S0
      <4>1. VarintByte(n % VARINT_BASE, TRUE) \in VarintFields
        BY <3>1, VarintByteIs
      <4> QED
        BY <4>1, Single DEF S0
    <3>5. <<VarintByte(n % VARINT_BASE, TRUE)>> \o u_varint[n \div VARINT_BASE] \in S0
      BY <3>2, <3>4, ConcatProperties DEF S0
    <3> QED
      BY <2>2, <3>3, <3>5
  <2> QED
    BY <2>3, <2>4
<1> QED
  BY <1>14, <1>15 DEF E, S0


-----------------------------------------------------------------------------
(* Reading. *)
LEMMA OneField ==
    ASSUME NEW kind, NEW at \in Int
    PROVE  FieldsAre(<<kind>>, at) <=> at <= Len(Source) /\ Source[at].kind = kind
<1>1. Len(<<kind>>) = 1 /\ <<kind>>[1] = kind
  OBVIOUS
<1>2. at + 1 - 1 = at /\ 1 .. 1 = {1}
  OBVIOUS
<1>3. FieldsAre(<<kind>>, at) <=> at + 1 - 1 <= Len(Source) /\ \A i \in 1 .. 1 : Source[at + i - 1].kind = kind
  BY <1>1 DEF FieldsAre
<1> QED
  BY <1>2, <1>3

LEMMA VarintReadIs ==
    ASSUME Len(Source) \in Nat, NEW at \in Nat
    PROVE  read_u_varint[at] =
              IF ~ FieldsAre(<<"varint">>, at) THEN {}
              ELSE IF ~ Value(at).more THEN {[n |-> Value(at).low, after |-> at + 1]}
              ELSE {[n |-> Value(at).low + VARINT_BASE * v.n, after |-> v.after] :
                       v \in read_u_varint[at + 1]}
<1> DEFINE N == Len(Source)
           E(p, w) == IF ~ FieldsAre(<<"varint">>, p) THEN {}
                      ELSE IF ~ Value(p).more THEN {[n |-> Value(p).low, after |-> p + 1]}
                      ELSE {[n |-> Value(p).low + VARINT_BASE * v.n, after |-> v.after] : v \in w}
           Eq(f) == f = [p \in Nat |-> 
              IF ~ FieldsAre(<<"varint">>, p) THEN {}
              ELSE IF ~ Value(p).more THEN {[n |-> Value(p).low, after |-> p + 1]}
              ELSE {[n |-> Value(p).low + VARINT_BASE * v.n, after |-> v.after] :
                       v \in f[p + 1]}]
           Part(f, m) == \A p \in m .. N : f[p] = E(p, IF p = N THEN {} ELSE f[p + 1])
           T == {m \in 0 .. N + 1 : \E f : Part(f, m)}
<1>1. N \in Nat
  OBVIOUS
<1>2. \A w : \A p \in Nat : ~ (p <= N) => E(p, w) = {}
  BY OneField
<1> HIDE DEF N, E
<1>3. N + 1 \in T
  <2>1. \A f : Part(f, N + 1)
    BY <1>1
  <2> QED
    BY <1>1, <2>1
<1>4. ASSUME NEW m \in 0 .. (N + 1) - 1, m + 1 \in T PROVE m \in T
  <2>1. PICK f : Part(f, m + 1)
    BY <1>4
  <2> DEFINE g == [p \in m .. N |-> IF p = m THEN E(m, IF m = N THEN {} ELSE f[m + 1]) ELSE f[p]]
  <2>2. ASSUME NEW p \in m .. N PROVE g[p] = E(p, IF p = N THEN {} ELSE g[p + 1])
    <3>1. p # N => p + 1 \in m .. N /\ p + 1 # m /\ g[p + 1] = f[p + 1]
      BY <1>1
    <3>2. CASE p = m
      BY <3>1, <3>2
    <3>3. CASE p # m
      <4>1. p \in m + 1 .. N
        BY <1>1, <3>3
      <4>2. g[p] = f[p]
        BY <3>3
      <4>3. f[p] = E(p, IF p = N THEN {} ELSE f[p + 1])
        BY <2>1, <4>1
      <4> HIDE DEF g
      <4> QED
        BY <3>1, <4>2, <4>3
    <3> QED
      BY <3>2, <3>3
  <2> HIDE DEF g
  <2>3. Part(g, m)
    BY <2>2
  <2>4. m \in 0 .. N + 1
    BY <1>1
  <2> QED
    BY <2>3, <2>4
<1>5. 0 \in T
  <2>1. 0 \in Int /\ N + 1 \in Int /\ 0 \in 0 .. N + 1
    BY <1>1
  <2> HIDE DEF T
  <2> QED
    BY <1>3, <1>4, <2>1, Downwards
<1>6. PICK f : Part(f, 0)
  BY <1>5
<1> DEFINE g == [p \in Nat |-> IF p <= N THEN f[p] ELSE {}]
<1>7. ASSUME NEW p \in Nat PROVE g[p] = E(p, g[p + 1])
  <2>1. CASE p <= N
    <3>1. p \in 0 .. N /\ p + 1 \in Nat
      BY <1>1, <2>1
    <3>2. f[p] = E(p, IF p = N THEN {} ELSE f[p + 1])
      BY <1>6, <3>1
    <3>3. p = N => g[p + 1] = {}
      BY <1>1
    <3>4. p # N => g[p + 1] = f[p + 1]
      BY <1>1, <2>1
    <3> QED
      BY <2>1, <3>2, <3>3, <3>4
  <2>2. CASE ~ (p <= N)
    BY <1>2, <2>2
  <2> QED
    BY <2>1, <2>2
<1> HIDE DEF g
<1>8. Eq(g)
  <2>1. g = [p \in Nat |-> g[p]]
    BY DEF g
  <2>2. g = [p \in Nat |-> E(p, g[p + 1])]
    BY <1>7, <2>1
  <2> QED
    BY <2>2 DEF E
<1>9. Eq(CHOOSE h : Eq(h))
  <2> HIDE DEF Eq
  <2> QED
    BY <1>8
<1>10. read_u_varint = CHOOSE h : Eq(h)
  BY DEF read_u_varint
<1> DEFINE r == read_u_varint
<1>11. Eq(r)
  BY <1>9, <1>10
<1> HIDE DEF r
<1>12. r = [p \in Nat |-> E(p, r[p + 1])]
  BY <1>11 DEF E
<1>13. r[at] = E(at, r[at + 1])
  BY <1>12
<1> QED
  BY <1>13 DEF r, E

(* A number that is where it is read from is read, if all of it is there. *)
LEMMA VarintRead ==
    ASSUME Len(Source) \in Nat, NEW n \in Nat, NEW at \in Nat, PartAt(Source, at, u_varint[n])
    PROVE  read_u_varint[at] = IF at + Len(u_varint[n]) <= Len(Source) + 1
                               THEN {[n |-> n, after |-> at + Len(u_varint[n])]} ELSE {}
<1> DEFINE N == Len(Source)
           L(m) == Len(u_varint[m])
           R(m, p) == IF p + L(m) <= N + 1 THEN {[n |-> m, after |-> p + L(m)]} ELSE {}
           W == {m \in Nat : \E p \in Nat : PartAt(Source, p, u_varint[m]) /\ read_u_varint[p] # R(m, p)}
<1>1. ASSUME W # {} PROVE FALSE
  <2>1. PICK m \in W : \A k \in W : m <= k
    <3>1. W \subseteq Nat
      OBVIOUS
    <3> HIDE DEF W
    <3> QED
      BY <1>1, <3>1, LeastElement
  <2>2. m \in Nat
    OBVIOUS
  <2>3. PICK p \in Nat : PartAt(Source, p, u_varint[m]) /\ read_u_varint[p] # R(m, p)
    OBVIOUS
  <2>a. FieldsAre(<<"varint">>, p) <=> p <= N /\ Source[p].kind = "varint"
    BY <2>3, OneField
  <2>b. read_u_varint[p] =
           IF ~ FieldsAre(<<"varint">>, p) THEN {}
           ELSE IF ~ Value(p).more THEN {[n |-> Value(p).low, after |-> p + 1]}
           ELSE {[n |-> Value(p).low + VARINT_BASE * v.n, after |-> v.after] :
                    v \in read_u_varint[p + 1]}
    BY <2>3, VarintReadIs
  <2>4. p <= N /\ Source[p].kind = "varint" =>
          read_u_varint[p] = IF ~ Value(p).more THEN {[n |-> Value(p).low, after |-> p + 1]}
              ELSE {[n |-> Value(p).low + VARINT_BASE * v.n, after |-> v.after] :
                       v \in read_u_varint[p + 1]}
    BY <2>a, <2>b
  <2>5. ~ (p <= N) => read_u_varint[p] = {}
    BY <2>a, <2>b
  <2>6. CASE m < VARINT_BASE
    <3> DEFINE b == VarintByte(m, FALSE)
    <3>1. u_varint[m] = <<b>>
      BY <2>2, <2>6, VarintIs
    <3>2. b.kind = "varint" /\ b.value.low = m /\ b.value.more = FALSE
      BY DEF VarintByte, Field
    <3> HIDE DEF b
    <3>3. L(m) = 1 /\ u_varint[m][1] = b
      BY <3>1, ListOne
    <3>4. p <= N => Source[p] = b
      <4>1. 1 \in 1 .. Len(u_varint[m]) /\ p + 1 - 1 = p
        BY <3>3
      <4> QED
        BY <2>3, <3>3, <4>1 DEF PartAt
    <3>5. p <= N => read_u_varint[p] = {[n |-> m, after |-> p + 1]}
      BY <2>4, <3>2, <3>4 DEF Value
    <3>6. R(m, p) = IF p <= N THEN {[n |-> m, after |-> p + 1]} ELSE {}
      BY <3>3
    <3> HIDE DEF R
    <3> QED
      BY <2>3, <2>5, <3>5, <3>6
  <2>7. CASE ~ (m < VARINT_BASE)
    <3> DEFINE q == m \div VARINT_BASE
               lo == m % VARINT_BASE
               b == VarintByte(lo, TRUE)
    <3>0. q \in Nat /\ q < m /\ m = lo + VARINT_BASE * q
      BY <2>2, <2>7, Division
    <3>1. u_varint[m] = <<b>> \o u_varint[q]
      BY <2>2, <2>7, VarintIs
    <3>2. b.kind = "varint" /\ b.value.low = lo /\ b.value.more = TRUE
      BY DEF VarintByte, Field
    <3> HIDE DEF b, q, lo
    <3>3. List(u_varint[q]) /\ List(<<b>>) /\ Len(<<b>>) = 1 /\ <<b>>[1] = b
      BY <3>0, VarintIs, ListIs, ListOne
    <3>4. L(m) = 1 + L(q) /\ L(q) \in Nat
      BY <3>1, <3>3, ListConcat, ListLen
    <3>5. PartAt(Source, p, <<b>>) /\ PartAt(Source, p + 1, u_varint[q])
      <4>1. PartAt(Source, p, <<b>> \o u_varint[q]) /\ p \in Int
        BY <2>3, <3>1
      <4>2. PartAt(Source, p, <<b>>) /\ PartAt(Source, p + Len(<<b>>), u_varint[q])
        BY <3>3, <4>1, AtConcat
      <4> QED
        BY <3>3, <4>2
    <3>6. p <= N => Source[p] = b
      <4>1. 1 \in 1 .. Len(<<b>>) /\ p + 1 - 1 = p
        BY <3>3
      <4> QED
        BY <3>3, <3>5, <4>1 DEF PartAt
    <3>7. read_u_varint[p + 1] = R(q, p + 1)
      <4>1. q \notin W
        <5>1. ~ (m <= q)
          BY <2>2, <3>0
        <5> HIDE DEF W
        <5> QED
          BY <2>1, <5>1
      <4>2. p + 1 \in Nat
        BY <2>3
      <4> HIDE DEF R
      <4> QED
        BY <3>0, <3>5, <4>1, <4>2
    <3>8. p <= N => read_u_varint[p] = {[n |-> lo + VARINT_BASE * v.n, after |-> v.after] : v \in R(q, p + 1)}
      <4> HIDE DEF R
      <4> QED
        BY <2>4, <3>2, <3>6, <3>7 DEF Value
    <3>9. R(q, p + 1) = IF p + L(m) <= N + 1 THEN {[n |-> q, after |-> p + L(m)]} ELSE {}
      <4> HIDE DEF L, R, W
      <4>1. p + 1 + L(q) = p + L(m) /\ p \in Nat
        BY <2>3, <3>4
      <4> USE DEF R
      <4> QED
        BY <4>1
    <3>10. ASSUME p <= N PROVE read_u_varint[p] = R(m, p)
      <4>1. CASE p + L(m) <= N + 1
        <5> HIDE DEF R
        <5>0. R(q, p + 1) = {[n |-> q, after |-> p + L(m)]}
          BY <3>9, <4>1
        <5> DEFINE x == [n |-> q, after |-> p + L(m)]
        <5>2. read_u_varint[p] = {[n |-> lo + VARINT_BASE * v.n, after |-> v.after] : v \in {x}}
          BY <3>8, <3>10, <5>0
        <5>3. x.n = q /\ x.after = p + L(m)
          OBVIOUS
        <5> HIDE DEF x
        <5>4. {[n |-> lo + VARINT_BASE * v.n, after |-> v.after] : v \in {x}}
                = {[n |-> lo + VARINT_BASE * x.n, after |-> x.after]}
          OBVIOUS
        <5>1. read_u_varint[p] = {[n |-> lo + VARINT_BASE * q, after |-> p + L(m)]}
          BY <5>2, <5>3, <5>4
        <5> QED
          BY <3>0, <4>1, <5>1 DEF R
      <4>2. CASE ~ (p + L(m) <= N + 1)
        BY <3>8, <3>9, <3>10, <4>2
      <4> QED
        BY <4>1, <4>2
    <3>11. ~ (p <= N) => R(m, p) = {}
      BY <3>4
    <3> HIDE DEF R
    <3> QED
      BY <2>3, <2>5, <3>10, <3>11
  <2> QED
    BY <2>6, <2>7
<1>2. read_u_varint[at] = R(n, at)
  <2> HIDE DEF R
  <2> QED
    BY <1>1
<1> QED
  BY <1>2

LEMMA Zigzag ==
    ASSUME NEW n \in Int
    PROVE  zigzag_encode(n) \in Nat /\ zigzag_decode(zigzag_encode(n)) = n
<1>1. CASE n >= 0
  <2>1. (2 * n) % 2 = 0 /\ (2 * n) \div 2 = n
    BY <1>1
  <2>2. zigzag_encode(n) = 2 * n
    BY <1>1 DEF zigzag_encode
  <2> QED
    BY <1>1, <2>1, <2>2 DEF zigzag_decode
<1>2. CASE ~ (n >= 0)
  <2> DEFINE z == -2 * n - 1
  <2>1. z \in Nat /\ z % 2 = 1 /\ (z + 1) \div 2 = -n
    BY <1>2
  <2>2. zigzag_encode(n) = z
    BY <1>2 DEF zigzag_encode
  <2> HIDE DEF z
  <2> QED
    BY <1>2, <2>1, <2>2 DEF zigzag_decode
<1> QED
  BY <1>1, <1>2

-----------------------------------------------------------------------------
(* Fields, and sequences of them. *)
IsField(f) == f = Field(f.kind, f.value)
Fields(s) == List(s) /\ \A i \in 1 .. Len(s) : IsField(s[i])

LEMMA FieldIs ==
    ASSUME NEW kind, NEW value
    PROVE  /\ Field(kind, value).kind = kind /\ Field(kind, value).value = value
           /\ IsField(Field(kind, value))
  BY DEF Field, IsField

LEMMA FieldsOne ==
    ASSUME NEW kind, NEW value
    PROVE  /\ Fields(<<Field(kind, value)>>) /\ Len(<<Field(kind, value)>>) = 1
           /\ <<Field(kind, value)>>[1] = Field(kind, value)
<1> DEFINE f == Field(kind, value)
<1>1. IsField(f)
  BY FieldIs
<1> HIDE DEF f
<1>2. List(<<f>>) /\ Len(<<f>>) = 1 /\ <<f>>[1] = f
  BY ListOne
<1>3. \A i \in 1 .. Len(<<f>>) : i = 1
  BY <1>2
<1> QED
  BY <1>1, <1>2, <1>3 DEF Fields, f

LEMMA PairConcat ==
    ASSUME NEW x, NEW y PROVE <<x>> \o <<y>> = <<x, y>>
<1> DEFINE s == <<x>>
           t == <<y>>
           p == <<x, y>>
<1>1. List(s) /\ Len(s) = 1 /\ s[1] = x /\ List(t) /\ Len(t) = 1 /\ t[1] = y
  BY ListOne
<1>2. p \in Seq({x, y}) /\ Len(p) = 2 /\ p[1] = x /\ p[2] = y
  OBVIOUS
<1>3. List(p)
  BY <1>2, ListIs
<1> HIDE DEF s, t, p
<1> DEFINE c == s \o t
<1>9. List(s) /\ List(t)
  BY <1>1
<1>8. /\ List(c) /\ Len(c) = Len(s) + Len(t) /\ (\A i \in 1 .. Len(s) : c[i] = s[i])
      /\ \A i \in 1 .. Len(t) : c[Len(s) + i] = t[i]
  BY <1>9, ListConcat
<1> HIDE DEF c
<1>4. List(c) /\ Len(c) = 2 /\ (\A i \in 1 .. 1 : c[i] = s[i]) /\ (\A i \in 1 .. 1 : c[1 + i] = t[i])
  BY <1>1, <1>8
<1>5. c[1] = x /\ c[2] = y
  <2>1. 1 \in 1 .. 1 /\ 1 + 1 = 2
    OBVIOUS
  <2> QED
    BY <1>1, <1>4, <2>1
<1>6. \A i \in 1 .. 2 : c[i] = p[i]
  <2>1. \A i \in 1 .. 2 : i = 1 \/ i = 2
    OBVIOUS
  <2> QED
    BY <1>2, <1>5, <2>1
<1>7. c = p
  BY <1>2, <1>3, <1>4, <1>6, ListEqual
<1> QED
  BY <1>7 DEF c, s, t, p

LEMMA FieldsEmpty == Fields(<<>>) /\ Len(<<>>) = 0
  BY ListEmpty DEF Fields

LEMMA FieldsConcat ==
    ASSUME NEW s, NEW t, Fields(s), Fields(t)
    PROVE  Fields(s \o t) /\ Len(s \o t) = Len(s) + Len(t)
<1> DEFINE u == s \o t
<1>1. List(s) /\ List(t) /\ Len(s) \in Nat /\ Len(t) \in Nat
  BY ListLen DEF Fields
<1>2. /\ List(u) /\ Len(u) = Len(s) + Len(t)
      /\ \A i \in 1 .. Len(s) : u[i] = s[i]
      /\ \A i \in 1 .. Len(t) : u[Len(s) + i] = t[i]
  BY <1>1, ListConcat
<1> HIDE DEF u
<1>3. ASSUME NEW i \in 1 .. Len(u) PROVE IsField(u[i])
  <2>1. CASE i <= Len(s)
    <3>1. i \in 1 .. Len(s)
      BY <1>1, <1>2, <2>1
    <3> QED
      BY <1>2, <3>1 DEF Fields
  <2>2. CASE ~ (i <= Len(s))
    <3>1. i - Len(s) \in 1 .. Len(t) /\ Len(s) + (i - Len(s)) = i
      BY <1>1, <1>2, <2>2
    <3>2. u[i] = t[i - Len(s)]
      BY <1>2, <3>1
    <3> QED
      BY <3>1, <3>2 DEF Fields
  <2> QED
    BY <2>1, <2>2
<1> QED
  BY <1>2, <1>3 DEF Fields, u

LEMMA FieldsJoined ==
    ASSUME NEW items, Len(items) \in Nat, \A k \in 1 .. Len(items) : Fields(items[k])
    PROVE  AreLists(items) /\ \A k \in 0 .. Len(items) : Fields(Together(items)[k])
<1> DEFINE n == Len(items)
           J == Together(items)
           T == {k \in 0 .. n : Fields(J[k])}
<1>1. AreLists(items) /\ n \in Nat
  BY DEF Fields, AreLists
<1>2. J[0] = <<>> /\ \A k \in 1 .. n : J[k] = J[k - 1] \o items[k]
  BY <1>1, TogetherIs
<1>3. \A k \in 1 .. n : Fields(items[k])
  OBVIOUS
<1> HIDE DEF n, J
<1>4. 0 \in T
  BY <1>1, <1>2, FieldsEmpty
<1>5. ASSUME NEW k \in 1 .. n, k - 1 \in T PROVE k \in T
  <2>1. Fields(J[k - 1]) /\ Fields(items[k]) /\ J[k] = J[k - 1] \o items[k] /\ k \in 0 .. n
    <3>1. k \in 0 .. n
      BY <1>1
    <3>2. Fields(J[k - 1])
      BY <1>5
    <3> QED
      BY <1>2, <1>3, <3>1, <3>2
  <2>2. Fields(J[k - 1] \o items[k])
    BY <2>1, FieldsConcat
  <2> QED
    BY <2>1, <2>2
<1>6. 0 .. n \subseteq T
  <2> HIDE DEF T
  <2> QED
    BY <1>1, <1>4, <1>5, UpFrom0
<1> QED
  BY <1>1, <1>6 DEF n, J

LEMMA VarintFieldsAre ==
    ASSUME NEW n \in Nat
    PROVE  Fields(u_varint[n]) /\ Len(u_varint[n]) >= 1 /\ Len(u_varint[n]) \in Nat
<1> DEFINE u == u_varint[n]
<1>1. u \in Seq(VarintFields)
  BY VarintIs
<1>2. \A f \in VarintFields : IsField(f)
  BY DEF VarintFields, IsField, Field
<1>3. Len(u) >= 1
  <2>1. CASE n < VARINT_BASE
    <3>1. u = <<VarintByte(n, FALSE)>>
      BY <2>1, VarintIs
    <3> QED
      BY <3>1, ListOne
  <2>2. CASE ~ (n < VARINT_BASE)
    <3> DEFINE a == <<VarintByte(n % VARINT_BASE, TRUE)>>
               b == u_varint[n \div VARINT_BASE]
    <3>1. u = a \o b
      BY <2>2, VarintIs
    <3>2. List(a) /\ Len(a) = 1
      BY ListOne DEF VarintByte
    <3>3. List(b) /\ Len(b) \in Nat
      <4>1. n \div VARINT_BASE \in Nat
        BY Division
      <4> QED
        BY <4>1, VarintIs, ListIs
    <3> HIDE DEF a, b
    <3>5. Len(a \o b) = Len(a) + Len(b)
      BY <3>2, <3>3, ListConcat
    <3>4. Len(a \o b) = 1 + Len(b)
      BY <3>2, <3>5
    <3> HIDE DEF u
    <3> QED
      BY <3>1, <3>3, <3>4
  <2> QED
    BY <2>1, <2>2
<1> HIDE DEF u
<1>4. List(u) /\ Len(u) \in Nat
  BY <1>1, ListIs
<1>5. \A i \in 1 .. Len(u) : u[i] \in VarintFields
  BY <1>1
<1> QED
  BY <1>2, <1>3, <1>4, <1>5 DEF Fields, u

LEMMA BytesAre ==
    ASSUME NEW b, List(b)
    PROVE  /\ Fields(Bytes(b)) /\ Len(Bytes(b)) = Len(b)
           /\ \A i \in 1 .. Len(b) : Bytes(b)[i] = Field("byte", b[i])
<1> DEFINE u == Bytes(b)
<1>1. Len(b) \in Nat
  BY ListLen
<1>2. u = [i \in 1 .. Len(b) |-> Field("byte", b[i])]
  BY DEF Bytes
<1>3. DOMAIN u = 1 .. Len(b) /\ \A i \in 1 .. Len(b) : u[i] = Field("byte", b[i])
  BY <1>2
<1> HIDE DEF u
<1>4. u = [i \in 1 .. Len(b) |-> u[i]]
  BY <1>2, <1>3
<1>5. List(u) /\ Len(u) = Len(b)
  BY <1>1, <1>3, <1>4, ListOf
<1>6. \A i \in 1 .. Len(u) : IsField(u[i])
  BY <1>3, <1>5, FieldIs
<1> QED
  BY <1>3, <1>5, <1>6 DEF Fields, u

LEMMA BytesConcat ==
    ASSUME NEW a, NEW b, List(a), List(b)
    PROVE  Bytes(a \o b) = Bytes(a) \o Bytes(b)
<1> DEFINE c == a \o b
           x == Bytes(c)
           y == Bytes(a) \o Bytes(b)
           p == Bytes(a)
           q == Bytes(b)
<1>0. Len(a) \in Nat /\ Len(b) \in Nat
  BY ListLen
<1>1. /\ List(c) /\ Len(c) = Len(a) + Len(b)
      /\ \A i \in 1 .. Len(a) : c[i] = a[i]
      /\ \A i \in 1 .. Len(b) : c[Len(a) + i] = b[i]
  BY ListConcat
<1> HIDE DEF c
<1>2. List(x) /\ Len(x) = Len(c) /\ \A i \in 1 .. Len(c) : x[i] = Field("byte", c[i])
  BY <1>1, BytesAre DEF Fields
<1>3. List(p) /\ Len(p) = Len(a) /\ \A i \in 1 .. Len(a) : p[i] = Field("byte", a[i])
  BY BytesAre DEF Fields
<1>4. List(q) /\ Len(q) = Len(b) /\ \A i \in 1 .. Len(b) : q[i] = Field("byte", b[i])
  BY BytesAre DEF Fields
<1> HIDE DEF x, p, q
<1>5. /\ List(y) /\ Len(y) = Len(p) + Len(q)
      /\ \A i \in 1 .. Len(p) : y[i] = p[i]
      /\ \A i \in 1 .. Len(q) : y[Len(p) + i] = q[i]
  BY <1>3, <1>4, ListConcat DEF p, q
<1> HIDE DEF y
<1>6. ASSUME NEW i \in 1 .. Len(x) PROVE x[i] = y[i]
  <2>1. CASE i <= Len(a)
    <3>1. i \in 1 .. Len(a) /\ i \in 1 .. Len(c)
      BY <1>0, <1>1, <1>2, <2>1
    <3> QED
      BY <1>1, <1>2, <1>3, <1>5, <3>1
  <2>2. CASE ~ (i <= Len(a))
    <3> DEFINE j == i - Len(a)
    <3>1. j \in 1 .. Len(b) /\ Len(a) + j = i /\ i \in 1 .. Len(c)
      BY <1>0, <1>1, <1>2, <2>2
    <3> HIDE DEF j
    <3>2. c[i] = b[j] /\ q[j] = Field("byte", b[j]) /\ y[i] = q[j] /\ x[i] = Field("byte", c[i])
      BY <1>1, <1>2, <1>3, <1>4, <1>5, <3>1
    <3> QED
      BY <3>2
  <2> QED
    BY <2>1, <2>2
<1>7. x = y
  BY <1>1, <1>2, <1>3, <1>4, <1>5, <1>6, ListEqual
<1> QED
  BY <1>7 DEF x, y, p, q, c

-----------------------------------------------------------------------------
(* An operation the writer puts down; of a nested patch, an Add's bytes are  *)
(* fields.                                                                   *)
Shaped(op) ==
    \/ /\ is_add(op) /\ op = Add(op.bytes)
       /\ List(op.bytes) /\ Len(op.bytes) <= MAX_INST_SIZE
    \/ is_run(op) /\ op = Run(op.byte, op.len) /\ op.len \in 1 .. MAX_RUN_LEN
    \/ /\ is_copy(op) /\ op = Copy(op.src, op.addr, op.len)
       /\ op.src \in CopySrc /\ op.addr \in Nat /\ op.len \in 0 .. MAX_INST_SIZE

LEMMA ShapedIs ==
    ASSUME NEW op, Shaped(op)
    PROVE  /\ oal(op) \in 0 .. MAX_INST_SIZE
           /\ is_add(op) => oal(op) = Len(op.bytes) /\ ~ is_run(op) /\ ~ is_copy(op)
           /\ is_run(op) => oal(op) \in 1 .. MAX_RUN_LEN /\ ~ is_copy(op)
           /\ is_add(op) \/ is_run(op) \/ is_copy(op)
<1>0. MAX_RUN_LEN \in Nat /\ MAX_INST_SIZE \in Nat /\ MAX_RUN_LEN < MAX_INST_SIZE
  BY LimitsAssumption
<1>1. CASE is_add(op)
  <2>1. List(op.bytes) /\ Len(op.bytes) <= MAX_INST_SIZE
    BY <1>1 DEF Shaped, is_add, is_run, is_copy
  <2>2. Len(op.bytes) \in Nat
    BY <2>1, ListLen
  <2> DEFINE n == Len(op.bytes)
             m == MAX_INST_SIZE
  <2> HIDE DEF n, m
  <2>3. n \in Nat /\ m \in Nat /\ n <= m => n % (m + 1) = n /\ n \in 0 .. m
    OBVIOUS
  <2>4. n % (m + 1) = n /\ n \in 0 .. m
    BY <1>0, <2>1, <2>2, <2>3 DEF n, m
  <2> QED
    BY <1>1, <2>4 DEF n, m, oal, is_add, is_run, is_copy
<1>2. CASE is_run(op)
  <2>1. op.len \in 1 .. MAX_RUN_LEN /\ ~ is_add(op) /\ ~ is_copy(op)
    BY <1>2 DEF Shaped, is_add, is_run, is_copy
  <2> QED
    BY <1>0, <1>2, <2>1 DEF oal
<1>3. CASE is_copy(op)
  <2>1. op.len \in 0 .. MAX_INST_SIZE /\ ~ is_add(op) /\ ~ is_run(op)
    BY <1>3 DEF Shaped, is_add, is_run, is_copy
  <2> QED
    BY <1>3, <2>1 DEF oal
<1> QED
  BY <1>1, <1>2, <1>3 DEF Shaped

(* The size in an op byte, and the fields behind it. *)
Indicator(size) ==
    IF size_routine(size) = "Done" THEN size
    ELSE IF size_routine(size) = "U8And62" THEN MAX_RUN_LEN + 1 ELSE 0
SizeRest(size) ==
    IF size_routine(size) = "Done" THEN <<>>
    ELSE IF size_routine(size) = "U8And62" THEN <<Field("u8", size - MAX_RUN_LEN)>>
    ELSE <<Field("u16", size)>>
OpByte(op) == Field("opbyte", [flag |-> bit_flag(op), size |-> Indicator(oal(op))])

LEMMA Routine ==
    ASSUME NEW size \in 0 .. MAX_INST_SIZE
    PROVE  /\ size_routine(Indicator(size)) = size_routine(size)
           /\ size_routine(size) \in {"Done", "U8And62", "U16"}
           /\ size \in 1 .. MAX_RUN_LEN => size_routine(size) = "Done"
<1>0. MAX_RUN_LEN \in Nat /\ MAX_RUN_LEN > 0 /\ MAX_INST_SIZE \in Nat /\ MAX_RUN_LEN < MAX_INST_SIZE
  BY LimitsAssumption
<1>1. 0 \notin 1 .. MAX_RUN_LEN /\ 0 # MAX_RUN_LEN + 1 /\ MAX_RUN_LEN + 1 \notin 1 .. MAX_RUN_LEN
  BY <1>0
<1> QED
  BY <1>1 DEF size_routine, Indicator

LEMMA SizeFields ==
    ASSUME NEW op, Shaped(op)
    PROVE  /\ OpByteAndSize(op) = <<OpByte(op)>> \o SizeRest(oal(op))
           /\ Fields(SizeRest(oal(op))) /\ Fields(<<OpByte(op)>>) /\ Fields(OpByteAndSize(op))
           /\ Len(OpByteAndSize(op)) = 1 + Len(SizeRest(oal(op)))
<1> DEFINE z == oal(op)
           r == size_routine(z)
<1>1. r \in {"Done", "U8And62", "U16"}
  BY ShapedIs, Routine
<1>2. Fields(SizeRest(z))
  BY FieldsEmpty, FieldsOne DEF SizeRest
<1>3. Fields(<<OpByte(op)>>) /\ Len(<<OpByte(op)>>) = 1
  BY FieldsOne DEF OpByte
<1>4. OpByteAndSize(op) = <<OpByte(op)>> \o SizeRest(z)
  <2>1. CASE r = "Done"
    <3>1. OpByteAndSize(op) = <<OpByte(op)>> /\ SizeRest(z) = <<>>
      BY <2>1 DEF OpByteAndSize, OpByte, Indicator, SizeRest
    <3>2. <<OpByte(op)>> \o <<>> = <<OpByte(op)>>
      BY <1>3, ListEmpty DEF Fields
    <3> QED
      BY <3>1, <3>2
  <2>2. CASE r = "U8And62"
    <3> DEFINE x == OpByte(op)
               y == Field("u8", z - MAX_RUN_LEN)
    <3>1. OpByteAndSize(op) = <<x, y>> /\ SizeRest(z) = <<y>>
      BY <2>2 DEF OpByteAndSize, OpByte, Indicator, SizeRest
    <3> HIDE DEF x, y
    <3>2. <<x>> \o <<y>> = <<x, y>>
      BY PairConcat
    <3> QED
      BY <3>1, <3>2 DEF x
  <2>3. CASE r = "U16"
    <3> DEFINE x == OpByte(op)
               y == Field("u16", z)
    <3>1. OpByteAndSize(op) = <<x, y>> /\ SizeRest(z) = <<y>>
      BY <2>3 DEF OpByteAndSize, OpByte, Indicator, SizeRest
    <3> HIDE DEF x, y
    <3>2. <<x>> \o <<y>> = <<x, y>>
      BY PairConcat
    <3> QED
      BY <3>1, <3>2 DEF x
  <2> QED
    BY <1>1, <2>1, <2>2, <2>3
<1>5. Fields(<<OpByte(op)>> \o SizeRest(z)) /\ Len(<<OpByte(op)>> \o SizeRest(z)) = 1 + Len(SizeRest(z))
  BY <1>2, <1>3, FieldsConcat
<1> QED
  BY <1>2, <1>3, <1>4, <1>5

-----------------------------------------------------------------------------
(* Reading an operation. *)
LEMMA SizeRead ==
    ASSUME Len(Source) \in Nat, Here \in Nat, NEW op, Shaped(op),
           PartAt(Source, Here, OpByteAndSize(op))
    PROVE  /\ FieldsAre(<<"opbyte">>, Here) <=> Here <= Len(Source)
           /\ Here <= Len(Source) =>
                /\ Value(Here).flag = bit_flag(op)
                /\ size_routine(Value(Here).size) = size_routine(oal(op))
                /\ FieldsAre(SizeKinds(Value(Here).size), Here + 1)
                      <=> Here + Len(OpByteAndSize(op)) <= Len(Source) + 1
                /\ AfterSize = Here + Len(OpByteAndSize(op))
                /\ Here + Len(OpByteAndSize(op)) <= Len(Source) + 1 => OpSize = oal(op)
<1> DEFINE N == Len(Source)
           at == Here
           z == oal(op)
           r == size_routine(z)
           b == OpByte(op)
           F == OpByteAndSize(op)
           v == Value(at)
           rest == SizeRest(z)
<1>0. z \in 0 .. MAX_INST_SIZE /\ r \in {"Done", "U8And62", "U16"} /\ z \in Int
  BY ShapedIs, Routine, LimitsAssumption
<1>00. MAX_RUN_LEN \in Int
  BY LimitsAssumption
<1>1. F = <<b>> \o rest /\ List(rest) /\ List(<<b>>) /\ Len(F) = 1 + Len(rest)
  BY SizeFields DEF Fields
<1>2. PartAt(Source, at, <<b>>) /\ PartAt(Source, at + Len(<<b>>), rest)
  <2>1. PartAt(Source, at, <<b>> \o rest) /\ at \in Int
    BY <1>1
  <2> HIDE DEF b, rest, at
  <2> QED
    BY <1>1, <2>1, AtConcat
<1>3. b.kind = "opbyte" /\ b.value = [flag |-> bit_flag(op), size |-> Indicator(z)]
  BY FieldIs DEF OpByte
<1>4. Len(<<b>>) = 1 /\ <<b>>[1] = b
  BY ListOne
<1>5. at <= N => Source[at] = b
  <2>1. at + 1 - 1 = at /\ 1 \in 1 .. 1
    OBVIOUS
  <2> HIDE DEF b, at
  <2> QED
    BY <1>2, <1>4, <2>1 DEF PartAt
<1>6. FieldsAre(<<"opbyte">>, at) <=> at <= N
  BY <1>3, <1>5, OneField
<1>7. ASSUME at <= N PROVE v.flag = bit_flag(op) /\ v.size = Indicator(z)
  <2>1. v = b.value
    BY <1>5, <1>7 DEF Value
  <2> HIDE DEF v, b
  <2> QED
    BY <1>3, <2>1
<1>8. size_routine(Indicator(z)) = r
  BY <1>0, Routine
<1>9. PartAt(Source, at + 1, rest)
  BY <1>2, <1>4
<1>10. \A x : Len(rest) = 1 /\ rest[1] = x /\ at + 1 <= N => Source[at + 1] = x
  <2>1. (at + 1) + 1 - 1 = at + 1 /\ 1 \in 1 .. 1
    OBVIOUS
  <2> HIDE DEF at, rest
  <2> QED
    BY <1>9, <2>1 DEF PartAt
<1> SUFFICES ASSUME at <= N
             PROVE  /\ FieldsAre(SizeKinds(v.size), at + 1) <=> at + Len(F) <= N + 1
                    /\ AfterSize = at + Len(F)
                    /\ at + Len(F) <= N + 1 => OpSize = z
  BY <1>6, <1>7, <1>8
<1>11. size_routine(v.size) = r /\ v.size = Indicator(z)
  BY <1>7, <1>8
<1>12. CASE r = "Done"
  <2>1. SizeKinds(v.size) = <<>> /\ rest = <<>> /\ Len(<<>>) = 0
    BY <1>11, <1>12 DEF SizeKinds, SizeRest
  <2>2. OpSize = z
    BY <1>11, <1>12 DEF OpSize, Indicator
  <2>3. AfterSize = at + 1 + 0
    BY <2>1 DEF AfterSize
  <2>4. FieldsAre(<<>>, at + 1) <=> at + 1 + 0 - 1 <= N
    BY <2>1 DEF FieldsAre
  <2>5. Len(F) = 1
    BY <1>1, <2>1
  <2> HIDE DEF F, at, N, v
  <2>6. at \in Nat /\ N \in Nat
    BY DEF at, N
  <2> QED
    BY <2>1, <2>2, <2>3, <2>4, <2>5, <2>6
<1>13. CASE r = "U8And62"
  <2> DEFINE x == Field("u8", z - MAX_RUN_LEN)
  <2>1. SizeKinds(v.size) = <<"u8">> /\ rest = <<x>>
    BY <1>11, <1>13 DEF SizeKinds, SizeRest
  <2>2. OpSize = Value(at + 1) + MAX_RUN_LEN
    BY <1>11, <1>13 DEF OpSize
  <2>3. x.kind = "u8" /\ x.value = z - MAX_RUN_LEN
    BY FieldIs
  <2> HIDE DEF x
  <2>4. Len(rest) = 1 /\ rest[1] = x /\ Len(<<"u8">>) = 1
    BY <2>1, ListOne
  <2>5. at + 1 <= N => Source[at + 1] = x
    BY <1>10, <2>4
  <2>6. FieldsAre(<<"u8">>, at + 1) <=> at + 1 <= N
    BY <2>3, <2>5, OneField
  <2>7. AfterSize = at + 1 + 1
    BY <2>1, <2>4 DEF AfterSize
  <2>8. at + 1 <= N => Value(at + 1) = z - MAX_RUN_LEN
    BY <2>3, <2>5 DEF Value
  <2>9. Len(F) = 2
    BY <1>1, <2>4
  <2> HIDE DEF F, at, N, v, z
  <2>10. at \in Nat /\ N \in Nat
    BY DEF at, N
  <2> QED
    BY <1>0, <1>00, <2>1, <2>2, <2>6, <2>7, <2>8, <2>9, <2>10
<1>14. CASE r = "U16"
  <2> DEFINE x == Field("u16", z)
  <2>1. SizeKinds(v.size) = <<"u16">> /\ rest = <<x>>
    BY <1>11, <1>14 DEF SizeKinds, SizeRest
  <2>2. OpSize = Value(at + 1)
    BY <1>11, <1>14 DEF OpSize
  <2>3. x.kind = "u16" /\ x.value = z
    BY FieldIs
  <2> HIDE DEF x
  <2>4. Len(rest) = 1 /\ rest[1] = x /\ Len(<<"u16">>) = 1
    BY <2>1, ListOne
  <2>5. at + 1 <= N => Source[at + 1] = x
    BY <1>10, <2>4
  <2>6. FieldsAre(<<"u16">>, at + 1) <=> at + 1 <= N
    BY <2>3, <2>5, OneField
  <2>7. AfterSize = at + 1 + 1
    BY <2>1, <2>4 DEF AfterSize
  <2>8. at + 1 <= N => Value(at + 1) = z
    BY <2>3, <2>5 DEF Value
  <2>9. Len(F) = 2
    BY <1>1, <2>4
  <2> HIDE DEF F, at, N, v, z
  <2>10. at \in Nat /\ N \in Nat
    BY DEF at, N
  <2> QED
    BY <1>0, <2>1, <2>2, <2>6, <2>7, <2>8, <2>9, <2>10
<1> QED
  BY <1>0, <1>12, <1>13, <1>14

(* Bytes that are where they are read from. *)
LEMMA BytesThere ==
    ASSUME Len(Source) \in Nat, NEW at \in Nat, NEW b, List(b), PartAt(Source, at, Bytes(b))
    PROVE  /\ FieldsAre([i \in 1 .. Len(b) |-> "byte"], at) <=> at + Len(b) <= Len(Source) + 1
           /\ at + Len(b) <= Len(Source) + 1 =>
                 \A i \in 1 .. Len(b) : Value(at + i - 1) = b[i]
<1> DEFINE N == Len(Source)
           n == Len(b)
           kinds == [i \in 1 .. n |-> "byte"]
<1>1. n \in Nat /\ Len(Bytes(b)) = n /\ \A i \in 1 .. n : Bytes(b)[i] = Field("byte", b[i])
  BY ListLen, BytesAre
<1>2. Len(kinds) = n /\ \A i \in 1 .. n : kinds[i] = "byte"
  BY <1>1, ListOf
<1>3. ASSUME at + n <= N + 1, NEW i \in 1 .. n
      PROVE  Source[at + i - 1].kind = "byte" /\ Value(at + i - 1) = b[i]
  <2>1. at + i - 1 <= N
    BY <1>1, <1>3
  <2>2. Source[at + i - 1] = Field("byte", b[i])
    BY <1>1, <2>1 DEF PartAt
  <2> QED
    BY <2>2, FieldIs DEF Value
<1> HIDE DEF kinds
<1>4. FieldsAre(kinds, at) <=> at + n - 1 <= N /\ \A i \in 1 .. n : Source[at + i - 1].kind = "byte"
  BY <1>2 DEF FieldsAre
<1>5. at + n - 1 <= N <=> at + n <= N + 1
  BY <1>1
<1> QED
  BY <1>3, <1>4, <1>5 DEF kinds

(* The bytes behind the size of an operation that is no copy. *)
BytesBehind(op, format) ==
    IF is_run(op) THEN <<op.byte>> ELSE IF format = "Interleaved" THEN op.bytes ELSE <<>>

LEMMA AdditionalIs ==
    ASSUME NEW op, Shaped(op), NEW addr \in [CopySrc -> Nat], NEW format
    PROVE  /\ Fields(Additional(op, addr, format))
           /\ is_copy(op) => /\ op.addr - addr[op.src] \in Int
                             /\ Additional(op, addr, format)
                                  = u_varint[zigzag_encode(op.addr - addr[op.src])]
           /\ ~ is_copy(op) => /\ List(BytesBehind(op, format))
                               /\ Additional(op, addr, format) = Bytes(BytesBehind(op, format))
<1>1. CASE is_copy(op)
  <2>1. op.addr \in Nat /\ op.src \in CopySrc /\ ~ is_run(op)
    BY <1>1 DEF Shaped, is_copy, is_add, is_run
  <2>2. op.addr - addr[op.src] \in Int
    BY <2>1
  <2>3. Additional(op, addr, format) = u_varint[zigzag_encode(op.addr - addr[op.src])]
    BY <1>1, <2>1 DEF Additional, diff_addresses_to_i64
  <2>4. zigzag_encode(op.addr - addr[op.src]) \in Nat
    BY <2>2, Zigzag
  <2>5. Fields(u_varint[zigzag_encode(op.addr - addr[op.src])])
    BY <2>4, VarintFieldsAre
  <2> QED
    BY <1>1, <2>2, <2>3, <2>5
<1>2. CASE ~ is_copy(op)
  <2> DEFINE b == BytesBehind(op, format)
  <2>1. List(b)
    <3>1. is_run(op) => List(<<op.byte>>)
      BY ListOne
    <3>2. ~ is_run(op) => List(op.bytes)
      BY <1>2 DEF Shaped
    <3> QED
      BY <3>1, <3>2, ListEmpty DEF BytesBehind
  <2>2. Additional(op, addr, format) = Bytes(b)
    <3>1. CASE is_run(op)
      <4>1. b = <<op.byte>>
        BY <3>1 DEF BytesBehind
      <4> DEFINE c == <<op.byte>>
                 x == <<Field("byte", op.byte)>>
      <4>2. List(c) /\ Len(c) = 1 /\ c[1] = op.byte
        BY ListOne
      <4>3. List(x) /\ Len(x) = 1 /\ x[1] = Field("byte", op.byte)
        BY ListOne
      <4> HIDE DEF c, x
      <4>4. List(Bytes(c)) /\ Len(Bytes(c)) = Len(c) /\ \A i \in 1 .. Len(c) : Bytes(c)[i] = Field("byte", c[i])
        BY <4>2, BytesAre DEF Fields
      <4>5. \A i \in 1 .. Len(x) : x[i] = Bytes(c)[i]
        <5>1. \A i \in 1 .. 1 : i = 1
          OBVIOUS
        <5> QED
          BY <4>2, <4>3, <4>4, <5>1
      <4>6. x = Bytes(c)
        BY <4>2, <4>3, <4>4, <4>5, ListEqual
      <4> QED
        BY <3>1, <4>1, <4>6 DEF Additional, c, x
    <3>2. CASE ~ is_run(op) /\ format = "Interleaved"
      BY <1>2, <3>2 DEF Additional, BytesBehind
    <3>3. CASE ~ is_run(op) /\ format # "Interleaved"
      <4>1. Additional(op, addr, format) = <<>> /\ b = <<>>
        BY <1>2, <3>3 DEF Additional, BytesBehind
      <4>2. Len(Bytes(<<>>)) = 0 /\ List(Bytes(<<>>))
        BY BytesAre, ListEmpty DEF Fields
      <4>3. Bytes(<<>>) = <<>>
        BY <4>2, ListEmpty
      <4> QED
        BY <4>1, <4>3
    <3> QED
      BY <3>1, <3>2, <3>3
  <2> HIDE DEF b
  <2>3. Fields(Bytes(b))
    BY <2>1, BytesAre
  <2> QED
    BY <1>2, <2>1, <2>2, <2>3 DEF b
<1> QED
  BY <1>1, <1>2

LEMMA OpFieldsAre ==
    ASSUME NEW op, Shaped(op), NEW addr \in [CopySrc -> Nat], NEW format
    PROVE  /\ Fields(OpFields(op, addr, format))
           /\ Len(OpFields(op, addr, format))
                = Len(OpByteAndSize(op)) + Len(Additional(op, addr, format))
           /\ Len(OpByteAndSize(op)) \in Nat /\ Len(OpByteAndSize(op)) >= 1
           /\ Len(Additional(op, addr, format)) \in Nat
<1>1. Fields(OpByteAndSize(op)) /\ Len(OpByteAndSize(op)) = 1 + Len(SizeRest(oal(op)))
  BY SizeFields
<1>2. Fields(SizeRest(oal(op)))
  BY SizeFields
<1>3. Len(SizeRest(oal(op))) \in Nat
  BY <1>2, ListLen DEF Fields
<1>4. Fields(Additional(op, addr, format))
  BY AdditionalIs
<1>5. Len(Additional(op, addr, format)) \in Nat
  BY <1>4, ListLen DEF Fields
<1> QED
  BY <1>1, <1>3, <1>4, <1>5, FieldsConcat DEF OpFields

LEMMA FlagIs ==
    ASSUME NEW op, Shaped(op)
    PROVE  /\ IsCopy(bit_flag(op)) <=> is_copy(op)
           /\ bit_flag(op) = "RUN" <=> is_run(op)
           /\ bit_flag(op) = "ADD" <=> is_add(op)
           /\ is_copy(op) => op.src = IF bit_flag(op) = "COPY_D" THEN "Dict" ELSE "Output"
<1>1. CASE is_add(op)
  BY <1>1 DEF IsCopy, bit_flag, is_add, is_run, is_copy
<1>2. CASE is_run(op)
  BY <1>2 DEF IsCopy, bit_flag, is_add, is_run, is_copy
<1>3. CASE is_copy(op)
  <2>1. op.src \in {"Dict", "Output"}
    BY <1>3 DEF Shaped, is_add, is_run, is_copy, CopySrc
  <2> QED
    BY <1>3, <2>1 DEF IsCopy, bit_flag, is_add, is_run, is_copy
<1> QED
  BY <1>1, <1>2, <1>3 DEF Shaped

(* What is behind the size. *)
LEMMA AdditionalRead ==
    ASSUME Len(Source) \in Nat, Here \in Nat, NEW op, Shaped(op),
           cur_addr \in [CopySrc -> Nat], header.format \in Format,
           PartAt(Source, Here, OpFields(op, cur_addr, header.format)), CanReadOp
           \/ Here + Len(OpByteAndSize(op)) <= Len(Source) + 1
    PROVE  /\ Value(Here).flag = bit_flag(op)
           /\ AfterSize = Here + Len(OpByteAndSize(op)) /\ OpSize = oal(op)
           /\ is_copy(op) =>
                read_u_varint[AfterSize] =
                  IF Here + Len(OpFields(op, cur_addr, header.format)) <= Len(Source) + 1
                  THEN {[n |-> zigzag_encode(op.addr - cur_addr[op.src]),
                         after |-> Here + Len(OpFields(op, cur_addr, header.format))]}
                  ELSE {}
           /\ ~ is_copy(op) =>
                LET b == BytesBehind(op, header.format)
                IN /\ AdditionalBytes(bit_flag(op)) = Len(b)
                   /\ Here + Len(OpFields(op, cur_addr, header.format)) = AfterSize + Len(b)
                   /\ FieldsAre([i \in 1 .. Len(b) |-> "byte"], AfterSize)
                        <=> Here + Len(OpFields(op, cur_addr, header.format)) <= Len(Source) + 1
                   /\ Here + Len(OpFields(op, cur_addr, header.format)) <= Len(Source) + 1 =>
                         \A i \in 1 .. Len(b) : Value(AfterSize + i - 1) = b[i]
           /\ CanReadOp <=> Here + Len(OpFields(op, cur_addr, header.format)) <= Len(Source) + 1
<1> DEFINE N == Len(Source)
           at == Here
           f == header.format
           S == OpByteAndSize(op)
           A == Additional(op, cur_addr, f)
           F == OpFields(op, cur_addr, f)
<1>1. /\ Fields(S) /\ Fields(A) /\ Len(S) \in Nat /\ Len(A) \in Nat /\ Len(S) >= 1
      /\ Len(F) = Len(S) + Len(A)
  <2>1. f = header.format
    OBVIOUS
  <2> HIDE DEF f
  <2> QED
    BY SizeFields, AdditionalIs, OpFieldsAre
<1>2. PartAt(Source, at, S) /\ PartAt(Source, at + Len(S), A)
  <2>1. PartAt(Source, at, S \o A) /\ at \in Int
    BY DEF OpFields
  <2> HIDE DEF S, A, at
  <2> QED
    BY <1>1, <2>1, AtConcat DEF Fields
<1>3. /\ FieldsAre(<<"opbyte">>, at) <=> at <= N
      /\ at <= N =>
           /\ Value(at).flag = bit_flag(op)
           /\ size_routine(Value(at).size) = size_routine(oal(op))
           /\ FieldsAre(SizeKinds(Value(at).size), at + 1) <=> at + Len(S) <= N + 1
           /\ AfterSize = at + Len(S)
           /\ at + Len(S) <= N + 1 => OpSize = oal(op)
  BY <1>2, SizeRead
<1>4. at \in Nat /\ N \in Nat
  OBVIOUS
<1>5. at <= N /\ at + Len(S) <= N + 1
  <2>1. CASE CanReadOp
    BY <1>3, <2>1 DEF CanReadOp
  <2>2. CASE at + Len(S) <= N + 1
    BY <1>1, <1>4, <2>2
  <2> QED
    BY <2>1, <2>2
<1>6. /\ Value(at).flag = bit_flag(op) /\ AfterSize = at + Len(S) /\ OpSize = oal(op)
      /\ FieldsAre(<<"opbyte">>, at) /\ FieldsAre(SizeKinds(Value(at).size), at + 1)
  BY <1>3, <1>5
<1>7. at + Len(F) = AfterSize + Len(A) /\ AfterSize \in Nat
  BY <1>1, <1>4, <1>6
<1>8. PartAt(Source, AfterSize, A)
  BY <1>2, <1>6
<1>9. Value(at).flag = "RUN" => size_routine(Value(at).size) = "Done"
  <2>1. is_run(op) => size_routine(oal(op)) = "Done"
    BY ShapedIs, Routine
  <2> QED
    BY <1>3, <1>5, <1>6, <2>1, FlagIs
<1> HIDE DEF at, N, S, A, F
<1>10. ASSUME is_copy(op)
       PROVE  /\ read_u_varint[AfterSize] =
                   IF at + Len(F) <= N + 1
                   THEN {[n |-> zigzag_encode(op.addr - cur_addr[op.src]), after |-> at + Len(F)]}
                   ELSE {}
              /\ CanReadOp <=> at + Len(F) <= N + 1
  <2> DEFINE n == zigzag_encode(op.addr - cur_addr[op.src])
  <2>1. n \in Nat /\ A = u_varint[n]
    BY <1>10, AdditionalIs, Zigzag DEF A
  <2> HIDE DEF n
  <2>2. read_u_varint[AfterSize] = IF AfterSize + Len(A) <= N + 1
                                   THEN {[n |-> n, after |-> AfterSize + Len(A)]} ELSE {}
    BY <1>4, <1>7, <1>8, <2>1, VarintRead DEF N
  <2>3. read_u_varint[AfterSize] = IF at + Len(F) <= N + 1 THEN {[n |-> n, after |-> at + Len(F)]} ELSE {}
    BY <1>7, <2>2
  <2>4. IsCopy(Value(at).flag)
    BY <1>6, <1>10, FlagIs
  <2>5. CanReadOp <=> read_u_varint[AfterSize] # {}
    BY <1>6, <1>9, <2>4 DEF CanReadOp, at
  <2> QED
    BY <2>3, <2>5 DEF n
<1>11. ASSUME ~ is_copy(op), NEW b, b = BytesBehind(op, f)
       PROVE  /\ AdditionalBytes(bit_flag(op)) = Len(b)
              /\ at + Len(F) = AfterSize + Len(b)
              /\ FieldsAre([i \in 1 .. Len(b) |-> "byte"], AfterSize) <=> at + Len(F) <= N + 1
              /\ at + Len(F) <= N + 1 => \A i \in 1 .. Len(b) : Value(AfterSize + i - 1) = b[i]
              /\ CanReadOp <=> at + Len(F) <= N + 1
  <2>1. List(b) /\ A = Bytes(b)
    BY <1>11, AdditionalIs DEF A
  <2>2. Len(A) = Len(b)
    BY <2>1, BytesAre
  <2>3. /\ FieldsAre([i \in 1 .. Len(b) |-> "byte"], AfterSize) <=> AfterSize + Len(b) <= N + 1
        /\ AfterSize + Len(b) <= N + 1 => \A i \in 1 .. Len(b) : Value(AfterSize + i - 1) = b[i]
    BY <1>4, <1>7, <1>8, <2>1, BytesThere DEF N
  <2>4. AdditionalBytes(bit_flag(op)) = Len(b)
    <3>1. CASE is_run(op)
      <4>1. b = <<op.byte>> /\ bit_flag(op) = "RUN"
        BY <1>11, <3>1, FlagIs DEF BytesBehind
      <4>2. Len(<<op.byte>>) = 1
        OBVIOUS
      <4> QED
        BY <4>1, <4>2 DEF AdditionalBytes
    <3>2. CASE ~ is_run(op) /\ f = "Interleaved"
      <4>1. b = op.bytes /\ bit_flag(op) # "RUN" /\ ~ Segregated /\ is_add(op)
        BY <1>11, <3>2, FlagIs DEF BytesBehind, Segregated, Shaped
      <4>2. OpSize = Len(op.bytes)
        BY <1>6, <4>1, ShapedIs
      <4> QED
        BY <4>1, <4>2 DEF AdditionalBytes
    <3>3. CASE ~ is_run(op) /\ f # "Interleaved"
      <4>1. b = <<>> /\ bit_flag(op) # "RUN" /\ Segregated
        BY <1>11, <3>3, FlagIs DEF BytesBehind, Segregated, Format
      <4> QED
        BY <4>1 DEF AdditionalBytes
    <3> QED
      BY <3>1, <3>2, <3>3
  <2>5. ~ IsCopy(Value(at).flag)
    BY <1>6, <1>11, FlagIs
  <2>6. CanReadOp <=> FieldsAre([i \in 1 .. Len(b) |-> "byte"], AfterSize)
    BY <1>6, <1>9, <2>4, <2>5 DEF CanReadOp, at
  <2> QED
    BY <1>7, <2>2, <2>3, <2>4, <2>6
<1>12. CASE is_copy(op)
  BY <1>6, <1>10, <1>12 DEF at, N, F, S
<1>13. CASE ~ is_copy(op)
  <2> DEFINE b == BytesBehind(op, f)
  <2> HIDE DEF b
  <2>1. /\ AdditionalBytes(bit_flag(op)) = Len(b)
        /\ at + Len(F) = AfterSize + Len(b)
        /\ FieldsAre([i \in 1 .. Len(b) |-> "byte"], AfterSize) <=> at + Len(F) <= N + 1
        /\ at + Len(F) <= N + 1 => \A i \in 1 .. Len(b) : Value(AfterSize + i - 1) = b[i]
        /\ CanReadOp <=> at + Len(F) <= N + 1
    BY <1>11, <1>13 DEF b
  <2> QED
    BY <1>6, <1>13, <2>1 DEF at, N, F, S, b
<1> QED
  BY <1>12, <1>13

(* An operation can be read exactly if all of it is there. *)
LEMMA CanReadAll ==
    ASSUME Len(Source) \in Nat, Here \in Nat, NEW op, Shaped(op),
           cur_addr \in [CopySrc -> Nat], header.format \in Format,
           PartAt(Source, Here, OpFields(op, cur_addr, header.format))
    PROVE  CanReadOp <=> Here + Len(OpFields(op, cur_addr, header.format)) <= Len(Source) + 1
<1> DEFINE S == OpByteAndSize(op)
           A == Additional(op, cur_addr, header.format)
           F == OpFields(op, cur_addr, header.format)
<1>1. CASE CanReadOp
  BY <1>1, AdditionalRead
<1>2. CASE Here + Len(F) <= Len(Source) + 1
  <2>1. Len(F) = Len(S) + Len(A) /\ Len(S) \in Nat /\ Len(A) \in Nat
    BY OpFieldsAre
  <2>2. Here + Len(S) <= Len(Source) + 1
    BY <1>2, <2>1
  <2> QED
    BY <1>2, <2>2, AdditionalRead
<1> QED
  BY <1>1, <1>2

(* The Add bytes that a segregated section holds back are not there yet. *)
Unfilled(op, format) ==
    IF is_add(op) /\ format = "Segregated"
    THEN Add([i \in 1 .. Len(op.bytes) |-> "zero"]) ELSE op

(* Reading it yields it, moves the registers as the writer did, and the     *)
(* place behind it.                                                         *)
LEMMA OpRead ==
    ASSUME Len(Source) \in Nat, Here \in Nat, NEW op, Shaped(op),
           cur_addr \in [CopySrc -> Nat], header.format \in Format,
           PartAt(Source, Here, OpFields(op, cur_addr, header.format)), ReadOp
    PROVE  /\ op_buffer' = Append(op_buffer, Unfilled(op, header.format))
           /\ cur_addr' = IF is_copy(op) THEN [cur_addr EXCEPT ![op.src] = op.addr] ELSE cur_addr
           /\ header' = IF is_add(op) /\ header.format = "Segregated"
                        THEN [header EXCEPT !.num_add_bytes = @ + oal(op)] ELSE header
           /\ MoveTo(Here + Len(OpFields(op, cur_addr, header.format)))
           /\ Here + Len(OpFields(op, cur_addr, header.format)) <= Len(Source) + 1
           /\ UNCHANGED <<done, outer, win_data, reader>>
<1> DEFINE N == Len(Source)
           f == header.format
           F == OpFields(op, cur_addr, f)
           flag == Value(Here).flag
           src == IF flag = "COPY_D" THEN "Dict" ELSE "Output"
           input == CHOOSE v \in read_u_varint[AfterSize] : TRUE
           addr == diff_addresses_to_u64(cur_addr[src], zigzag_decode(input.n))
           bytes == [i \in 1 .. OpSize |-> IF Segregated THEN "zero" ELSE Value(AfterSize + i - 1)]
           got == IF IsCopy(flag) THEN Copy(src, addr, OpSize)
                  ELSE IF flag = "RUN" THEN Run(Value(AfterSize), OpSize)
                  ELSE Add(bytes)
<1>0. CanReadOp
  BY DEF ReadOp
<1>1. /\ op_buffer' = Append(op_buffer, got)
      /\ cur_addr' = IF IsCopy(flag) THEN [cur_addr EXCEPT ![src] = addr] ELSE cur_addr
      /\ header' = IF Segregated /\ flag = "ADD"
                   THEN [header EXCEPT !.num_add_bytes = @ + OpSize] ELSE header
      /\ MoveTo(IF IsCopy(flag) THEN input.after ELSE AfterSize + AdditionalBytes(flag))
      /\ UNCHANGED <<done, outer, win_data, reader>>
  BY DEF ReadOp
<1>2. Here + Len(F) <= N + 1
  BY <1>0, CanReadAll
<1>3. /\ flag = bit_flag(op) /\ OpSize = oal(op)
      /\ is_copy(op) => read_u_varint[AfterSize] =
             {[n |-> zigzag_encode(op.addr - cur_addr[op.src]), after |-> Here + Len(F)]}
  BY <1>0, <1>2, AdditionalRead
<1>4. ASSUME NEW b, b = BytesBehind(op, f), ~ is_copy(op)
      PROVE  /\ AdditionalBytes(flag) = Len(b) /\ Here + Len(F) = AfterSize + Len(b)
             /\ \A i \in 1 .. Len(b) : Value(AfterSize + i - 1) = b[i]
  BY <1>0, <1>2, <1>3, <1>4, AdditionalRead
<1>5. /\ IsCopy(flag) <=> is_copy(op)
      /\ flag = "RUN" <=> is_run(op)
      /\ flag = "ADD" <=> is_add(op)
      /\ is_copy(op) => op.src = src
  BY <1>3, FlagIs
<1>6. header' = IF is_add(op) /\ f = "Segregated"
                THEN [header EXCEPT !.num_add_bytes = @ + oal(op)] ELSE header
  BY <1>1, <1>3, <1>5 DEF Segregated
<1> HIDE DEF N, F, flag, src, got, addr, bytes, input
<1>7. CASE is_copy(op)
  <2>1. op.addr \in Nat /\ op.src \in CopySrc /\ op = Copy(op.src, op.addr, op.len) /\ oal(op) = op.len
        /\ ~ is_add(op)
    BY <1>7 DEF Shaped, is_copy, is_add, is_run, oal
  <2>2. op.addr - cur_addr[op.src] \in Int /\ cur_addr[op.src] \in Nat
    BY <2>1
  <2> DEFINE z == zigzag_encode(op.addr - cur_addr[op.src])
             x == [n |-> z, after |-> Here + Len(F)]
  <2>3. x.n = z /\ x.after = Here + Len(F)
    OBVIOUS
  <2>4. zigzag_decode(z) = op.addr - cur_addr[op.src]
    BY <2>2, Zigzag
  <2>5. read_u_varint[AfterSize] = {x}
    BY <1>3, <1>7
  <2> HIDE DEF x, z
  <2>6. input = x
    BY <2>5 DEF input
  <2>7. addr = cur_addr[op.src] + (op.addr - cur_addr[op.src])
    BY <1>5, <1>7, <2>3, <2>4, <2>6 DEF addr, diff_addresses_to_u64
  <2>8. addr = op.addr
    BY <2>1, <2>2, <2>7
  <2>9. got = op
    BY <1>3, <1>5, <1>7, <2>1, <2>8 DEF got
  <2>10. Unfilled(op, f) = op
    BY <2>1 DEF Unfilled
  <2> QED
    BY <1>1, <1>2, <1>5, <1>6, <1>7, <2>3, <2>6, <2>8, <2>9, <2>10 DEF N, F
<1>8. CASE is_run(op)
  <2> DEFINE b == <<op.byte>>
  <2>1. ~ is_copy(op) /\ ~ is_add(op) /\ op = Run(op.byte, op.len) /\ oal(op) = op.len
    BY <1>8 DEF Shaped, is_copy, is_add, is_run, oal
  <2>2. b = BytesBehind(op, f)
    BY <1>8 DEF BytesBehind
  <2>3. Len(b) = 1 /\ b[1] = op.byte
    BY ListOne
  <2> HIDE DEF b
  <2>4. AdditionalBytes(flag) = 1 /\ Here + Len(F) = AfterSize + 1 /\ Value(AfterSize + 1 - 1) = op.byte
    <3>1. 1 \in 1 .. 1
      OBVIOUS
    <3> QED
      BY <1>4, <2>1, <2>2, <2>3, <3>1
  <2>5. AfterSize + 1 - 1 = AfterSize
    <3>1. PartAt(Source, Here, OpFields(op, cur_addr, f)) /\ Here + Len(OpByteAndSize(op)) \in Nat
      BY OpFieldsAre
    <3>2. AfterSize = Here + Len(OpByteAndSize(op))
      BY <1>0, AdditionalRead
    <3> QED
      BY <3>1, <3>2
  <2>6. got = op
    BY <1>3, <1>5, <1>8, <2>1, <2>4, <2>5 DEF got
  <2>7. Unfilled(op, f) = op
    BY <2>1 DEF Unfilled
  <2> QED
    BY <1>1, <1>2, <1>5, <1>6, <2>1, <2>4, <2>6, <2>7 DEF N, F
<1>9. CASE is_add(op)
  <2>1. /\ ~ is_copy(op) /\ ~ is_run(op) /\ op = Add(op.bytes) /\ oal(op) = Len(op.bytes)
        /\ List(op.bytes)
    BY <1>9, ShapedIs DEF Shaped, is_copy, is_add, is_run
  <2> DEFINE b == BytesBehind(op, f)
  <2>2. AdditionalBytes(flag) = Len(b) /\ Here + Len(F) = AfterSize + Len(b)
        /\ \A i \in 1 .. Len(b) : Value(AfterSize + i - 1) = b[i]
    BY <1>4, <2>1
  <2>3. got = Unfilled(op, f)
    <3>1. CASE f = "Segregated"
      <4>1. bytes = [i \in 1 .. Len(op.bytes) |-> "zero"]
        BY <1>3, <2>1, <3>1 DEF bytes, Segregated
      <4>2. got = Add(bytes)
        BY <1>5, <2>1 DEF got
      <4> QED
        BY <1>9, <3>1, <4>1, <4>2 DEF Unfilled
    <3>2. CASE f # "Segregated"
      <4>1. b = op.bytes
        BY <2>1, <3>2 DEF BytesBehind, Format
      <4> HIDE DEF b
      <4>2. bytes = [i \in 1 .. Len(op.bytes) |-> Value(AfterSize + i - 1)]
        BY <1>3, <2>1, <3>2 DEF bytes, Segregated
      <4>3. bytes = [i \in 1 .. Len(op.bytes) |-> op.bytes[i]]
        BY <2>2, <4>1, <4>2
      <4>4. op.bytes = [i \in 1 .. Len(op.bytes) |-> op.bytes[i]]
        BY <2>1, ListFun
      <4>5. got = Add(bytes)
        BY <1>5, <2>1 DEF got
      <4> QED
        BY <2>1, <3>2, <4>3, <4>4, <4>5 DEF Unfilled
    <3> QED
      BY <3>1, <3>2
  <2> HIDE DEF b
  <2> QED
    BY <1>1, <1>2, <1>5, <1>6, <2>1, <2>2, <2>3 DEF N, F
<1> QED
  BY <1>7, <1>8, <1>9 DEF Shaped

-----------------------------------------------------------------------------
(* Reading a header. *)
HeaderIs(h) ==
    /\ h \in SectionHeader
    /\ h.format = "Segregated" => h.num_add_bytes < U32_SIZE /\ h.output_size < U32_SIZE

AddsIn(h) == IF h.format = "Segregated" THEN h.num_add_bytes ELSE 0
AddsField(h) == IF h.format = "Segregated" THEN u_varint[h.num_add_bytes] ELSE <<>>
LastNumber(h) ==
    IF h.format = "Segregated" THEN wrapping_sub(h.output_size, h.num_add_bytes) ELSE h.output_size

(* The difference the writer puts down is the one the reader undoes. *)
LEMMA WrappingIs ==
    ASSUME NEW a \in Nat, NEW b \in Nat, a < U32_SIZE, b < U32_SIZE
    PROVE  /\ wrapping_sub(a, b) \in Nat /\ wrapping_add(b, wrapping_sub(a, b)) = a
           /\ b <= a => b + wrapping_sub(a, b) = a
<1>1. U32_SIZE \in Nat
  BY WireAssumption
<1>2. CASE b <= a
  <2>1. wrapping_sub(a, b) = a - b
    BY <1>2 DEF wrapping_sub
  <2> QED
    BY <1>1, <1>2, <2>1 DEF wrapping_add
<1>3. CASE ~ (b <= a)
  <2>1. wrapping_sub(a, b) = a - b + U32_SIZE
    BY <1>3 DEF wrapping_sub
  <2> QED
    BY <1>1, <1>3, <2>1 DEF wrapping_add
<1> QED
  BY <1>2, <1>3

LEMMA HeaderTypes ==
    ASSUME NEW h, HeaderIs(h)
    PROVE  /\ h.num_operations \in Nat /\ h.num_add_bytes \in Nat /\ h.output_size \in Nat
           /\ AddsIn(h) \in Nat /\ LastNumber(h) \in Nat
           /\ h.output_size = IF h.format = "Segregated"
                              THEN wrapping_add(AddsIn(h), LastNumber(h)) ELSE LastNumber(h)
           /\ h.compression_algo \in Algo /\ h.format \in Format /\ h.more_sections \in BOOLEAN
<1>1. /\ h.num_operations \in Nat /\ h.num_add_bytes \in Nat /\ h.output_size \in Nat
      /\ h.compression_algo \in Algo /\ h.format \in Format /\ h.more_sections \in BOOLEAN
  BY DEF HeaderIs, SectionHeader
<1>2. AddsIn(h) \in Nat
  BY <1>1 DEF AddsIn
<1>3. CASE h.format = "Segregated"
  <2>1. h.num_add_bytes < U32_SIZE /\ h.output_size < U32_SIZE
    BY <1>3 DEF HeaderIs
  <2>2. /\ wrapping_sub(h.output_size, h.num_add_bytes) \in Nat
        /\ wrapping_add(h.num_add_bytes, wrapping_sub(h.output_size, h.num_add_bytes))
              = h.output_size
    BY <1>1, <2>1, WrappingIs
  <2> QED
    BY <1>1, <1>2, <1>3, <2>2 DEF AddsIn, LastNumber
<1>4. CASE h.format # "Segregated"
  BY <1>1, <1>2, <1>4 DEF LastNumber
<1> QED
  BY <1>3, <1>4

LEMMA HeaderFieldsAre ==
    ASSUME NEW h, HeaderIs(h)
    PROVE  /\ HeaderFields(h) = ((<<Control(h)>> \o u_varint[h.num_operations]) \o AddsField(h))
                                  \o u_varint[LastNumber(h)]
           /\ Fields(<<Control(h)>>) /\ Len(<<Control(h)>>) = 1 /\ <<Control(h)>>[1] = Control(h)
           /\ Fields(u_varint[h.num_operations]) /\ Fields(AddsField(h))
           /\ Fields(u_varint[LastNumber(h)])
           /\ Fields(HeaderFields(h))
           /\ Len(HeaderFields(h)) = 1 + Len(u_varint[h.num_operations]) + Len(AddsField(h))
                                       + Len(u_varint[LastNumber(h)])
           /\ Len(HeaderFields(h)) \in Nat /\ Len(HeaderFields(h)) >= 1
<1> DEFINE c == <<Control(h)>>
           a == u_varint[h.num_operations]
           b == AddsField(h)
           d == u_varint[LastNumber(h)]
           F == HeaderFields(h)
<1>1. F = ((c \o a) \o b) \o d
  <2>1. CASE h.format = "Segregated"
    BY <2>1 DEF HeaderFields, HeaderStart, AddsField, LastNumber
  <2>2. CASE h.format # "Segregated"
    BY <2>2 DEF HeaderFields, HeaderStart, AddsField, LastNumber
  <2> QED
    BY <2>1, <2>2
<1>2. Fields(c) /\ Len(c) = 1 /\ c[1] = Control(h)
  BY FieldsOne DEF Control
<1>3. Fields(a) /\ Len(a) \in Nat
  BY HeaderTypes, VarintFieldsAre
<1>4. Fields(d) /\ Len(d) \in Nat
  BY HeaderTypes, VarintFieldsAre
<1>5. Fields(b)
  BY HeaderTypes, VarintFieldsAre, FieldsEmpty DEF AddsField
<1>6. Len(b) \in Nat
  BY <1>5, ListLen DEF Fields
<1> HIDE DEF a, b, c, d, F
<1>7. Fields(c \o a) /\ Len(c \o a) = Len(c) + Len(a)
  BY <1>2, <1>3, FieldsConcat
<1>8. Fields((c \o a) \o b) /\ Len((c \o a) \o b) = Len(c \o a) + Len(b)
  BY <1>5, <1>7, FieldsConcat
<1>9. Fields(((c \o a) \o b) \o d) /\ Len(((c \o a) \o b) \o d) = Len((c \o a) \o b) + Len(d)
  BY <1>4, <1>8, FieldsConcat
<1>10. Len(F) = 1 + Len(a) + Len(b) + Len(d) /\ Fields(F)
  BY <1>1, <1>2, <1>7, <1>8, <1>9
<1>11. Len(F) \in Nat /\ Len(F) >= 1
  BY <1>3, <1>4, <1>6, <1>10
<1> QED
  BY <1>1, <1>2, <1>3, <1>4, <1>5, <1>10, <1>11 DEF a, b, c, d, F

(* Its end is a number that has a field. *)
LEMMA HeaderStartIs ==
    ASSUME NEW h, HeaderIs(h)
    PROVE  /\ HeaderFields(h) = HeaderStart(h) \o u_varint[LastNumber(h)]
           /\ List(HeaderStart(h)) /\ List(u_varint[LastNumber(h)])
           /\ Len(u_varint[LastNumber(h)]) \in Nat /\ Len(u_varint[LastNumber(h)]) >= 1
<1>1. HeaderFields(h) = HeaderStart(h) \o u_varint[LastNumber(h)]
  BY DEF HeaderFields, LastNumber
<1>2. /\ Fields(u_varint[LastNumber(h)]) /\ Len(u_varint[LastNumber(h)]) \in Nat
      /\ Len(u_varint[LastNumber(h)]) >= 1
  BY HeaderTypes, VarintFieldsAre
<1> DEFINE c == <<Control(h)>>
           a == u_varint[h.num_operations]
           b == AddsField(h)
<1>3. HeaderStart(h) = (c \o a) \o b
  BY DEF HeaderStart, AddsField
<1>4. Fields(c) /\ Fields(a) /\ Fields(b)
  BY HeaderFieldsAre
<1> HIDE DEF a, b, c
<1>5. Fields(c \o a)
  BY <1>4, FieldsConcat
<1>6. Fields((c \o a) \o b)
  BY <1>4, <1>5, FieldsConcat
<1> QED
  BY <1>1, <1>2, <1>3, <1>6 DEF Fields

LEMMA HeaderParse ==
    ASSUME Len(Source) \in Nat, pos \in Nat, NEW h, HeaderIs(h),
           PartAt(Source, pos, HeaderFields(h))
    PROVE  /\ CanReadHeader <=> pos + Len(HeaderFields(h)) <= Len(Source) + 1
           /\ CanReadHeader =>
                 /\ Value(pos) = Control(h).value
                 /\ HeaderRest = {[ops |-> h.num_operations, adds |-> AddsIn(h),
                                   size |-> LastNumber(h),
                                   after |-> pos + Len(HeaderFields(h))]}
<1> DEFINE N == Len(Source)
           c == <<Control(h)>>
           x == h.num_operations
           y == AddsIn(h)
           z == LastNumber(h)
           a == u_varint[x]
           b == AddsField(h)
           d == u_varint[z]
           F == HeaderFields(h)
           e1 == pos + 1 + Len(a)
           e2 == e1 + Len(b)
           e3 == e2 + Len(d)
<1>1. /\ F = ((c \o a) \o b) \o d
      /\ Fields(c) /\ Len(c) = 1 /\ c[1] = Control(h)
      /\ Fields(a) /\ Fields(b) /\ Fields(d)
      /\ Len(F) = 1 + Len(a) + Len(b) + Len(d)
  BY HeaderFieldsAre
<1>2. /\ x \in Nat /\ y \in Nat /\ z \in Nat /\ h.format \in Format
      /\ h.format = "Segregated" => y = h.num_add_bytes /\ b = u_varint[y]
      /\ h.format # "Segregated" => y = 0 /\ b = <<>>
  BY HeaderTypes DEF AddsIn, AddsField
<1>3. Len(a) \in Nat /\ Len(a) >= 1 /\ Len(b) \in Nat /\ Len(d) \in Nat /\ Len(d) >= 1
  BY <1>1, <1>2, VarintFieldsAre, ListLen DEF Fields
<1>4. N \in Nat /\ pos \in Nat
  OBVIOUS
<1>5. PartAt(Source, pos, F)
  OBVIOUS
<1> DEFINE val == Control(h).value
<1>6. Control(h).kind = "control" /\ val.format = h.format
  BY FieldIs DEF Control
<1> HIDE DEF N, c, x, y, z, a, b, d, F, val
<1>7. PartAt(Source, pos, c) /\ PartAt(Source, pos + 1, a) /\ PartAt(Source, e1, b) /\ PartAt(Source, e2, d)
  <2>1. List(c) /\ List(a) /\ List(b) /\ List(d)
    BY <1>1 DEF Fields
  <2>2. List(c \o a) /\ Len(c \o a) = Len(c) + Len(a)
    BY <2>1, ListConcat
  <2>3. List((c \o a) \o b) /\ Len((c \o a) \o b) = Len(c \o a) + Len(b)
    BY <2>1, <2>2, ListConcat
  <2>4. PartAt(Source, pos, ((c \o a) \o b) \o d) /\ pos \in Int
    BY <1>1, <1>4, <1>5
  <2>5. PartAt(Source, pos, (c \o a) \o b) /\ PartAt(Source, pos + Len((c \o a) \o b), d)
    BY <2>1, <2>3, <2>4, AtConcat
  <2>6. PartAt(Source, pos, c \o a) /\ PartAt(Source, pos + Len(c \o a), b)
    BY <2>1, <2>2, <2>4, <2>5, AtConcat
  <2>7. PartAt(Source, pos, c) /\ PartAt(Source, pos + Len(c), a)
    BY <2>1, <2>4, <2>6, AtConcat
  <2>8. pos + Len(c) = pos + 1 /\ pos + Len(c \o a) = e1 /\ pos + Len((c \o a) \o b) = e2
    BY <1>1, <1>3, <1>4, <2>2, <2>3
  <2> QED
    BY <2>5, <2>6, <2>7, <2>8
<1>8. pos <= N => Source[pos] = Control(h)
  <2>1. 1 \in 1 .. 1 /\ pos + 1 - 1 = pos
    BY <1>4
  <2> QED
    BY <1>1, <1>7, <2>1 DEF PartAt, N
<1>9. FieldsAre(<<"control">>, pos) <=> pos <= N
  BY <1>4, <1>6, <1>8, OneField DEF N
<1>10. pos <= N => Value(pos) = val
  BY <1>8 DEF Value, val
<1>11. pos + 1 \in Nat /\ e1 \in Nat /\ e2 \in Nat /\ e3 \in Nat /\ pos + Len(F) = e3
       /\ pos + 1 < e1 /\ e1 <= e2 /\ e2 < e3
  BY <1>1, <1>3, <1>4
<1> DEFINE adds(at) == IF Value(pos).format = "Segregated" THEN read_u_varint[at]
                       ELSE {[n |-> 0, after |-> at]}
           inner(o) == UNION {{[ops |-> o.n, adds |-> v.n, size |-> s.n, after |-> s.after] :
                                 s \in read_u_varint[v.after]} : v \in adds(o.after)}
<1>12. HeaderRest = UNION {inner(o) : o \in read_u_varint[pos + 1]}
  BY DEF HeaderRest
<1>13. read_u_varint[pos + 1] = IF e1 <= N + 1 THEN {[n |-> x, after |-> e1]} ELSE {}
  BY <1>2, <1>4, <1>7, <1>11, VarintRead DEF N, a
<1>14. read_u_varint[e2] = IF e3 <= N + 1 THEN {[n |-> z, after |-> e3]} ELSE {}
  BY <1>2, <1>4, <1>7, <1>11, VarintRead DEF N, d
<1>15. ASSUME pos <= N, e1 <= N + 1
       PROVE  adds(e1) = IF e2 <= N + 1 THEN {[n |-> y, after |-> e2]} ELSE {}
  <2>1. Value(pos).format = h.format
    BY <1>6, <1>10, <1>15
  <2>2. CASE h.format = "Segregated"
    <3>1. read_u_varint[e1] = IF e1 + Len(u_varint[y]) <= N + 1
                              THEN {[n |-> y, after |-> e1 + Len(u_varint[y])]} ELSE {}
      BY <1>2, <1>4, <1>7, <1>11, <2>2, VarintRead, ZenonT(40) DEF N
    <3> QED
      BY <1>2, <2>1, <2>2, <3>1
  <2>3. CASE h.format # "Segregated"
    <3>1. Len(b) = 0 /\ y = 0
      BY <1>2, <2>3, ListEmpty
    <3>2. e2 = e1
      BY <1>11, <3>1
    <3> QED
      BY <1>15, <2>1, <2>3, <3>1, <3>2
  <2> QED
    BY <2>2, <2>3
<1> DEFINE o1 == [n |-> x, after |-> e1]
           v1 == [n |-> y, after |-> e2]
           s1 == [n |-> z, after |-> e3]
           res == [ops |-> x, adds |-> y, size |-> z, after |-> e3]
<1>16. o1.n = x /\ o1.after = e1 /\ v1.n = y /\ v1.after = e2 /\ s1.n = z /\ s1.after = e3
  OBVIOUS
<1> HIDE DEF o1, v1, s1, e1, e2, e3
<1>17. ASSUME pos <= N
       PROVE  HeaderRest = IF e3 <= N + 1 THEN {res} ELSE {}
  <2>1. CASE ~ (e1 <= N + 1)
    <3>1. read_u_varint[pos + 1] = {} /\ ~ (e3 <= N + 1)
      BY <1>4, <1>11, <1>13, <2>1
    <3> HIDE DEF inner
    <3> QED
      BY <1>12, <3>1
  <2>2. CASE e1 <= N + 1
    <3>1. read_u_varint[pos + 1] = {o1}
      BY <1>13, <2>2 DEF o1
    <3>2. HeaderRest = inner(o1)
      <4> HIDE DEF inner
      <4> QED
        BY <1>12, <3>1
    <3>3. inner(o1) = UNION {{[ops |-> x, adds |-> v.n, size |-> s.n, after |-> s.after] :
                                 s \in read_u_varint[v.after]} : v \in adds(e1)}
      <4> HIDE DEF adds
      <4> QED
        BY <1>16
    <3>4. CASE ~ (e2 <= N + 1)
      <4>1. adds(e1) = {} /\ ~ (e3 <= N + 1)
        BY <1>4, <1>11, <1>15, <1>17, <2>2, <3>4
      <4> HIDE DEF adds, inner
      <4> QED
        BY <3>2, <3>3, <4>1
    <3>5. CASE e2 <= N + 1
      <4>1. adds(e1) = {v1}
        BY <1>15, <1>17, <2>2, <3>5 DEF v1
      <4> HIDE DEF adds, inner
      <4>2. inner(o1) = UNION {{[ops |-> x, adds |-> v.n, size |-> s.n, after |-> s.after] :
                                 s \in read_u_varint[v.after]} : v \in {v1}}
        BY <3>3, <4>1
      <4>3. inner(o1) = {[ops |-> x, adds |-> v1.n, size |-> s.n, after |-> s.after] :
                            s \in read_u_varint[v1.after]}
        BY <4>2
      <4>4. inner(o1) = {[ops |-> x, adds |-> y, size |-> s.n, after |-> s.after] :
                            s \in read_u_varint[e2]}
        BY <1>16, <4>3
      <4>5. CASE ~ (e3 <= N + 1)
        <5>1. read_u_varint[e2] = {}
          BY <1>14, <4>5
        <5> QED
          BY <3>2, <4>4, <4>5, <5>1
      <4>6. CASE e3 <= N + 1
        <5>1. read_u_varint[e2] = {s1}
          BY <1>14, <4>6 DEF s1
        <5>2. inner(o1) = {[ops |-> x, adds |-> y, size |-> s1.n, after |-> s1.after]}
          BY <4>4, <5>1
        <5> QED
          BY <1>16, <3>2, <4>6, <5>2
      <4> QED
        BY <4>5, <4>6
    <3> QED
      BY <3>4, <3>5
  <2> QED
    BY <2>1, <2>2
<1> HIDE DEF res
<1>18. CanReadHeader <=> pos <= N /\ HeaderRest # {}
  BY <1>9 DEF CanReadHeader
<1>19. CanReadHeader <=> e3 <= N + 1
  <2>1. e3 <= N + 1 => pos <= N
    BY <1>4, <1>11
  <2> QED
    BY <1>17, <1>18, <2>1
<1>20. CanReadHeader => Value(pos) = val /\ HeaderRest = {res}
  BY <1>10, <1>17, <1>18, <1>19
<1> QED
  BY <1>11, <1>19, <1>20 DEF N, F, res, val, x, y, z

HeaderOf(s, algo) == HeaderFields([s.header EXCEPT !.compression_algo = algo])

HeaderRead(h, s, algo) ==
    /\ h \in SectionHeader
    /\ h.compression_algo = algo /\ h.format = s.header.format
    /\ h.more_sections = s.header.more_sections
    /\ h.num_operations = s.header.num_operations
    /\ h.output_size = s.header.output_size

LEMMA HeaderWithIs ==
    ASSUME NEW s, HeaderIs(s.header), NEW algo \in Algo
    PROVE  /\ HeaderIs([s.header EXCEPT !.compression_algo = algo])
           /\ [s.header EXCEPT !.compression_algo = algo].compression_algo = algo
           /\ [s.header EXCEPT !.compression_algo = algo].format = s.header.format
           /\ [s.header EXCEPT !.compression_algo = algo].more_sections = s.header.more_sections
           /\ [s.header EXCEPT !.compression_algo = algo].num_operations = s.header.num_operations
           /\ [s.header EXCEPT !.compression_algo = algo].num_add_bytes = s.header.num_add_bytes
           /\ [s.header EXCEPT !.compression_algo = algo].output_size = s.header.output_size
<1> DEFINE g == s.header
           h == [g EXCEPT !.compression_algo = algo]
<1>1. g \in SectionHeader
  BY DEF HeaderIs
<1> HIDE DEF g
<1>2. /\ h \in SectionHeader
      /\ h.compression_algo = algo /\ h.format = g.format
      /\ h.more_sections = g.more_sections /\ h.num_operations = g.num_operations
      /\ h.num_add_bytes = g.num_add_bytes /\ h.output_size = g.output_size
  BY <1>1 DEF SectionHeader
<1> HIDE DEF h
<1>3. HeaderIs(h)
  BY <1>2 DEF HeaderIs, g
<1> QED
  BY <1>2, <1>3 DEF g, h

(* Reading the header of a section. *)
LEMMA HeaderStep ==
    ASSUME Len(Source) \in Nat, pos \in Nat, NEW s, HeaderIs(s.header), NEW algo \in Algo,
           PartAt(Source, pos, HeaderOf(s, algo)), ReadHeader
    PROVE  /\ pos' = pos + Len(HeaderOf(s, algo)) /\ pos' <= Len(Source) + 1
           /\ HeaderRead(header', s, algo)
           /\ outer' = IF outer = <<>> /\ algo = 1 THEN <<header'>> ELSE outer
           /\ reader' = IF outer # <<>> \/ algo = 0 THEN "ops"
                        ELSE CASE algo = 1 -> "idle" [] algo = 2 -> "open" [] algo = 3 -> "frame"
           /\ op_buffer' = <<>> /\ cur_addr' = NoAddr
           /\ win_data' = IF outer = <<>> THEN <<>> ELSE win_data
           /\ win_pos' = 1 /\ UNCHANGED done
<1> DEFINE g == [s.header EXCEPT !.compression_algo = algo]
           N == Len(Source)
<1>1. /\ HeaderIs(g) /\ g.compression_algo = algo /\ g.format = s.header.format
      /\ g.more_sections = s.header.more_sections
      /\ g.num_operations = s.header.num_operations /\ g.output_size = s.header.output_size
  BY HeaderWithIs
<1>2. HeaderOf(s, algo) = HeaderFields(g)
  BY DEF HeaderOf
<1> HIDE DEF g
<1> DEFINE L == Len(HeaderFields(g))
           y == AddsIn(g)
           z == LastNumber(g)
           res == [ops |-> g.num_operations, adds |-> y, size |-> z, after |-> pos + L]
<1>3. CanReadHeader
  BY DEF ReadHeader
<1>4. PartAt(Source, pos, HeaderFields(g))
  BY <1>2
<1>5. pos + L <= N + 1 /\ Value(pos) = Control(g).value /\ HeaderRest = {res}
  BY <1>1, <1>3, <1>4, HeaderParse
<1>6. /\ y \in Nat /\ z \in Nat /\ g.num_operations \in Nat /\ g.output_size \in Nat
      /\ g.output_size = IF g.format = "Segregated" THEN wrapping_add(y, z) ELSE z
      /\ g.compression_algo \in Algo /\ g.format \in Format /\ g.more_sections \in BOOLEAN
  BY <1>1, HeaderTypes, SMTT(30)
<1> DEFINE c == Value(pos)
<1>7. c.compression_algo = g.compression_algo /\ c.format = g.format /\ c.more_sections = g.more_sections
  BY <1>5, FieldIs DEF Control
<1>8. res.ops = g.num_operations /\ res.adds = y /\ res.size = z /\ res.after = pos + L
  OBVIOUS
<1> HIDE DEF res, y, z, c, L
<1> DEFINE h == [compression_algo |-> c.compression_algo, format |-> c.format,
                 more_sections |-> c.more_sections, num_operations |-> res.ops,
                 num_add_bytes |-> res.adds,
                 output_size |-> IF c.format = "Segregated"
                                 THEN wrapping_add(res.adds, res.size) ELSE res.size]
           kind == IF outer = <<>> THEN h.compression_algo ELSE 0
<1>9. /\ header' = h
      /\ outer' = IF kind = 1 THEN <<h>> ELSE outer
      /\ reader' = CASE kind = 0 -> "ops" [] kind = 1 -> "idle"
                     [] kind = 2 -> "open" [] kind = 3 -> "frame"
      /\ pos' = res.after
      /\ op_buffer' = <<>> /\ cur_addr' = NoAddr
      /\ win_data' = IF outer = <<>> THEN <<>> ELSE win_data
      /\ win_pos' = 1 /\ UNCHANGED done
  BY <1>5 DEF ReadHeader, c
<1>10. h.compression_algo = algo /\ HeaderRead(h, s, algo)
  <2>1. h \in SectionHeader
    BY <1>6, <1>7, <1>8 DEF SectionHeader
  <2> QED
    BY <1>1, <1>6, <1>7, <1>8, <2>1 DEF HeaderRead
<1> HIDE DEF h
<1>11. /\ outer' = IF outer = <<>> /\ algo = 1 THEN <<header'>> ELSE outer
       /\ reader' = IF outer # <<>> \/ algo = 0 THEN "ops"
                    ELSE CASE algo = 1 -> "idle" [] algo = 2 -> "open" [] algo = 3 -> "frame"
  BY <1>9, <1>10 DEF Algo
<1>12. pos' = pos + L
  BY <1>8, <1>9
<1> QED
  BY <1>2, <1>5, <1>9, <1>10, <1>11, <1>12 DEF L

LEMMA CanReadHeaderAll ==
    ASSUME Len(Source) \in Nat, pos \in Nat, NEW s, HeaderIs(s.header), NEW algo \in Algo,
           PartAt(Source, pos, HeaderOf(s, algo))
    PROVE  CanReadHeader <=> pos + Len(HeaderOf(s, algo)) <= Len(Source) + 1
  BY HeaderWithIs, HeaderParse DEF HeaderOf

(* The sizes in a header add up to a u32, if no more is to be added than is *)
(* put out.                                                                 *)
LEMMA HeaderFitsU32 ==
    ASSUME Len(Source) \in Nat, pos \in Nat, NEW s, HeaderIs(s.header), NEW algo \in Algo,
           PartAt(Source, pos, HeaderOf(s, algo)), CanReadHeader,
           s.header.format = "Segregated" => s.header.num_add_bytes <= s.header.output_size,
           Value(pos).format = "Segregated", NEW rest \in HeaderRest
    PROVE  rest.adds + rest.size \in Nat /\ rest.adds + rest.size < U32_SIZE
<1> DEFINE g == [s.header EXCEPT !.compression_algo = algo]
<1>1. /\ HeaderIs(g) /\ g.format = s.header.format
      /\ g.num_add_bytes = s.header.num_add_bytes /\ g.output_size = s.header.output_size
  BY HeaderWithIs
<1>2. PartAt(Source, pos, HeaderFields(g))
  BY DEF HeaderOf
<1> HIDE DEF g
<1>3. /\ Value(pos) = Control(g).value
      /\ HeaderRest = {[ops |-> g.num_operations, adds |-> AddsIn(g), size |-> LastNumber(g),
                        after |-> pos + Len(HeaderFields(g))]}
  BY <1>1, <1>2, HeaderParse
<1>4. g.format = "Segregated"
  BY <1>3, FieldIs DEF Control
<1> DEFINE a == g.output_size
           b == g.num_add_bytes
<1>5. a \in Nat /\ b \in Nat /\ a < U32_SIZE /\ b < U32_SIZE /\ b <= a
  BY <1>1, <1>4 DEF HeaderIs, SectionHeader
<1>6. rest.adds = b /\ rest.size = wrapping_sub(a, b)
  BY <1>3, <1>4 DEF AddsIn, LastNumber
<1> HIDE DEF a, b
<1>7. b + wrapping_sub(a, b) = a
  BY <1>5, WrappingIs
<1> QED
  BY <1>5, <1>6, <1>7

-----------------------------------------------------------------------------
(* The address registers after the first n operations. *)
Registers(list) ==
    LET after[n \in 0 .. Len(list)] ==
            IF n = 0 THEN NoAddr
            ELSE IF is_copy(list[n])
            THEN [after[n - 1] EXCEPT ![list[n].src] = list[n].addr]
            ELSE after[n - 1]
    IN after

ShapedList(list) == Len(list) \in Nat /\ \A k \in 1 .. Len(list) : Shaped(list[k])

LEMMA RegistersIs ==
    ASSUME NEW list, ShapedList(list)
    PROVE  /\ Registers(list)[0] = NoAddr
           /\ \A k \in 0 .. Len(list) : Registers(list)[k] \in [CopySrc -> Nat]
           /\ \A k \in 1 .. Len(list) :
                 Registers(list)[k] = IF is_copy(list[k])
                                      THEN [Registers(list)[k - 1] EXCEPT ![list[k].src] = list[k].addr]
                                      ELSE Registers(list)[k - 1]
<1> DEFINE n == Len(list)
           S == [CopySrc -> Nat]
           E(k, v) == IF is_copy(list[k]) THEN [v EXCEPT ![list[k].src] = list[k].addr] ELSE v
           G == [k \in 1 .. n |-> [v \in S |-> E(k, v)]]
           Eq(f) == f = [k \in 0 .. n |-> IF k = 0 THEN NoAddr
                                          ELSE IF is_copy(list[k])
                                          THEN [f[k - 1] EXCEPT ![list[k].src] = list[k].addr]
                                          ELSE f[k - 1]]
<1>1. n \in Nat
  BY DEF ShapedList
<1>2. ASSUME NEW k \in 1 .. n, NEW v \in S PROVE E(k, v) \in S
  <2>1. is_copy(list[k]) => list[k].src \in CopySrc /\ list[k].addr \in Nat
    BY DEF ShapedList, Shaped, is_copy, is_add, is_run
  <2> QED
    BY <2>1
<1>3. NoAddr \in S
  BY DEF NoAddr
<1> HIDE DEF S
<1>4. \A k \in 1 .. n, v \in S : G[k][v] = E(k, v) /\ G[k][v] \in S
  BY <1>2
<1> HIDE DEF G, n, E
<1>5. StaysIn(G, 1, n, S)
  BY <1>4 DEF StaysIn
<1>6. PICK f : StepsOn(f, NoAddr, G, n, S)
  BY <1>1, <1>3, <1>5, Recursion
<1>7. f \in [0 .. n -> S] /\ f[0] = NoAddr /\ \A k \in 1 .. n : f[k] = G[k][f[k - 1]]
  BY <1>6 DEF StepsOn
<1>8. \A k \in 1 .. n : f[k - 1] \in S /\ f[k] = E(k, f[k - 1])
  <2> SUFFICES ASSUME NEW k \in 1 .. n PROVE f[k - 1] \in S /\ f[k] = E(k, f[k - 1])
    OBVIOUS
  <2>1. k - 1 \in 0 .. n
    BY <1>1
  <2>2. f[k - 1] \in S
    BY <1>7, <2>1
  <2> QED
    BY <1>4, <1>7, <2>2
<1>9. Eq(f)
  <2>1. \A k \in 0 .. n : k = 0 \/ k \in 1 .. n
    BY <1>1
  <2>2. f = [k \in 0 .. n |-> IF k = 0 THEN NoAddr ELSE E(k, f[k - 1])]
    BY <1>7, <1>8, <2>1
  <2> QED
    BY <2>2 DEF E
<1>10. Eq(CHOOSE g : Eq(g))
  <2> HIDE DEF Eq
  <2> QED
    BY <1>9
<1>11. Registers(list) = CHOOSE g : Eq(g)
  BY DEF Registers, n
<1> DEFINE R == Registers(list)
<1>12. Eq(R)
  BY <1>10, <1>11
<1> HIDE DEF R
<1>13. R = [k \in 0 .. n |-> IF k = 0 THEN NoAddr ELSE E(k, R[k - 1])]
  BY <1>12 DEF E
<1>14. R[0] = NoAddr /\ \A k \in 1 .. n : R[k] = E(k, R[k - 1])
  <2>1. 0 \in 0 .. n /\ \A k \in 1 .. n : k \in 0 .. n /\ k # 0
    BY <1>1
  <2> QED
    BY <1>13, <2>1
<1> DEFINE T == {k \in 0 .. n : R[k] \in S}
<1>15. 0 .. n \subseteq T
  <2>1. 0 \in T
    BY <1>1, <1>3, <1>14
  <2>2. ASSUME NEW k \in 1 .. n, k - 1 \in T PROVE k \in T
    <3>1. E(k, R[k - 1]) \in S
      BY <1>2, <2>2 DEF E, S
    <3>2. k \in 0 .. n
      BY <1>1
    <3> QED
      BY <1>14, <3>1, <3>2
  <2> HIDE DEF T
  <2> QED
    BY <1>1, <2>1, <2>2, UpFrom0
<1> QED
  BY <1>14, <1>15 DEF R, n, E, S

(* The output after the first n operations. *)
Put(op, src, output) == output \o Meaning(op, src, output)

LEMMA OutputAfterIs ==
    ASSUME NEW list, Len(list) \in Nat, NEW src, NEW output
    PROVE  /\ OutputAfter(list, src, output)[0] = output
           /\ \A k \in 1 .. Len(list) :
                 OutputAfter(list, src, output)[k]
                   = Put(list[k], src, OutputAfter(list, src, output)[k - 1])
<1> DEFINE n == Len(list)
           E(k, v) == v \o Meaning(list[k], src, v)
           Eq(f) == f = [k \in 0 .. n |-> IF k = 0 THEN output
                                          ELSE f[k - 1] \o Meaning(list[k], src, f[k - 1])]
           Upto(f, m) == f[0] = output /\ \A k \in 1 .. m : f[k] = E(k, f[k - 1])
           T == {m \in 0 .. n : \E f : Upto(f, m)}
<1>1. n \in Nat
  OBVIOUS
<1> HIDE DEF n, E
<1>2. 0 \in T
  <2> DEFINE f == [k \in {0} |-> output]
  <2>1. f[0] = output
    OBVIOUS
  <2> HIDE DEF f
  <2>2. Upto(f, 0)
    BY <2>1
  <2> QED
    BY <1>1, <2>2
<1>3. ASSUME NEW m \in 1 .. n, m - 1 \in T PROVE m \in T
  <2>1. PICK f : Upto(f, m - 1)
    BY <1>3
  <2> DEFINE g == [k \in 0 .. m |-> IF k = m THEN E(m, f[m - 1]) ELSE f[k]]
  <2>2. g[0] = output
    <3>1. 0 \in 0 .. m /\ 0 # m
      BY <1>1
    <3> QED
      BY <2>1, <3>1
  <2>3. ASSUME NEW k \in 1 .. m PROVE g[k] = E(k, g[k - 1])
    <3>1. k \in 0 .. m /\ k - 1 \in 0 .. m /\ k - 1 # m
      BY <1>1
    <3>2. g[k - 1] = f[k - 1]
      BY <3>1
    <3>3. CASE k = m
      BY <3>1, <3>2, <3>3
    <3>4. CASE k # m
      <4>1. k \in 1 .. m - 1
        BY <1>1, <3>4
      <4>2. f[k] = E(k, f[k - 1])
        BY <2>1, <4>1
      <4>3. g[k] = f[k]
        BY <3>1, <3>4
      <4> QED
        BY <3>2, <4>2, <4>3
    <3> QED
      BY <3>3, <3>4
  <2> HIDE DEF g
  <2>4. Upto(g, m)
    BY <2>2, <2>3
  <2>5. m \in 0 .. n
    BY <1>1
  <2> QED
    BY <2>4, <2>5
<1>4. n \in T
  <2> HIDE DEF T
  <2>1. 0 .. n \subseteq T
    BY <1>1, <1>2, <1>3, UpFrom0
  <2> QED
    BY <1>1, <2>1
<1>5. PICK f : Upto(f, n)
  BY <1>4
<1> DEFINE g == [k \in 0 .. n |-> f[k]]
<1>6. Eq(g)
  <2>1. ASSUME NEW k \in 0 .. n
        PROVE  g[k] = IF k = 0 THEN output ELSE E(k, g[k - 1])
    <3>1. k = 0 \/ (k \in 1 .. n /\ k - 1 \in 0 .. n)
      BY <1>1
    <3> QED
      BY <1>5, <3>1
  <2> HIDE DEF g
  <2>2. g = [k \in 0 .. n |-> g[k]]
    BY DEF g
  <2>3. g = [k \in 0 .. n |-> IF k = 0 THEN output ELSE E(k, g[k - 1])]
    BY <2>1, <2>2
  <2> QED
    BY <2>3 DEF E
<1>7. Eq(CHOOSE h : Eq(h))
  <2> HIDE DEF Eq
  <2> QED
    BY <1>6
<1>8. OutputAfter(list, src, output) = CHOOSE h : Eq(h)
  BY DEF OutputAfter, n
<1> DEFINE R == OutputAfter(list, src, output)
<1>9. Eq(R)
  BY <1>7, <1>8
<1> HIDE DEF R
<1>10. R = [k \in 0 .. n |-> IF k = 0 THEN output ELSE E(k, R[k - 1])]
  BY <1>9 DEF E
<1>11. R[0] = output /\ \A k \in 1 .. n : R[k] = E(k, R[k - 1])
  <2>1. 0 \in 0 .. n /\ \A k \in 1 .. n : k \in 0 .. n /\ k # 0
    BY <1>1
  <2> QED
    BY <1>10, <2>1
<1>12. \A k, v : E(k, v) = Put(list[k], src, v)
  BY DEF E, Put
<1> HIDE DEF E
<1>13. R[0] = output /\ \A k \in 1 .. n : R[k] = Put(list[k], src, R[k - 1])
  BY <1>11, <1>12
<1> QED
  BY <1>13 DEF R, n

-----------------------------------------------------------------------------
(* The fields of a section: what it writes for each operation, and holds back. *)
OpsOf(s) ==
    [k \in 1 .. Len(s.ops) |-> OpFields(s.ops[k], Registers(s.ops)[k - 1], s.header.format)]
HeldOf(s) ==
    [k \in 1 .. Len(s.ops) |-> IF is_add(s.ops[k]) /\ s.header.format = "Segregated"
                               THEN s.ops[k].bytes ELSE <<>>]
Body(s) == Together(OpsOf(s))[Len(s.ops)] \o Bytes(Together(HeldOf(s))[Len(s.ops)])

Formed(s) == HeaderIs(s.header) /\ List(s.ops) /\ ShapedList(s.ops)

LEMMA FormedIs ==
    ASSUME NEW s, Formed(s)
    PROVE  /\ HeaderIs(s.header) /\ ShapedList(s.ops) /\ List(s.ops) /\ Len(s.ops) \in Nat
           /\ s.header.format \in Format
           /\ \A k \in 1 .. Len(s.ops) : Shaped(s.ops[k])
           /\ \A k \in 0 .. Len(s.ops) : Registers(s.ops)[k] \in [CopySrc -> Nat]
<1>1. HeaderIs(s.header) /\ ShapedList(s.ops) /\ List(s.ops)
  BY DEF Formed
<1>2. s.header.format \in Format
  BY <1>1, HeaderTypes
<1>3. \A k \in 0 .. Len(s.ops) : Registers(s.ops)[k] \in [CopySrc -> Nat]
  BY <1>1, RegistersIs
<1> QED
  BY <1>1, <1>2, <1>3 DEF ShapedList

LEMMA SectionParts ==
    ASSUME NEW s, Formed(s)
    PROVE  /\ AreLists(OpsOf(s)) /\ Len(OpsOf(s)) = Len(s.ops)
           /\ \A k \in 1 .. Len(s.ops) :
                 /\ OpsOf(s)[k] = OpFields(s.ops[k], Registers(s.ops)[k - 1], s.header.format)
                 /\ Len(OpsOf(s)[k]) \in Nat /\ Len(OpsOf(s)[k]) >= 1
           /\ \A k \in 0 .. Len(s.ops) : Fields(Together(OpsOf(s))[k])
           /\ AreLists(HeldOf(s)) /\ Len(HeldOf(s)) = Len(s.ops)
           /\ \A k \in 1 .. Len(s.ops) :
                 HeldOf(s)[k] = IF is_add(s.ops[k]) /\ s.header.format = "Segregated"
                                THEN s.ops[k].bytes ELSE <<>>
           /\ \A k \in 0 .. Len(s.ops) : List(Together(HeldOf(s))[k])
           /\ Fields(Body(s)) /\ Len(Body(s)) \in Nat
           /\ Len(Body(s)) = Len(Together(OpsOf(s))[Len(s.ops)]) + Len(Together(HeldOf(s))[Len(s.ops)])
<1> DEFINE n == Len(s.ops)
           O == OpsOf(s)
           H == HeldOf(s)
           reg == Registers(s.ops)
           f == s.header.format
           list == s.ops
<1>1. /\ n \in Nat /\ \A k \in 1 .. n : Shaped(list[k])
      /\ \A k \in 0 .. n : reg[k] \in [CopySrc -> Nat]
  BY FormedIs
<1>2. O = [k \in 1 .. n |-> OpFields(list[k], reg[k - 1], f)]
  BY DEF OpsOf
<1>3. H = [k \in 1 .. n |-> IF is_add(list[k]) /\ f = "Segregated" THEN list[k].bytes ELSE <<>>]
  BY DEF HeldOf
<1> HIDE DEF n, O, H, reg, f, list
<1>4. /\ DOMAIN O = 1 .. n /\ \A k \in 1 .. n : O[k] = OpFields(list[k], reg[k - 1], f)
      /\ O = [k \in 1 .. n |-> O[k]]
  BY <1>2
<1>5. /\ DOMAIN H = 1 .. n
      /\ \A k \in 1 .. n : H[k] = IF is_add(list[k]) /\ f = "Segregated" THEN list[k].bytes ELSE <<>>
      /\ H = [k \in 1 .. n |-> H[k]]
  BY <1>3
<1>6. Len(O) = n
  BY <1>1, <1>4, ListOf
<1>7. Len(H) = n
  BY <1>1, <1>5, ListOf
<1>8. ASSUME NEW k \in 1 .. n PROVE Fields(O[k]) /\ Len(O[k]) \in Nat /\ Len(O[k]) >= 1
  <2>1. Shaped(list[k]) /\ reg[k - 1] \in [CopySrc -> Nat]
    <3>1. k - 1 \in 0 .. n
      BY <1>1
    <3> QED
      BY <1>1, <3>1
  <2> DEFINE x == OpFields(list[k], reg[k - 1], f)
  <2>2. Fields(x) /\ Len(x) \in Nat /\ Len(x) >= 1
    <3> DEFINE u == Len(OpByteAndSize(list[k]))
               v == Len(Additional(list[k], reg[k - 1], f))
    <3>1. Fields(x) /\ Len(x) = u + v /\ u \in Nat /\ u >= 1 /\ v \in Nat
      BY <2>1, OpFieldsAre
    <3> HIDE DEF x, u, v
    <3> QED
      BY <3>1
  <2> QED
    BY <1>4, <2>2
<1>9. AreLists(O) /\ \A k \in 0 .. n : Fields(Together(O)[k])
  BY <1>1, <1>6, <1>8, FieldsJoined
<1>10. ASSUME NEW k \in 1 .. n PROVE List(H[k])
  <2>1. CASE is_add(list[k]) /\ f = "Segregated"
    <3>1. List(list[k].bytes)
      BY <1>1, <2>1 DEF Shaped, is_add, is_run, is_copy
    <3> QED
      BY <1>5, <2>1, <3>1
  <2>2. CASE ~ (is_add(list[k]) /\ f = "Segregated")
    <3>1. H[k] = <<>>
      BY <1>5, <2>2
    <3> QED
      BY <3>1, ListEmpty
  <2> QED
    BY <2>1, <2>2
<1>11. AreLists(H)
  BY <1>1, <1>7, <1>10 DEF AreLists
<1>12. \A k \in 0 .. n : List(Together(H)[k])
  BY <1>7, <1>11, JoinedLists
<1> DEFINE a == Together(O)[n]
           b == Together(H)[n]
<1>13. Fields(a) /\ List(b) /\ Len(a) \in Nat /\ Len(b) \in Nat
  <2>1. n \in 0 .. n
    BY <1>1
  <2> HIDE DEF a, b
  <2> QED
    BY <1>9, <1>12, <2>1, ListLen DEF a, b, Fields
<1> HIDE DEF a, b
<1>14. Fields(Bytes(b)) /\ Len(Bytes(b)) = Len(b)
  BY <1>13, BytesAre
<1>15. Fields(a \o Bytes(b)) /\ Len(a \o Bytes(b)) = Len(a) + Len(Bytes(b))
  BY <1>13, <1>14, FieldsConcat
<1>16. Fields(a \o Bytes(b)) /\ Len(a \o Bytes(b)) = Len(a) + Len(b) /\ Len(a \o Bytes(b)) \in Nat
  BY <1>13, <1>14, <1>15
<1>17. Body(s) = a \o Bytes(b)
  BY DEF Body, O, H, n, a, b
<1> QED
  BY <1>4, <1>5, <1>6, <1>7, <1>8, <1>9, <1>11, <1>12, <1>16, <1>17 DEF n, O, H, reg, f, list, a, b

(* Where its fields are, if the section is there. *)
LEMMA BodyAt ==
    ASSUME NEW s, Formed(s), NEW file, NEW at \in Nat, PartAt(file, at, Body(s))
    PROVE  /\ \A k \in 1 .. Len(s.ops) :
                 PartAt(file, at + Len(Together(OpsOf(s))[k - 1]),
                    OpFields(s.ops[k], Registers(s.ops)[k - 1], s.header.format))
           /\ PartAt(file, at + Len(Together(OpsOf(s))[Len(s.ops)]), Bytes(Together(HeldOf(s))[Len(s.ops)]))
           /\ \A k \in 0 .. Len(s.ops) : Len(Together(OpsOf(s))[k]) \in Nat
           /\ \A k \in 1 .. Len(s.ops) :
                 Len(Together(OpsOf(s))[k])
                   = Len(Together(OpsOf(s))[k - 1])
                     + Len(OpFields(s.ops[k], Registers(s.ops)[k - 1], s.header.format))
<1> DEFINE n == Len(s.ops)
           O == OpsOf(s)
           a == Together(O)[n]
           b == Bytes(Together(HeldOf(s))[n])
<1>1. /\ AreLists(O) /\ Len(O) = n
      /\ \A k \in 1 .. n : O[k] = OpFields(s.ops[k], Registers(s.ops)[k - 1], s.header.format)
      /\ \A k \in 0 .. n : Fields(Together(O)[k])
      /\ \A k \in 0 .. n : List(Together(HeldOf(s))[k])
  BY SectionParts
<1>2. n \in Nat /\ n \in 0 .. n
  BY FormedIs
<1>3. Fields(b)
  BY <1>1, <1>2, BytesAre
<1>4. Body(s) = a \o b
  BY DEF Body
<1>5. PartAt(file, at, a \o b) /\ at \in Int
  BY <1>4
<1>6. List(a) /\ List(b)
  BY <1>1, <1>2, <1>3 DEF Fields
<1>7. PartAt(file, at, a) /\ PartAt(file, at + Len(a), b)
  <2> HIDE DEF a, b
  <2> QED
    BY <1>5, <1>6, AtConcat
<1> HIDE DEF O, n
<1>8. \A k \in 1 .. n : PartAt(file, at + Len(Together(O)[k - 1]), O[k])
  <2>1. PartAt(file, at, Together(O)[Len(O)]) /\ at \in Int
    BY <1>1, <1>7
  <2>2. \A k \in 1 .. Len(O) : PartAt(file, at + Len(Together(O)[k - 1]), O[k])
    BY <1>1, <2>1, AtJoined
  <2> QED
    BY <1>1, <2>2
<1>9. \A k \in 0 .. n : Len(Together(O)[k]) \in Nat
  BY <1>1, JoinedLists
<1>10. \A k \in 1 .. n : Len(Together(O)[k]) = Len(Together(O)[k - 1]) + Len(O[k])
  BY <1>1, JoinedLists
<1> QED
  BY <1>1, <1>7, <1>8, <1>9, <1>10 DEF O, n

(* What is held back has the size of the Adds. *)
LEMMA AddsAmongIs ==
    ASSUME NEW list, ShapedList(list)
    PROVE  /\ AddsAmong(list, 0) = 0
           /\ \A k \in 0 .. Len(list) : AddsAmong(list, k) \in Nat
           /\ \A k \in 1 .. Len(list) :
                 AddsAmong(list, k) = AddsAmong(list, k - 1)
                                      + (IF is_add(list[k]) THEN Len(list[k].bytes) ELSE 0)
<1> DEFINE n == Len(list)
           size == [k \in 1 .. n |-> IF is_add(list[k]) THEN oal(list[k]) ELSE 0]
<1>1. n \in Nat /\ \A k \in 1 .. n : Shaped(list[k])
  BY DEF ShapedList
<1>2. \A k \in 1 .. n : size[k] = IF is_add(list[k]) THEN oal(list[k]) ELSE 0
  OBVIOUS
<1>3. \A k : AddsAmong(list, k) = RunningSum(size, n)[k]
  BY DEF AddsAmong
<1> HIDE DEF size, n
<1>4. \A k \in 1 .. n : /\ is_add(list[k]) => oal(list[k]) = Len(list[k].bytes)
                        /\ oal(list[k]) \in 0 .. MAX_INST_SIZE
  BY <1>1, ShapedIs
<1>5. \A k \in 1 .. n : size[k] \in Nat /\ size[k] = IF is_add(list[k]) THEN Len(list[k].bytes) ELSE 0
  BY <1>2, <1>4, LimitsAssumption
<1>6. /\ RunningSum(size, n) \in [0 .. n -> Nat] /\ RunningSum(size, n)[0] = 0
      /\ \A k \in 1 .. n : RunningSum(size, n)[k] = RunningSum(size, n)[k - 1] + size[k]
  BY <1>1, <1>5, RunningSumIs
<1> DEFINE R == RunningSum(size, n)
<1> HIDE DEF R
<1>7. \A k \in 0 .. n : R[k] \in Nat
  BY <1>6 DEF R
<1>8. R[0] = 0 /\ \A k \in 1 .. n : R[k] = R[k - 1] + size[k]
  BY <1>6 DEF R
<1> QED
  BY <1>3, <1>5, <1>7, <1>8 DEF n, R

(* The Adds are among what is put out. *)
LEMMA AddsWithin ==
    ASSUME NEW list, ShapedList(list)
    PROVE  AddsAmong(list, Len(list)) <= SumOal(list)
<1> DEFINE n == Len(list)
           size == [k \in 1 .. n |-> oal(list[k])]
           R == RunningSum(size, n)
           A(k) == AddsAmong(list, k)
           T == {k \in 0 .. n : A(k) <= R[k]}
<1>1. n \in Nat /\ \A k \in 1 .. n : Shaped(list[k])
  BY DEF ShapedList
<1>2. \A k \in 1 .. n : size[k] = oal(list[k])
  OBVIOUS
<1>3. SumOal(list) = R[n]
  BY DEF SumOal
<1>4. /\ A(0) = 0 /\ \A k \in 0 .. n : A(k) \in Nat
      /\ \A k \in 1 .. n :
            A(k) = A(k - 1) + (IF is_add(list[k]) THEN Len(list[k].bytes) ELSE 0)
  BY AddsAmongIs
<1> HIDE DEF size, n, A
<1>5. \A k \in 1 .. n : /\ is_add(list[k]) => oal(list[k]) = Len(list[k].bytes)
                        /\ oal(list[k]) \in 0 .. MAX_INST_SIZE
  BY <1>1, ShapedIs
<1>6. \A k \in 1 .. n : size[k] \in Nat
  BY <1>2, <1>5, LimitsAssumption
<1>7. /\ R \in [0 .. n -> Nat] /\ R[0] = 0
      /\ \A k \in 1 .. n : R[k] = R[k - 1] + size[k]
  BY <1>1, <1>6, RunningSumIs
<1> HIDE DEF R
<1>8. 0 \in T
  BY <1>1, <1>4, <1>7
<1>9. ASSUME NEW k \in 1 .. n, k - 1 \in T PROVE k \in T
  <2> DEFINE a == A(k - 1)
             b == A(k)
             p == R[k - 1]
             q == R[k]
             o == size[k]
  <2>1. k \in 0 .. n /\ k - 1 \in 0 .. n
    BY <1>1
  <2>2. a \in Nat /\ p \in Nat /\ o \in Nat /\ q = p + o /\ a <= p
    BY <1>4, <1>6, <1>7, <1>9, <2>1
  <2>5. b = a + (IF is_add(list[k]) THEN Len(list[k].bytes) ELSE 0)
    BY <1>4
  <2>6. is_add(list[k]) => o = Len(list[k].bytes)
    BY <1>2, <1>5
  <2> HIDE DEF a, b, p, q, o
  <2>3. b = a + o \/ b = a
    BY <2>2, <2>5, <2>6
  <2>4. b <= q
    BY <2>2, <2>3
  <2> QED
    BY <2>1, <2>4 DEF b, q
<1>10. n \in T
  <2>1. 0 .. n \subseteq T
    <3> HIDE DEF T
    <3> QED
      BY <1>1, <1>8, <1>9, UpFrom0
  <2> QED
    BY <1>1, <2>1
<1> QED
  BY <1>3, <1>10 DEF n, A

LEMMA HeldLen ==
    ASSUME NEW s, Formed(s)
    PROVE  \A k \in 0 .. Len(s.ops) :
              Len(Together(HeldOf(s))[k]) = IF s.header.format = "Segregated"
                                          THEN AddsAmong(s.ops, k) ELSE 0
<1> DEFINE n == Len(s.ops)
           f == s.header.format
           H == HeldOf(s)
           list == s.ops
           L(k) == Len(Together(H)[k])
           T == {k \in 0 .. n : L(k) = IF f = "Segregated" THEN AddsAmong(list, k) ELSE 0}
<1>1. n \in Nat /\ ShapedList(list)
  BY FormedIs
<1>2. /\ AreLists(H) /\ Len(H) = n
      /\ \A k \in 1 .. n : H[k] = IF is_add(list[k]) /\ f = "Segregated"
                                  THEN list[k].bytes ELSE <<>>
  BY SectionParts
<1>3. L(0) = 0 /\ \A k \in 1 .. n : L(k) = L(k - 1) + Len(H[k])
  BY <1>2, JoinedLists
<1>4. /\ AddsAmong(list, 0) = 0
      /\ \A k \in 1 .. n : AddsAmong(list, k) = AddsAmong(list, k - 1)
                                      + (IF is_add(list[k]) THEN Len(list[k].bytes) ELSE 0)
  BY <1>1, AddsAmongIs
<1> HIDE DEF n, f, H, list, L
<1>5. 0 \in T
  BY <1>1, <1>3, <1>4
<1>6. ASSUME NEW k \in 1 .. n, k - 1 \in T PROVE k \in T
  <2>1. k \in 0 .. n
    BY <1>1
  <2>2. L(k) = L(k - 1) + Len(H[k])
    BY <1>3
  <2>3. L(k - 1) = IF f = "Segregated" THEN AddsAmong(list, k - 1) ELSE 0
    BY <1>6
  <2>4. CASE f = "Segregated"
    <3>1. Len(H[k]) = IF is_add(list[k]) THEN Len(list[k].bytes) ELSE 0
      BY <1>2, <2>4, ListEmpty
    <3> QED
      BY <1>4, <2>1, <2>2, <2>3, <2>4, <3>1
  <2>5. CASE f # "Segregated"
    <3>1. Len(H[k]) = 0
      BY <1>2, <2>5, ListEmpty
    <3> QED
      BY <2>1, <2>2, <2>3, <2>5, <3>1
  <2> QED
    BY <2>4, <2>5
<1>7. 0 .. n \subseteq T
  <2> HIDE DEF T
  <2> QED
    BY <1>1, <1>5, <1>6, UpFrom0
<1> QED
  BY <1>7 DEF n, f, H, list, L

(* Operations that are not filled yet have their sizes. *)
LEMMA SameSizes ==
    ASSUME NEW list, NEW more, Len(list) = Len(more),
           \A k \in 1 .. Len(list) : (is_add(list[k]) <=> is_add(more[k])) /\ oal(list[k]) = oal(more[k])
    PROVE  SumOal(list) = SumOal(more) /\ \A n : AddsAmong(list, n) = AddsAmong(more, n)
<1> DEFINE n == Len(list)
<1>1. [k \in 1 .. n |-> oal(list[k])] = [k \in 1 .. n |-> oal(more[k])]
  OBVIOUS
<1>2. [k \in 1 .. n |-> IF is_add(list[k]) THEN oal(list[k]) ELSE 0]
        = [k \in 1 .. n |-> IF is_add(more[k]) THEN oal(more[k]) ELSE 0]
  OBVIOUS
<1>3. Len(more) = n
  OBVIOUS
<1> HIDE DEF n
<1> QED
  BY <1>1, <1>2, <1>3 DEF SumOal, AddsAmong, n

LEMMA UnfilledIs ==
    ASSUME NEW op, Shaped(op), NEW format
    PROVE  /\ is_add(Unfilled(op, format)) <=> is_add(op)
           /\ oal(Unfilled(op, format)) = oal(op)
           /\ is_add(op) => Len(Unfilled(op, format).bytes) = Len(op.bytes)
           /\ format # "Segregated" \/ ~ is_add(op) => Unfilled(op, format) = op
<1>1. CASE is_add(op) /\ format = "Segregated"
  <2> DEFINE b == [i \in 1 .. Len(op.bytes) |-> "zero"]
             u == Unfilled(op, format)
  <2>1. u = Add(b)
    BY <1>1 DEF Unfilled
  <2>2. Len(op.bytes) \in Nat
    BY <1>1, ListLen DEF Shaped, is_add, is_run, is_copy
  <2>3. Len(b) = Len(op.bytes)
    BY <2>2, ListOf
  <2> HIDE DEF b, u
  <2>4. is_add(u) /\ u.bytes = b
    BY <2>1 DEF Add, is_add
  <2>5. oal(u) = oal(op)
    BY <1>1, <2>3, <2>4 DEF oal
  <2> QED
    BY <1>1, <2>3, <2>4, <2>5 DEF u
<1>2. CASE ~ (is_add(op) /\ format = "Segregated")
  <2>1. Unfilled(op, format) = op
    BY <1>2 DEF Unfilled
  <2> QED
    BY <1>2, <2>1
<1> QED
  BY <1>1, <1>2

(* The bytes held back go to the Adds they came from. *)
LEMMA FilledIs ==
    ASSUME NEW s, Formed(s), s.header.format = "Segregated",
           Len(op_buffer) = Len(s.ops), List(op_buffer),
           \A i \in 1 .. Len(op_buffer) : op_buffer[i] = Unfilled(s.ops[i], s.header.format),
           Len(Source) \in Nat, Here \in Nat,
           PartAt(Source, Here, Bytes(Together(HeldOf(s))[Len(s.ops)]))
    PROVE  /\ AddLen = Len(Together(HeldOf(s))[Len(s.ops)])
           /\ FieldsAre([i \in 1 .. AddLen |-> "byte"], Here) <=> Here + AddLen <= Len(Source) + 1
           /\ Here + AddLen <= Len(Source) + 1 => Filled = s.ops
<1> DEFINE n == Len(s.ops)
           list == s.ops
           buf == op_buffer
           J == Together(HeldOf(s))
           H == HeldOf(s)
           bytes == J[n]
           N == Len(Source)
           at == Here
<1>1. n \in Nat /\ ShapedList(list) /\ \A k \in 1 .. n : Shaped(list[k])
  BY FormedIs
<1>2. Len(buf) = n /\ \A k \in 1 .. n : buf[k] = Unfilled(list[k], "Segregated")
  OBVIOUS
<1>3. /\ AreLists(H) /\ Len(H) = n
      /\ \A k \in 1 .. n : H[k] = IF is_add(list[k]) THEN list[k].bytes ELSE <<>>
      /\ \A k \in 0 .. n : List(J[k])
  BY SectionParts
<1>4. \A k \in 0 .. n : Len(J[k]) = AddsAmong(list, k)
  BY HeldLen
<1>0. List(list)
  BY DEF Formed
<1>5. N \in Nat /\ at \in Nat /\ PartAt(Source, at, Bytes(bytes))
  OBVIOUS
<1> HIDE DEF n, list, buf, J, H, bytes, N, at
<1>6. \A k \in 1 .. n : /\ (is_add(buf[k]) <=> is_add(list[k])) /\ oal(buf[k]) = oal(list[k])
                        /\ is_add(list[k]) => Len(buf[k].bytes) = Len(list[k].bytes)
                        /\ ~ is_add(list[k]) => buf[k] = list[k]
  BY <1>1, <1>2, UnfilledIs
<1>7. \A k : AddsAmong(buf, k) = AddsAmong(list, k)
  <2>1. Len(buf) = Len(list)
    BY <1>2 DEF n, list
  <2> QED
    BY <1>2, <1>6, <2>1, SameSizes
<1>8. n \in 0 .. n
  BY <1>1
<1>9. AddLen = Len(bytes)
  BY <1>2, <1>4, <1>7, <1>8 DEF AddLen, bytes, buf
<1>10. List(bytes)
  BY <1>3, <1>8 DEF bytes
<1>11. /\ FieldsAre([i \in 1 .. Len(bytes) |-> "byte"], at) <=> at + Len(bytes) <= N + 1
       /\ at + Len(bytes) <= N + 1 => \A i \in 1 .. Len(bytes) : Value(at + i - 1) = bytes[i]
  BY <1>5, <1>10, BytesThere DEF N
<1>12. ASSUME at + Len(bytes) <= N + 1 PROVE Filled = list
  <2> DEFINE from(i) == at - 1 + AddsAmong(buf, i - 1)
             F == [i \in 1 .. n |->
                     IF is_add(buf[i])
                     THEN Add([j \in 1 .. Len(buf[i].bytes) |-> Value(from(i) + j)])
                     ELSE buf[i]]
  <2>1. Filled = F
    BY <1>2 DEF Filled, at, buf
  <2>2. \A k \in 1 .. n : PartAt(bytes, 1 + Len(J[k - 1]), H[k])
    <3>1. Together(H)[Len(H)] = bytes
      BY <1>3 DEF bytes, J, H
    <3>2. PartAt(bytes, 1, Together(H)[Len(H)])
      BY <1>10, <3>1, AtSelf
    <3> DEFINE one == 1
    <3>4. AreLists(H) /\ one \in Int /\ PartAt(bytes, one, Together(H)[Len(H)])
      BY <1>3, <3>2
    <3> HIDE DEF one
    <3>5. \A k \in 1 .. Len(H) : PartAt(bytes, one + Len(Together(H)[k - 1]), H[k])
      BY <3>4, AtJoined
    <3>3. \A k \in 1 .. Len(H) : PartAt(bytes, 1 + Len(Together(H)[k - 1]), H[k])
      BY <3>5 DEF one
    <3> QED
      BY <1>3, <3>3 DEF J, H
  <2>3. /\ \A k \in 0 .. n : Len(J[k]) \in Nat
        /\ \A k \in 1 .. n : Len(J[k]) = Len(J[k - 1]) + Len(H[k])
    BY <1>3, JoinedLists DEF J, H
  <2>4. \A k \in 0 .. n : Len(J[k]) <= Len(bytes)
    <3> SUFFICES ASSUME NEW k \in 0 .. n PROVE Len(J[k]) <= Len(bytes)
      OBVIOUS
    <3>1. k \in 0 .. Len(H) /\ n \in 0 .. Len(H) /\ k <= n
      BY <1>3, <1>8
    <3>2. Len(Together(H)[k]) <= Len(Together(H)[n])
      BY <1>3, <3>1, JoinedGrows
    <3> QED
      BY <3>2 DEF J, H, bytes
  <2>5. ASSUME NEW i \in 1 .. n, is_add(list[i]), NEW j \in 1 .. Len(list[i].bytes)
        PROVE  Value(from(i) + j) = list[i].bytes[j]
    <3> DEFINE m == Len(J[i - 1]) + j
    <3>1. H[i] = list[i].bytes /\ i - 1 \in 0 .. n /\ i \in 0 .. n
      BY <1>1, <1>3, <2>5
    <3>2. Len(J[i]) = Len(J[i - 1]) + Len(list[i].bytes) /\ Len(J[i]) <= Len(bytes)
          /\ Len(J[i]) \in Nat /\ Len(J[i - 1]) \in Nat
      BY <2>3, <2>4, <3>1
    <3>3. Len(list[i].bytes) \in Nat
      <4>1. List(list[i].bytes)
        BY <1>1, <2>5 DEF Shaped, is_add, is_run, is_copy
      <4> QED
        BY <4>1, ListLen
    <3>4. Len(bytes) \in Nat
      BY <1>10, ListLen
    <3>5. m \in 1 .. Len(bytes)
      <4> DEFINE p == Len(J[i - 1])
                 q == Len(list[i].bytes)
                 r == Len(bytes)
      <4>1. p \in Nat /\ q \in Nat /\ r \in Nat /\ p + q <= r /\ j \in 1 .. q /\ m = p + j
        BY <3>2, <3>3, <3>4
      <4> HIDE DEF p, q, r, m
      <4>2. m \in 1 .. r
        BY <4>1
      <4> QED
        BY <4>2 DEF r
    <3>6. bytes[m] = list[i].bytes[j]
      <4>1. PartAt(bytes, 1 + Len(J[i - 1]), list[i].bytes)
        BY <2>2, <3>1
      <4>2. (1 + Len(J[i - 1])) + j - 1 = m
        BY <3>2
      <4>3. bytes[(1 + Len(J[i - 1])) + j - 1] = list[i].bytes[j]
        BY <3>5, <4>1, <4>2 DEF PartAt
      <4> QED
        BY <4>2, <4>3
    <3>7. from(i) = at - 1 + Len(J[i - 1])
      BY <1>4, <1>7, <3>1
    <3>8. from(i) + j = at + m - 1
      BY <1>5, <3>2, <3>7
    <3>9. Value(at + m - 1) = bytes[m]
      BY <1>11, <1>12, <3>5
    <3> HIDE DEF from, m
    <3> QED
      BY <3>6, <3>8, <3>9
  <2>6. ASSUME NEW i \in 1 .. n PROVE F[i] = list[i]
    <3>1. F[i] = IF is_add(buf[i]) THEN Add([j \in 1 .. Len(buf[i].bytes) |-> Value(from(i) + j)])
                 ELSE buf[i]
      OBVIOUS
    <3> HIDE DEF F, from
    <3>2. CASE is_add(list[i])
      <4>1. list[i] = Add(list[i].bytes) /\ List(list[i].bytes)
        BY <1>1, <3>2 DEF Shaped, is_add, is_run, is_copy
      <4>2. list[i].bytes = [j \in 1 .. Len(list[i].bytes) |-> list[i].bytes[j]]
        BY <4>1, ListFun
      <4>3. [j \in 1 .. Len(list[i].bytes) |-> Value(from(i) + j)]
              = [j \in 1 .. Len(list[i].bytes) |-> list[i].bytes[j]]
        BY <2>5, <3>2
      <4> DEFINE b == list[i].bytes
                 g == [j \in 1 .. Len(b) |-> Value(from(i) + j)]
      <4>4. g = b
        BY <4>2, <4>3
      <4>5. F[i] = Add(g)
        BY <1>6, <3>1, <3>2
      <4> HIDE DEF g, b
      <4> QED
        BY <4>1, <4>4, <4>5 DEF b
    <3>3. CASE ~ is_add(list[i])
      BY <1>6, <3>1, <3>3
    <3> QED
      BY <3>2, <3>3
  <2>7. DOMAIN F = 1 .. n /\ F = [i \in 1 .. n |-> F[i]]
    OBVIOUS
  <2> HIDE DEF F
  <2>8. list = [i \in 1 .. n |-> list[i]]
    BY <1>0, ListFun DEF n, list
  <2>9. F = list
    BY <2>6, <2>7, <2>8
  <2> QED
    BY <2>1, <2>9
<1> QED
  BY <1>9, <1>11, <1>12 DEF bytes, J, H, n, list, at, N

-----------------------------------------------------------------------------
(* The nested patch that encode makes of data. *)
LEMMA AtJoinedOne ==
    ASSUME NEW items, AreLists(items), NEW s, PartAt(s, 1, Together(items)[Len(items)])
    PROVE  \A k \in 1 .. Len(items) : PartAt(s, 1 + Len(Together(items)[k - 1]), items[k])
<1> DEFINE one == 1
<1>1. one \in Int /\ PartAt(s, one, Together(items)[Len(items)])
  OBVIOUS
<1> HIDE DEF one
<1>2. \A k \in 1 .. Len(items) : PartAt(s, one + Len(Together(items)[k - 1]), items[k])
  BY <1>1, AtJoined
<1> QED
  BY <1>2 DEF one

LEMMA Times ==
    ASSUME NEW a \in Nat, NEW b \in Nat, NEW c \in Nat, a <= b
    PROVE  a * c <= b * c /\ a * c \in Nat /\ b * c \in Nat
<1> DEFINE d == b - a
<1>1. d \in Nat /\ b = a + d
  OBVIOUS
<1> HIDE DEF d
<1>2. (a + d) * c = a * c + d * c
  BY <1>1
<1>3. a * c \in Nat /\ d * c \in Nat
  BY <1>1
<1>4. b * c = a * c + d * c
  BY <1>1, <1>2
<1> QED
  BY <1>3, <1>4

LEMMA TimesNext ==
    ASSUME NEW a \in Nat, NEW c \in Nat
    PROVE  (a + 1) * c = a * c + c /\ a * c \in Nat
OBVIOUS

LEMMA DivIs ==
    ASSUME NEW a \in Nat, NEW u \in Nat \ {0}
    PROVE  a \div u \in Nat /\ (a \div u) * u <= a /\ a < (a \div u) * u + u
<1> DEFINE q == a \div u
           r == a % u
<1>1. q \in Int /\ r \in 0 .. u - 1 /\ a = u * q + r
  OBVIOUS
<1> HIDE DEF q, r
<1>2. u * q = q * u
  BY <1>1
<1>3. q >= 0
  <2> SUFFICES ASSUME q <= -1 PROVE FALSE
    BY <1>1
  <2>1. u * q <= u * (-1)
    BY <1>1
  <2> QED
    BY <1>1, <2>1
<1> QED
  BY <1>1, <1>2, <1>3 DEF q

LEMMA PiecesIs ==
    ASSUME NEW n \in Nat, NEW u \in Nat \ {0}
    PROVE  /\ Pieces(n, u) \in Nat /\ n <= Pieces(n, u) * u
           /\ n = 0 => Pieces(n, u) = 0
           /\ n > 0 => Pieces(n, u) > 0 /\ (Pieces(n, u) - 1) * u < n
<1> DEFINE p == Pieces(n, u)
<1>1. n + u - 1 \in Nat
  OBVIOUS
<1>2. p \in Nat /\ p * u <= n + u - 1 /\ n + u - 1 < p * u + u
  BY <1>1, DivIs DEF Pieces
<1> HIDE DEF p
<1>3. p * u \in Nat
  BY <1>2
<1>4. n <= p * u
  BY <1>2, <1>3
<1>5. ASSUME n = 0 PROVE p = 0
  <2> SUFFICES ASSUME p >= 1 PROVE FALSE
    BY <1>2
  <2>1. 1 * u <= p * u
    BY <1>2, Times
  <2> QED
    BY <1>2, <1>5, <2>1
<1>6. ASSUME n > 0 PROVE p > 0 /\ (p - 1) * u < n
  <2>1. p > 0
    <3> SUFFICES ASSUME p = 0 PROVE FALSE
      BY <1>2
    <3>1. p * u = 0
      OBVIOUS
    <3> QED
      BY <1>4, <1>6, <3>1
  <2>2. p - 1 \in Nat /\ (p - 1) + 1 = p
    BY <1>2, <2>1
  <2>3. p * u = (p - 1) * u + u /\ (p - 1) * u \in Nat
    BY <2>2, TimesNext
  <2> QED
    BY <1>2, <2>1, <2>3
<1> QED
  BY <1>2, <1>4, <1>5, <1>6 DEF p

LEMMA SegmentIs ==
    /\ MAX_INST_SIZE \in Nat \ {0} /\ SegmentSize \in Nat \ {0}
    /\ SegmentSize = (MAX_WIN_SIZE \div MAX_INST_SIZE) * MAX_INST_SIZE
    /\ MAX_WIN_SIZE \div MAX_INST_SIZE \in Nat /\ MAX_INST_SIZE <= SegmentSize
<1> DEFINE M == MAX_INST_SIZE
           W == MAX_WIN_SIZE
           q == W \div M
<1>1. M \in Nat \ {0} /\ W \in Nat /\ M <= W
  BY LimitsAssumption, WriterAssumption
<1>2. q \in Nat /\ W < q * M + M
  BY <1>1, DivIs
<1>3. SegmentSize = M * q
  BY DEF SegmentSize
<1> HIDE DEF M, W, q
<1>4. M * q = q * M
  BY <1>1, <1>2
<1>5. q >= 1
  <2> SUFFICES ASSUME q = 0 PROVE FALSE
    BY <1>2
  <2>1. q * M = 0
    BY <1>1
  <2> QED
    BY <1>1, <1>2, <2>1
<1>6. 1 * M <= q * M /\ q * M \in Nat
  BY <1>1, <1>2, <1>5, Times
<1>7. 1 * M = M
  BY <1>1
<1>8. M <= q * M /\ q * M # 0
  BY <1>1, <1>6, <1>7
<1> QED
  BY <1>1, <1>2, <1>3, <1>4, <1>6, <1>8 DEF M, W, q

(* What one of its operations stands for. *)
LEMMA NestedOpIs ==
    ASSUME NEW data, Fields(data), NEW f \in Nat, NEW t \in Nat, f <= t, t <= Len(data),
           t - f <= MAX_INST_SIZE, f = 0 \/ MAX_INST_SIZE <= f
    PROVE  /\ Shaped(NestedOp(data, f, t)) /\ oal(NestedOp(data, f, t)) = t - f
           /\ is_copy(NestedOp(data, f, t)) => NestedOp(data, f, t).addr = 0
           /\ SubSeq(data, 1, f) \o Meaning(NestedOp(data, f, t), <<>>, SubSeq(data, 1, f))
                = SubSeq(data, 1, t)
<1> DEFINE op == NestedOp(data, f, t)
           out == SubSeq(data, 1, f)
           bytes == SubSeq(data, f + 1, t)
           all == SubSeq(data, 1, t)
           same(i) == bytes[i].kind = data[i].kind /\ bytes[i].value = data[i].value
           rep == f > 0 /\ \A i \in 1 .. t - f : same(i)
           M == MAX_INST_SIZE
<1>1. List(data) /\ Len(data) \in Nat /\ \A i \in 1 .. Len(data) : IsField(data[i])
  BY ListLen DEF Fields
<1>2. M \in Nat
  BY LimitsAssumption
<1>3. /\ List(out) /\ Len(out) = f /\ \A i \in 1 .. f : out[i] = data[i]
  <2>1. 1 \in 1 .. Len(data) + 1 /\ f \in 1 - 1 .. Len(data) /\ f - 1 + 1 = f
        /\ \A i \in 1 .. f : 1 + i - 1 = i
    BY <1>1
  <2>2. /\ List(out) /\ Len(out) = f - 1 + 1
        /\ \A i \in 1 .. f - 1 + 1 : out[i] = data[1 + i - 1]
    BY <1>1, <2>1, ListSub
  <2> QED
    BY <2>1, <2>2
<1>4. /\ List(all) /\ Len(all) = t /\ \A i \in 1 .. t : all[i] = data[i]
  <2>1. 1 \in 1 .. Len(data) + 1 /\ t \in 1 - 1 .. Len(data) /\ t - 1 + 1 = t
        /\ \A i \in 1 .. t : 1 + i - 1 = i
    BY <1>1
  <2>2. /\ List(all) /\ Len(all) = t - 1 + 1
        /\ \A i \in 1 .. t - 1 + 1 : all[i] = data[1 + i - 1]
    BY <1>1, <2>1, ListSub
  <2> QED
    BY <2>1, <2>2
<1>5. /\ List(bytes) /\ Len(bytes) = t - f /\ \A i \in 1 .. t - f : bytes[i] = data[f + i]
  <2>1. f + 1 \in 1 .. Len(data) + 1 /\ t \in (f + 1) - 1 .. Len(data) /\ t - (f + 1) + 1 = t - f
        /\ \A i \in 1 .. t - f : (f + 1) + i - 1 = f + i
    BY <1>1
  <2>2. /\ List(bytes) /\ Len(bytes) = t - (f + 1) + 1
        /\ \A i \in 1 .. t - (f + 1) + 1 : bytes[i] = data[(f + 1) + i - 1]
    BY <1>1, <2>1, ListSub, ZenonT(40)
  <2> QED
    BY <2>1, <2>2
<1>6. op = IF rep THEN Copy("Output", 0, t - f) ELSE Add(bytes)
  BY DEF NestedOp
<1> HIDE DEF op, out, bytes, all, M
<1>7. /\ Shaped(op) /\ oal(op) = t - f
      /\ is_copy(op) => op.addr = 0
      /\ Meaning(op, <<>>, out) = bytes
  <2>1. CASE rep
    <3>0. op = Copy("Output", 0, t - f)
      BY <1>6, <2>1
    <3>1. op.op = "Copy" /\ op.src = "Output" /\ op.addr = 0 /\ op.len = t - f
      BY <3>0 DEF Copy
    <3>2. is_copy(op) /\ ~ is_add(op) /\ ~ is_run(op)
      BY <3>1 DEF is_copy, is_add, is_run
    <3>3. t - f \in 0 .. MAX_INST_SIZE
      BY <1>2 DEF M
    <3>4. Shaped(op)
      BY <3>0, <3>1, <3>2, <3>3 DEF Shaped, CopySrc
    <3>5. oal(op) = t - f
      BY <3>1, <3>2 DEF oal
    <3> DEFINE cut == SubSeq(out, 1, t - f)
    <3>6. Meaning(op, <<>>, out) = cut
      <4>1. op.addr + 1 = 1 /\ op.addr + op.len = t - f
        BY <3>1
      <4>2. Meaning(op, <<>>, out) = SubSeq(out, op.addr + 1, op.addr + op.len)
        BY <3>1, <3>2 DEF Meaning, CopiedFrom
      <4> QED
        BY <4>1, <4>2
    <3>7. M <= f /\ t - f <= M
      BY <2>1 DEF M
    <3>8. List(cut) /\ Len(cut) = t - f /\ \A i \in 1 .. t - f : cut[i] = out[i]
      <4>1. 1 \in 1 .. Len(out) + 1 /\ t - f \in 1 - 1 .. Len(out) /\ (t - f) - 1 + 1 = t - f
            /\ \A i \in 1 .. t - f : 1 + i - 1 = i
        BY <1>2, <1>3, <3>7
      <4>2. /\ List(cut) /\ Len(cut) = (t - f) - 1 + 1
            /\ \A i \in 1 .. (t - f) - 1 + 1 : cut[i] = out[1 + i - 1]
        BY <1>3, <4>1, ListSub
      <4> QED
        BY <4>1, <4>2
    <3> HIDE DEF cut
    <3>9. ASSUME NEW i \in 1 .. t - f PROVE cut[i] = bytes[i]
      <4>1. i \in 1 .. f /\ i \in 1 .. Len(data) /\ f + i \in 1 .. Len(data)
        BY <1>1, <1>2, <3>7
      <4>2. cut[i] = data[i] /\ bytes[i] = data[f + i] /\ IsField(data[i]) /\ IsField(data[f + i])
        BY <1>1, <1>3, <1>5, <3>8, <4>1
      <4>3. data[f + i].kind = data[i].kind /\ data[f + i].value = data[i].value
        BY <2>1, <4>2
      <4> QED
        BY <4>2, <4>3 DEF IsField
    <3>10. cut = bytes
      BY <1>5, <3>8, <3>9, ListEqual
    <3> QED
      BY <3>1, <3>4, <3>5, <3>6, <3>10
  <2>2. CASE ~ rep
    <3>1. op = Add(bytes)
      BY <1>6, <2>2
    <3>2. is_add(op) /\ ~ is_copy(op) /\ op.bytes = bytes
      BY <3>1 DEF Add, is_add, is_copy
    <3>3. Shaped(op)
      BY <1>5, <3>1, <3>2 DEF Shaped
    <3>4. oal(op) = t - f
      BY <1>5, <3>2, <3>3, ShapedIs
    <3>5. Meaning(op, <<>>, out) = bytes
      BY <3>2 DEF Meaning
    <3> QED
      BY <3>2, <3>3, <3>4, <3>5
  <2> QED
    BY <2>1, <2>2
<1>8. out \o bytes = all
  <2> DEFINE c == out \o bytes
  <2>1. /\ List(c) /\ Len(c) = Len(out) + Len(bytes)
        /\ \A i \in 1 .. Len(out) : c[i] = out[i]
        /\ \A i \in 1 .. Len(bytes) : c[Len(out) + i] = bytes[i]
    <3>1. List(out) /\ List(bytes)
      BY <1>3, <1>5
    <3> QED
      BY <3>1, ListConcat
  <2> HIDE DEF c
  <2>2. Len(c) = t
    BY <1>3, <1>5, <2>1
  <2>3. ASSUME NEW i \in 1 .. t PROVE c[i] = all[i]
    <3>1. CASE i <= f
      <4>1. i \in 1 .. f
        BY <3>1
      <4> QED
        BY <1>3, <1>4, <2>1, <4>1
    <3>2. CASE ~ (i <= f)
      <4>1. i - f \in 1 .. t - f /\ f + (i - f) = i
        BY <3>2
      <4>2. c[f + (i - f)] = bytes[i - f] /\ bytes[i - f] = data[f + (i - f)]
        BY <1>3, <1>5, <2>1, <4>1
      <4> QED
        BY <1>4, <4>1, <4>2
    <3> QED
      BY <3>1, <3>2
  <2>4. c = all
    BY <1>4, <2>1, <2>2, <2>3, ListEqual
  <2> QED
    BY <2>4 DEF c
<1>9. out \o Meaning(op, <<>>, out) = all
  BY <1>7, <1>8
<1>10. Shaped(op) /\ oal(op) = t - f
  BY <1>7
<1>11. is_copy(op) => op.addr = 0
  BY <1>7
<1> QED
  BY <1>9, <1>10, <1>11, Zenon DEF op, out, all

(* Where its sections and their operations begin and end in the data. *)
From(k) == (k - 1) * SegmentSize
End(data, k) == UpTo(k * SegmentSize, data)
Count(data, k) == Pieces(End(data, k) - From(k), MAX_INST_SIZE)
Cut(data, k, i) == UpTo(From(k) + i * MAX_INST_SIZE, data)

LEMMA SectionsIs ==
    ASSUME NEW data, List(data)
    PROVE  /\ NestedSections(data) \in Nat /\ NestedSections(data) >= 1
           /\ Len(data) = 0 => NestedSections(data) = 1
           /\ Len(data) > 0 => (NestedSections(data) - 1) * SegmentSize < Len(data)
           /\ Len(data) <= NestedSections(data) * SegmentSize
<1> DEFINE D == Len(data)
           S == SegmentSize
<1>1. D \in Nat /\ S \in Nat \ {0}
  BY ListLen, SegmentIs
<1>2. data = <<>> <=> D = 0
  BY ListEmpty
<1> HIDE DEF D, S
<1>3. /\ Pieces(D, S) \in Nat /\ D <= Pieces(D, S) * S
      /\ D > 0 => Pieces(D, S) > 0 /\ (Pieces(D, S) - 1) * S < D
  BY <1>1, PiecesIs
<1>4. CASE D = 0
  <2>1. NestedSections(data) = 1
    BY <1>2, <1>4 DEF NestedSections
  <2>2. 1 * S = S
    BY <1>1
  <2> QED
    BY <1>1, <1>4, <2>1, <2>2 DEF D, S
<1>5. CASE D > 0
  <2>1. NestedSections(data) = Pieces(D, S)
    BY <1>2, <1>5 DEF NestedSections, D, S
  <2> QED
    BY <1>1, <1>3, <1>5, <2>1 DEF D, S
<1> QED
  BY <1>1, <1>4, <1>5

LEMMA SegmentBounds ==
    ASSUME NEW data, List(data), NEW k \in 1 .. NestedSections(data)
    PROVE  /\ From(k) \in Nat /\ From(k) <= Len(data)
           /\ From(k) = 0 \/ MAX_INST_SIZE <= From(k)
           /\ End(data, k) \in Nat /\ From(k) <= End(data, k) /\ End(data, k) <= Len(data)
           /\ k < NestedSections(data) => End(data, k) = From(k + 1)
           /\ k = NestedSections(data) => End(data, k) = Len(data)
           /\ From(k + 1) = From(k) + SegmentSize
           /\ End(data, k) = Len(data) \/ End(data, k) = From(k + 1)
           /\ End(data, k) <= From(k + 1)
<1> DEFINE D == Len(data)
           S == SegmentSize
           K == NestedSections(data)
           p == k - 1
           f == p * S
           g == k * S
<1>1. /\ D \in Nat /\ S \in Nat \ {0} /\ MAX_INST_SIZE \in Nat /\ MAX_INST_SIZE <= S
      /\ K \in Nat /\ K >= 1 /\ D <= K * S
      /\ D = 0 => K = 1
      /\ D > 0 => (K - 1) * S < D
  BY ListLen, SegmentIs, SectionsIs
<1>2. k \in 1 .. K /\ p \in Nat /\ p + 1 = k /\ k \in Nat
  BY <1>1
<1> HIDE DEF D, S, K
<1>3. g = f + S /\ f \in Nat /\ g \in Nat
  <2>1. (p + 1) * S = p * S + S /\ p * S \in Nat
    BY <1>1, <1>2, TimesNext
  <2> QED
    BY <1>1, <1>2, <2>1
<1> HIDE DEF p
<1>4. f <= D
  <2>1. CASE D = 0
    <3>1. p = 0
      BY <1>1, <1>2, <2>1
    <3>2. 0 * S = 0
      BY <1>1
    <3> QED
      BY <2>1, <3>1, <3>2
  <2>2. CASE D > 0
    <3>1. K - 1 \in Nat /\ p <= K - 1
      BY <1>1, <1>2
    <3>2. p * S <= (K - 1) * S /\ (K - 1) * S \in Nat
      BY <1>1, <1>2, <3>1, Times
    <3> QED
      BY <1>1, <1>3, <2>2, <3>2
  <2> QED
    BY <1>1, <2>1, <2>2
<1>5. f = 0 \/ S <= f
  <2>1. CASE p = 0
    BY <1>1, <2>1
  <2>2. CASE p # 0
    <3>1. 1 <= p /\ 1 * S = S
      BY <1>1, <1>2, <2>2
    <3>2. 1 * S <= p * S
      BY <1>1, <1>2, <3>1, Times
    <3> QED
      BY <3>1, <3>2
  <2> QED
    BY <2>1, <2>2
<1>6. ASSUME k < K PROVE g < D
  <2>1. D > 0
    BY <1>1, <1>2, <1>6
  <2>2. K - 1 \in Nat /\ k <= K - 1
    BY <1>1, <1>2, <1>6
  <2>3. k * S <= (K - 1) * S /\ (K - 1) * S \in Nat
    BY <1>1, <1>2, <2>2, Times
  <2> QED
    BY <1>1, <1>3, <2>1, <2>3
<1>7. k = K => D <= g
  BY <1>1
<1>8. From(k) = f
  BY DEF From, p, S
<1>9. End(data, k) = IF g < D THEN g ELSE D
  BY DEF End, UpTo, D, S
<1>10. From(k + 1) = g
  <2>1. (k + 1) - 1 = k
    BY <1>2
  <2> QED
    BY <2>1 DEF From, S
<1> HIDE DEF f, g
<1> QED
  BY <1>1, <1>3, <1>4, <1>5, <1>6, <1>7, <1>8, <1>9, <1>10 DEF D, S, K

LEMMA CutBounds ==
    ASSUME NEW data, List(data), NEW k \in 1 .. NestedSections(data)
    PROVE  /\ Count(data, k) \in Nat
           /\ Cut(data, k, 0) = From(k) /\ Cut(data, k, Count(data, k)) = End(data, k)
           /\ \A i \in 0 .. Count(data, k) :
                 Cut(data, k, i) \in Nat /\ Cut(data, k, i) <= Len(data)
           /\ \A i \in 1 .. Count(data, k) :
                 /\ Cut(data, k, i - 1) = From(k) + (i - 1) * MAX_INST_SIZE
                 /\ Cut(data, k, i - 1) <= Cut(data, k, i)
                 /\ Cut(data, k, i) - Cut(data, k, i - 1) <= MAX_INST_SIZE
                 /\ Cut(data, k, i - 1) = 0 \/ MAX_INST_SIZE <= Cut(data, k, i - 1)
<1> DEFINE D == Len(data)
           S == SegmentSize
           M == MAX_INST_SIZE
           q == MAX_WIN_SIZE \div MAX_INST_SIZE
           f == From(k)
           e == End(data, k)
           size == e - f
           n == Count(data, k)
           at(i) == f + i * M
           cut(i) == Cut(data, k, i)
<1>1. D \in Nat /\ M \in Nat \ {0} /\ S \in Nat /\ q \in Nat /\ S = q * M
  BY ListLen, SegmentIs
<1>2. /\ f \in Nat /\ f <= D /\ e \in Nat /\ f <= e /\ e <= D
      /\ f = 0 \/ M <= f
      /\ e = D \/ e = f + S
      /\ e <= f + S
  BY SegmentBounds
<1>3. size \in Nat /\ size <= S
  BY <1>1, <1>2
<1>4. n = Pieces(size, M)
  BY DEF Count
<1>5. \A i : cut(i) = IF at(i) < D THEN at(i) ELSE D
  BY DEF Cut, UpTo
<1> HIDE DEF D, S, M, q, f, e, n, cut, size
<1>6. /\ n \in Nat /\ size <= n * M
      /\ size = 0 => n = 0
      /\ size > 0 => n > 0 /\ (n - 1) * M < size
  BY <1>1, <1>3, <1>4, PiecesIs
<1>7. n <= q
  <2> SUFFICES ASSUME n > q PROVE FALSE
    BY <1>1, <1>6
  <2>1. size > 0
    BY <1>1, <1>3, <1>6
  <2>2. q <= n - 1 /\ n - 1 \in Nat
    BY <1>1, <1>6
  <2>3. q * M <= (n - 1) * M /\ q * M \in Nat /\ (n - 1) * M \in Nat
    BY <1>1, <2>2, Times
  <2> QED
    BY <1>1, <1>3, <1>6, <2>1, <2>3
<1>8. n * M \in Nat /\ n * M <= S
  BY <1>1, <1>6, <1>7, Times
<1>9. \A i \in Nat : i * M \in Nat /\ at(i) \in Nat
  BY <1>1, <1>2
<1>10. cut(0) = f
  <2>1. 0 * M = 0
    BY <1>1
  <2>2. at(0) = f
    BY <1>2, <2>1
  <2> HIDE DEF at
  <2> QED
    BY <1>1, <1>2, <1>5, <2>2
<1>11. cut(n) = e
  <2>0. at(n) = f + n * M /\ cut(n) = IF at(n) < D THEN at(n) ELSE D
    BY <1>5
  <2> DEFINE nm == n * M
  <2>a. nm \in Nat /\ nm <= S /\ size <= nm /\ size = e - f
    BY <1>6, <1>8 DEF size
  <2> HIDE DEF at, nm
  <2>b. at(n) = f + nm
    BY <2>0 DEF nm
  <2>1. CASE e = D
    BY <1>1, <1>2, <2>0, <2>1, <2>a, <2>b
  <2>2. CASE e = f + S
    <3>1. nm = S
      BY <1>1, <1>2, <2>2, <2>a
    <3> QED
      BY <1>1, <1>2, <2>0, <2>2, <2>b, <3>1
  <2> QED
    BY <1>2, <2>1, <2>2
<1>12. \A i \in 0 .. n : cut(i) \in Nat /\ cut(i) <= D
  <2> SUFFICES ASSUME NEW i \in 0 .. n PROVE cut(i) \in Nat /\ cut(i) <= D
    OBVIOUS
  <2>1. i \in Nat
    BY <1>6
  <2>2. at(i) \in Nat
    BY <1>9, <2>1
  <2> HIDE DEF at
  <2> QED
    BY <1>1, <1>5, <2>2
<1>13. ASSUME NEW i \in 1 .. n
       PROVE  /\ cut(i - 1) = f + (i - 1) * M
              /\ cut(i - 1) <= cut(i)
              /\ cut(i) - cut(i - 1) <= M
              /\ cut(i - 1) = 0 \/ M <= cut(i - 1)
  <2> DEFINE p == i - 1
             a == p * M
             b == i * M
  <2>1. p \in Nat /\ p + 1 = i /\ p <= n - 1 /\ n - 1 \in Nat /\ n > 0 /\ i \in Nat
    BY <1>6
  <2>2. b = a + M /\ a \in Nat /\ b \in Nat
    <3> HIDE DEF p
    <3>1. (p + 1) * M = p * M + M /\ p * M \in Nat
      BY <1>1, <2>1, TimesNext
    <3> QED
      BY <1>1, <2>1, <3>1
  <2>3. size > 0
    BY <1>3, <1>6, <2>1
  <2> HIDE DEF p
  <2>4. a <= (n - 1) * M /\ (n - 1) * M \in Nat
    BY <1>1, <2>1, Times
  <2>5. a < size
    BY <1>3, <1>6, <2>2, <2>3, <2>4
  <2>6. f + a < D
    BY <1>1, <1>2, <2>2, <2>5 DEF size
  <2>7. a = 0 \/ M <= a
    <3>1. CASE p = 0
      BY <1>1, <3>1
    <3>2. CASE p # 0
      <4>1. 1 <= p /\ 1 * M = M
        BY <1>1, <2>1, <3>2
      <4>2. 1 * M <= p * M
        BY <1>1, <2>1, <4>1, Times
      <4> QED
        BY <4>1, <4>2
    <3> QED
      BY <3>1, <3>2
  <2>8. at(p) = f + a /\ at(i) = f + b
    OBVIOUS
  <2> HIDE DEF a, b, at
  <2>9. cut(p) = f + a
    BY <1>5, <2>6, <2>8
  <2>10. cut(i) = IF f + b < D THEN f + b ELSE D
    BY <1>5, <2>8
  <2>11. cut(p) <= cut(i) /\ cut(i) - cut(p) <= M /\ (cut(p) = 0 \/ M <= cut(p))
    BY <1>1, <1>2, <2>2, <2>6, <2>7, <2>9, <2>10
  <2> QED
    BY <2>9, <2>11 DEF p, a
<1> QED
  BY <1>6, <1>10, <1>11, <1>12, <1>13 DEF D, M, f, e, n, cut

LEMMA NestedSectionIs ==
    ASSUME NEW data, Fields(data), NEW k \in 1 .. NestedSections(data)
    PROVE  /\ NestedSection(data, k).header.compression_algo = 0
           /\ NestedSection(data, k).header.format = "Interleaved"
           /\ NestedSection(data, k).header.more_sections = (k < NestedSections(data))
           /\ NestedSection(data, k).header.num_operations = Count(data, k)
           /\ NestedSection(data, k).header.output_size = End(data, k) - From(k)
           /\ HeaderIs(NestedSection(data, k).header)
           /\ List(NestedSection(data, k).ops) /\ Len(NestedSection(data, k).ops) = Count(data, k)
           /\ \A i \in 1 .. Count(data, k) :
                 NestedSection(data, k).ops[i] = NestedOp(data, Cut(data, k, i - 1), Cut(data, k, i))
<1> DEFINE n == Count(data, k)
           size == End(data, k) - From(k)
           more == k < NestedSections(data)
           M == MAX_INST_SIZE
           h == [compression_algo |-> 0, format |-> "Interleaved", more_sections |-> more,
                 num_operations |-> n, num_add_bytes |-> 0, output_size |-> size]
           op(i) == NestedOp(data, From(k) + (i - 1) * M, Cut(data, k, i))
           list == [i \in 1 .. n |-> op(i)]
<1>1. NestedSection(data, k) = [header |-> h, ops |-> list]
  BY DEF NestedSection, From, End, Count, Cut
<1>2. List(data)
  BY DEF Fields
<1>3. n \in Nat /\ \A i \in 1 .. n : Cut(data, k, i - 1) = From(k) + (i - 1) * M
  BY <1>2, CutBounds
<1>4. size \in Nat
  BY <1>2, SegmentBounds
<1>5. more \in BOOLEAN
  OBVIOUS
<1> HIDE DEF n, size, more, M
<1>6. HeaderIs(h)
  BY <1>3, <1>4, <1>5 DEF HeaderIs, SectionHeader, Algo, Format
<1>7. List(list) /\ Len(list) = n
  BY <1>3, ListOf
<1>8. \A i \in 1 .. n : list[i] = NestedOp(data, Cut(data, k, i - 1), Cut(data, k, i))
  BY <1>3
<1>9. /\ h.compression_algo = 0 /\ h.format = "Interleaved" /\ h.more_sections = more
      /\ h.num_operations = n /\ h.output_size = size
  OBVIOUS
<1> HIDE DEF h, list
<1>10. NestedSection(data, k).header = h /\ NestedSection(data, k).ops = list
  BY <1>1
<1> QED
  BY <1>6, <1>7, <1>8, <1>9, <1>10 DEF n, size, more

LEMMA NestedOpsAre ==
    ASSUME NEW data, Fields(data), NEW k \in 1 .. NestedSections(data)
    PROVE  \A i \in 1 .. Count(data, k) :
              /\ Shaped(NestedSection(data, k).ops[i])
              /\ oal(NestedSection(data, k).ops[i]) = Cut(data, k, i) - Cut(data, k, i - 1)
              /\ is_copy(NestedSection(data, k).ops[i]) => NestedSection(data, k).ops[i].addr = 0
              /\ SubSeq(data, 1, Cut(data, k, i - 1))
                 \o Meaning(NestedSection(data, k).ops[i], <<>>, SubSeq(data, 1, Cut(data, k, i - 1)))
                   = SubSeq(data, 1, Cut(data, k, i))
<1> SUFFICES ASSUME NEW i \in 1 .. Count(data, k)
             PROVE  /\ Shaped(NestedSection(data, k).ops[i])
                    /\ oal(NestedSection(data, k).ops[i]) = Cut(data, k, i) - Cut(data, k, i - 1)
                    /\ is_copy(NestedSection(data, k).ops[i]) => NestedSection(data, k).ops[i].addr = 0
                    /\ SubSeq(data, 1, Cut(data, k, i - 1))
                       \o Meaning(NestedSection(data, k).ops[i], <<>>, SubSeq(data, 1, Cut(data, k, i - 1)))
                         = SubSeq(data, 1, Cut(data, k, i))
  OBVIOUS
<1> DEFINE f == Cut(data, k, i - 1)
           t == Cut(data, k, i)
           op == NestedSection(data, k).ops[i]
<1>1. List(data)
  BY DEF Fields
<1>2. Count(data, k) \in Nat
  BY <1>1, CutBounds
<1>3. i - 1 \in 0 .. Count(data, k) /\ i \in 0 .. Count(data, k)
  BY <1>2
<1>4. f \in Nat /\ t \in Nat /\ t <= Len(data)
  BY <1>1, <1>3, CutBounds
<1>5. f <= t /\ t - f <= MAX_INST_SIZE /\ (f = 0 \/ MAX_INST_SIZE <= f)
  BY <1>1, CutBounds
<1>6. op = NestedOp(data, f, t)
  BY NestedSectionIs
<1> HIDE DEF f, t, op
<1>7. /\ Shaped(NestedOp(data, f, t)) /\ oal(NestedOp(data, f, t)) = t - f
      /\ is_copy(NestedOp(data, f, t)) => NestedOp(data, f, t).addr = 0
      /\ SubSeq(data, 1, f) \o Meaning(NestedOp(data, f, t), <<>>, SubSeq(data, 1, f))
           = SubSeq(data, 1, t)
  BY <1>4, <1>5, NestedOpIs
<1>8. /\ Shaped(op) /\ oal(op) = t - f
      /\ is_copy(op) => op.addr = 0
      /\ SubSeq(data, 1, f) \o Meaning(op, <<>>, SubSeq(data, 1, f)) = SubSeq(data, 1, t)
  BY <1>6, <1>7
<1> QED
  BY <1>8 DEF f, t, op

(* What the output is after each operation, if each step is known. *)
Puts(list, src, outs) == \A i \in 1 .. Len(list) : outs[i] = Put(list[i], src, outs[i - 1])

LEMMA OutputSteps ==
    ASSUME NEW list, Len(list) \in Nat, NEW src, NEW outs, Puts(list, src, outs)
    PROVE  \A i \in 0 .. Len(list) : OutputAfter(list, src, outs[0])[i] = outs[i]
<1> DEFINE n == Len(list)
           R == OutputAfter(list, src, outs[0])
           T == {i \in 0 .. n : R[i] = outs[i]}
<1>1. R[0] = outs[0] /\ \A i \in 1 .. n : R[i] = Put(list[i], src, R[i - 1])
  BY OutputAfterIs
<1> HIDE DEF n, R
<1>2. n \in Nat
  BY DEF n
<1>3. 0 \in T
  BY <1>1, <1>2
<1>4. ASSUME NEW i \in 1 .. n, i - 1 \in T PROVE i \in T
  <2>1. i \in 0 .. n
    BY <1>2
  <2>2. R[i - 1] = outs[i - 1]
    BY <1>4
  <2>3. R[i] = outs[i]
    BY <1>1, <2>2 DEF n, Puts
  <2> QED
    BY <2>1, <2>3
<1>5. 0 .. n \subseteq T
  <2> HIDE DEF T
  <2> QED
    BY <1>2, <1>3, <1>4, UpFrom0
<1> QED
  BY <1>5 DEF n, R

LEMMA NestedFormed ==
    ASSUME NEW data, Fields(data), NEW k \in 1 .. NestedSections(data)
    PROVE  /\ Formed(NestedSection(data, k))
           /\ Len(NestedSection(data, k).ops) = NestedSection(data, k).header.num_operations
           /\ SumOal(NestedSection(data, k).ops) = NestedSection(data, k).header.output_size
           /\ OutputAfter(NestedSection(data, k).ops, <<>>,
                          SubSeq(data, 1, From(k)))[Len(NestedSection(data, k).ops)]
                = SubSeq(data, 1, End(data, k))
           /\ \A i \in 0 .. Len(NestedSection(data, k).ops) :
                 Registers(NestedSection(data, k).ops)[i] = NoAddr
           /\ Body(NestedSection(data, k))
                = Together(OpsOf(NestedSection(data, k)))[Len(NestedSection(data, k).ops)]
<1> DEFINE s == NestedSection(data, k)
           list == NestedSection(data, k).ops
           n == Count(data, k)
           cut(i) == Cut(data, k, i)
           out(i) == SubSeq(data, 1, cut(i))
<1>1. List(data)
  BY DEF Fields
<1>2. /\ n \in Nat /\ List(list) /\ Len(list) = n
      /\ HeaderIs(s.header) /\ s.header.num_operations = n /\ s.header.format = "Interleaved"
      /\ s.header.output_size = End(data, k) - From(k)
  BY <1>1, CutBounds, NestedSectionIs
<1>3. /\ cut(0) = From(k) /\ cut(n) = End(data, k)
      /\ \A i \in 0 .. n : cut(i) \in Nat
  BY <1>1, CutBounds
<1>4. \A i \in 1 .. n :
         /\ Shaped(list[i]) /\ oal(list[i]) = cut(i) - cut(i - 1)
         /\ is_copy(list[i]) => list[i].addr = 0
         /\ out(i - 1) \o Meaning(list[i], <<>>, out(i - 1)) = out(i)
  BY NestedOpsAre
<1>5. out(0) = SubSeq(data, 1, From(k)) /\ out(n) = SubSeq(data, 1, End(data, k))
  BY <1>3
<1>6. s.ops = list
  OBVIOUS
<1> HIDE DEF s, list, n, cut, out
<1>7. ShapedList(list) /\ Formed(s)
  BY <1>2, <1>4, <1>6 DEF ShapedList, Formed
<1>8. SumOal(list) = End(data, k) - From(k)
  <2> DEFINE size == [i \in 1 .. n |-> oal(list[i])]
             R == RunningSum(size, n)
             T == {i \in 0 .. n : R[i] = cut(i) - cut(0)}
  <2>1. SumOal(list) = R[n]
    BY <1>2 DEF SumOal
  <2>2. \A i \in 1 .. n : size[i] = oal(list[i])
    OBVIOUS
  <2> HIDE DEF size
  <2>3. \A i \in 1 .. n : size[i] \in Nat
    BY <1>4, <2>2, ShapedIs, LimitsAssumption
  <2>4. R[0] = 0 /\ \A i \in 1 .. n : R[i] = R[i - 1] + size[i]
    BY <1>2, <2>3, RunningSumIs
  <2> HIDE DEF R
  <2>5. 0 \in T
    BY <1>2, <1>3, <2>4
  <2>6. ASSUME NEW i \in 1 .. n, i - 1 \in T PROVE i \in T
    <3>1. i \in 0 .. n /\ i - 1 \in 0 .. n /\ 0 \in 0 .. n
      BY <1>2
    <3>2. R[i] = R[i - 1] + size[i] /\ R[i - 1] = cut(i - 1) - cut(0)
      BY <2>4, <2>6
    <3>3. size[i] = cut(i) - cut(i - 1)
      BY <1>4, <2>2
    <3>4. cut(i) \in Nat /\ cut(i - 1) \in Nat /\ cut(0) \in Nat
      BY <1>3, <3>1
    <3>5. R[i] = cut(i) - cut(0)
      BY <3>2, <3>3, <3>4
    <3> QED
      BY <3>1, <3>5
  <2>7. 0 .. n \subseteq T
    <3> HIDE DEF T
    <3> QED
      BY <1>2, <2>5, <2>6, UpFrom0
  <2>8. R[n] = cut(n) - cut(0)
    BY <1>2, <2>7
  <2> QED
    BY <1>3, <2>1, <2>8
<1>9. OutputAfter(list, <<>>, out(0))[n] = out(n)
  <2> DEFINE outs == [i \in 0 .. n |-> out(i)]
  <2>1. \A i \in 0 .. n : outs[i] = out(i)
    OBVIOUS
  <2> HIDE DEF outs
  <2>2. 0 \in 0 .. n /\ n \in 0 .. n /\ \A i \in 1 .. n : i \in 0 .. n /\ i - 1 \in 0 .. n
    BY <1>2
  <2>3. \A i \in 1 .. Len(list) : outs[i] = Put(list[i], <<>>, outs[i - 1])
    BY <1>2, <1>4, <2>1, <2>2 DEF Put
  <2>4. OutputAfter(list, <<>>, outs[0])[n] = outs[n]
    <3> DEFINE none == <<>>
    <3>1. Len(list) = n /\ Len(list) \in Nat
      BY <1>2
    <3>2. Puts(list, none, outs)
      BY <2>3 DEF Puts
    <3> HIDE DEF none
    <3>3. \A i \in 0 .. Len(list) : OutputAfter(list, none, outs[0])[i] = outs[i]
      BY <3>1, <3>2, OutputSteps
    <3> QED
      BY <2>2, <3>1, <3>3 DEF none
  <2> QED
    BY <2>1, <2>2, <2>4
<1>10. \A i \in 0 .. n : Registers(list)[i] = NoAddr
  <2> DEFINE R == Registers(list)
             T == {i \in 0 .. n : R[i] = NoAddr}
  <2>1. /\ R[0] = NoAddr
        /\ \A i \in 1 .. n : R[i] = IF is_copy(list[i])
                                    THEN [R[i - 1] EXCEPT ![list[i].src] = list[i].addr]
                                    ELSE R[i - 1]
    BY <1>2, <1>7, RegistersIs
  <2> HIDE DEF R
  <2>2. 0 \in T
    BY <1>2, <2>1
  <2>3. ASSUME NEW i \in 1 .. n, i - 1 \in T PROVE i \in T
    <3>1. i \in 0 .. n
      BY <1>2
    <3>2. R[i - 1] = NoAddr
      BY <2>3
    <3>3. R[i] = NoAddr
      <4>1. CASE is_copy(list[i])
        <5>1. list[i].addr = 0
          BY <1>4, <4>1
        <5>2. R[i] = [NoAddr EXCEPT ![list[i].src] = 0]
          BY <2>1, <3>2, <4>1, <5>1
        <5> QED
          BY <5>2 DEF NoAddr
      <4>2. CASE ~ is_copy(list[i])
        BY <2>1, <3>2, <4>2
      <4> QED
        BY <4>1, <4>2
    <3> QED
      BY <3>1, <3>3
  <2>4. 0 .. n \subseteq T
    <3> HIDE DEF T
    <3> QED
      BY <1>2, <2>2, <2>3, UpFrom0
  <2> QED
    BY <2>4 DEF R
<1>11. Body(s) = Together(OpsOf(s))[n]
  <2> DEFINE a == Together(OpsOf(s))[n]
             b == Together(HeldOf(s))[n]
  <2>1. Body(s) = a \o Bytes(b)
    BY <1>2, <1>6 DEF Body
  <2>2. n \in 0 .. n
    BY <1>2
  <2>3. Fields(a) /\ List(b) /\ Len(b) = 0
    <3>1. Fields(a)
      BY <1>2, <1>6, <1>7, <2>2, SectionParts
    <3>2. List(b)
      BY <1>2, <1>6, <1>7, <2>2, SectionParts
    <3>3. Len(b) = 0
      BY <1>2, <1>6, <1>7, <2>2, HeldLen
    <3> QED
      BY <3>1, <3>2, <3>3
  <2> HIDE DEF a, b
  <2>4. Len(Bytes(b)) = 0 /\ List(Bytes(b)) /\ List(a)
    BY <2>3, BytesAre DEF Fields
  <2>5. Bytes(b) = <<>> /\ a \o <<>> = a
    BY <2>4, ListEmpty
  <2> QED
    BY <2>1, <2>5 DEF a
<1> QED
  BY <1>2, <1>5, <1>6, <1>7, <1>8, <1>9, <1>10, <1>11 DEF s, list

NestedPart(data, k) == HeaderOf(NestedSection(data, k), 0) \o Body(NestedSection(data, k))
NestedParts(data) == [k \in 1 .. NestedSections(data) |-> NestedPart(data, k)]

LEMMA NestedPartIs ==
    ASSUME NEW data, Fields(data), NEW k \in 1 .. NestedSections(data)
    PROVE  /\ Fields(HeaderOf(NestedSection(data, k), 0)) /\ Fields(Body(NestedSection(data, k)))
           /\ Fields(NestedPart(data, k)) /\ Len(NestedPart(data, k)) \in Nat
           /\ Len(NestedPart(data, k)) = Len(HeaderOf(NestedSection(data, k), 0))
                                         + Len(Body(NestedSection(data, k)))
           /\ Len(HeaderOf(NestedSection(data, k), 0)) \in Nat
           /\ Len(HeaderOf(NestedSection(data, k), 0)) >= 1
           /\ Len(Body(NestedSection(data, k))) \in Nat
<1> DEFINE s == NestedSection(data, k)
           h == HeaderOf(s, 0)
           b == Body(s)
<1>1. Formed(s)
  BY NestedFormed
<1>2. HeaderIs(s.header)
  BY <1>1 DEF Formed
<1>3. Fields(b) /\ Len(b) \in Nat
  BY <1>1, SectionParts
<1>4. Fields(h) /\ Len(h) \in Nat /\ Len(h) >= 1
  <2>1. 0 \in Algo
    BY DEF Algo
  <2>2. HeaderIs([s.header EXCEPT !.compression_algo = 0])
    BY <1>2, <2>1, HeaderWithIs
  <2> QED
    BY <2>2, HeaderFieldsAre DEF HeaderOf
<1>5. NestedPart(data, k) = h \o b
  BY DEF NestedPart
<1> HIDE DEF h, b
<1>6. Fields(h \o b) /\ Len(h \o b) = Len(h) + Len(b)
  BY <1>3, <1>4, FieldsConcat
<1> QED
  BY <1>3, <1>4, <1>5, <1>6 DEF h, b

(* That is what the writer's compression puts down. *)
LEMMA NestedIs ==
    ASSUME NEW data, Fields(data)
    PROVE  /\ AreLists(NestedParts(data)) /\ Len(NestedParts(data)) = NestedSections(data)
           /\ \A k \in 1 .. NestedSections(data) : NestedParts(data)[k] = NestedPart(data, k)
           /\ Nested(data) = Together(NestedParts(data))[NestedSections(data)]
           /\ Fields(Nested(data))
<1> DEFINE n == NestedSections(data)
           P == NestedParts(data)
           s(k) == NestedSection(data, k)
           opsOf(k) == [i \in 1 .. Len(s(k).ops) |-> OpFields(s(k).ops[i], NoAddr, "Interleaved")]
           part(k) == HeaderFields(s(k).header) \o FlattenSeq(opsOf(k))
           Q == [k \in 1 .. n |-> part(k)]
<1>1. n \in Nat /\ List(data)
  BY SectionsIs DEF Fields
<1>2. Nested(data) = FlattenSeq(Q)
  BY DEF Nested
<1>3. P = [k \in 1 .. n |-> NestedPart(data, k)]
  BY DEF NestedParts
<1>4. ASSUME NEW k \in 1 .. n PROVE part(k) = NestedPart(data, k)
  <2> DEFINE x == s(k)
             m == Len(x.ops)
             O == OpsOf(x)
  <2>1. /\ Formed(x) /\ Body(x) = Together(O)[m]
        /\ \A i \in 0 .. m : Registers(x.ops)[i] = NoAddr
    BY NestedFormed
  <2>2. x.header.format = "Interleaved" /\ x.header.compression_algo = 0 /\ HeaderIs(x.header)
    BY NestedSectionIs
  <2>3. m \in Nat
    BY <2>1, FormedIs
  <2>4. HeaderOf(x, 0) = HeaderFields(x.header)
    <3> DEFINE g == x.header
    <3>1. g \in SectionHeader /\ g.compression_algo = 0
      BY <2>2 DEF HeaderIs
    <3>2. HeaderOf(x, 0) = HeaderFields([g EXCEPT !.compression_algo = 0])
      BY DEF HeaderOf
    <3> HIDE DEF g
    <3>3. [g EXCEPT !.compression_algo = 0] = g
      BY <3>1 DEF SectionHeader
    <3> QED
      BY <3>2, <3>3 DEF g
  <2>5. O = [i \in 1 .. m |-> OpFields(x.ops[i], Registers(x.ops)[i - 1], x.header.format)]
    BY DEF OpsOf
  <2>6. O = opsOf(k)
    <3>1. \A i \in 1 .. m : i - 1 \in 0 .. m
      BY <2>3
    <3>2. \A i \in 1 .. m : OpFields(x.ops[i], Registers(x.ops)[i - 1], x.header.format)
                              = OpFields(x.ops[i], NoAddr, "Interleaved")
      BY <2>1, <2>2, <3>1
    <3> QED
      BY <2>5, <3>2
  <2>7. AreLists(O) /\ Len(O) = m
    BY <2>1, SectionParts
  <2>8. List(O)
    <3>1. DOMAIN O = 1 .. m /\ O = [i \in 1 .. m |-> O[i]]
      BY <2>5
    <3> HIDE DEF O, m
    <3> QED
      BY <2>3, <3>1, ListOf
  <2>9. FlattenSeq(O) = Together(O)[Len(O)]
    <3> HIDE DEF O
    <3> QED
      BY <2>7, <2>8, FlattenIs
  <2>10. FlattenSeq(opsOf(k)) = Body(x)
    BY <2>1, <2>6, <2>7, <2>9
  <2> QED
    BY <2>4, <2>10 DEF NestedPart
<1> HIDE DEF n, P, s, opsOf, part
<1>5. Q = P
  BY <1>3, <1>4
<1>6. DOMAIN P = 1 .. n /\ P = [k \in 1 .. n |-> P[k]] /\ \A k \in 1 .. n : P[k] = NestedPart(data, k)
  BY <1>3
<1>7. List(P) /\ Len(P) = n
  BY <1>1, <1>6, ListOf
<1>8. \A k \in 1 .. n : Fields(P[k])
  BY <1>6, NestedPartIs DEF n
<1>9. AreLists(P) /\ \A k \in 0 .. n : Fields(Together(P)[k])
  BY <1>1, <1>7, <1>8, FieldsJoined
<1>10. FlattenSeq(P) = Together(P)[n]
  BY <1>7, <1>9, FlattenIs
<1>11. Nested(data) = Together(P)[n]
  BY <1>2, <1>5, <1>10
<1>12. Fields(Nested(data))
  BY <1>1, <1>9, <1>11
<1> QED
  BY <1>6, <1>7, <1>9, <1>11, <1>12 DEF n, P

-----------------------------------------------------------------------------
(* The patch of the writer, and the file it makes of it, section by section. *)
PatchInv == sec_comp \in DOMAIN Patches /\ patch \in Patches[sec_comp]
Fits(s) == s.header.output_size <= MAX_WIN_SIZE /\ s.header.num_operations = Len(s.ops)

LEMMA OpShaped ==
    ASSUME NEW op \in Op, Writable(op)
    PROVE  Shaped(op)
<1>1. CASE op \in AddOps
  <2>1. op = Add(op.bytes) /\ is_add(op) /\ op.bytes \in Seq(Byte) /\ ~ is_run(op)
    BY <1>1 DEF AddOps, Add, is_add, is_run
  <2>2. List(op.bytes)
    BY <2>1, ListIs
  <2> QED
    BY <2>1, <2>2 DEF Shaped, Writable
<1>2. CASE op \in RunOps
  <2>1. op = Run(op.byte, op.len) /\ is_run(op) /\ op.len \in 0 .. MAX_RUN_LEN
    BY <1>2 DEF RunOps, Run, is_run
  <2>2. op.len > 0 /\ MAX_RUN_LEN \in Nat
    BY <2>1, LimitsAssumption DEF Writable
  <2>3. op.len \in 1 .. MAX_RUN_LEN
    BY <2>1, <2>2
  <2> QED
    BY <2>1, <2>3 DEF Shaped
<1>3. CASE op \in CopyOps
  <2>1. op = Copy(op.src, op.addr, op.len) /\ is_copy(op)
        /\ op.src \in CopySrc /\ op.addr \in Nat /\ op.len \in 0 .. MAX_INST_SIZE
    BY <1>3 DEF CopyOps, Copy, is_copy
  <2> QED
    BY <2>1 DEF Shaped
<1> QED
  BY <1>1, <1>2, <1>3 DEF Op

LEMMA PatchIs ==
    ASSUME PatchInv
    PROVE  /\ sec_comp \in Algo /\ Len(patch) \in Nat /\ Len(patch) >= 1
           /\ \A i \in 1 .. Len(patch) :
                 /\ Formed(patch[i]) /\ Formed(Heard[i])
                 /\ patch[i].header \in SectionHeader /\ patch[i].ops \in Seq(Op)
                 /\ Heard[i].ops \in Seq(Op)
                 /\ Heard[i].header = patch[i].header /\ Heard[i].ops = Told(patch[i])
                 /\ patch[i].header.more_sections <=> i < Len(patch)
                 /\ sec_comp = 2 /\ i < Len(patch) => patch[i].ops # <<>>
                 /\ Fits(patch[i]) => Heard[i] = patch[i]
<1> DEFINE S == [header : SectionHeader, ops : Seq(Op)]
<1>1. sec_comp \in DOMAIN Patches /\ patch \in Patches[sec_comp]
  BY DEF PatchInv
<1>2. /\ sec_comp \in Algo /\ patch \in Seq(S) /\ patch # <<>>
      /\ \A i \in 1 .. Len(patch) :
            /\ IsSection(patch[i]) /\ (patch[i].header.more_sections <=> i < Len(patch))
            /\ sec_comp = 2 /\ i < Len(patch) => patch[i].ops # <<>>
  BY <1>1, WriterAssumption
<1> HIDE DEF S
<1>3. Len(patch) \in Nat /\ \A i \in 1 .. Len(patch) : patch[i] \in S
  BY <1>2
<1>4. Len(patch) >= 1
  BY <1>2, <1>3
<1>5. ASSUME NEW i \in 1 .. Len(patch)
      PROVE  /\ Formed(patch[i]) /\ Formed(Heard[i])
             /\ patch[i].header \in SectionHeader /\ patch[i].ops \in Seq(Op)
             /\ Heard[i].ops \in Seq(Op)
             /\ Heard[i].header = patch[i].header /\ Heard[i].ops = Told(patch[i])
             /\ Fits(patch[i]) => Heard[i] = patch[i]
  <2> DEFINE s == patch[i]
             t == Heard[i]
  <2>1. /\ s.header \in SectionHeader /\ s.ops \in Seq(Op) /\ IsSection(s)
        /\ s = [header |-> s.header, ops |-> s.ops]
    BY <1>2, <1>3 DEF S
  <2>8. t = [header |-> s.header, ops |-> Told(s)]
    BY DEF Heard
  <2> HIDE DEF s, t
  <2>2. List(s.ops) /\ Len(s.ops) \in Nat
    BY <2>1, ListIs
  <2>3. \A k \in 1 .. Len(s.ops) : s.ops[k] \in Op
    BY <2>1
  <2>4. \A k \in 1 .. Len(s.ops) : Writable(s.ops[k])
    BY <2>1 DEF IsSection
  <2>5. \A k \in 1 .. Len(s.ops) : Shaped(s.ops[k])
    BY <2>3, <2>4, OpShaped
  <2>6. HeaderIs(s.header)
    BY <2>1 DEF IsSection, HeaderIs
  <2>7. Formed(s)
    BY <2>2, <2>5, <2>6 DEF Formed, ShapedList
  <2>9. t.header = s.header /\ t.ops = Told(s)
    BY <2>8
  <2>10. Formed(t)
    <3>1. CASE Told(s) = s.ops
      BY <2>7, <2>9, <3>1 DEF Formed
    <3>2. CASE Told(s) = <<>>
      <4>1. List(t.ops) /\ Len(t.ops) = 0
        BY <2>9, <3>2, ListEmpty
      <4>2. ShapedList(t.ops)
        BY <4>1 DEF ShapedList
      <4> QED
        BY <2>6, <2>9, <4>1, <4>2 DEF Formed
    <3> QED
      BY <3>1, <3>2 DEF Told
  <2>11. Fits(s) => t = s
    <3> SUFFICES ASSUME Fits(s) PROVE t = s
      OBVIOUS
    <3>1. SaysNothing(s.header) => s.ops = <<>>
      <4>1. s.header.num_operations = Len(s.ops)
        BY DEF Fits
      <4> QED
        BY <2>2, <4>1, ListEmpty DEF SaysNothing
    <3>2. Told(s) = s.ops
      BY <3>1 DEF Told
    <3> QED
      BY <2>1, <2>8, <3>2
  <2>12. t.ops \in Seq(Op)
    BY <2>1, <2>9 DEF Told
  <2> QED
    BY <2>1, <2>7, <2>9, <2>10, <2>11, <2>12 DEF s, t
<1> QED
  BY <1>2, <1>3, <1>4, <1>5

Payload(s) == IF sec_comp = 0 THEN Body(s) ELSE Compressed(Body(s))
Parts == [i \in 1 .. Len(patch) |-> HeaderOf(Heard[i], sec_comp) \o Payload(Heard[i])]
File == Together(Parts)
Start(i) == Len(File[i - 1]) + 1
PayloadAt(i) == Start(i) + Len(HeaderOf(Heard[i], sec_comp))

LEMMA PayloadIs ==
    ASSUME PatchInv, NEW s, Formed(s)
    PROVE  /\ Fields(Payload(s)) /\ Len(Payload(s)) \in Nat /\ Fields(Body(s))
           /\ Fields(HeaderOf(s, sec_comp))
           /\ Len(HeaderOf(s, sec_comp)) \in Nat /\ Len(HeaderOf(s, sec_comp)) >= 1
           /\ sec_comp = 0 => Payload(s) = Body(s)
           /\ sec_comp = 1 => Payload(s) = Nested(Body(s))
           /\ sec_comp = 2 =>
                 /\ Payload(s) = <<Field("frame_head", 2), Field("frame", Body(s))>>
                 /\ Len(Payload(s)) = 2
           /\ sec_comp = 3 => Payload(s) = <<Field("frame", Body(s))>> /\ Len(Payload(s)) = 1
<1>1. sec_comp \in Algo
  BY PatchIs
<1>2. Fields(Body(s)) /\ HeaderIs(s.header)
  BY SectionParts DEF Formed
<1>3. /\ Fields(HeaderOf(s, sec_comp))
      /\ Len(HeaderOf(s, sec_comp)) \in Nat /\ Len(HeaderOf(s, sec_comp)) >= 1
  <2>1. HeaderIs([s.header EXCEPT !.compression_algo = sec_comp])
    BY <1>1, <1>2, HeaderWithIs
  <2> QED
    BY <2>1, HeaderFieldsAre DEF HeaderOf
<1> DEFINE d == Body(s)
           p == Payload(s)
<1>4. Fields(d)
  BY <1>2
<1>5. p = IF sec_comp = 0 THEN d ELSE Compressed(d)
  BY DEF Payload
<1> HIDE DEF d, p
<1>6. CASE sec_comp = 0
  <2>1. p = d
    BY <1>5, <1>6
  <2>2. Fields(p) /\ Len(p) \in Nat
    BY <1>4, <2>1, ListLen DEF Fields
  <2> QED
    BY <1>3, <1>4, <1>6, <2>1, <2>2 DEF d, p
<1>7. CASE sec_comp = 1
  <2>1. p = Nested(d)
    BY <1>5, <1>7 DEF Compressed
  <2>2. Fields(p)
    BY <1>4, <2>1, NestedIs
  <2>3. Len(p) \in Nat
    BY <2>2, ListLen DEF Fields
  <2> QED
    BY <1>3, <1>4, <1>7, <2>1, <2>2, <2>3 DEF d, p
<1>8. CASE sec_comp = 2
  <2> DEFINE a == Field("frame_head", 2)
             b == Field("frame", d)
  <2>1. p = <<a>> \o <<b>>
    BY <1>5, <1>8 DEF Compressed
  <2>2. Fields(<<a>>) /\ Len(<<a>>) = 1 /\ Fields(<<b>>) /\ Len(<<b>>) = 1
    BY FieldsOne
  <2> HIDE DEF a, b
  <2>3. Fields(<<a>> \o <<b>>) /\ Len(<<a>> \o <<b>>) = Len(<<a>>) + Len(<<b>>)
    BY <2>2, FieldsConcat
  <2>4. <<a>> \o <<b>> = <<a, b>>
    BY PairConcat
  <2>5. Fields(p) /\ Len(p) = 2 /\ p = <<a, b>>
    BY <2>1, <2>2, <2>3, <2>4
  <2> QED
    BY <1>3, <1>4, <1>8, <2>5 DEF d, p, a, b
<1>9. CASE sec_comp = 3
  <2> DEFINE b == Field("frame", d)
  <2>1. p = <<>> \o <<b>>
    BY <1>5, <1>9 DEF Compressed
  <2>2. Fields(<<b>>) /\ Len(<<b>>) = 1
    BY FieldsOne
  <2>3. <<>> \o <<b>> = <<b>>
    OBVIOUS
  <2> HIDE DEF b
  <2>4. Fields(p) /\ Len(p) = 1 /\ p = <<b>>
    BY <2>1, <2>2, <2>3
  <2> QED
    BY <1>3, <1>4, <1>9, <2>4 DEF d, p, b
<1> QED
  BY <1>1, <1>6, <1>7, <1>8, <1>9 DEF Algo

LEMMA PartsAre ==
    ASSUME PatchInv
    PROVE  /\ AreLists(Parts) /\ Len(Parts) = Len(patch)
           /\ \A i \in 1 .. Len(patch) :
                 /\ Parts[i] = HeaderOf(Heard[i], sec_comp) \o Payload(Heard[i])
                 /\ Fields(Parts[i])
                 /\ Len(Parts[i]) = Len(HeaderOf(Heard[i], sec_comp)) + Len(Payload(Heard[i]))
<1> DEFINE n == Len(patch)
           P == Parts
           part(i) == HeaderOf(Heard[i], sec_comp) \o Payload(Heard[i])
<1>1. n \in Nat
  BY PatchIs
<1>2. P = [i \in 1 .. n |-> part(i)]
  BY DEF Parts
<1>3. ASSUME NEW i \in 1 .. n
      PROVE  /\ Fields(part(i))
             /\ Len(part(i)) = Len(HeaderOf(Heard[i], sec_comp)) + Len(Payload(Heard[i]))
  <2>1. Formed(Heard[i])
    BY PatchIs
  <2>2. Fields(HeaderOf(Heard[i], sec_comp)) /\ Fields(Payload(Heard[i]))
    BY <2>1, PayloadIs
  <2> QED
    BY <2>2, FieldsConcat
<1> HIDE DEF n, P, part
<1>4. DOMAIN P = 1 .. n /\ P = [i \in 1 .. n |-> P[i]] /\ \A i \in 1 .. n : P[i] = part(i)
  BY <1>2
<1>5. Len(P) = n
  BY <1>1, <1>4, ListOf
<1>6. \A i \in 1 .. n : Fields(P[i])
  BY <1>3, <1>4
<1>7. AreLists(P)
  BY <1>1, <1>5, <1>6, FieldsJoined
<1> QED
  BY <1>3, <1>4, <1>5, <1>6, <1>7 DEF n, P, part

LEMMA FileIs ==
    ASSUME PatchInv
    PROVE  /\ File[0] = <<>> /\ Len(File[0]) = 0
           /\ \A i \in 0 .. Len(patch) : Fields(File[i]) /\ Len(File[i]) \in Nat
           /\ \A i \in 1 .. Len(patch) :
                 /\ File[i] = File[i - 1] \o Parts[i]
                 /\ Start(i) \in Nat /\ Start(i) >= 1 /\ PayloadAt(i) \in Nat
                 /\ Start(i) < PayloadAt(i)
                 /\ Start(i + 1) = PayloadAt(i) + Len(Payload(Heard[i]))
                 /\ Start(i + 1) = Len(File[i]) + 1
           /\ \A i, j \in 0 .. Len(patch) : i <= j => Len(File[i]) <= Len(File[j])
<1> DEFINE n == Len(patch)
           P == Parts
           F == File
<1>1. /\ n \in Nat /\ AreLists(P) /\ Len(P) = n
      /\ \A i \in 1 .. n :
            /\ Fields(P[i])
            /\ Len(P[i]) = Len(HeaderOf(Heard[i], sec_comp)) + Len(Payload(Heard[i]))
  BY PatchIs, PartsAre
<1>2. \A i \in 1 .. n : /\ Len(HeaderOf(Heard[i], sec_comp)) \in Nat
                        /\ Len(HeaderOf(Heard[i], sec_comp)) >= 1
                        /\ Len(Payload(Heard[i])) \in Nat
  BY PatchIs, PayloadIs
<1>3. F = Together(P)
  BY DEF File
<1>4. \A i : Start(i) = Len(F[i - 1]) + 1 /\ PayloadAt(i) = Start(i) + Len(HeaderOf(Heard[i], sec_comp))
  BY DEF Start, PayloadAt
<1> HIDE DEF n, P, F
<1>5. F[0] = <<>> /\ \A i \in 1 .. n : F[i] = F[i - 1] \o P[i]
  BY <1>1, <1>3, TogetherIs
<1>6. \A i \in 0 .. n : Fields(F[i])
  BY <1>1, <1>3, FieldsJoined
<1>7. /\ Len(F[0]) = 0 /\ \A i \in 0 .. n : Len(F[i]) \in Nat
      /\ \A i \in 1 .. n : Len(F[i]) = Len(F[i - 1]) + Len(P[i])
  BY <1>1, <1>3, JoinedLists
<1>8. \A i, j \in 0 .. n : i <= j => Len(F[i]) <= Len(F[j])
  BY <1>1, <1>3, JoinedGrows
<1>9. ASSUME NEW i \in 1 .. n
      PROVE  /\ Start(i) \in Nat /\ Start(i) >= 1 /\ PayloadAt(i) \in Nat
             /\ Start(i) < PayloadAt(i)
             /\ Start(i + 1) = PayloadAt(i) + Len(Payload(Heard[i]))
             /\ Start(i + 1) = Len(F[i]) + 1
  <2> DEFINE a == Len(F[i - 1])
             b == Len(F[i])
             c == Len(HeaderOf(Heard[i], sec_comp))
             d == Len(Payload(Heard[i]))
             s == Start(i)
             t == Start(i + 1)
             p == PayloadAt(i)
  <2>1. i - 1 \in 0 .. n /\ i \in 0 .. n /\ (i + 1) - 1 = i
    BY <1>1
  <2>2. a \in Nat /\ b \in Nat
    BY <1>7, <2>1
  <2>3. c \in Nat /\ c >= 1 /\ d \in Nat
    BY <1>2
  <2>4. b = a + (c + d)
    BY <1>1, <1>7
  <2>5. s = a + 1 /\ p = s + c /\ t = b + 1
    BY <1>4, <2>1
  <2> HIDE DEF a, b, c, d, s, t, p
  <2>6. s \in Nat /\ s >= 1 /\ p \in Nat /\ s < p /\ t = p + d /\ t = b + 1
    BY <2>2, <2>3, <2>4, <2>5
  <2> QED
    BY <2>6 DEF b, d, s, t, p
<1> QED
  BY <1>5, <1>6, <1>7, <1>8, <1>9 DEF n, P, F

(* Where its parts are in a file that begins like the whole one. *)
LEMMA FileAt ==
    ASSUME PatchInv, NEW file, PartAt(file, 1, File[Len(patch)]), NEW i \in 1 .. Len(patch)
    PROVE  /\ PartAt(file, Start(i), HeaderOf(Heard[i], sec_comp))
           /\ PartAt(file, PayloadAt(i), Payload(Heard[i]))
<1> DEFINE P == Parts
           a == HeaderOf(Heard[i], sec_comp)
           b == Payload(Heard[i])
           s == Start(i)
<1>1. AreLists(P) /\ Len(P) = Len(patch) /\ P[i] = a \o b
  BY PartsAre
<1>2. Formed(Heard[i])
  BY PatchIs
<1>3. List(a) /\ List(b)
  BY <1>2, PayloadIs DEF Fields
<1>4. s \in Nat /\ s = 1 + Len(Together(P)[i - 1]) /\ PayloadAt(i) = s + Len(a)
  <2>1. Start(i) \in Nat
    BY FileIs
  <2>2. Len(File[i - 1]) \in Nat
    <3>1. i - 1 \in 0 .. Len(patch)
      BY PatchIs
    <3> QED
      BY <3>1, FileIs
  <2>3. Start(i) = Len(File[i - 1]) + 1 /\ File = Together(P)
    BY DEF Start, File
  <2> QED
    BY <2>1, <2>2, <2>3 DEF PayloadAt
<1>5. PartAt(file, 1, Together(P)[Len(P)])
  BY <1>1 DEF File
<1> HIDE DEF P, a, b, s
<1>6. PartAt(file, s, a \o b)
  BY <1>1, <1>4, <1>5, AtJoinedOne
<1>7. s \in Int
  BY <1>4
<1>8. PartAt(file, s, a) /\ PartAt(file, s + Len(a), b)
  BY <1>3, <1>6, <1>7, AtConcat
<1> QED
  BY <1>4, <1>8 DEF a, b, s

AddsUp(s) ==
    /\ SumOal(s.ops) = s.header.output_size
    /\ s.header.format = "Segregated" =>
          Len(Together(HeldOf(s))[Len(s.ops)]) = s.header.num_add_bytes
Sound(s) == Fits(s) /\ AddsUp(s)

(* The file while it is written. *)
Opened == File[section - 1] \o HeaderOf(Section, sec_comp)
WritingOps ==
    /\ Fits(Section) /\ written \in 0 .. Len(Section.ops)
    /\ last_addr = Registers(Section.ops)[written]
    /\ add_bytes_slices = Together(HeldOf(Section))[written]
    /\ sec_comp = 0 => wire = Opened \o Together(OpsOf(Section))[written] /\ sec_data_buffer = <<>>
    /\ sec_comp # 0 => wire = Opened /\ sec_data_buffer = Together(OpsOf(Section))[written]

(* The file when it is not written any more: a part of the whole one, which *)
(* ends with the first section that is not sound.                           *)
WireCut ==
    /\ List(wire) /\ PartAt(wire, 1, File[Len(patch)]) /\ Len(wire) <= Len(File[Len(patch)])
    /\ \A i \in 1 .. Len(patch) :
          /\ Fits(patch[i]) \/ Len(wire) < PayloadAt(i)
          /\ sec_comp = 0 \/ Sound(patch[i]) \/ Len(wire) < PayloadAt(i)
    /\ writer = "ok" => wire = File[Len(patch)]
    /\ writer \in {"ok", "truncated"} => \A i \in 1 .. Len(patch) : Sound(patch[i])
    /\ writer = "truncated" => Len(wire) < Len(File[Len(patch)])

WriterInv ==
    /\ PatchInv
    /\ section \in 1 .. Len(patch)
    /\ ~ WriterStopped => \A i \in 1 .. section - 1 : Sound(patch[i])
    /\ writer = "header" => wire = File[section - 1] /\ sec_data_buffer = <<>>
    /\ writer = "ops" => WritingOps
    /\ WriterStopped => WireCut
    /\ writer \in {"header", "ops", "ok", "error", "panic", "truncated"}

LEMMA PatchKept ==
    ASSUME UNCHANGED <<patch, sec_comp>>
    PROVE  /\ PatchInv' <=> PatchInv
           /\ Heard' = Heard /\ Parts' = Parts /\ File' = File
           /\ \A i : PayloadAt(i)' = PayloadAt(i) /\ Start(i)' = Start(i)
           /\ \A s : Payload(s)' = Payload(s)
<1>1. patch' = patch /\ sec_comp' = sec_comp
  OBVIOUS
<1>2. PatchInv' <=> PatchInv
  BY <1>1 DEF PatchInv
<1>8. Heard' = Heard
  BY <1>1 DEF Heard
<1>3. Parts' = Parts
  BY <1>1, <1>8 DEF Parts, Payload, Compressed
<1>4. File' = File
  BY <1>3 DEF File
<1>5. \A i : Start(i)' = Start(i)
  BY <1>4 DEF Start
<1>6. \A i : PayloadAt(i)' = PayloadAt(i)
  BY <1>1, <1>5, <1>8 DEF PayloadAt
<1>7. \A s : Payload(s)' = Payload(s)
  BY <1>1 DEF Payload, Compressed
<1> QED
  BY <1>2, <1>3, <1>4, <1>5, <1>6, <1>7, <1>8

(* What is written is the beginning of the whole file. *)
LEMMA AtFlip ==
    ASSUME NEW w, NEW f, List(w), List(f), Len(w) <= Len(f), PartAt(f, 1, w)
    PROVE  PartAt(w, 1, f)
<1>1. Len(w) \in Nat /\ Len(f) \in Nat
  BY ListLen
<1> SUFFICES ASSUME NEW i \in 1 .. Len(f), 1 + i - 1 <= Len(w)
             PROVE  w[1 + i - 1] = f[i]
  BY DEF PartAt
<1>2. i \in 1 .. Len(w) /\ 1 + i - 1 = i /\ 1 + i - 1 <= Len(f)
  BY <1>1
<1>3. f[1 + i - 1] = w[i]
  BY <1>2 DEF PartAt
<1> QED
  BY <1>2, <1>3

LEMMA Prefix ==
    ASSUME PatchInv, NEW i \in 0 .. Len(patch)
    PROVE  PartAt(File[i], 1, File[Len(patch)]) /\ PartAt(File[Len(patch)], 1, File[i])
<1> DEFINE n == Len(patch)
           P == Parts
           F == File[n]
           one == 1
<1>1. n \in Nat /\ n \in 0 .. n
  BY PatchIs
<1>2. Fields(F) /\ Fields(File[i]) /\ Len(File[i]) <= Len(F)
  <2>1. i <= n
    BY <1>1
  <2> QED
    BY <1>1, <2>1, FileIs
<1>3. List(F) /\ List(File[i])
  BY <1>2 DEF Fields
<1>4. AreLists(P) /\ Len(P) = n
  BY PartsAre
<1>5. F = Together(P)[n]
  BY DEF File
<1>6. one \in Int /\ PartAt(F, one, Together(P)[Len(P)])
  BY <1>3, <1>4, <1>5, AtSelf
<1> HIDE DEF one, n, F, P
<1>7. \A k \in 0 .. n : PartAt(F, one, Together(P)[k])
  BY <1>4, <1>6, AtJoined
<1>8. PartAt(F, 1, File[i])
  BY <1>7 DEF File, P, one, n
<1>9. PartAt(File[i], 1, F)
  BY <1>2, <1>3, <1>8, AtFlip
<1> QED
  BY <1>8, <1>9 DEF F, n

LEMMA OpenedIs ==
    ASSUME PatchInv, NEW i \in 1 .. Len(patch), NEW w,
           w = File[i - 1] \o HeaderOf(Heard[i], sec_comp)
    PROVE  /\ List(w) /\ Len(w) + 1 = PayloadAt(i) /\ PartAt(w, 1, File[Len(patch)])
           /\ PartAt(File[Len(patch)], 1, w) /\ Len(w) <= Len(File[Len(patch)])
           /\ File[i] = w \o Payload(Heard[i])
<1> DEFINE n == Len(patch)
           F == File[n]
           a == File[i - 1]
           b == HeaderOf(Heard[i], sec_comp)
           c == Payload(Heard[i])
<1>1. n \in Nat /\ i - 1 \in 0 .. n /\ i \in 0 .. n /\ n \in 0 .. n /\ i <= n
  BY PatchIs
<1>2. Formed(Heard[i])
  BY PatchIs
<1>3. List(a) /\ List(b) /\ List(c) /\ Len(a) \in Nat /\ Len(b) \in Nat /\ Len(c) \in Nat
  BY <1>1, <1>2, FileIs, PayloadIs DEF Fields
<1>4. List(F) /\ Len(F) \in Nat /\ Len(File[i]) <= Len(F) /\ Len(File[i]) \in Nat
  BY <1>1, FileIs DEF Fields
<1>5. Start(i) = Len(a) + 1 /\ PayloadAt(i) = Len(a) + 1 + Len(b)
  BY DEF Start, PayloadAt
<1>6. Len(File[i]) + 1 = PayloadAt(i) + Len(c)
  BY FileIs
<1>7. w = a \o b
  OBVIOUS
<1>8. File[i] = a \o (b \o c)
  BY FileIs, PartsAre
<1>9. PartAt(F, 1, a) /\ PartAt(F, Start(i), b)
  <2>1. PartAt(F, 1, a)
    BY <1>1, Prefix
  <2>2. PartAt(F, 1, F)
    BY <1>4, AtSelf
  <2>3. PartAt(F, Start(i), b)
    BY <2>2, FileAt
  <2> QED
    BY <2>1, <2>3
<1> HIDE DEF n, F, a, b, c
<1>10. List(w) /\ Len(w) = Len(a) + Len(b)
  BY <1>3, <1>7, ListConcat
<1>11. Len(w) + 1 = PayloadAt(i) /\ Len(w) <= Len(F)
  BY <1>3, <1>4, <1>5, <1>6, <1>10
<1>12. PartAt(F, 1, w)
  <2> DEFINE one == 1
  <2>1. one \in Int /\ PartAt(F, one, a) /\ Start(i) = one + Len(a)
    BY <1>3, <1>5, <1>9
  <2> HIDE DEF one
  <2>2. PartAt(F, one, a \o b)
    BY <1>3, <1>9, <2>1, AtBoth
  <2> QED
    BY <1>7, <2>2 DEF one
<1>13. PartAt(w, 1, F)
  BY <1>4, <1>10, <1>11, <1>12, AtFlip
<1>14. (a \o b) \o c = a \o (b \o c)
  BY <1>3, ListAssoc, SMTT(30)
<1> QED
  BY <1>7, <1>8, <1>10, <1>11, <1>12, <1>13, <1>14 DEF n, F, c

(* The file stopped behind the header of a section, or behind the section. *)
LEMMA StoppedAt ==
    ASSUME PatchInv, NEW i \in 1 .. Len(patch), NEW j \in 1 .. Len(patch), NEW w
    PROVE  /\ j >= i /\ Len(w) + 1 = PayloadAt(i) /\ Len(w) \in Nat => Len(w) < PayloadAt(j)
           /\ j > i /\ Len(w) = Len(File[i]) => Len(w) < PayloadAt(j)
<1> DEFINE n == Len(patch)
           s == Start(j)
           p == PayloadAt(j)
           l(k) == Len(File[k])
<1>1. n \in Nat /\ i \in 0 .. n /\ j - 1 \in 0 .. n
  BY PatchIs
<1>2. s \in Nat /\ p \in Nat /\ s < p /\ PayloadAt(i) \in Nat
  BY FileIs
<1>3. s = l(j - 1) + 1 /\ l(j - 1) \in Nat /\ l(i) \in Nat
  BY <1>1, FileIs DEF Start
<1>4. ASSUME j > i PROVE l(i) <= l(j - 1)
  <2>1. i <= j - 1
    BY <1>1, <1>4
  <2> QED
    BY <1>1, <2>1, FileIs
<1>5. PayloadAt(i) + Len(Payload(Heard[i])) = l(i) + 1
  BY FileIs
<1>6. Len(Payload(Heard[i])) \in Nat
  BY PatchIs, PayloadIs
<1>7. ASSUME j = i PROVE p = PayloadAt(i)
  BY <1>7
<1>8. i = j \/ i < j \/ j < i
  BY <1>1
<1> HIDE DEF n, s, p, l
<1>9. ASSUME j >= i, Len(w) + 1 = PayloadAt(i), Len(w) \in Nat PROVE Len(w) < p
  <2>1. CASE j = i
    <3>1. Len(w) + 1 = p
      BY <1>7, <1>9, <2>1
    <3> QED
      BY <1>9, <3>1
  <2>2. CASE j > i
    BY <1>2, <1>3, <1>4, <1>5, <1>6, <1>9, <2>2, SMTT(30)
  <2> QED
    BY <1>8, <1>9, <2>1, <2>2
<1>10. ASSUME j > i, Len(w) = l(i) PROVE Len(w) < p
  BY <1>2, <1>3, <1>4, <1>10
<1> QED
  BY <1>9, <1>10 DEF p, l

LEMMA WriterStarts ==
    ASSUME WriterInit
    PROVE  WriterInv
<1>1. PatchInv /\ section = 1 /\ writer = "header" /\ wire = <<>> /\ sec_data_buffer = <<>>
  BY DEF WriterInit, PatchInv
<1>2. Len(patch) \in Nat /\ Len(patch) >= 1
  BY <1>1, PatchIs
<1>3. section \in 1 .. Len(patch) /\ 1 .. section - 1 = {} /\ section - 1 = 0
  BY <1>1, <1>2
<1>4. wire = File[section - 1]
  BY <1>1, <1>3, FileIs
<1> QED
  BY <1>1, <1>3, <1>4 DEF WriterInv, WriterStopped

LEMMA WriteHeaderKeeps ==
    ASSUME WriterInv, WriteHeader
    PROVE  WriterInv'
<1> DEFINE s == Section
           n == Len(patch)
           w == wire'
<1>1. /\ PatchInv /\ section \in 1 .. n /\ writer = "header"
      /\ wire = File[section - 1] /\ sec_data_buffer = <<>>
      /\ \A i \in 1 .. section - 1 : Sound(patch[i])
  BY DEF WriterInv, WriteHeader, WriterStopped
<1>2. UNCHANGED <<patch, section, sec_comp, sec_data_buffer>>
  BY DEF WriteHeader
<1>3. /\ PatchInv' /\ File' = File /\ \A i : PayloadAt(i)' = PayloadAt(i)
  BY <1>1, <1>2, PatchKept
<1>4. /\ s = patch[section] /\ Formed(s) /\ Section' = s /\ n \in Nat
      /\ Heard[section].header = s.header
  BY <1>1, <1>2, PatchIs DEF Section
<1>5. w = File[section - 1] \o HeaderOf(Heard[section], sec_comp)
  BY <1>1, <1>4 DEF WriteHeader, HeaderOf, Section
<1>6. /\ List(w) /\ Len(w) + 1 = PayloadAt(section) /\ PartAt(w, 1, File[n])
      /\ Len(w) <= Len(File[n]) /\ Len(w) \in Nat
  <2> HIDE DEF w
  <2>1. /\ List(w) /\ Len(w) + 1 = PayloadAt(section) /\ PartAt(w, 1, File[n])
        /\ Len(w) <= Len(File[n])
    BY <1>1, <1>5, OpenedIs
  <2> QED
    BY <2>1, ListLen
<1>7. section' \in 1 .. Len(patch')
  BY <1>1, <1>2
<1>8. CASE s.header.output_size > MAX_WIN_SIZE \/ s.header.num_operations # Len(s.ops)
  <2>1. writer' = "error"
    BY <1>8 DEF WriteHeader
  <2>2. ASSUME NEW i \in 1 .. n PROVE Sound(patch[i]) \/ Len(w) < PayloadAt(i)
    <3>1. CASE i < section
      <4>1. i \in 1 .. section - 1
        BY <1>1, <1>4, <3>1
      <4> QED
        BY <1>1, <4>1
    <3>2. CASE i >= section
      <4> HIDE DEF w
      <4> QED
        BY <1>1, <1>6, <3>2, StoppedAt
    <3>3. i < section \/ i >= section
      BY <1>1, <1>4
    <3> QED
      BY <3>1, <3>2, <3>3
  <2>3. \A i \in 1 .. n : /\ Fits(patch[i]) \/ Len(w) < PayloadAt(i)
                          /\ sec_comp = 0 \/ Sound(patch[i]) \/ Len(w) < PayloadAt(i)
    BY <2>2 DEF Sound
  <2>4. WireCut'
    BY <1>2, <1>3, <1>6, <2>1, <2>3 DEF WireCut
  <2> QED
    BY <1>3, <1>7, <2>1, <2>4 DEF WriterInv, WriterStopped
<1>9. CASE ~ (s.header.output_size > MAX_WIN_SIZE \/ s.header.num_operations # Len(s.ops))
  <2>1. writer' = "ops" /\ written' = 0 /\ last_addr' = NoAddr /\ add_bytes_slices' = <<>>
    BY <1>9 DEF WriteHeader
  <2>2. Fits(s)
    <3>1. HeaderIs(s.header)
      BY <1>4 DEF Formed
    <3>2. s.header.output_size \in Nat /\ MAX_WIN_SIZE \in Nat
      BY <3>1, HeaderTypes, WriterAssumption
    <3> QED
      BY <1>9, <3>2 DEF Fits
  <2>3. Len(s.ops) \in Nat /\ 0 \in 0 .. Len(s.ops) /\ ShapedList(s.ops)
    BY <1>4, FormedIs
  <2>4. Registers(s.ops)[0] = NoAddr
    BY <2>3, RegistersIs
  <2>5. Together(HeldOf(s))[0] = <<>> /\ Together(OpsOf(s))[0] = <<>>
    BY <1>4, SectionParts, TogetherIs
  <2>6. w \o <<>> = w
    BY <1>6, ListEmpty
  <2>7. Opened' = w
    BY <1>2, <1>3, <1>4, <1>5 DEF Opened, HeaderOf
  <2>8. WritingOps'
    <3>1. Fits(Section') /\ written' \in 0 .. Len((Section').ops)
      BY <1>4, <2>1, <2>2, <2>3
    <3>2. last_addr' = Registers((Section').ops)[written']
          /\ add_bytes_slices' = Together(HeldOf(Section'))[written']
      BY <1>4, <2>1, <2>4, <2>5
    <3>3. sec_data_buffer' = <<>> /\ wire' = Opened'
      BY <1>1, <1>2, <2>7
    <3>4. sec_comp = 0 => wire' = Opened' \o Together(OpsOf(Section'))[written'] /\ sec_data_buffer' = <<>>
      BY <1>4, <2>1, <2>5, <2>6, <2>7, <3>3
    <3>5. sec_comp # 0 => wire' = Opened' /\ sec_data_buffer' = Together(OpsOf(Section'))[written']
      BY <1>4, <2>1, <2>5, <3>3
    <3> QED
      BY <1>2, <3>1, <3>2, <3>4, <3>5 DEF WritingOps
  <2>9. \A i \in 1 .. section' - 1 : Sound((patch')[i])
    BY <1>1, <1>2
  <2> QED
    BY <1>3, <1>7, <2>1, <2>8, <2>9 DEF WriterInv, WriterStopped
<1> QED
  BY <1>8, <1>9

LEMMA WriteHeaderPanicsKeeps ==
    ASSUME WriterInv, WriteHeaderPanics
    PROVE  WriterInv'
<1> DEFINE n == Len(patch)
           g == [Heard[section].header EXCEPT !.compression_algo = sec_comp]
           f == File[section - 1]
           a == HeaderStart(g)
           d == u_varint[LastNumber(g)]
           w == wire'
           full == f \o HeaderOf(Heard[section], sec_comp)
<1>1. /\ PatchInv /\ section \in 1 .. n /\ wire = f
      /\ \A i \in 1 .. section - 1 : Sound(patch[i])
  BY DEF WriterInv, WriteHeaderPanics, WriterStopped
<1>2. UNCHANGED <<patch, section, sec_comp>> /\ writer' = "panic"
  BY DEF WriteHeaderPanics
<1>3. /\ PatchInv' /\ File' = File /\ \A i : PayloadAt(i)' = PayloadAt(i)
  BY <1>1, <1>2, PatchKept
<1>4. n \in Nat /\ Formed(Heard[section]) /\ sec_comp \in Algo
      /\ Heard[section].header = Section.header
  BY <1>1, PatchIs DEF Section
<1>5. HeaderIs(g)
  BY <1>4, HeaderWithIs DEF Formed
<1>6. w = f \o a
  BY <1>1, <1>4 DEF WriteHeaderPanics
<1>7. HeaderOf(Heard[section], sec_comp) = a \o d /\ List(a) /\ List(d) /\ Len(d) \in Nat /\ Len(d) >= 1
  BY <1>5, HeaderStartIs DEF HeaderOf
<1>8. /\ List(full) /\ Len(full) + 1 = PayloadAt(section) /\ PartAt(full, 1, File[n])
      /\ PartAt(File[n], 1, full)
      /\ Len(full) <= Len(File[n]) /\ Len(full) \in Nat
  <2> HIDE DEF full
  <2>1. /\ List(full) /\ Len(full) + 1 = PayloadAt(section) /\ PartAt(full, 1, File[n])
        /\ PartAt(File[n], 1, full) /\ Len(full) <= Len(File[n])
    BY <1>1, OpenedIs DEF full
  <2> QED
    BY <2>1, ListLen
<1>9. List(f) /\ List(File[n]) /\ Len(File[n]) \in Nat
  <2>1. section - 1 \in 0 .. n /\ n \in 0 .. n
    BY <1>1, <1>4
  <2> QED
    BY <1>1, <2>1, FileIs DEF Fields
<1> DEFINE F == File[n]
<1> HIDE DEF n, g, f, a, d
<1>10. full = w \o d /\ List(w)
  <2>0. List(f) /\ List(a) /\ List(d)
    BY <1>7, <1>9
  <2>1. (f \o a) \o d = f \o (a \o d)
    <3> HIDE DEF full, w
    <3> QED
      BY <2>0, ListAssoc
  <2>2. List(f \o a)
    BY <1>7, <1>9, ListConcat
  <2>3. full = f \o (a \o d)
    BY <1>7
  <2> HIDE DEF full, w
  <2> QED
    BY <1>6, <2>1, <2>2, <2>3
<1> HIDE DEF full, w, F
<1>11. Len(w) \in Nat /\ Len(full) = Len(w) + Len(d)
  BY <1>7, <1>10, ListConcat, ListLen
<1>12. PartAt(w, 1, F) /\ Len(w) <= Len(F) /\ Len(w) < PayloadAt(section)
  <2>1. Len(w) <= Len(F) /\ Len(w) < PayloadAt(section)
    BY <1>7, <1>8, <1>9, <1>11 DEF F
  <2> DEFINE one == 1
  <2>2. PartAt(F, one, w \o d) /\ one \in Int
    BY <1>8, <1>10 DEF F
  <2> HIDE DEF one
  <2>3. PartAt(F, one, w)
    BY <1>7, <1>10, <2>2, AtConcat
  <2>4. PartAt(w, 1, F)
    BY <1>9, <1>10, <2>1, <2>3, AtFlip DEF one, F
  <2> QED
    BY <2>1, <2>4
<1>13. ASSUME NEW i \in 1 .. n PROVE Sound(patch[i]) \/ Len(w) < PayloadAt(i)
  <2>1. CASE i < section
    <3>1. i \in 1 .. section - 1
      BY <1>1, <1>4, <2>1
    <3> QED
      BY <1>1, <3>1
  <2>2. CASE i >= section
    <3>1. Len(full) < PayloadAt(i) /\ PayloadAt(i) \in Nat
      <4>1. Len(full) < PayloadAt(i)
        BY <1>1, <1>8, <2>2, StoppedAt DEF n
      <4> QED
        BY <1>1, <4>1, FileIs DEF n
    <3> QED
      BY <1>7, <1>8, <1>11, <3>1
  <2>3. i < section \/ i >= section
    BY <1>1, <1>4
  <2> QED
    BY <2>1, <2>2, <2>3
<1>14. \A i \in 1 .. n : /\ Fits(patch[i]) \/ Len(w) < PayloadAt(i)
                         /\ sec_comp = 0 \/ Sound(patch[i]) \/ Len(w) < PayloadAt(i)
  BY <1>13 DEF Sound
<1>15. WireCut'
  BY <1>2, <1>3, <1>10, <1>12, <1>14 DEF WireCut, w, n, F
<1> QED
  BY <1>1, <1>2, <1>3, <1>15 DEF WriterInv, WriterStopped, n

LEMMA WriteOpKeeps ==
    ASSUME WriterInv, WriteOp
    PROVE  WriterInv'
<1> DEFINE s == Section
           n == Len(patch)
           m == Len(Section.ops)
           k == written + 1
           op == Section.ops[written + 1]
           fields == OpFields(op, last_addr, s.header.format)
           O == Together(OpsOf(s))
           H == Together(HeldOf(s))
<1>1. /\ PatchInv /\ section \in 1 .. n /\ writer = "ops" /\ WritingOps
      /\ \A i \in 1 .. section - 1 : Sound(patch[i])
  BY DEF WriterInv, WriteOp, WriterStopped
<1>2. /\ UNCHANGED <<patch, section, sec_comp, writer>> /\ written < m /\ written' = k
      /\ PutFields(fields)
  BY DEF WriteOp
<1>3. last_addr' = IF is_copy(op) THEN [last_addr EXCEPT ![op.src] = op.addr] ELSE last_addr
  BY DEF WriteOp
<1>4. add_bytes_slices' = IF is_add(op) /\ s.header.format = "Segregated"
                          THEN add_bytes_slices \o op.bytes ELSE add_bytes_slices
  BY DEF WriteOp
<1>5. /\ PatchInv' /\ File' = File
  BY <1>1, <1>2, PatchKept
<1>6. s = patch[section] /\ Formed(s) /\ Section' = s /\ n \in Nat /\ m \in Nat
  <2>1. s = patch[section] /\ Formed(s) /\ Section' = s /\ n \in Nat
    BY <1>1, <1>2, PatchIs DEF Section
  <2> QED
    BY <2>1, FormedIs
<1>7. written \in 0 .. m /\ k \in 1 .. m /\ k - 1 = written /\ k \in 0 .. m
  <2>1. written \in 0 .. m
    BY <1>1 DEF WritingOps
  <2>2. written < m /\ m \in Nat
    BY <1>2, <1>6
  <2> HIDE DEF m
  <2> QED
    BY <2>1, <2>2
<1>8. /\ last_addr = Registers(s.ops)[written] /\ add_bytes_slices = H[written]
      /\ sec_comp = 0 => wire = Opened \o O[written] /\ sec_data_buffer = <<>>
      /\ sec_comp # 0 => wire = Opened /\ sec_data_buffer = O[written]
      /\ Fits(s)
  BY <1>1 DEF WritingOps
<1>9. last_addr' = Registers(s.ops)[k]
  <2>1. ShapedList(s.ops)
    BY <1>6, FormedIs
  <2>2. Registers(s.ops)[k] = IF is_copy(s.ops[k])
                              THEN [Registers(s.ops)[k - 1] EXCEPT ![s.ops[k].src] = s.ops[k].addr]
                              ELSE Registers(s.ops)[k - 1]
    BY <1>7, <2>1, RegistersIs
  <2> QED
    BY <1>3, <1>7, <1>8, <2>2
<1>10. /\ AreLists(OpsOf(s)) /\ Len(OpsOf(s)) = m /\ OpsOf(s)[k] = fields /\ List(fields)
       /\ List(O[written])
       /\ AreLists(HeldOf(s)) /\ Len(HeldOf(s)) = m
       /\ HeldOf(s)[k] = IF is_add(op) /\ s.header.format = "Segregated" THEN op.bytes ELSE <<>>
       /\ List(H[written])
  <2>1. /\ AreLists(OpsOf(s)) /\ Len(OpsOf(s)) = m
        /\ OpsOf(s)[k] = OpFields(s.ops[k], Registers(s.ops)[k - 1], s.header.format)
        /\ Fields(O[written])
        /\ AreLists(HeldOf(s)) /\ Len(HeldOf(s)) = m
        /\ HeldOf(s)[k] = IF is_add(s.ops[k]) /\ s.header.format = "Segregated"
                          THEN s.ops[k].bytes ELSE <<>>
        /\ List(H[written])
    BY <1>6, <1>7, SectionParts
  <2>2. OpsOf(s)[k] = fields
    BY <1>7, <1>8, <2>1
  <2>3. List(OpsOf(s)[k])
    BY <1>7, <2>1 DEF AreLists
  <2>4. HeldOf(s)[k] = IF is_add(op) /\ s.header.format = "Segregated" THEN op.bytes ELSE <<>>
    BY <2>1
  <2>5. List(O[written])
    BY <2>1 DEF Fields
  <2>6. List(fields)
    BY <2>2, <2>3
  <2> QED
    BY <2>1, <2>2, <2>4, <2>5, <2>6
<1>11. O[k] = O[written] \o fields /\ H[k] = H[written] \o HeldOf(s)[k]
  BY <1>7, <1>10, TogetherIs
<1>12. add_bytes_slices' = H[k]
  <2>1. H[written] \o <<>> = H[written]
    BY <1>10, ListEmpty
  <2> QED
    BY <1>4, <1>8, <1>10, <1>11, <2>1
<1>13. Opened' = Opened /\ List(Opened)
  <2>1. Opened' = Opened
    BY <1>2, <1>5, <1>6 DEF Opened
  <2>2. Opened = File[section - 1] \o HeaderOf(Heard[section], sec_comp)
    BY <1>1, PatchIs DEF Opened, HeaderOf, Section
  <2>3. List(Opened)
    BY <1>1, <2>2, OpenedIs
  <2> QED
    BY <2>1, <2>3
<1> HIDE DEF s, m, k, op, fields, O, H
<1>14. sec_comp = 0 => wire' = Opened \o O[k] /\ sec_data_buffer' = <<>>
  <2> SUFFICES ASSUME sec_comp = 0 PROVE wire' = Opened \o O[k] /\ sec_data_buffer' = <<>>
    OBVIOUS
  <2>1. wire' = wire \o fields /\ sec_data_buffer' = sec_data_buffer
    BY <1>2 DEF PutFields
  <2>2. (Opened \o O[written]) \o fields = Opened \o (O[written] \o fields)
    <3> DEFINE a == Opened
               b == O[written]
    <3>1. List(a) /\ List(b) /\ List(fields)
      BY <1>10, <1>13
    <3> HIDE DEF a, b
    <3>2. (a \o b) \o fields = a \o (b \o fields)
      BY <3>1, ListAssoc
    <3> QED
      BY <3>2 DEF a, b
  <2> QED
    BY <1>8, <1>11, <2>1, <2>2
<1>15. sec_comp # 0 => wire' = Opened /\ sec_data_buffer' = O[k]
  BY <1>2, <1>8, <1>11 DEF PutFields
<1>16. WritingOps'
  <2>1. Fits(Section') /\ written' \in 0 .. Len((Section').ops)
    BY <1>2, <1>6, <1>7, <1>8 DEF m, s
  <2>2. last_addr' = Registers((Section').ops)[written']
    BY <1>2, <1>6, <1>9
  <2>3. add_bytes_slices' = Together(HeldOf(Section'))[written']
    BY <1>2, <1>6, <1>12 DEF H
  <2>4. O[k] = Together(OpsOf(Section'))[written']
    BY <1>2, <1>6 DEF O
  <2>5. sec_comp' = sec_comp /\ Opened' = Opened
    BY <1>2, <1>13
  <2> QED
    BY <1>14, <1>15, <2>1, <2>2, <2>3, <2>4, <2>5 DEF WritingOps
<1>17. section' \in 1 .. Len(patch') /\ \A i \in 1 .. section' - 1 : Sound((patch')[i])
  BY <1>1, <1>2
<1>18. writer' = "ops"
  BY <1>1, <1>2
<1> QED
  BY <1>5, <1>16, <1>17, <1>18 DEF WriterInv, WriterStopped

LEMMA FinishOpsKeeps ==
    ASSUME WriterInv, FinishOps
    PROVE  WriterInv'
<1> DEFINE s == Section
           n == Len(patch)
           m == Len(Section.ops)
           O == Together(OpsOf(s))[m]
           H == Together(HeldOf(s))[m]
           data == sec_data_buffer \o Bytes(add_bytes_slices)
           refused == \/ /\ s.header.format = "Segregated"
                         /\ Len(add_bytes_slices) # s.header.num_add_bytes
                      \/ SumOal(s.ops) # s.header.output_size
<1>1. /\ PatchInv /\ section \in 1 .. n /\ writer = "ops" /\ WritingOps
      /\ \A i \in 1 .. section - 1 : Sound(patch[i])
  BY DEF WriterInv, FinishOps, WriterStopped
<1>2. /\ UNCHANGED <<patch, sec_comp>> /\ written = m
      /\ writer' = IF refused THEN "error" ELSE IF section = n THEN "ok" ELSE "header"
      /\ section' = IF writer' = "header" THEN section + 1 ELSE section
  BY DEF FinishOps
<1>3. IF sec_comp # 0 /\ ~ refused
      THEN wire' = wire \o Compressed(data) /\ sec_data_buffer' = <<>>
      ELSE PutFields(Bytes(add_bytes_slices))
  BY DEF FinishOps
<1>4. /\ PatchInv' /\ File' = File /\ \A i : PayloadAt(i)' = PayloadAt(i)
  BY <1>1, <1>2, PatchKept
<1>5. s = patch[section] /\ Formed(s) /\ n \in Nat /\ m \in Nat /\ m \in 0 .. m
  <2>1. s = patch[section] /\ Formed(s) /\ n \in Nat
    BY <1>1, PatchIs DEF Section
  <2> QED
    BY <2>1, FormedIs
<1>6. /\ add_bytes_slices = H
      /\ sec_comp = 0 => wire = Opened \o O /\ sec_data_buffer = <<>>
      /\ sec_comp # 0 => wire = Opened /\ sec_data_buffer = O
      /\ Fits(s)
  BY <1>1, <1>2 DEF WritingOps
<1>7. ~ refused => Sound(s)
  BY <1>6 DEF Sound, AddsUp
<1>8. List(O) /\ List(H) /\ Body(s) = O \o Bytes(H)
  <2>1. Fields(O) /\ List(H)
    BY <1>5, SectionParts
  <2> QED
    BY <2>1 DEF Fields, Body
<1>9. /\ List(Opened) /\ Len(Opened) + 1 = PayloadAt(section) /\ PartAt(Opened, 1, File[n])
      /\ Len(Opened) <= Len(File[n]) /\ Len(Opened) \in Nat
      /\ File[section] = Opened \o Payload(s)
  <2>1. Opened = File[section - 1] \o HeaderOf(Heard[section], sec_comp)
    BY <1>1, PatchIs DEF Opened, HeaderOf, Section
  <2>2. /\ List(Opened) /\ Len(Opened) + 1 = PayloadAt(section) /\ PartAt(Opened, 1, File[n])
        /\ Len(Opened) <= Len(File[n])
        /\ File[section] = Opened \o Payload(Heard[section])
    BY <1>1, <2>1, OpenedIs
  <2>3. Heard[section] = s
    BY <1>1, <1>5, <1>6, PatchIs
  <2> QED
    BY <2>2, <2>3, ListLen
<1>10. List(Bytes(H))
  BY <1>8, BytesAre DEF Fields
<1>11. /\ List(File[section]) /\ PartAt(File[section], 1, File[n]) /\ Len(File[section]) <= Len(File[n])
       /\ Len(File[section]) \in Nat
  <2>1. section \in 0 .. n /\ n \in 0 .. n /\ section <= n
    BY <1>1, <1>5
  <2> QED
    BY <1>1, <2>1, FileIs, Prefix DEF Fields
<1>12. section \in 1 .. n
  BY <1>1
<1> HIDE DEF s, n, m, O, H, refused
<1>13. sec_comp = 0 => wire' = File[section] /\ sec_data_buffer' = <<>>
  <2> SUFFICES ASSUME sec_comp = 0 PROVE wire' = File[section] /\ sec_data_buffer' = <<>>
    OBVIOUS
  <2>1. wire' = wire \o Bytes(H) /\ sec_data_buffer' = <<>>
    BY <1>3, <1>6 DEF PutFields
  <2>2. Payload(s) = O \o Bytes(H)
    BY <1>1, <1>5, <1>8, PayloadIs
  <2>3. (Opened \o O) \o Bytes(H) = Opened \o (O \o Bytes(H))
    <3> DEFINE a == Opened
               b == Bytes(H)
    <3>1. List(a) /\ List(b) /\ List(O)
      BY <1>8, <1>9, <1>10
    <3> HIDE DEF a, b
    <3>2. (a \o O) \o b = a \o (O \o b)
      BY <3>1, ListAssoc
    <3> QED
      BY <3>2 DEF a, b
  <2> QED
    BY <1>6, <1>9, <2>1, <2>2, <2>3
<1>14. ~ refused => wire' = File[section] /\ sec_data_buffer' = <<>>
  <2> SUFFICES ASSUME ~ refused PROVE wire' = File[section] /\ sec_data_buffer' = <<>>
    OBVIOUS
  <2>1. CASE sec_comp = 0
    BY <1>13, <2>1
  <2>2. CASE sec_comp # 0
    <3>1. data = Body(s)
      BY <1>6, <1>8, <2>2
    <3>2. wire' = Opened \o Compressed(Body(s)) /\ sec_data_buffer' = <<>>
      BY <1>3, <1>6, <2>2, <3>1
    <3>3. Payload(s) = Compressed(Body(s))
      BY <2>2 DEF Payload
    <3> QED
      BY <1>9, <3>2, <3>3
  <2> QED
    BY <2>1, <2>2
<1>15. sec_comp # 0 /\ refused => wire' = Opened
  BY <1>3, <1>6 DEF PutFields
<1>16. \A i \in 1 .. n : i < section => Sound(patch[i])
  <2> SUFFICES ASSUME NEW i \in 1 .. n, i < section PROVE Sound(patch[i])
    OBVIOUS
  <2>1. i \in 1 .. section - 1
    BY <1>5, <1>12
  <2> QED
    BY <1>1, <2>1
<1>17. CASE refused
  <2>1. writer' = "error" /\ section' = section
    BY <1>2, <1>17
  <2>2. CASE sec_comp = 0
    <3>1. wire' = File[section]
      BY <1>13, <2>2
    <3>2. ASSUME NEW i \in 1 .. n PROVE Fits(patch[i]) \/ Len(wire') < PayloadAt(i)
      <4>1. i < section \/ i = section \/ i > section
        BY <1>5, <1>12
      <4>2. i = section => Fits(patch[i])
        BY <1>5, <1>6
      <4>3. i < section => Fits(patch[i])
        BY <1>16 DEF Sound
      <4>4. i > section => Len(wire') < PayloadAt(i)
        BY <1>1, <1>12, <3>1, StoppedAt DEF n
      <4> QED
        BY <4>1, <4>2, <4>3, <4>4
    <3>3. WireCut'
      BY <1>2, <1>4, <1>11, <2>1, <2>2, <3>1, <3>2 DEF WireCut, n
    <3> QED
      BY <1>1, <1>2, <1>4, <2>1, <3>3 DEF WriterInv, WriterStopped, n
  <2>3. CASE sec_comp # 0
    <3>1. wire' = Opened
      BY <1>15, <1>17, <2>3
    <3>2. ASSUME NEW i \in 1 .. n PROVE Sound(patch[i]) \/ Len(wire') < PayloadAt(i)
      <4>1. i < section \/ i >= section
        BY <1>5, <1>12
      <4>2. i < section => Sound(patch[i])
        BY <1>16
      <4>3. i >= section => Len(wire') < PayloadAt(i)
        <5>1. Len(wire') + 1 = PayloadAt(section) /\ Len(wire') \in Nat
          BY <1>9, <3>1
        <5> QED
          BY <1>1, <1>12, <5>1, StoppedAt DEF n
      <4> QED
        BY <4>1, <4>2, <4>3
    <3>3. \A i \in 1 .. n : /\ Fits(patch[i]) \/ Len(wire') < PayloadAt(i)
                            /\ sec_comp = 0 \/ Sound(patch[i]) \/ Len(wire') < PayloadAt(i)
      BY <3>2 DEF Sound
    <3>4. WireCut'
      BY <1>2, <1>4, <1>9, <2>1, <3>1, <3>3 DEF WireCut, n
    <3> QED
      BY <1>1, <1>2, <1>4, <2>1, <3>4 DEF WriterInv, WriterStopped, n
  <2> QED
    BY <2>2, <2>3
<1>18. CASE ~ refused
  <2>1. Sound(patch[section]) /\ wire' = File[section] /\ sec_data_buffer' = <<>>
    BY <1>5, <1>7, <1>14, <1>18
  <2>2. CASE section = n
    <3>1. writer' = "ok" /\ section' = section
      BY <1>2, <1>18, <2>2
    <3>2. \A i \in 1 .. n : Sound(patch[i])
      <4>1. \A i \in 1 .. n : i < section \/ i = section
        BY <1>5, <2>2
      <4> QED
        BY <1>16, <2>1, <4>1
    <3>3. WireCut'
      BY <1>2, <1>4, <1>11, <2>1, <2>2, <3>1, <3>2 DEF WireCut, n, Sound
    <3> QED
      BY <1>1, <1>2, <1>4, <3>1, <3>3 DEF WriterInv, WriterStopped, n
  <2>3. CASE section # n
    <3>1. writer' = "header" /\ section' = section + 1
      BY <1>2, <1>18, <2>3
    <3>2. section' \in 1 .. n /\ section' - 1 = section
      BY <1>5, <1>12, <2>3, <3>1
    <3>3. \A i \in 1 .. section' - 1 : Sound((patch')[i])
      <4>1. \A i \in 1 .. section : i \in 1 .. n /\ (i < section \/ i = section)
        BY <1>5, <1>12
      <4> QED
        BY <1>2, <1>16, <2>1, <3>2, <4>1
    <3>4. wire' = (File')[section' - 1]
      BY <1>4, <2>1, <3>2
    <3> QED
      BY <1>2, <1>4, <2>1, <3>1, <3>2, <3>3, <3>4 DEF WriterInv, WriterStopped, n
  <2> QED
    BY <2>2, <2>3
<1> QED
  BY <1>17, <1>18

LEMMA TruncateKeeps ==
    ASSUME WriterInv, Truncate
    PROVE  WriterInv'
<1>1. /\ PatchInv /\ section \in 1 .. Len(patch) /\ writer = "ok" /\ wire = File[Len(patch)]
      /\ \A i \in 1 .. Len(patch) : Sound(patch[i])
  BY DEF WriterInv, Truncate, WriterStopped, WireCut
<1>2. UNCHANGED <<patch, section, sec_comp>> /\ writer' = "truncated"
  BY DEF Truncate
<1>3. PICK l \in 0 .. Len(wire) - 1 : wire' = SubSeq(wire, 1, l)
  BY DEF Truncate
<1>4. PatchInv' /\ File' = File
  BY <1>1, <1>2, PatchKept
<1> DEFINE F == File[Len(patch)]
<1>5. List(F) /\ Len(F) \in Nat
  <2>1. Len(patch) \in 0 .. Len(patch)
    BY <1>1, PatchIs
  <2> QED
    BY <1>1, <2>1, FileIs DEF Fields
<1>6. wire' = SubSeq(F, 1, l) /\ l \in 0 .. Len(F) - 1
  BY <1>1, <1>3
<1> HIDE DEF F
<1>7. List(wire') /\ Len(wire') = l
  <2>1. 1 \in 1 .. Len(F) + 1 /\ l \in 1 - 1 .. Len(F) /\ l - 1 + 1 = l
    BY <1>5, <1>6
  <2>2. List(SubSeq(F, 1, l)) /\ Len(SubSeq(F, 1, l)) = l - 1 + 1
    BY <1>5, <2>1, ListSub
  <2> QED
    BY <1>6, <2>1, <2>2
<1>8. PartAt(wire', 1, F) /\ l < Len(F) /\ l <= Len(F)
  <2>1. l \in 0 .. Len(F) /\ l < Len(F) /\ l <= Len(F)
    BY <1>5, <1>6
  <2> QED
    BY <1>5, <1>6, <2>1, AtCut
<1>9. WireCut'
  BY <1>1, <1>2, <1>4, <1>7, <1>8 DEF WireCut, F, Sound
<1> QED
  BY <1>1, <1>2, <1>4, <1>9 DEF WriterInv, WriterStopped

LEMMA WriterTypes ==
    ASSUME WriterInv, WriterTypeOK, WriterNext, WriterInv'
    PROVE  WriterTypeOK'
<1> DEFINE s == Section
           op == Section.ops[written + 1]
<1>1. PatchInv' /\ section' \in 1 .. Len(patch')
      /\ writer' \in {"header", "ops", "ok", "error", "panic", "truncated"}
  BY DEF WriterInv
<1>2. sec_comp' \in Algo /\ \A i \in 1 .. Len(patch') :
         (patch')[i].header \in SectionHeader /\ (patch')[i].ops \in Seq(Op)
  <2>1. UNCHANGED <<patch, sec_comp>>
    BY DEF WriterNext, WriteHeader, WriteHeaderPanics, WriteOp, FinishOps, Truncate
  <2>2. PatchInv
    BY DEF WriterInv
  <2>3. sec_comp \in Algo /\ \A i \in 1 .. Len(patch) :
           patch[i].header \in SectionHeader /\ patch[i].ops \in Seq(Op)
    BY <2>2, PatchIs
  <2> QED
    BY <2>1, <2>3
<1>3. /\ written \in Nat /\ last_addr \in [CopySrc -> Nat] /\ add_bytes_slices \in Seq(Byte)
      /\ (sec_comp = 0 => sec_data_buffer = <<>>)
  BY DEF WriterTypeOK
<1>4. SUFFICES /\ written' \in Nat /\ last_addr' \in [CopySrc -> Nat]
               /\ add_bytes_slices' \in Seq(Byte)
               /\ (sec_comp' = 0 => sec_data_buffer' = <<>>)
  BY <1>1, <1>2 DEF WriterTypeOK
<1>5. CASE WriteHeader
  BY <1>3, <1>5 DEF WriteHeader, NoAddr
<1>6. CASE WriteOp
  <2>1. PatchInv /\ section \in 1 .. Len(patch) /\ written < Len(s.ops)
    BY <1>6 DEF WriterInv, WriteOp
  <2>2. s.ops \in Seq(Op)
    BY <2>1, PatchIs DEF Section
  <2>3. op \in Op
    BY <1>3, <2>1, <2>2
  <2>4. is_copy(op) => op.addr \in Nat
    BY <2>3 DEF Op, AddOps, RunOps, CopyOps, is_copy
  <2>5. is_add(op) => op.bytes \in Seq(Byte)
    BY <2>3 DEF Op, AddOps, RunOps, CopyOps, is_add
  <2>6. written' = written + 1 /\ sec_comp' = sec_comp
    BY <1>6 DEF WriteOp
  <2>7. last_addr' = IF is_copy(op) THEN [last_addr EXCEPT ![op.src] = op.addr] ELSE last_addr
    BY <1>6 DEF WriteOp
  <2>8. add_bytes_slices' = IF is_add(op) /\ s.header.format = "Segregated"
                            THEN add_bytes_slices \o op.bytes ELSE add_bytes_slices
    BY <1>6 DEF WriteOp
  <2>9. PutFields(OpFields(op, last_addr, s.header.format))
    BY <1>6 DEF WriteOp
  <2> HIDE DEF op, s
  <2>10. last_addr' \in [CopySrc -> Nat]
    BY <1>3, <2>4, <2>7
  <2>11. add_bytes_slices' \in Seq(Byte)
    BY <1>3, <2>5, <2>8
  <2>12. sec_comp = 0 => sec_data_buffer' = <<>>
    BY <1>3, <2>9 DEF PutFields
  <2> QED
    BY <1>3, <2>6, <2>10, <2>11, <2>12
<1>7. CASE FinishOps
  <2>1. UNCHANGED <<written, last_addr, add_bytes_slices, sec_comp>>
    BY <1>7 DEF FinishOps
  <2>2. sec_comp = 0 => PutFields(Bytes(add_bytes_slices))
    BY <1>7 DEF FinishOps
  <2> QED
    BY <1>3, <2>1, <2>2 DEF PutFields
<1>8. CASE Truncate
  BY <1>3, <1>8 DEF Truncate
<1>9. CASE WriteHeaderPanics
  BY <1>3, <1>9 DEF WriteHeaderPanics
<1> QED
  BY <1>5, <1>6, <1>7, <1>8, <1>9 DEF WriterNext

-----------------------------------------------------------------------------
(* Where the reader is.  A section is read from the file, or from what it    *)
(* was decompressed to; one of a nested patch is read from the file.         *)
Now == Len(delivered) + 1
AtHand == Heard[Now]
Packed == Body(AtHand)
Window == outer = <<>> /\ sec_comp # 0
Text == IF Window THEN win_data ELSE wire
Spot == IF Window THEN win_pos ELSE pos

(* Behind the section: but what no operation asks for of a frame is left. *)
Behind == IF sec_comp = 2 /\ AtHand.ops = <<>> THEN Start(Now + 1) - 1 ELSE Start(Now + 1)

NestedStart(k) == PayloadAt(Now) + Len(Together(NestedParts(Packed))[k - 1])
InNested(k) ==
    /\ sec_comp = 1 /\ outer = <<outer[1]>> /\ HeaderRead(outer[1], AtHand, 1)
    /\ win_data = SubSeq(Packed, 1, From(k)) /\ win_pos = 1

(* The section that is read, and where its operations begin. *)
InFile(s, algo, base) ==
    /\ outer = <<>> /\ sec_comp = 0
    /\ s = AtHand /\ algo = 0 /\ base = PayloadAt(Now)
InWindow(s, algo, base) ==
    /\ outer = <<>> /\ sec_comp # 0 /\ Sound(patch[Now])
    /\ sec_comp = 3 => AtHand.ops # <<>>
    /\ win_data = Packed /\ pos = Behind
    /\ s = AtHand /\ algo = sec_comp /\ base = 1
Inside(s, algo, base, k) ==
    /\ InNested(k) /\ s = NestedSection(Packed, k) /\ algo = 0
    /\ base = NestedStart(k) + Len(HeaderOf(NestedSection(Packed, k), 0))
Place(s, algo, base) ==
    \/ InFile(s, algo, base)
    \/ InWindow(s, algo, base)
    \/ \E k \in 1 .. NestedSections(Packed) : Inside(s, algo, base, k)

Partly(s, algo, base) ==
    /\ HeaderRead(header, s, algo)
    /\ List(op_buffer) /\ Len(op_buffer) <= Len(s.ops)
    /\ \A i \in 1 .. Len(op_buffer) : op_buffer[i] = Unfilled(s.ops[i], s.header.format)
    /\ cur_addr = Registers(s.ops)[Len(op_buffer)]
    /\ Spot = base + Len(Together(OpsOf(s))[Len(op_buffer)])
    /\ reader = "adds" => s.header.format = "Segregated" /\ Len(op_buffer) = Len(s.ops)
Wholly(s, algo, base) ==
    HeaderRead(header, s, algo) /\ op_buffer = s.ops /\ Spot = base + Len(Body(s))

InOps == \E s, algo, base : Place(s, algo, base) /\ Partly(s, algo, base)
Ready == \E s, algo, base : Place(s, algo, base) /\ Wholly(s, algo, base)
AtTail == done /\ TailUnread /\ pos = Start(Now) - 1
FrameAt == IF sec_comp = 2 /\ reader = "frame" THEN PayloadAt(Now) + 1 ELSE PayloadAt(Now)
Idle ==
    \/ outer = <<>> /\ pos = Start(Now)
    \/ outer = <<>> /\ AtTail
    \/ \E k \in 1 .. NestedSections(Packed) : InNested(k) /\ pos = NestedStart(k)
Framed ==
    /\ outer = <<>> /\ sec_comp \in {2, 3} /\ win_pos = 1 /\ win_data = <<>>
    /\ op_buffer = <<>> /\ cur_addr = NoAddr
    /\ HeaderRead(header, AtHand, sec_comp) /\ pos = FrameAt
    /\ reader = "open" => sec_comp = 2
    /\ reader = "frame" /\ sec_comp = 2 => header.num_operations # 0

(* What the decoder was given. *)
Delivers ==
    \A i \in 1 .. Len(delivered) :
       delivered[i].ops = Heard[i].ops /\ (sec_comp = 3 => Heard[i].ops # <<>>)
(* What the reader refuses of a file that was written without an error. *)
Unread == sec_comp = 3 /\ reader = "error" /\ ~ done /\ AtHand.ops = <<>>

ReaderInv ==
    /\ ReaderTypeOK
    /\ List(delivered) /\ Len(delivered) <= Len(patch)
    /\ Delivers
    /\ done <=> Len(delivered) = Len(patch)
    /\ outer = <<>> \/ ~ done
    /\ List(win_data)
    /\ ~ WriterStopped => delivered = <<>> /\ pos = 1 /\ reader = "idle" /\ outer = <<>>
    /\ reader = "idle" => Idle
    /\ reader = "none" => done /\ (pos = Start(Now) \/ AtTail)
    /\ reader \in {"open", "frame"} => ~ done /\ Framed
    /\ reader \in {"ops", "adds"} => ~ done /\ InOps
    /\ reader = "ready" => ~ done /\ Ready
    /\ writer = "ok" /\ reader \in {"error", "panic"} => Unread

(* The section at hand, as it was written. *)
LEMMA HandIs ==
    ASSUME PatchInv, Now \in 1 .. Len(patch)
    PROVE  /\ Formed(AtHand) /\ AtHand.ops \in Seq(Op) /\ List(AtHand.ops) /\ Len(AtHand.ops) \in Nat
           /\ AtHand.header.more_sections <=> Now < Len(patch)
           /\ Fits(patch[Now]) => AtHand = patch[Now]
           /\ Sound(patch[Now]) => AtHand = patch[Now] /\ Sound(AtHand)
           /\ AtHand.header.num_operations = 0 /\ AtHand.header.output_size = 0 => AtHand.ops = <<>>
           /\ sec_comp = 2 /\ Sound(patch[Now]) /\ AtHand.ops = <<>> => Now = Len(patch) /\ TailUnread
<1> DEFINE t == patch[Now]
           h == AtHand
<1>1. /\ Formed(h) /\ h.ops \in Seq(Op) /\ h.header = t.header /\ h.ops = Told(t)
      /\ (t.header.more_sections <=> Now < Len(patch))
      /\ (sec_comp = 2 /\ Now < Len(patch) => t.ops # <<>>)
      /\ (Fits(t) => h = t) /\ Len(patch) \in Nat
  BY PatchIs DEF AtHand
<1> HIDE DEF t, h
<1>2. List(h.ops) /\ Len(h.ops) \in Nat
  BY <1>1, ListIs
<1>3. Sound(t) => h = t /\ Sound(h)
  BY <1>1 DEF Sound
<1>4. h.header.num_operations = 0 /\ h.header.output_size = 0 => h.ops = <<>>
  BY <1>1 DEF Told, SaysNothing
<1>5. ASSUME sec_comp = 2, Sound(t), h.ops = <<>> PROVE Now = Len(patch) /\ TailUnread
  <2>1. t.ops = <<>>
    BY <1>3, <1>5
  <2>2. ~ (Now < Len(patch))
    BY <1>1, <1>5, <2>1
  <2>3. Now = Len(patch)
    BY <1>1, <2>2
  <2> QED
    BY <1>5, <2>1, <2>3 DEF TailUnread, t
<1> QED
  BY <1>1, <1>2, <1>3, <1>4, <1>5 DEF t, h

LEMMA NestedAt ==
    ASSUME PatchInv, Now \in 1 .. Len(patch), sec_comp = 1, NEW k \in 1 .. NestedSections(Packed)
    PROVE  /\ Fields(Packed) /\ NestedSections(Packed) \in Nat
           /\ NestedStart(1) = PayloadAt(Now)
           /\ NestedStart(k) \in Nat /\ NestedStart(k) >= PayloadAt(Now)
           /\ NestedStart(k + 1) = NestedStart(k) + Len(NestedPart(Packed, k))
           /\ NestedStart(k + 1) <= Start(Now + 1)
           /\ k = NestedSections(Packed) => NestedStart(k + 1) = Start(Now + 1)
           /\ \A file : PartAt(file, 1, File[Len(patch)]) =>
                 /\ PartAt(file, NestedStart(k), HeaderOf(NestedSection(Packed, k), 0))
                 /\ PartAt(file, NestedStart(k) + Len(HeaderOf(NestedSection(Packed, k), 0)),
                       Body(NestedSection(Packed, k)))
<1> DEFINE d == Packed
           K == NestedSections(d)
           P == NestedParts(d)
           p == PayloadAt(Now)
           L(i) == Len(Together(P)[i])
           a == HeaderOf(NestedSection(d, k), 0)
           b == Body(NestedSection(d, k))
<1>1. Formed(AtHand) /\ d = Body(AtHand)
  BY PatchIs DEF AtHand, Packed
<1>2. Fields(d)
  BY <1>1, SectionParts
<1>3. p \in Nat /\ Start(Now + 1) = p + Len(Payload(AtHand))
  BY FileIs DEF AtHand
<1>4. Payload(AtHand) = Nested(d)
  BY <1>1, PayloadIs
<1>5. /\ AreLists(P) /\ Len(P) = K /\ P[k] = NestedPart(d, k) /\ Nested(d) = Together(P)[K]
  BY <1>2, NestedIs
<1>6. K \in Nat /\ K >= 1
  BY <1>2, SectionsIs DEF Fields
<1>7. k \in 1 .. K /\ k \in 0 .. K /\ k - 1 \in 0 .. K /\ 0 \in 0 .. K /\ K \in 0 .. K
      /\ (k + 1) - 1 = k /\ 1 - 1 = 0 /\ k <= K
  BY <1>6
<1>8. /\ List(a) /\ List(b) /\ Len(a) \in Nat /\ Len(b) \in Nat /\ P[k] = a \o b
      /\ Len(NestedPart(d, k)) \in Nat
  <2>1. /\ Fields(a) /\ Fields(b) /\ Len(a) \in Nat /\ Len(b) \in Nat
        /\ Len(NestedPart(d, k)) \in Nat
    BY <1>2, <1>7, NestedPartIs
  <2>2. P[k] = a \o b
    BY <1>5 DEF NestedPart
  <2> QED
    BY <2>1, <2>2 DEF Fields
<1>9. \A i : NestedStart(i) = p + L(i - 1)
  BY DEF NestedStart
<1> HIDE DEF d, P, p, a, b, K
<1>10. /\ L(0) = 0 /\ L(k - 1) \in Nat /\ L(k) \in Nat /\ L(K) \in Nat
       /\ L(k) = L(k - 1) + Len(P[k])
  BY <1>5, <1>7, JoinedLists
<1>11. L(k) <= L(K)
  BY <1>5, <1>7, JoinedGrows
<1>12. Start(Now + 1) = p + L(K)
  BY <1>3, <1>4, <1>5
<1>13. NestedStart(1) = p + L(0) /\ NestedStart(k) = p + L(k - 1) /\ NestedStart(k + 1) = p + L(k)
  BY <1>7, <1>9
<1> HIDE DEF L
<1>14. ASSUME NEW file, PartAt(file, 1, File[Len(patch)])
       PROVE  PartAt(file, NestedStart(k), a) /\ PartAt(file, NestedStart(k) + Len(a), b)
  <2>1. PartAt(file, p, Together(P)[Len(P)]) /\ p \in Int
    <3>1. PartAt(file, PayloadAt(Now), Payload(Heard[Now]))
      BY <1>14, FileAt
    <3> QED
      BY <1>3, <1>4, <1>5, <3>1 DEF p, AtHand
  <2>2. PartAt(file, p + Len(Together(P)[k - 1]), P[k])
    BY <1>5, <1>7, <2>1, AtJoined
  <2>3. PartAt(file, NestedStart(k), a \o b) /\ NestedStart(k) \in Int
    BY <1>3, <1>8, <1>10, <1>13, <2>2 DEF L
  <2> QED
    BY <1>8, <2>3, AtConcat
<1>15. NestedStart(1) = p /\ NestedStart(k) \in Nat /\ NestedStart(k) >= p
  <2> DEFINE first == L(0)
             before == L(k - 1)
  <2>1. first = 0 /\ before \in Nat /\ p \in Nat
    BY <1>3, <1>10
  <2>2. NestedStart(1) = p + first /\ NestedStart(k) = p + before
    BY <1>13
  <2> HIDE DEF first, before
  <2> QED
    BY <2>1, <2>2
<1>16. NestedStart(k + 1) = NestedStart(k) + Len(NestedPart(d, k))
  BY <1>3, <1>5, <1>8, <1>10, <1>13
<1>17. NestedStart(k + 1) <= Start(Now + 1) /\ (k = K => NestedStart(k + 1) = Start(Now + 1))
  BY <1>3, <1>10, <1>11, <1>12, <1>13, SMTT(30)
<1> QED
  BY <1>2, <1>6, <1>14, <1>15, <1>16, <1>17 DEF d, p, a, b, K

(* What is known of a section wherever it is read. *)
LEMMA PlaceIs ==
    ASSUME PatchInv, WireCut, Now \in 1 .. Len(patch),
           NEW s, NEW algo, NEW base, Place(s, algo, base)
    PROVE  /\ Formed(s) /\ List(Text) /\ Len(Text) \in Nat /\ algo \in Algo
           /\ base \in Nat /\ base >= 1
           /\ PartAt(Text, base, Body(s))
           /\ s.header.num_operations = Len(s.ops) \/ Len(Text) < base
           /\ s.header.num_operations = 0 /\ s.header.output_size = 0 => s.ops = <<>>
           /\ outer = <<>> => s = AtHand
           /\ writer = "ok" => /\ base + Len(Body(s)) <= Len(Text) + 1
                               /\ SumOal(s.ops) = s.header.output_size
                               /\ s.header.num_operations = Len(s.ops)
           /\ Window <=> algo # 0
<1>1. Formed(AtHand) /\ sec_comp \in Algo /\ Len(AtHand.ops) \in Nat
  BY PatchIs, HandIs
<1>2. /\ List(wire) /\ Len(wire) \in Nat /\ PartAt(wire, 1, File[Len(patch)])
      /\ Fits(AtHand) \/ Len(wire) < PayloadAt(Now)
      /\ writer = "ok" => wire = File[Len(patch)] /\ Sound(AtHand)
  <2>1. /\ List(wire) /\ PartAt(wire, 1, File[Len(patch)])
        /\ Fits(patch[Now]) \/ Len(wire) < PayloadAt(Now)
        /\ writer = "ok" => wire = File[Len(patch)] /\ Sound(patch[Now])
    BY DEF WireCut
  <2>2. (Fits(patch[Now]) => Fits(AtHand)) /\ (Sound(patch[Now]) => Sound(AtHand))
    BY HandIs
  <2>3. Len(wire) \in Nat
    BY <2>1, ListLen
  <2> QED
    BY <2>1, <2>2, <2>3
<1>3. /\ PayloadAt(Now) \in Nat /\ PayloadAt(Now) >= 1
      /\ Start(Now + 1) = PayloadAt(Now) + Len(Payload(AtHand))
      /\ writer = "ok" => Start(Now + 1) <= Len(wire) + 1
  <2>1. Start(Now) \in Nat /\ Start(Now) >= 1 /\ PayloadAt(Now) \in Nat /\ Start(Now) < PayloadAt(Now)
        /\ Start(Now + 1) = PayloadAt(Now) + Len(Payload(AtHand))
        /\ Start(Now + 1) = Len(File[Now]) + 1
    BY FileIs DEF AtHand
  <2>2. Len(File[Now]) <= Len(File[Len(patch)]) /\ Len(File[Now]) \in Nat /\ Len(File[Len(patch)]) \in Nat
    <3>1. Now \in 0 .. Len(patch) /\ Len(patch) \in 0 .. Len(patch) /\ Now <= Len(patch)
      BY PatchIs
    <3> QED
      BY <3>1, FileIs
  <2> QED
    BY <1>2, <2>1, <2>2
<1>4. /\ Fields(Body(AtHand)) /\ Len(Body(AtHand)) \in Nat
      /\ sec_comp = 0 => Payload(AtHand) = Body(AtHand)
  BY <1>1, SectionParts, PayloadIs
<1>5. Sound(AtHand) => /\ SumOal(AtHand.ops) = AtHand.header.output_size
                       /\ AtHand.header.num_operations = Len(AtHand.ops)
  BY DEF Sound, AddsUp, Fits
<1>6. AtHand.header.num_operations = 0 /\ AtHand.header.output_size = 0 => AtHand.ops = <<>>
  BY HandIs
<1>7. 0 \in Algo
  BY DEF Algo
<1>8. CASE InFile(s, algo, base)
  <2>1. outer = <<>> /\ sec_comp = 0 /\ s = AtHand /\ algo = 0 /\ base = PayloadAt(Now)
    BY <1>8 DEF InFile
  <2>2. Text = wire /\ ~ Window
    BY <2>1 DEF Text, Window
  <2>3. PartAt(wire, PayloadAt(Now), Payload(AtHand))
    BY <1>2, FileAt DEF AtHand
  <2>4. PartAt(Text, base, Body(s))
    BY <1>4, <2>1, <2>2, <2>3
  <2>5. s.header.num_operations = Len(s.ops) \/ Len(Text) < base
    BY <1>2, <2>1, <2>2 DEF Fits
  <2>6. writer = "ok" => base + Len(Body(s)) <= Len(Text) + 1
    BY <1>3, <1>4, <2>1, <2>2
  <2>7. writer = "ok" => /\ SumOal(s.ops) = s.header.output_size
                         /\ s.header.num_operations = Len(s.ops)
    BY <1>2, <1>5, <2>1
  <2> QED
    BY <1>1, <1>2, <1>3, <1>6, <1>7, <2>1, <2>2, <2>4, <2>5, <2>6, <2>7
<1>9. CASE InWindow(s, algo, base)
  <2>1. /\ outer = <<>> /\ sec_comp # 0 /\ s = AtHand /\ algo = sec_comp /\ base = 1
        /\ Sound(AtHand) /\ win_data = Packed
    BY <1>9, HandIs DEF InWindow
  <2>2. Text = Body(s) /\ Window
    BY <2>1 DEF Text, Window, Packed
  <2>3. List(Text) /\ Len(Text) \in Nat
    BY <1>4, <2>1, <2>2 DEF Fields
  <2>4. PartAt(Text, base, Body(s))
    BY <2>1, <2>2, <2>3, AtSelf
  <2>5. base + Len(Body(s)) <= Len(Text) + 1 /\ base \in Nat /\ base >= 1
    BY <2>1, <2>2, <2>3
  <2> QED
    BY <1>1, <1>5, <1>6, <2>1, <2>2, <2>3, <2>4, <2>5
<1>10. ASSUME NEW k \in 1 .. NestedSections(Packed), Inside(s, algo, base, k)
       PROVE  /\ Formed(s) /\ List(Text) /\ Len(Text) \in Nat /\ algo \in Algo
              /\ base \in Nat /\ base >= 1
              /\ PartAt(Text, base, Body(s))
              /\ s.header.num_operations = Len(s.ops)
              /\ outer # <<>> /\ SumOal(s.ops) = s.header.output_size
              /\ writer = "ok" => base + Len(Body(s)) <= Len(Text) + 1
              /\ ~ Window /\ algo = 0
  <2> DEFINE h == HeaderOf(NestedSection(Packed, k), 0)
             b == Body(NestedSection(Packed, k))
             at == NestedStart(k)
             next == NestedStart(k + 1)
  <2>1. /\ sec_comp = 1 /\ outer = <<outer[1]>> /\ s = NestedSection(Packed, k) /\ algo = 0
        /\ base = at + Len(h)
    BY <1>10 DEF Inside, InNested
  <2>2. outer # <<>>
    BY <2>1
  <2>3. Text = wire /\ ~ Window
    BY <2>2 DEF Text, Window
  <2>4. /\ at \in Nat /\ at >= PayloadAt(Now)
        /\ next = at + Len(NestedPart(Packed, k)) /\ next <= Start(Now + 1)
        /\ PartAt(wire, at + Len(h), b)
        /\ Fields(Packed)
    BY <1>2, <2>1, NestedAt
  <2>5. /\ Formed(s) /\ s.header.num_operations = Len(s.ops)
        /\ SumOal(s.ops) = s.header.output_size
    BY <2>1, <2>4, NestedFormed
  <2>6. /\ Len(NestedPart(Packed, k)) = Len(h) + Len(b) /\ Len(h) \in Nat /\ Len(b) \in Nat
    BY <2>4, NestedPartIs
  <2> HIDE DEF h, b, at, next
  <2>7. base \in Nat /\ base >= 1 /\ next = base + Len(b)
    BY <1>3, <2>1, <2>4, <2>6
  <2>8. PartAt(Text, base, Body(s)) /\ Len(Body(s)) = Len(b)
    BY <2>1, <2>3, <2>4 DEF b
  <2>9. Start(Now + 1) \in Nat
    <3>1. Len(Payload(AtHand)) \in Nat
      BY <1>1, PayloadIs
    <3> QED
      BY <1>3, <3>1
  <2>10. writer = "ok" => base + Len(Body(s)) <= Len(Text) + 1
    <3> SUFFICES ASSUME writer = "ok" PROVE base + Len(Body(s)) <= Len(Text) + 1
      OBVIOUS
    <3> DEFINE limit == Start(Now + 1)
               size == Len(Text)
               len == Len(Body(s))
    <3>1. limit <= size + 1
      BY <1>3, <2>3
    <3>2. size \in Nat /\ limit \in Nat /\ next <= limit
      BY <1>2, <2>3, <2>4, <2>9
    <3>3. next = base + len
      BY <2>7, <2>8
    <3> HIDE DEF limit, size, len
    <3>4. base + len <= size + 1
      BY <2>7, <3>1, <3>2, <3>3
    <3> QED
      BY <3>4 DEF size, len
  <2> QED
    BY <1>2, <1>7, <2>1, <2>2, <2>3, <2>5, <2>7, <2>8, <2>10
<1>11. CASE \E k \in 1 .. NestedSections(Packed) : Inside(s, algo, base, k)
  <2>1. PICK k \in 1 .. NestedSections(Packed) : Inside(s, algo, base, k)
    BY <1>11
  <2> DEFINE num == s.header.num_operations
             len == Len(s.ops)
             all == base + Len(Body(s)) <= Len(Text) + 1
  <2>2. /\ Formed(s) /\ List(Text) /\ Len(Text) \in Nat /\ algo \in Algo
        /\ base \in Nat /\ base >= 1
        /\ PartAt(Text, base, Body(s))
        /\ num = len
        /\ outer # <<>> /\ SumOal(s.ops) = s.header.output_size
        /\ writer = "ok" => all
        /\ ~ Window /\ algo = 0
    BY <2>1, <1>10
  <2>3. num = 0 => s.ops = <<>>
    <3>1. List(s.ops)
      BY <2>2, FormedIs
    <3> QED
      BY <2>2, <3>1, ListEmpty
  <2> HIDE DEF num, len, all
  <2> QED
    BY <2>2, <2>3 DEF num, len, all
<1> QED
  BY <1>8, <1>9, <1>11 DEF Place

(* A step of the reader leaves all this alone. *)
LEMMA Still ==
    ASSUME UNCHANGED <<wire, writerVars, delivered>>
    PROVE  /\ Now' = Now /\ AtHand' = AtHand /\ Packed' = Packed
           /\ Heard' = Heard /\ (Delivers' <=> Delivers)
           /\ Behind' = Behind /\ PayloadAt(Now)' = PayloadAt(Now) /\ Start(Now)' = Start(Now)
           /\ Start(Now + 1)' = Start(Now + 1)
           /\ wire' = wire /\ patch' = patch /\ sec_comp' = sec_comp /\ writer' = writer
           /\ delivered' = delivered
           /\ WriterStopped' <=> WriterStopped
           /\ \A i : PayloadAt(i)' = PayloadAt(i) /\ Start(i)' = Start(i)
           /\ \A k : NestedStart(k)' = NestedStart(k)
<1>1. /\ wire' = wire /\ patch' = patch /\ sec_comp' = sec_comp /\ writer' = writer
      /\ delivered' = delivered
  BY DEF writerVars
<1>2. Now' = Now
  BY <1>1 DEF Now
<1>8. Heard' = Heard /\ File' = File
  BY <1>1, PatchKept
<1>3. AtHand' = AtHand
  BY <1>2, <1>8 DEF AtHand
<1>4. Packed' = Packed
  BY <1>3 DEF Packed
<1>5. \A i : PayloadAt(i)' = PayloadAt(i) /\ Start(i)' = Start(i)
  BY <1>1, PatchKept
<1>9. Delivers' <=> Delivers
  BY <1>1, <1>8 DEF Delivers
<1>10. Start(Now)' = Start(Now) /\ Start(Now + 1)' = Start(Now + 1)
  BY <1>2, <1>8 DEF Start
<1>11. Behind' = Behind
  BY <1>1, <1>3, <1>10 DEF Behind
<1>6. PayloadAt(Now)' = PayloadAt(Now)
  BY <1>1, <1>2, <1>8, <1>10 DEF PayloadAt
<1>7. \A k : NestedStart(k)' = NestedStart(k)
  BY <1>4, <1>6 DEF NestedStart
<1>12. WriterStopped' <=> WriterStopped
  BY <1>1 DEF WriterStopped
<1> QED
  BY <1>1, <1>2, <1>3, <1>4, <1>5, <1>6, <1>7, <1>8, <1>9, <1>10, <1>11, <1>12

LEMMA WriterStill ==
    ASSUME WriterInv, UNCHANGED <<wire, writerVars>>
    PROVE  WriterInv'
<1>1. UNCHANGED <<wire, patch, section, written, last_addr, add_bytes_slices, sec_comp,
                  sec_data_buffer, writer>>
  BY DEF writerVars
<1>2. /\ PatchInv' <=> PatchInv
      /\ File' = File
      /\ \A i : PayloadAt(i)' = PayloadAt(i)
  BY <1>1, PatchKept
<1>3. Section' = Section
  BY <1>1 DEF Section
<1>4. Opened' = Opened
  BY <1>1, <1>2, <1>3 DEF Opened
<1>5. WritingOps' <=> WritingOps
  BY <1>1, <1>3, <1>4 DEF WritingOps
<1>6. WireCut' <=> WireCut
  BY <1>1, <1>2 DEF WireCut
<1>7. WriterStopped' <=> WriterStopped
  BY <1>1 DEF WriterStopped
<1> QED
  BY <1>1, <1>2, <1>5, <1>6, <1>7 DEF WriterInv

LEMMA PlaceKept ==
    ASSUME UNCHANGED <<wire, writerVars, delivered, outer, win_data>>,
           Window => pos' = pos, ~ Window => win_pos' = win_pos,
           NEW s, NEW algo, NEW base, Place(s, algo, base)
    PROVE  Place(s, algo, base)' /\ Text' = Text /\ (Window' <=> Window)
<1>1. /\ Now' = Now /\ AtHand' = AtHand /\ Packed' = Packed
      /\ wire' = wire /\ sec_comp' = sec_comp /\ outer' = outer /\ win_data' = win_data
      /\ \A i : PayloadAt(i)' = PayloadAt(i) /\ Start(i)' = Start(i)
      /\ \A k : NestedStart(k)' = NestedStart(k)
  BY Still
<1>2. (Window' <=> Window) /\ Text' = Text
  BY <1>1 DEF Window, Text
<1>3. CASE InFile(s, algo, base)
  <2>1. PayloadAt(Now)' = PayloadAt(Now)
    BY Still
  <2>2. InFile(s, algo, base)'
    BY <1>1, <1>3, <2>1 DEF InFile
  <2> QED
    BY <1>2, <2>2 DEF Place
<1>4. CASE InWindow(s, algo, base)
  <2>1. pos' = pos
    BY <1>4 DEF InWindow, Window
  <2>2. Behind' = Behind /\ patch' = patch
    BY Still
  <2>4. patch[Now]' = patch[Now]
    BY <1>1, <2>2
  <2>3. InWindow(s, algo, base)'
    BY <1>1, <1>4, <2>1, <2>2, <2>4 DEF InWindow
  <2> QED
    BY <1>2, <2>3 DEF Place
<1>5. CASE \E k \in 1 .. NestedSections(Packed) : Inside(s, algo, base, k)
  <2>1. PICK k \in 1 .. NestedSections(Packed) : Inside(s, algo, base, k)
    BY <1>5
  <2>7. outer = <<outer[1]>>
    BY <2>1 DEF Inside, InNested
  <2>2. outer # <<>>
    BY <2>7
  <2>3. win_pos' = win_pos
    BY <2>2 DEF Window
  <2>4. InNested(k)'
    BY <1>1, <2>1, <2>3 DEF Inside, InNested
  <2>5. Inside(s, algo, base, k)'
    BY <1>1, <2>1, <2>4 DEF Inside
  <2>6. k \in 1 .. NestedSections(Packed')
    BY <1>1
  <2> QED
    BY <1>2, <2>5, <2>6 DEF Place
<1> QED
  BY <1>3, <1>4, <1>5 DEF Place

(* What is left to show of a step that finds more of the file. *)
LEMMA GoesOn ==
    ASSUME ReaderInv, WriterStopped, ~ done, ReaderTypeOK', List(win_data)',
           UNCHANGED <<wire, writerVars, delivered, done>>,
           \/ reader' = "idle" /\ Idle'
           \/ reader' \in {"open", "frame"} /\ Framed'
           \/ reader' \in {"ops", "adds"} /\ InOps'
           \/ reader' = "ready" /\ Ready'
    PROVE  ReaderInv'
<1>1. /\ patch' = patch /\ delivered' = delivered /\ done' = done
      /\ WriterStopped' /\ writer' = writer /\ (Delivers' <=> Delivers)
  BY Still
<1>2. /\ List(delivered) /\ Len(delivered) <= Len(patch)
      /\ Delivers
      /\ done <=> Len(delivered) = Len(patch)
  BY DEF ReaderInv
<1>3. /\ reader' = "idle" => Idle'
      /\ reader' \in {"open", "frame"} => Framed'
      /\ reader' \in {"ops", "adds"} => InOps'
      /\ reader' = "ready" => Ready'
      /\ reader' \notin {"none", "error", "panic"}
  OBVIOUS
<1> QED
  BY <1>1, <1>2, <1>3 DEF ReaderInv

(* What the reader may rely on. *)
LEMMA ReadingIs ==
    ASSUME WriterInv, WriterStopped, ReaderInv
    PROVE  /\ PatchInv /\ WireCut /\ List(wire) /\ Len(wire) \in Nat
           /\ PartAt(wire, 1, File[Len(patch)]) /\ Len(patch) \in Nat
           /\ Now \in Nat /\ Len(delivered) \in Nat
           /\ ~ done => Now \in 1 .. Len(patch)
<1>1. PatchInv /\ WireCut
  BY DEF WriterInv
<1>2. Len(patch) \in Nat
  BY <1>1, PatchIs
<1>3. Len(delivered) \in Nat /\ Len(delivered) <= Len(patch)
  BY ListLen DEF ReaderInv
<1>4. ~ done => Len(delivered) # Len(patch)
  BY DEF ReaderInv
<1> QED
  BY <1>1, <1>2, <1>3, <1>4, ListLen DEF WireCut, Now

LEMMA SourceIs ==
    ASSUME PatchInv, WireCut, Now \in 1 .. Len(patch), reader \in {"ops", "adds"},
           NEW s, NEW algo, NEW base, Place(s, algo, base), HeaderRead(header, s, algo)
    PROVE  Source = Text /\ Here = Spot /\ (FromWindow <=> Window)
<1>1. Window <=> algo # 0
  BY PlaceIs
<1>2. header.compression_algo = algo
  BY DEF HeaderRead
<1>3. Window => outer = <<>>
  BY DEF Window
<1>4. FromWindow <=> Window
  BY <1>1, <1>2, <1>3 DEF FromWindow
<1> QED
  BY <1>4 DEF Source, Here, Text, Spot

(* Reading an operation. *)
LEMMA UnfilledOp ==
    ASSUME NEW op \in Op, NEW format
    PROVE  Unfilled(op, format) \in Op
<1>1. CASE is_add(op) /\ format = "Segregated"
  <2>1. op \in AddOps /\ op.bytes \in Seq(Byte)
    BY <1>1 DEF Op, AddOps, CopyOps, RunOps, is_add
  <2>2. [i \in 1 .. Len(op.bytes) |-> "zero"] \in Seq(Byte)
    BY <2>1, ZeroAssumption
  <2>3. Add([i \in 1 .. Len(op.bytes) |-> "zero"]) \in AddOps
    BY <2>2 DEF Add, AddOps
  <2> QED
    BY <1>1, <2>3 DEF Unfilled, Op
<1> QED
  BY <1>1 DEF Unfilled

LEMMA Moved ==
    ASSUME FromWindow <=> Window, NEW at, MoveTo(at), outer' = outer, sec_comp' = sec_comp
    PROVE  /\ Spot' = at
           /\ Window => win_pos' = at /\ pos' = pos
           /\ ~ Window => pos' = at /\ win_pos' = win_pos
<1>1. Window' <=> Window
  BY DEF Window
<1> QED
  BY <1>1 DEF Spot, MoveTo

LEMMA MovedTypes ==
    ASSUME FromWindow <=> Window, NEW at, MoveTo(at), outer' = outer, sec_comp' = sec_comp,
           wire' = wire, win_data' = win_data, ReaderTypeOK, at \in 1 .. Len(Text) + 1
    PROVE  pos' \in 1 .. Len(wire') + 1 /\ win_pos' \in 1 .. Len(win_data') + 1
<1>1. pos \in 1 .. Len(wire) + 1 /\ win_pos \in 1 .. Len(win_data) + 1
  BY DEF ReaderTypeOK
<1>2. /\ Window => win_pos' = at /\ pos' = pos
      /\ ~ Window => pos' = at /\ win_pos' = win_pos
  BY Moved
<1>3. /\ Window => at \in 1 .. Len(win_data) + 1
      /\ ~ Window => at \in 1 .. Len(wire) + 1
  BY DEF Text
<1> QED
  BY <1>1, <1>2, <1>3

(* Where a section is read, and what is known of it. *)
LEMMA InSection ==
    ASSUME WriterInv, WriterStopped, ReaderInv, reader \in {"ops", "adds"}
    PROVE  \E s, algo, base :
              /\ Place(s, algo, base) /\ Partly(s, algo, base)
              /\ Formed(s) /\ List(Text) /\ Len(Text) \in Nat
              /\ base \in Nat /\ base >= 1
              /\ PartAt(Text, base, Body(s))
              /\ s.header.num_operations = Len(s.ops) \/ Len(Text) < base
              /\ Source = Text /\ Here = Spot /\ (FromWindow <=> Window)
<1>1. /\ PatchInv /\ WireCut /\ (~ done => Now \in 1 .. Len(patch))
  BY ReadingIs
<1>2. ~ done /\ InOps
  BY DEF ReaderInv
<1>3. PICK s, algo, base : Place(s, algo, base) /\ Partly(s, algo, base)
  BY <1>2 DEF InOps
<1>4. HeaderRead(header, s, algo)
  BY <1>3 DEF Partly
<1>5. /\ Formed(s) /\ List(Text) /\ Len(Text) \in Nat
      /\ base \in Nat /\ base >= 1
      /\ PartAt(Text, base, Body(s))
      /\ s.header.num_operations = Len(s.ops) \/ Len(Text) < base
  BY <1>1, <1>2, <1>3, PlaceIs
<1>6. Source = Text /\ Here = Spot /\ (FromWindow <=> Window)
  BY <1>1, <1>2, <1>3, <1>4, SourceIs
<1> QED
  BY <1>3, <1>5, <1>6

LEMMA ReadOpKeeps ==
    ASSUME WriterInv, WriterStopped, ReaderInv, ReadOp,
           UNCHANGED <<wire, writerVars, delivered>>
    PROVE  ReaderInv'
<1> DEFINE n == Len(op_buffer)
<1>1. /\ reader = "ops" /\ n < header.num_operations /\ CanReadOp
      /\ UNCHANGED <<done, outer, win_data, reader>>
  BY DEF ReadOp
<1>2. ~ done /\ ReaderTypeOK /\ List(win_data) /\ Now \in 1 .. Len(patch)
  BY <1>1, ReadingIs DEF ReaderInv
<1>3. PICK s, algo, base :
              /\ Place(s, algo, base) /\ Partly(s, algo, base)
              /\ Formed(s) /\ List(Text) /\ Len(Text) \in Nat
              /\ base \in Nat /\ base >= 1
              /\ PartAt(Text, base, Body(s))
              /\ s.header.num_operations = Len(s.ops) \/ Len(Text) < base
              /\ Source = Text /\ Here = Spot /\ (FromWindow <=> Window)
  BY <1>1, InSection
<1> DEFINE L(i) == Len(Together(OpsOf(s))[i])
           op == s.ops[n + 1]
<1>4. /\ HeaderRead(header, s, algo)
      /\ List(op_buffer) /\ n <= Len(s.ops) /\ n \in Nat
      /\ \A i \in 1 .. n : op_buffer[i] = Unfilled(s.ops[i], s.header.format)
      /\ cur_addr = Registers(s.ops)[n]
      /\ Spot = base + L(n)
  BY <1>3, ListLen DEF Partly
<1>5. /\ header.format = s.header.format /\ header.num_operations = s.header.num_operations
      /\ header \in SectionHeader
  BY <1>4 DEF HeaderRead
<1>6. /\ ShapedList(s.ops) /\ Len(s.ops) \in Nat /\ s.header.format \in Format
      /\ \A k \in 1 .. Len(s.ops) : Shaped(s.ops[k])
      /\ \A k \in 0 .. Len(s.ops) : Registers(s.ops)[k] \in [CopySrc -> Nat]
  BY <1>3, FormedIs
<1>7. /\ \A k \in 1 .. Len(s.ops) :
            PartAt(Text, base + L(k - 1),
               OpFields(s.ops[k], Registers(s.ops)[k - 1], s.header.format))
      /\ \A k \in 0 .. Len(s.ops) : L(k) \in Nat
      /\ \A k \in 1 .. Len(s.ops) :
            L(k) = L(k - 1) + Len(OpFields(s.ops[k], Registers(s.ops)[k - 1], s.header.format))
  BY <1>3, BodyAt
<1>8. n \in 0 .. Len(s.ops) /\ L(n) \in Nat /\ cur_addr \in [CopySrc -> Nat]
  BY <1>4, <1>6, <1>7
<1>9. Here <= Len(Source) /\ Here \in Nat /\ Len(Source) \in Nat
  <2>1. Here \in Nat /\ Len(Source) \in Nat
    BY <1>3, <1>4, <1>8
  <2>2. FieldsAre(<<"opbyte">>, Here)
    BY <1>1 DEF CanReadOp
  <2> QED
    BY <2>1, <2>2, OneField
<1>10. s.header.num_operations = Len(s.ops)
  BY <1>3, <1>4, <1>8, <1>9
<1>11. n + 1 \in 1 .. Len(s.ops) /\ (n + 1) - 1 = n /\ n + 1 \in 0 .. Len(s.ops)
  BY <1>1, <1>4, <1>5, <1>6, <1>10
<1>12. /\ PartAt(Text, base + L(n), OpFields(op, Registers(s.ops)[n], s.header.format))
       /\ L(n + 1) = L(n) + Len(OpFields(op, Registers(s.ops)[n], s.header.format))
       /\ L(n + 1) \in Nat /\ Shaped(op)
  BY <1>6, <1>7, <1>11
<1> DEFINE fields == OpFields(op, cur_addr, header.format)
<1>13. PartAt(Source, Here, fields)
  BY <1>3, <1>4, <1>5, <1>12
<1>14. header.format \in Format
  BY <1>5, <1>6
<1>15. /\ op_buffer' = Append(op_buffer, Unfilled(op, header.format))
       /\ cur_addr' = IF is_copy(op) THEN [cur_addr EXCEPT ![op.src] = op.addr] ELSE cur_addr
       /\ header' = IF is_add(op) /\ header.format = "Segregated"
                    THEN [header EXCEPT !.num_add_bytes = @ + oal(op)] ELSE header
       /\ MoveTo(Here + Len(fields))
       /\ Here + Len(fields) <= Len(Source) + 1
  BY <1>8, <1>9, <1>12, <1>13, <1>14, OpRead
<1>16. Here + Len(fields) = base + L(n + 1)
  <2>1. Len(fields) \in Nat /\ fields = OpFields(op, Registers(s.ops)[n], s.header.format)
    <3>1. fields = OpFields(op, Registers(s.ops)[n], s.header.format)
      BY <1>4, <1>5
    <3>2. Fields(fields)
      BY <1>8, <1>12, OpFieldsAre
    <3> HIDE DEF fields
    <3> QED
      BY <3>1, <3>2, ListLen DEF Fields
  <2> HIDE DEF fields, L
  <2> QED
    BY <2>1, <1>3, <1>4, <1>8, <1>12
<1> HIDE DEF fields, L
<1>17. sec_comp' = sec_comp /\ wire' = wire
  BY Still
<1>18. /\ Spot' = base + L(n + 1)
       /\ Window => pos' = pos
       /\ ~ Window => win_pos' = win_pos
  BY <1>1, <1>3, <1>15, <1>16, <1>17, Moved
<1>19. Place(s, algo, base)'
  BY <1>1, <1>3, <1>18, PlaceKept
<1>20. cur_addr' = Registers(s.ops)[n + 1] /\ cur_addr' \in [CopySrc -> Int]
  <2>1. Registers(s.ops)[n + 1] = IF is_copy(op)
                                  THEN [Registers(s.ops)[n] EXCEPT ![op.src] = op.addr]
                                  ELSE Registers(s.ops)[n]
    BY <1>6, <1>11, RegistersIs
  <2>2. cur_addr' = Registers(s.ops)[n + 1]
    BY <1>4, <1>15, <2>1
  <2>3. Registers(s.ops)[n + 1] \in [CopySrc -> Nat]
    BY <1>6, <1>11
  <2>4. \A f \in [CopySrc -> Nat] : f \in [CopySrc -> Int]
    OBVIOUS
  <2> QED
    BY <2>2, <2>3, <2>4
<1>21. HeaderRead(header', s, algo)
  <2>1. oal(op) \in Nat
    <3>1. oal(op) \in 0 .. MAX_INST_SIZE
      BY <1>12, ShapedIs
    <3> QED
      BY <3>1
  <2>2. [header EXCEPT !.num_add_bytes = @ + oal(op)] \in SectionHeader
    BY <1>5, <2>1 DEF SectionHeader
  <2> QED
    BY <1>4, <1>15, <2>2 DEF HeaderRead, SectionHeader
<1>22. /\ List(op_buffer') /\ Len(op_buffer') = n + 1
       /\ \A i \in 1 .. Len(op_buffer') : op_buffer'[i] = Unfilled(s.ops[i], s.header.format)
  <2> DEFINE x == Unfilled(op, header.format)
  <2>1. x = Unfilled(s.ops[n + 1], s.header.format)
    BY <1>5
  <2> HIDE DEF x
  <2>2. /\ List(op_buffer') /\ Len(op_buffer') = n + 1
        /\ \A i \in 1 .. n : op_buffer'[i] = op_buffer[i]
        /\ op_buffer'[n + 1] = x
    BY <1>4, <1>15, ListAppend DEF x
  <2> QED
    BY <1>4, <2>1, <2>2
<1>23. Partly(s, algo, base)'
  <2>1. Len(op_buffer') <= Len(s.ops)
    BY <1>11, <1>22
  <2>2. reader' = "ops"
    BY <1>1
  <2>3. cur_addr' = Registers(s.ops)[Len(op_buffer')] /\ Spot' = base + Len(Together(OpsOf(s))[Len(op_buffer')])
    BY <1>18, <1>20, <1>22 DEF L
  <2> QED
    BY <1>21, <1>22, <2>1, <2>2, <2>3 DEF Partly
<1>24. ReaderTypeOK'
  <2>1. pos' \in 1 .. Len(wire') + 1 /\ win_pos' \in 1 .. Len(win_data') + 1
    <3>1. Here + Len(fields) \in 1 .. Len(Text) + 1
      BY <1>3, <1>12, <1>15, <1>16
    <3> QED
      BY <1>1, <1>2, <1>3, <1>15, <1>17, <3>1, MovedTypes
  <2>2. outer' = <<>> => op_buffer' \in Seq(Op)
    <3>1. SUFFICES ASSUME outer = <<>> PROVE op_buffer' \in Seq(Op)
      BY <1>1
    <3>2. s = AtHand
      BY <1>2, <1>3, <3>1, PlaceIs, ReadingIs
    <3>3. s.ops \in Seq(Op)
      BY <1>2, <3>2, HandIs, ReadingIs
    <3>4. op \in Op
      BY <3>3, <1>11
    <3>5. Unfilled(op, header.format) \in Op
      BY <3>4, UnfilledOp
    <3>6. op_buffer \in Seq(Op)
      BY <1>2, <3>1 DEF ReaderTypeOK
    <3> QED
      BY <1>15, <3>5, <3>6
  <2>3. header' \in SectionHeader
    BY <1>21 DEF HeaderRead
  <2>4. /\ done' \in BOOLEAN /\ (outer' = <<>> \/ outer'[1] \in SectionHeader)
        /\ reader' \in {"idle", "open", "frame", "ops", "adds", "ready", "none", "error", "panic"}
    BY <1>1, <1>2 DEF ReaderTypeOK
  <2> QED
    BY <1>20, <2>1, <2>2, <2>3, <2>4 DEF ReaderTypeOK
<1>25. InOps'
  BY <1>19, <1>23 DEF InOps
<1> QED
  BY <1>1, <1>2, <1>24, <1>25, GoesOn

(* Of a section that says it has no operations and puts nothing out the     *)
(* reader has none, whatever the writer was given.                          *)
LEMMA SumOfNone ==
    ASSUME NEW list, List(list), Len(list) = 0
    PROVE  SumOal(list) = 0
<1> DEFINE size == [k \in 1 .. Len(list) |-> oal(list[k])]
<1>1. 0 \in Nat /\ \A k \in 1 .. 0 : size[k] \in Int
  OBVIOUS
<1> HIDE DEF size
<1>2. RunningSum(size, 0)[0] = 0
  BY <1>1, RunningSumIs
<1> QED
  BY <1>2 DEF SumOal, size

LEMMA CheckSizeKeeps ==
    ASSUME WriterInv, WriterStopped, ReaderInv, CheckSize,
           UNCHANGED <<wire, writerVars, delivered>>
    PROVE  ReaderInv'
<1> DEFINE n == Len(op_buffer)
<1>1. /\ reader = "ops" /\ n = header.num_operations
      /\ SumOal(op_buffer) = header.output_size
      /\ reader' = IF Segregated THEN "adds" ELSE "ready"
      /\ UNCHANGED <<pos, header, op_buffer, cur_addr, done, winVars>>
  BY DEF CheckSize
<1>2. ~ done /\ ReaderTypeOK /\ List(win_data) /\ Now \in 1 .. Len(patch)
  BY <1>1, ReadingIs DEF ReaderInv
<1>3. PICK s, algo, base :
              /\ Place(s, algo, base) /\ Partly(s, algo, base)
              /\ Formed(s) /\ List(Text) /\ Len(Text) \in Nat
              /\ base \in Nat /\ base >= 1
              /\ PartAt(Text, base, Body(s))
              /\ s.header.num_operations = Len(s.ops) \/ Len(Text) < base
              /\ Source = Text /\ Here = Spot /\ (FromWindow <=> Window)
  BY <1>1, InSection
<1> DEFINE L(i) == Len(Together(OpsOf(s))[i])
<1>4. /\ HeaderRead(header, s, algo)
      /\ List(op_buffer) /\ n <= Len(s.ops) /\ n \in Nat
      /\ \A i \in 1 .. n : op_buffer[i] = Unfilled(s.ops[i], s.header.format)
      /\ cur_addr = Registers(s.ops)[n]
      /\ Spot = base + L(n)
  BY <1>3, ListLen DEF Partly
<1>5. /\ header.format = s.header.format /\ header.num_operations = s.header.num_operations
      /\ header.output_size = s.header.output_size /\ header \in SectionHeader
  BY <1>4 DEF HeaderRead
<1>6. /\ ShapedList(s.ops) /\ Len(s.ops) \in Nat /\ s.header.format \in Format /\ List(s.ops)
      /\ \A k \in 1 .. Len(s.ops) : Shaped(s.ops[k])
  BY <1>3, FormedIs
<1>7. Spot <= Len(Text) + 1
  BY <1>2 DEF ReaderTypeOK, Spot, Text
<1>8. n = Len(s.ops)
  <2>1. CASE s.header.num_operations = Len(s.ops)
    BY <1>1, <1>5, <2>1
  <2>2. CASE Len(Text) < base
    <3>1. L(n) \in Nat
      BY <1>3, <1>4, <1>6, BodyAt
    <3>2. L(n) = 0
      <4> HIDE DEF L
      <4> QED
        BY <1>3, <1>4, <1>7, <2>2, <3>1
    <3>3. n = 0
      <4>1. SUFFICES ASSUME n # 0 PROVE FALSE
        OBVIOUS
      <4>8. /\ 1 \in 0 .. Len(s.ops) /\ n \in 0 .. Len(s.ops) /\ 1 <= n /\ 1 \in 1 .. Len(s.ops)
        <5> HIDE DEF n
        <5> QED
          BY <1>4, <1>6, <4>1
      <4>9. AreLists(OpsOf(s)) /\ Len(OpsOf(s)) = Len(s.ops)
        BY <1>3, SectionParts
      <4>2. /\ AreLists(OpsOf(s)) /\ Len(OpsOf(s)) = Len(s.ops)
            /\ 1 \in 0 .. Len(s.ops) /\ n \in 0 .. Len(s.ops) /\ 1 <= n /\ 1 \in 1 .. Len(s.ops)
        BY <4>8, <4>9
      <4>3. L(1) <= L(n)
        BY <4>2, JoinedGrows
      <4> DEFINE one == 1
      <4>6. one \in 1 .. Len(OpsOf(s)) /\ one \in 0 .. Len(OpsOf(s)) /\ one - 1 = 0 /\ one = 1
        BY <4>2
      <4> HIDE DEF one
      <4>7. L(0) = 0 /\ L(one) \in Nat /\ L(one) = L(one - 1) + Len(OpsOf(s)[one])
        BY <4>2, <4>6, JoinedLists
      <4>4. L(1) = Len(OpsOf(s)[1]) /\ L(1) \in Nat
        <5>1. Len(OpsOf(s)[one]) \in Nat
          BY <1>3, <4>2, <4>6, SectionParts
        <5> HIDE DEF L
        <5> QED
          BY <4>6, <4>7, <5>1
      <4>5. Len(OpsOf(s)[1]) \in Nat /\ Len(OpsOf(s)[1]) >= 1
        BY <1>3, <4>2, SectionParts
      <4> HIDE DEF L
      <4> QED
        BY <3>2, <4>3, <4>4, <4>5
    <3>4. SumOal(op_buffer) = 0
      BY <1>4, <3>3, SumOfNone
    <3>5. s.header.num_operations = 0 /\ s.header.output_size = 0
      BY <1>1, <1>5, <3>3, <3>4
    <3>6. s.ops = <<>>
      BY <1>2, <1>3, <3>5, PlaceIs, ReadingIs
    <3> QED
      BY <3>3, <3>6
  <2> QED
    BY <1>3, <2>1, <2>2
<1>9. /\ Spot' = Spot /\ Text' = Text /\ Place(s, algo, base)'
      /\ header' = header /\ op_buffer' = op_buffer /\ cur_addr' = cur_addr
  <2>1. UNCHANGED <<outer, win_data, win_pos, pos, header, op_buffer, cur_addr>>
    BY <1>1 DEF winVars
  <2>2. Place(s, algo, base)' /\ Text' = Text /\ (Window' <=> Window)
    BY <1>3, <2>1, PlaceKept
  <2> QED
    BY <2>1, <2>2 DEF Spot
<1>10. ReaderTypeOK'
  <2>1. wire' = wire /\ (reader' = "adds" \/ reader' = "ready")
    BY <1>1, Still
  <2>2. UNCHANGED <<outer, win_data, win_pos, pos, header, op_buffer, cur_addr, done>>
    BY <1>1 DEF winVars
  <2> QED
    BY <1>2, <2>1, <2>2 DEF ReaderTypeOK
<1>11. CASE Segregated
  <2>1. Partly(s, algo, base)'
    BY <1>4, <1>5, <1>8, <1>9, <1>11 DEF Partly, Segregated
  <2>2. InOps' /\ reader' = "adds"
    BY <1>1, <1>9, <1>11, <2>1 DEF InOps
  <2> QED
    BY <1>1, <1>2, <1>10, <2>2, GoesOn DEF winVars
<1>12. CASE ~ Segregated
  <2>1. s.header.format # "Segregated"
    BY <1>5, <1>12 DEF Segregated
  <2>2. op_buffer = s.ops
    <3>1. \A i \in 1 .. n : op_buffer[i] = s.ops[i]
      BY <1>4, <1>6, <1>8, <2>1, UnfilledIs
    <3> QED
      BY <1>4, <1>6, <1>8, <3>1, ListEqual
  <2>3. Len(Body(s)) = L(n)
    <3> DEFINE H == Len(Together(HeldOf(s))[Len(s.ops)])
    <3>1. Len(Body(s)) = L(Len(s.ops)) + H
      BY <1>3, SectionParts
    <3>3. Len(s.ops) \in 0 .. Len(s.ops)
      BY <1>6
    <3>4. L(Len(s.ops)) \in Nat
      BY <1>3, <3>3, BodyAt
    <3>2. H = 0
      BY <1>3, <2>1, <3>3, HeldLen
    <3> HIDE DEF L, H
    <3> QED
      BY <1>8, <3>1, <3>2, <3>4
  <2>4. Wholly(s, algo, base)'
    <3>1. HeaderRead(header', s, algo)
      BY <1>4, <1>9
    <3>2. Spot' = base + Len(Body(s))
      BY <1>4, <1>9, <2>3
    <3> QED
      BY <1>9, <2>2, <3>1, <3>2 DEF Wholly
  <2>5. Ready' /\ reader' = "ready"
    BY <1>1, <1>9, <1>12, <2>4 DEF Ready
  <2> QED
    BY <1>1, <1>2, <1>10, <2>5, GoesOn DEF winVars
<1> QED
  BY <1>11, <1>12

LEMMA FillAddsKeeps ==
    ASSUME WriterInv, WriterStopped, ReaderInv, FillAdds,
           UNCHANGED <<wire, writerVars, delivered>>
    PROVE  ReaderInv'
<1>1. /\ reader = "adds" /\ FieldsAre([i \in 1 .. AddLen |-> "byte"], Here)
      /\ op_buffer' = Filled /\ MoveTo(Here + AddLen) /\ reader' = "ready"
      /\ UNCHANGED <<header, cur_addr, done, outer, win_data>>
  BY DEF FillAdds
<1>2. ~ done /\ ReaderTypeOK /\ List(win_data) /\ Now \in 1 .. Len(patch)
  BY <1>1, ReadingIs DEF ReaderInv
<1>3. PICK s, algo, base :
              /\ Place(s, algo, base) /\ Partly(s, algo, base)
              /\ Formed(s) /\ List(Text) /\ Len(Text) \in Nat
              /\ base \in Nat /\ base >= 1
              /\ PartAt(Text, base, Body(s))
              /\ s.header.num_operations = Len(s.ops) \/ Len(Text) < base
              /\ Source = Text /\ Here = Spot /\ (FromWindow <=> Window)
  BY <1>1, InSection
<1> DEFINE L(i) == Len(Together(OpsOf(s))[i])
           H == Len(Together(HeldOf(s))[Len(s.ops)])
           n == Len(s.ops)
<1>4. /\ HeaderRead(header, s, algo)
      /\ List(op_buffer) /\ Len(op_buffer) = n /\ s.header.format = "Segregated"
      /\ \A i \in 1 .. Len(op_buffer) : op_buffer[i] = Unfilled(s.ops[i], s.header.format)
      /\ Spot = base + L(n)
  BY <1>1, <1>3 DEF Partly
<1>5. n \in Nat /\ n \in 0 .. n
  BY <1>3, FormedIs
<1>6. /\ PartAt(Text, base + L(n), Bytes(Together(HeldOf(s))[Len(s.ops)]))
      /\ L(n) \in Nat
  BY <1>3, <1>5, BodyAt
<1>7. Len(Body(s)) = L(n) + H /\ H \in Nat
  <2>1. Len(Body(s)) = L(n) + H
    BY <1>3, SectionParts
  <2>2. List(Together(HeldOf(s))[Len(s.ops)])
    BY <1>3, <1>5, SectionParts
  <2> QED
    BY <2>1, <2>2, ListLen
<1>8. PartAt(Source, Here, Bytes(Together(HeldOf(s))[Len(s.ops)])) /\ Here \in Nat /\ Len(Source) \in Nat
  <2>1. Source = Text /\ Here = base + L(n) /\ Len(Source) \in Nat
    BY <1>3, <1>4
  <2>2. Here \in Nat
    <3> HIDE DEF L, n
    <3> QED
      BY <1>3, <1>6, <2>1
  <2> QED
    BY <1>6, <2>1, <2>2
<1>9. /\ AddLen = H
      /\ FieldsAre([i \in 1 .. AddLen |-> "byte"], Here) <=> Here + AddLen <= Len(Source) + 1
      /\ Here + AddLen <= Len(Source) + 1 => Filled = s.ops
  BY <1>3, <1>4, <1>8, FilledIs
<1>10. op_buffer' = s.ops /\ Here + AddLen <= Len(Source) + 1
  BY <1>1, <1>9
<1>11. Here + AddLen = base + Len(Body(s)) /\ Here + AddLen \in 1 .. Len(Text) + 1
  <2>1. Here = base + L(n) /\ Len(Source) = Len(Text) /\ base \in Nat /\ base >= 1
        /\ L(n) \in Nat /\ H \in Nat /\ AddLen = H /\ Len(Body(s)) = L(n) + H
        /\ Here + AddLen <= Len(Source) + 1 /\ Len(Text) \in Nat
    BY <1>3, <1>4, <1>6, <1>7, <1>9, <1>10
  <2> DEFINE ln == L(n)
             body == Len(Body(s))
             to == Len(Text)
  <2>2. /\ Here = base + ln /\ ln \in Nat /\ body = ln + H /\ H \in Nat /\ AddLen = H
        /\ base \in Nat /\ base >= 1 /\ to \in Nat /\ Here + AddLen <= to + 1
    BY <2>1
  <2> HIDE DEF L, H, n, ln, body, to
  <2>3. Here + AddLen = base + body /\ Here + AddLen \in 1 .. to + 1
    BY <2>2
  <2> QED
    BY <2>3 DEF body, to
<1> HIDE DEF L, H
<1>12. sec_comp' = sec_comp /\ wire' = wire
  BY Still
<1>13. /\ Spot' = base + Len(Body(s))
       /\ Window => pos' = pos
       /\ ~ Window => win_pos' = win_pos
  BY <1>1, <1>3, <1>11, <1>12, Moved
<1>14. Place(s, algo, base)'
  BY <1>1, <1>3, <1>13, PlaceKept
<1>15. Wholly(s, algo, base)'
  BY <1>1, <1>4, <1>10, <1>13 DEF Wholly
<1>16. Ready'
  BY <1>14, <1>15 DEF Ready
<1>17. ReaderTypeOK'
  <2>1. pos' \in 1 .. Len(wire') + 1 /\ win_pos' \in 1 .. Len(win_data') + 1
    BY <1>1, <1>2, <1>3, <1>11, <1>12, MovedTypes
  <2>2. outer' = <<>> => op_buffer' \in Seq(Op)
    <3>1. SUFFICES ASSUME outer = <<>> PROVE op_buffer' \in Seq(Op)
      BY <1>1
    <3>2. s = AtHand
      BY <1>2, <1>3, <3>1, PlaceIs, ReadingIs
    <3>3. s.ops \in Seq(Op)
      BY <1>2, <3>2, HandIs, ReadingIs
    <3> QED
      BY <1>10, <3>3
  <2> QED
    BY <1>1, <1>2, <2>1, <2>2 DEF ReaderTypeOK
<1> QED
  BY <1>1, <1>2, <1>16, <1>17, GoesOn

(* Before the first operation of a section is read. *)
LEMMA NothingRead ==
    ASSUME NEW s, Formed(s), NEW algo, HeaderRead(header', s, algo),
           op_buffer' = <<>>, cur_addr' = NoAddr, reader' = "ops",
           NEW base \in Nat, Spot' = base
    PROVE  Partly(s, algo, base)'
<1>1. ShapedList(s.ops) /\ Len(s.ops) \in Nat
  BY FormedIs
<1>2. List(<<>>) /\ Len(<<>>) = 0
  BY ListEmpty
<1>3. Registers(s.ops)[0] = NoAddr
  BY <1>1, RegistersIs
<1>4. AreLists(OpsOf(s))
  BY SectionParts
<1>5. Len(Together(OpsOf(s))[0]) = 0
  BY <1>4, JoinedLists
<1>6. Spot' = base + Len(Together(OpsOf(s))[Len(op_buffer')])
  BY <1>2, <1>5
<1>7. Len(op_buffer') <= Len(s.ops) /\ cur_addr' = Registers(s.ops)[Len(op_buffer')]
  BY <1>1, <1>2, <1>3
<1>8. \A i \in 1 .. Len(op_buffer') : op_buffer'[i] = Unfilled(s.ops[i], s.header.format)
  BY <1>2
<1> QED
  BY <1>2, <1>6, <1>7, <1>8 DEF Partly

LEMMA NoAddrType == NoAddr \in [CopySrc -> Int]
  BY DEF NoAddr

LEMMA ReadHeaderKeeps ==
    ASSUME WriterInv, WriterStopped, ReaderInv, ReadHeader,
           UNCHANGED <<wire, writerVars, delivered>>
    PROVE  ReaderInv'
<1>1. reader = "idle" /\ ~ done
  BY DEF ReadHeader
<1>2. /\ ReaderTypeOK /\ List(win_data) /\ Idle
      /\ PatchInv /\ List(wire) /\ Len(wire) \in Nat /\ PartAt(wire, 1, File[Len(patch)])
      /\ Now \in 1 .. Len(patch)
  BY <1>1, ReadingIs DEF ReaderInv
<1>3. Source = wire
  BY <1>1 DEF Source, FromWindow
<1>4. /\ wire' = wire /\ sec_comp' = sec_comp /\ Now' = Now /\ AtHand' = AtHand /\ Packed' = Packed
      /\ \A i : PayloadAt(i)' = PayloadAt(i) /\ Start(i)' = Start(i)
      /\ \A k : NestedStart(k)' = NestedStart(k)
  BY Still
<1>5. /\ Formed(AtHand) /\ HeaderIs(AtHand.header) /\ sec_comp \in Algo
  BY <1>2, PatchIs, HandIs, FormedIs
<1>6. 0 \in Algo
  BY DEF Algo
<1>7. List(<<>>) /\ Len(<<>>) = 0 /\ <<>> \in Seq(Op)
  BY ListEmpty
<1>8. CASE outer = <<>>
  <2> DEFINE h == HeaderOf(AtHand, sec_comp)
  <2>1. pos = Start(Now)
    <3>1. \A k : ~ InNested(k)
      <4>1. SUFFICES ASSUME NEW k, InNested(k) PROVE FALSE
        OBVIOUS
      <4>2. outer = <<outer[1]>>
        BY <4>1 DEF InNested
      <4> QED
        BY <4>2, <1>8
    <3> QED
      BY <1>1, <1>2, <3>1 DEF Idle, AtTail
  <2>2. /\ Start(Now) \in Nat /\ PayloadAt(Now) = Start(Now) + Len(h) /\ PayloadAt(Now) \in Nat
        /\ Start(Now) < PayloadAt(Now) /\ Start(Now) >= 1
    BY <1>2, FileIs DEF PayloadAt, AtHand
  <2>3. PartAt(Source, pos, h)
    BY <1>2, <1>3, <2>1, FileAt DEF AtHand
  <2>4. /\ pos' = pos + Len(h) /\ pos' <= Len(Source) + 1
        /\ HeaderRead(header', AtHand, sec_comp)
        /\ outer' = IF outer = <<>> /\ sec_comp = 1 THEN <<header'>> ELSE outer
        /\ reader' = IF outer # <<>> \/ sec_comp = 0 THEN "ops"
                     ELSE CASE sec_comp = 1 -> "idle" [] sec_comp = 2 -> "open"
                            [] sec_comp = 3 -> "frame"
        /\ op_buffer' = <<>> /\ cur_addr' = NoAddr
        /\ win_data' = IF outer = <<>> THEN <<>> ELSE win_data
        /\ win_pos' = 1 /\ UNCHANGED done
    <3>1. Len(Source) \in Nat /\ pos \in Nat
      BY <1>2, <1>3, <2>1, <2>2
    <3> QED
      BY <1>5, <2>3, <3>1, HeaderStep
  <2> HIDE DEF h
  <2>12. /\ sec_comp = 0 => reader' = "ops"
         /\ sec_comp = 1 => reader' = "idle"
         /\ sec_comp = 2 => reader' = "open"
         /\ sec_comp = 3 => reader' = "frame"
    BY <1>8, <2>4
  <2>13. sec_comp \in {0, 1, 2, 3}
    BY <1>5 DEF Algo
  <2>5. pos' = PayloadAt(Now) /\ win_data' = <<>> /\ header' \in SectionHeader
        /\ pos' \in 1 .. Len(wire') + 1
    <3>1. pos' = PayloadAt(Now) /\ pos' <= Len(wire) + 1
      BY <1>3, <2>1, <2>2, <2>4
    <3>2. pos' \in 1 .. Len(wire') + 1
      BY <1>2, <1>4, <2>2, <3>1
    <3>3. header' \in SectionHeader
      BY <2>4 DEF HeaderRead
    <3>4. win_data' = <<>>
      BY <1>8, <2>4
    <3> QED
      BY <3>1, <3>2, <3>3, <3>4
  <2>6. List(win_data)' /\ win_pos' \in 1 .. Len(win_data') + 1
    BY <1>7, <2>4, <2>5
  <2>7. ReaderTypeOK'
    <3>1. outer' = <<>> \/ outer'[1] \in SectionHeader
      BY <1>8, <2>4, <2>5
    <3>2. reader' \in {"idle", "open", "frame", "ops", "adds", "ready", "none", "error", "panic"}
      BY <2>12, <2>13
    <3>3. cur_addr' \in [CopySrc -> Int]
      BY <2>4, NoAddrType
    <3>4. done' \in BOOLEAN
      BY <1>2, <2>4 DEF ReaderTypeOK
    <3> QED
      BY <1>7, <2>4, <2>5, <2>6, <3>1, <3>2, <3>3, <3>4 DEF ReaderTypeOK
  <2>8. PayloadAt(Now)' = PayloadAt(Now)
    BY Still
  <2>9. CASE sec_comp = 0
    <3>1. reader' = "ops" /\ outer' = <<>>
      BY <1>8, <2>4, <2>9
    <3>6. PICK s, base : s = AtHand /\ base = PayloadAt(Now)
      OBVIOUS
    <3>7. s = AtHand' /\ base = PayloadAt(Now)' /\ base \in Nat
      BY <1>4, <2>2, <2>8, <3>6
    <3>2. InFile(s, 0, base)'
      BY <1>4, <2>9, <3>1, <3>7 DEF InFile
    <3>3. Spot' = base
      BY <1>4, <2>5, <2>9, <3>6 DEF Spot, Window
    <3>4. Partly(s, 0, base)'
      <4>1. Formed(s) /\ HeaderRead(header', s, 0)
        BY <1>5, <2>4, <2>9, <3>6
      <4> QED
        BY <2>4, <3>1, <3>3, <3>7, <4>1, NothingRead
    <3>5. InOps'
      BY <3>2, <3>4 DEF InOps, Place
    <3> QED
      BY <1>1, <2>4, <2>6, <2>7, <3>1, <3>5, GoesOn
  <2>10. CASE sec_comp = 1
    <3>1. reader' = "idle" /\ outer' = <<header'>>
      BY <1>8, <2>4, <2>10
    <3>2. Fields(Packed) /\ Packed = Body(AtHand)
      BY <1>5, SectionParts DEF Packed
    <3>3. /\ NestedSections(Packed) \in Nat /\ NestedSections(Packed) >= 1
      BY <3>2, SectionsIs DEF Fields
    <3> DEFINE one == 1
    <3>4. one \in 1 .. NestedSections(Packed) /\ From(one) = 0
      <4>1. From(one) = 0 * SegmentSize /\ SegmentSize \in Nat
        BY SegmentIs DEF From
      <4> QED
        BY <3>3, <4>1
    <3> HIDE DEF one
    <3>5. NestedStart(one) = PayloadAt(Now)
      <4>1. NestedStart(1) = PayloadAt(Now)
        BY <1>2, <2>10, <3>4, NestedAt
      <4> QED
        BY <4>1 DEF one
    <3>6. SubSeq(Packed, 1, From(one)) = <<>>
      <4>1. List(Packed) /\ Len(Packed) \in Nat
        BY <3>2, ListLen DEF Fields
      <4>2. List(SubSeq(Packed, 1, 0)) /\ Len(SubSeq(Packed, 1, 0)) = 0
        <5> DEFINE m == 1
                   n == 0
        <5>1. m \in 1 .. Len(Packed) + 1 /\ n \in m - 1 .. Len(Packed) /\ n - m + 1 = 0
          BY <4>1
        <5> HIDE DEF m, n
        <5>2. List(SubSeq(Packed, m, n)) /\ Len(SubSeq(Packed, m, n)) = n - m + 1
          BY <4>1, <5>1, ListSub
        <5> QED
          BY <5>1, <5>2 DEF m, n
      <4> QED
        BY <3>4, <4>2, ListEmpty
    <3>7. /\ outer' = <<outer'[1]>> /\ HeaderRead(outer'[1], AtHand, 1)
      BY <2>4, <2>10, <3>1
    <3>8. InNested(one)'
      BY <1>4, <2>4, <2>5, <2>10, <3>6, <3>7 DEF InNested
    <3>9. pos' = NestedStart(one)'
      BY <1>4, <2>5, <3>5
    <3>10. Idle'
      BY <1>4, <3>4, <3>8, <3>9 DEF Idle
    <3> QED
      BY <1>1, <2>4, <2>6, <2>7, <3>1, <3>10, GoesOn
  <2>11. CASE sec_comp \notin {0, 1}
    <3>1. /\ (sec_comp = 2 /\ reader' = "open") \/ (sec_comp = 3 /\ reader' = "frame")
          /\ outer' = <<>> /\ reader' \in {"open", "frame"}
      BY <1>8, <2>4, <2>11, <2>12, <2>13
    <3>3. FrameAt' = PayloadAt(Now)
      BY <1>4, <2>8, <3>1 DEF FrameAt
    <3>2. Framed'
      BY <1>4, <2>4, <2>5, <3>1, <3>3 DEF Framed
    <3> QED
      BY <1>1, <2>4, <2>6, <2>7, <3>1, <3>2, GoesOn
  <2> QED
    BY <2>9, <2>10, <2>11
<1>9. CASE outer # <<>>
  <2>1. PICK k \in 1 .. NestedSections(Packed) : InNested(k) /\ pos = NestedStart(k)
    BY <1>2, <1>9 DEF Idle
  <2> DEFINE s == NestedSection(Packed, k)
             h == HeaderOf(s, 0)
             base == NestedStart(k) + Len(h)
  <2>2. sec_comp = 1 /\ win_pos = 1 /\ outer = <<outer[1]>>
    BY <2>1 DEF InNested
  <2>3. /\ Fields(Packed) /\ NestedStart(k) \in Nat /\ NestedStart(k) >= PayloadAt(Now)
        /\ PartAt(wire, NestedStart(k), h)
    BY <1>2, <2>2, NestedAt
  <2>4. Formed(s) /\ HeaderIs(s.header)
    BY <2>3, NestedFormed, FormedIs
  <2>5. Len(h) \in Nat /\ Len(h) >= 1
    BY <2>3, NestedPartIs
  <2>6. /\ pos' = pos + Len(h) /\ pos' <= Len(Source) + 1
        /\ HeaderRead(header', s, 0)
        /\ outer' = IF outer = <<>> /\ 0 = 1 THEN <<header'>> ELSE outer
        /\ reader' = "ops"
        /\ op_buffer' = <<>> /\ cur_addr' = NoAddr
        /\ win_data' = IF outer = <<>> THEN <<>> ELSE win_data
        /\ win_pos' = 1 /\ UNCHANGED done
    <3> HIDE DEF s
    <3>1. Len(Source) \in Nat /\ pos \in Nat /\ PartAt(Source, pos, h)
      BY <1>2, <1>3, <2>1, <2>3
    <3> DEFINE zero == 0
    <3>2. zero \in Algo /\ zero = 0
      BY <1>6
    <3> HIDE DEF zero
    <3>3. PartAt(Source, pos, HeaderOf(s, zero))
      BY <3>1, <3>2
    <3>4. /\ pos' = pos + Len(HeaderOf(s, zero)) /\ pos' <= Len(Source) + 1
          /\ HeaderRead(header', s, zero)
          /\ outer' = IF outer = <<>> /\ zero = 1 THEN <<header'>> ELSE outer
          /\ reader' = IF outer # <<>> \/ zero = 0 THEN "ops"
                       ELSE CASE zero = 1 -> "idle" [] zero = 2 -> "open" [] zero = 3 -> "frame"
          /\ op_buffer' = <<>> /\ cur_addr' = NoAddr
          /\ win_data' = IF outer = <<>> THEN <<>> ELSE win_data
          /\ win_pos' = 1 /\ UNCHANGED done
      BY <2>4, <3>1, <3>2, <3>3, HeaderStep
    <3> QED
      BY <3>2, <3>4
  <2>7. outer' = outer /\ win_data' = win_data /\ reader' = "ops" /\ win_pos' = win_pos
        /\ pos' = base
    BY <1>9, <2>1, <2>2, <2>6
  <2> HIDE DEF h
  <2>8. PayloadAt(Now) \in Nat /\ pos' \in 1 .. Len(wire') + 1 /\ base \in Nat
    <3>1. PayloadAt(Now) \in Nat
      BY <1>2, FileIs
    <3> QED
      BY <1>2, <1>3, <1>4, <2>1, <2>3, <2>5, <2>6, <3>1
  <2> HIDE DEF s
  <2>9. InNested(k)'
    BY <1>4, <2>1, <2>7 DEF InNested
  <2>16. PICK t, at, algo : t = s /\ at = base /\ algo = 0
    OBVIOUS
  <2>10. Inside(t, algo, at, k)'
    BY <1>4, <2>9, <2>16 DEF Inside, s, h
  <2>11. Place(t, algo, at)'
    BY <1>4, <2>10 DEF Place
  <2> HIDE DEF base
  <2>12. Spot' = at
    <3>1. ~ Window'
      BY <1>9, <2>7 DEF Window
    <3> QED
      BY <2>7, <2>16, <3>1 DEF Spot
  <2>17. Formed(t) /\ HeaderRead(header', t, algo) /\ at \in Nat
    BY <2>4, <2>6, <2>8, <2>16
  <2>13. Partly(t, algo, at)'
    BY <2>6, <2>7, <2>12, <2>17, NothingRead
  <2>14. InOps'
    BY <2>11, <2>13 DEF InOps
  <2>15. ReaderTypeOK' /\ List(win_data)'
    <3>1. outer' # <<>> /\ (outer' = <<>> \/ outer'[1] \in SectionHeader)
      BY <1>2, <1>9, <2>7 DEF ReaderTypeOK
    <3>2. cur_addr' \in [CopySrc -> Int] /\ header' \in SectionHeader
      BY <2>6, NoAddrType DEF HeaderRead
    <3>3. done' \in BOOLEAN /\ win_pos' \in 1 .. Len(win_data') + 1
      BY <1>2, <2>6, <2>7 DEF ReaderTypeOK
    <3> QED
      BY <1>2, <2>7, <2>8, <3>1, <3>2, <3>3 DEF ReaderTypeOK
  <2> QED
    BY <1>1, <2>6, <2>7, <2>14, <2>15, GoesOn
<1> QED
  BY <1>8, <1>9

(* Where the frame of a section is, and what is there. *)
LEMMA FrameIs ==
    ASSUME PatchInv, WireCut, Now \in 1 .. Len(patch), Framed, reader \in {"open", "frame"}
    PROVE  /\ pos \in Nat /\ pos >= 1 /\ Len(wire) \in Nat /\ Start(Now + 1) \in Nat
           /\ reader = "open" => Start(Now + 1) = pos + 2
           /\ reader = "frame" => Start(Now + 1) = pos + 1
           /\ pos <= Len(wire) =>
                 /\ Sound(patch[Now])
                 /\ wire[pos] = IF reader = "open" THEN Field("frame_head", 2)
                                ELSE Field("frame", Packed)
           /\ writer = "ok" => Start(Now + 1) <= Len(wire) + 1
<1> DEFINE p == PayloadAt(Now)
           next == Start(Now + 1)
           P == Payload(AtHand)
           L == Len(wire)
<1>1. /\ sec_comp \in {2, 3} /\ pos = FrameAt
      /\ reader = "open" => sec_comp = 2
  BY DEF Framed
<1>2. /\ List(wire) /\ L \in Nat /\ PartAt(wire, 1, File[Len(patch)])
      /\ Sound(patch[Now]) \/ L < p
      /\ writer = "ok" => wire = File[Len(patch)]
  BY <1>1, ListLen DEF WireCut
<1>3. Formed(AtHand)
  BY HandIs
<1>4. /\ sec_comp = 2 => P = <<Field("frame_head", 2), Field("frame", Packed)>> /\ Len(P) = 2
      /\ sec_comp = 3 => P = <<Field("frame", Packed)>> /\ Len(P) = 1
  BY <1>3, PayloadIs DEF Packed
<1>5. p \in Nat /\ p >= 1 /\ next = p + Len(P)
  <2>1. PayloadAt(Now) \in Nat /\ Start(Now) >= 1 /\ Start(Now) \in Nat /\ Start(Now) < PayloadAt(Now)
        /\ Start(Now + 1) = PayloadAt(Now) + Len(Payload(AtHand))
    BY FileIs DEF AtHand
  <2> QED
    BY <2>1
<1>6. writer = "ok" => next <= L + 1
  <2>1. SUFFICES ASSUME writer = "ok" PROVE next <= L + 1
    OBVIOUS
  <2>2. next = Len(File[Now]) + 1
    BY FileIs
  <2>3. Len(File[Now]) \in Nat /\ Len(File[Now]) <= Len(File[Len(patch)])
    <3>1. Len(patch) \in Nat
      BY PatchIs
    <3>2. Now \in 0 .. Len(patch) /\ Len(patch) \in 0 .. Len(patch) /\ Now <= Len(patch)
      BY <3>1
    <3> QED
      BY <3>2, FileIs
  <2> HIDE DEF next
  <2> QED
    BY <1>2, <2>1, <2>2, <2>3
<1>7. PartAt(wire, p, P)
  BY <1>2, FileAt DEF AtHand
<1>11. sec_comp = 2 => Len(P) = 2
  BY <1>4
<1>12. sec_comp = 3 => Len(P) = 1
  BY <1>4
<1> DEFINE len == Len(P)
<1> HIDE DEF p, next, P, L
<1>14. p \in Nat /\ next = p + len /\ (sec_comp = 2 => len = 2) /\ (sec_comp = 3 => len = 1)
  BY <1>5, <1>11, <1>12
<1> HIDE DEF len
<1>15. /\ sec_comp = 2 => next = p + 2 /\ 1 \in 1 .. len /\ 2 \in 1 .. len
       /\ sec_comp = 3 => next = p + 1 /\ 1 \in 1 .. len
  BY <1>14
<1>13. /\ sec_comp = 2 => next = p + 2 /\ 1 \in 1 .. Len(P) /\ 2 \in 1 .. Len(P)
       /\ sec_comp = 3 => next = p + 1 /\ 1 \in 1 .. Len(P)
  BY <1>15 DEF len
<1>8. CASE reader = "open"
  <2>1. sec_comp = 2 /\ pos = p
    BY <1>1, <1>8 DEF FrameAt, p
  <2>2. next = pos + 2 /\ next \in Nat
    BY <1>5, <1>13, <2>1
  <2>3. ASSUME pos <= L PROVE wire[pos] = Field("frame_head", 2) /\ Sound(patch[Now])
    <3>1. 1 \in 1 .. Len(P) /\ p + 1 - 1 = pos /\ p + 1 - 1 <= L
      BY <1>5, <1>13, <2>1, <2>3
    <3>2. wire[pos] = P[1]
      BY <1>7, <3>1 DEF PartAt, L
    <3>3. ~ (L < p)
      BY <1>2, <1>5, <2>1, <2>3
    <3> QED
      BY <1>2, <1>4, <2>1, <3>2, <3>3
  <2> QED
    BY <1>2, <1>5, <1>6, <1>8, <2>1, <2>2, <2>3 DEF next, L
<1>9. CASE reader = "frame" /\ sec_comp = 2
  <2>1. pos = p + 1
    BY <1>1, <1>9 DEF FrameAt, p
  <2>2. next = pos + 1 /\ next \in Nat /\ pos \in Nat /\ pos >= 1
    BY <1>5, <1>9, <1>13, <2>1
  <2>3. ASSUME pos <= L PROVE wire[pos] = Field("frame", Packed) /\ Sound(patch[Now])
    <3>1. 2 \in 1 .. Len(P) /\ p + 2 - 1 = pos /\ p + 2 - 1 <= L
      BY <1>5, <1>9, <1>13, <2>1, <2>3
    <3>2. wire[pos] = P[2]
      BY <1>7, <3>1 DEF PartAt, L
    <3>3. ~ (L < p)
      BY <1>2, <1>5, <2>1, <2>3
    <3> QED
      BY <1>2, <1>4, <1>9, <3>2, <3>3
  <2> QED
    BY <1>2, <1>6, <1>9, <2>2, <2>3 DEF next, L
<1>10. CASE reader = "frame" /\ sec_comp = 3
  <2>1. pos = p
    BY <1>1, <1>10 DEF FrameAt, p
  <2>2. next = pos + 1 /\ next \in Nat
    BY <1>5, <1>10, <1>13, <2>1
  <2>3. ASSUME pos <= L PROVE wire[pos] = Field("frame", Packed) /\ Sound(patch[Now])
    <3>1. 1 \in 1 .. Len(P) /\ p + 1 - 1 = pos /\ p + 1 - 1 <= L
      BY <1>5, <1>10, <1>13, <2>1, <2>3
    <3>2. wire[pos] = P[1]
      BY <1>7, <3>1 DEF PartAt, L
    <3>3. ~ (L < p)
      BY <1>2, <1>5, <2>1, <2>3
    <3> QED
      BY <1>2, <1>4, <1>10, <3>2, <3>3
  <2> QED
    BY <1>2, <1>5, <1>6, <1>10, <2>1, <2>2, <2>3 DEF next, L
<1> QED
  BY <1>1, <1>8, <1>9, <1>10

(* One field of a kind is there. *)
LEMMA OneThere ==
    ASSUME Len(Source) \in Nat, NEW at \in Nat, NEW kind
    PROVE  FieldsAre(<<kind>>, at) <=> at <= Len(Source) /\ Source[at].kind = kind
<1> DEFINE kinds == <<kind>>
<1>1. Len(kinds) = 1 /\ kinds[1] = kind
  OBVIOUS
<1> HIDE DEF kinds
<1>2. FieldsAre(kinds, at) <=> at <= Len(Source) /\ Source[at].kind = kind
  <2>1. at + Len(kinds) - 1 = at /\ 1 \in 1 .. Len(kinds) /\ at + 1 - 1 = at
        /\ \A i \in 1 .. Len(kinds) : i = 1
    BY <1>1
  <2> QED
    BY <1>1, <2>1 DEF FieldsAre
<1> QED
  BY <1>2 DEF kinds

(* The operations of a section are read from what it was compressed from. *)
LEMMA WindowOpens ==
    ASSUME PatchInv, Now \in 1 .. Len(patch), ReaderInv, WriterInv, WriterStopped, ~ done,
           UNCHANGED <<wire, writerVars, delivered, done, header, op_buffer, cur_addr, outer, win_pos>>,
           Framed, Sound(patch[Now]), sec_comp = 3 => AtHand.ops # <<>>,
           win_data' = Packed, pos' = Behind, pos' \in 1 .. Len(wire) + 1, reader' = "ops"
    PROVE  ReaderInv'
<1>1. /\ outer = <<>> /\ sec_comp \in {2, 3} /\ win_pos = 1
      /\ op_buffer = <<>> /\ cur_addr = NoAddr /\ HeaderRead(header, AtHand, sec_comp)
  BY DEF Framed
<1>2. /\ wire' = wire /\ sec_comp' = sec_comp /\ patch' = patch /\ Now' = Now
      /\ AtHand' = AtHand /\ Packed' = Packed /\ Behind' = Behind
  BY Still
<1>3. Formed(AtHand)
  BY HandIs
<1>4. List(Packed) /\ Len(Packed) \in Nat
  BY <1>3, SectionParts, ListLen DEF Packed, Fields
<1>5. PICK s, algo, base : s = AtHand /\ algo = sec_comp /\ base = 1
  OBVIOUS
<1>6. InWindow(s, algo, base)'
  <2>1. Sound(patch[Now])' /\ sec_comp' # 0 /\ outer' = <<>>
    BY <1>1, <1>2
  <2>2. (sec_comp = 3 => AtHand.ops # <<>>)' /\ (win_data = Packed)' /\ (pos = Behind)'
    BY <1>2
  <2> QED
    BY <1>2, <1>5, <2>1, <2>2 DEF InWindow
<1>7. Partly(s, algo, base)'
  <2>1. Formed(s) /\ HeaderRead(header', s, algo)
    BY <1>1, <1>3, <1>5
  <2>2. Spot' = base /\ base \in Nat
    BY <1>1, <1>2, <1>5 DEF Spot, Window
  <2> QED
    BY <1>1, <2>1, <2>2, NothingRead
<1>8. InOps'
  BY <1>6, <1>7 DEF InOps, Place
<1>9. List(win_data)' /\ win_pos' \in 1 .. Len(win_data') + 1
  BY <1>1, <1>4
<1>10. ReaderTypeOK'
  <2>1. ReaderTypeOK
    BY DEF ReaderInv
  <2> QED
    BY <1>2, <1>9, <2>1 DEF ReaderTypeOK
<1> QED
  BY <1>8, <1>9, <1>10, GoesOn

LEMMA OpenFrameKeeps ==
    ASSUME WriterInv, WriterStopped, ReaderInv, OpenFrame,
           UNCHANGED <<wire, writerVars, delivered>>
    PROVE  ReaderInv'
<1>1. /\ reader = "open" /\ FieldsAre(<<"frame_head">>, pos)
      /\ pos' = pos + 1
      /\ reader' = IF header.num_operations = 0 THEN "ops" ELSE "frame"
      /\ UNCHANGED <<header, op_buffer, cur_addr, done, outer, win_data, win_pos>>
  BY DEF OpenFrame, winVars
<1>2. /\ ~ done /\ ReaderTypeOK /\ List(win_data) /\ Framed
      /\ PatchInv /\ WireCut /\ Len(wire) \in Nat /\ Now \in 1 .. Len(patch)
  BY <1>1, ReadingIs DEF ReaderInv
<1>3. /\ pos \in Nat /\ pos >= 1 /\ Start(Now + 1) = pos + 2
      /\ pos <= Len(wire) => Sound(patch[Now])
  BY <1>1, <1>2, FrameIs
<1>4. Source = wire
  BY <1>1 DEF Source, FromWindow
<1>5. pos <= Len(wire)
  BY <1>1, <1>2, <1>3, <1>4, OneThere
<1>6. pos' \in 1 .. Len(wire) + 1 /\ pos' = Start(Now + 1) - 1
  BY <1>1, <1>2, <1>3, <1>5
<1>7. Sound(patch[Now])
  BY <1>3, <1>5
<1>8. /\ sec_comp = 2 /\ outer = <<>> /\ win_pos = 1 /\ win_data = <<>> /\ pos = FrameAt
      /\ op_buffer = <<>> /\ cur_addr = NoAddr /\ HeaderRead(header, AtHand, sec_comp)
  BY <1>1, <1>2 DEF Framed
<1>9. /\ Formed(AtHand) /\ Len(AtHand.ops) \in Nat /\ List(AtHand.ops)
      /\ AtHand.header.num_operations = Len(AtHand.ops)
  BY <1>2, <1>7, HandIs DEF Sound, Fits
<1>10. header.num_operations = Len(AtHand.ops)
  BY <1>8, <1>9 DEF HeaderRead
<1>11. CASE header.num_operations = 0
  <2>1. AtHand.ops = <<>>
    BY <1>9, <1>10, <1>11, ListEmpty
  <2>2. Packed = <<>>
    <3> DEFINE O == Together(OpsOf(AtHand))
               H == Together(HeldOf(AtHand))
    <3>1. Len(AtHand.ops) = 0
      BY <1>10, <1>11
    <3>2. /\ AreLists(OpsOf(AtHand)) /\ AreLists(HeldOf(AtHand)) /\ Fields(Packed)
          /\ Len(Packed) = Len(O[0]) + Len(H[0])
      BY <1>9, <3>1, SectionParts DEF Packed
    <3>3. Len(O[0]) = 0 /\ Len(H[0]) = 0
      BY <3>2, JoinedLists
    <3>4. List(Packed) /\ Len(Packed) = 0
      BY <3>2, <3>3 DEF Fields
    <3> QED
      BY <3>4, ListEmpty
  <2>3. pos' = Behind
    BY <1>6, <1>8, <2>1 DEF Behind
  <2>4. win_data' = Packed /\ reader' = "ops"
    BY <1>1, <1>8, <1>11, <2>2
  <2> QED
    BY <1>1, <1>2, <1>6, <1>7, <1>8, <2>3, <2>4, WindowOpens
<1>12. CASE header.num_operations # 0
  <2>1. reader' = "frame"
    BY <1>1, <1>12
  <2>2. /\ wire' = wire /\ sec_comp' = sec_comp /\ Now' = Now /\ AtHand' = AtHand
        /\ PayloadAt(Now)' = PayloadAt(Now)
    BY Still
  <2>3. pos = PayloadAt(Now)
    BY <1>1, <1>8 DEF FrameAt
  <2>4. pos' = FrameAt'
    BY <1>1, <1>8, <2>1, <2>2, <2>3 DEF FrameAt
  <2>5. Framed'
    BY <1>1, <1>8, <1>12, <2>1, <2>2, <2>4 DEF Framed
  <2>6. ReaderTypeOK'
    BY <1>1, <1>2, <1>6, <2>1, <2>2 DEF ReaderTypeOK
  <2>7. List(win_data)'
    BY <1>1, <1>2
  <2> QED
    BY <1>1, <1>2, <2>1, <2>5, <2>6, <2>7, GoesOn
<1> QED
  BY <1>11, <1>12

LEMMA InflateKeeps ==
    ASSUME WriterInv, WriterStopped, ReaderInv, Inflate,
           UNCHANGED <<wire, writerVars, delivered>>
    PROVE  ReaderInv'
<1>1. /\ reader = "frame" /\ header.num_operations > 0 /\ FieldsAre(<<"frame">>, pos)
      /\ win_data' = Value(pos) /\ pos' = pos + 1 /\ reader' = "ops"
      /\ UNCHANGED <<header, op_buffer, cur_addr, done, outer, win_pos>>
  BY DEF Inflate
<1>2. /\ ~ done /\ ReaderTypeOK /\ Framed
      /\ PatchInv /\ WireCut /\ Len(wire) \in Nat /\ Now \in 1 .. Len(patch)
  BY <1>1, ReadingIs DEF ReaderInv
<1>3. /\ pos \in Nat /\ pos >= 1 /\ Start(Now + 1) = pos + 1
      /\ pos <= Len(wire) => Sound(patch[Now]) /\ wire[pos] = Field("frame", Packed)
  BY <1>1, <1>2, FrameIs
<1>4. Source = wire
  BY <1>1 DEF Source, FromWindow
<1>5. pos <= Len(wire)
  BY <1>1, <1>2, <1>3, <1>4, OneThere
<1>6. pos' \in 1 .. Len(wire) + 1 /\ pos' = Start(Now + 1)
  BY <1>1, <1>2, <1>3, <1>5
<1>7. Sound(patch[Now]) /\ wire[pos] = Field("frame", Packed)
  BY <1>3, <1>5
<1>8. win_data' = Packed
  BY <1>1, <1>4, <1>7, FieldIs DEF Value
<1>9. AtHand.ops # <<>>
  <2>1. AtHand.header.num_operations = Len(AtHand.ops)
    BY <1>2, <1>7, HandIs DEF Sound, Fits
  <2>2. header.num_operations = AtHand.header.num_operations
    BY <1>2 DEF Framed, HeaderRead
  <2>3. Len(<<>>) = 0
    BY ListEmpty
  <2> QED
    BY <1>1, <2>1, <2>2, <2>3
<1>10. pos' = Behind
  BY <1>6, <1>9 DEF Behind
<1> QED
  BY <1>1, <1>2, <1>6, <1>7, <1>8, <1>9, <1>10, WindowOpens

LEMMA NestedReturnKeeps ==
    ASSUME WriterInv, WriterStopped, ReaderInv, NestedReturn,
           UNCHANGED <<wire, writerVars, delivered>>
    PROVE  ReaderInv'
<1>1. /\ reader = "ready" /\ outer # <<>>
      /\ win_data' = OutputAfter(op_buffer, <<>>, win_data)[Len(op_buffer)]
      /\ header.more_sections => reader' = "idle" /\ UNCHANGED <<header, outer>>
      /\ ~ header.more_sections => reader' = "ops" /\ header' = outer[1] /\ outer' = <<>>
      /\ op_buffer' = <<>> /\ cur_addr' = NoAddr
      /\ UNCHANGED <<pos, done, win_pos>>
  BY DEF NestedReturn
<1>2. /\ ~ done /\ ReaderTypeOK /\ Ready
      /\ PatchInv /\ WireCut /\ List(wire) /\ Len(wire) \in Nat /\ PartAt(wire, 1, File[Len(patch)])
      /\ Now \in 1 .. Len(patch)
  BY <1>1, ReadingIs DEF ReaderInv
<1>3. PICK k \in 1 .. NestedSections(Packed) :
         \E s, algo, base : Inside(s, algo, base, k) /\ Wholly(s, algo, base)
  <2>1. PICK s, algo, base : Place(s, algo, base) /\ Wholly(s, algo, base)
    BY <1>2 DEF Ready
  <2>2. ~ InFile(s, algo, base) /\ ~ InWindow(s, algo, base)
    BY <1>1 DEF InFile, InWindow
  <2> QED
    BY <2>1, <2>2 DEF Place
<1> DEFINE s == NestedSection(Packed, k)
           h == HeaderOf(s, 0)
           from == SubSeq(Packed, 1, From(k))
           to == SubSeq(Packed, 1, End(Packed, k))
<1>4. /\ InNested(k) /\ HeaderRead(header, s, 0)
      /\ op_buffer = s.ops
      /\ Spot = (NestedStart(k) + Len(h)) + Len(Body(s))
  BY <1>3 DEF Inside, Wholly
<1>5. /\ sec_comp = 1 /\ outer = <<outer[1]>> /\ HeaderRead(outer[1], AtHand, 1)
      /\ win_data = from /\ win_pos = 1
  BY <1>4 DEF InNested
<1>6. Spot = pos
  BY <1>1 DEF Spot, Window
<1>7. /\ Fields(Packed) /\ NestedSections(Packed) \in Nat
      /\ NestedStart(k) \in Nat /\ NestedStart(k) >= PayloadAt(Now)
      /\ NestedStart(k + 1) = NestedStart(k) + Len(NestedPart(Packed, k))
      /\ k = NestedSections(Packed) => NestedStart(k + 1) = Start(Now + 1)
  BY <1>2, <1>5, NestedAt
<1>8. /\ Len(NestedPart(Packed, k)) = Len(h) + Len(Body(s))
      /\ Len(h) \in Nat /\ Len(h) >= 1 /\ Len(Body(s)) \in Nat
  BY <1>7, NestedPartIs
<1>9. OutputAfter(s.ops, <<>>, from)[Len(s.ops)] = to
  BY <1>7, NestedFormed
<1>10. win_data' = to
  BY <1>1, <1>4, <1>5, <1>9
<1>11. s.header.more_sections = (k < NestedSections(Packed))
  BY <1>7, NestedSectionIs
<1>12. header.more_sections <=> k < NestedSections(Packed)
  BY <1>4, <1>11 DEF HeaderRead
<1>13. List(Packed) /\ Len(Packed) \in Nat
  BY <1>7, ListLen DEF Fields
<1>14. /\ End(Packed, k) \in Nat /\ End(Packed, k) <= Len(Packed)
       /\ k < NestedSections(Packed) => End(Packed, k) = From(k + 1)
       /\ k = NestedSections(Packed) => End(Packed, k) = Len(Packed)
  BY <1>13, SegmentBounds
<1> HIDE DEF s, h
<1>15. pos = NestedStart(k + 1) /\ pos > PayloadAt(Now) /\ pos \in Nat
  <2>1. PayloadAt(Now) \in Nat
    BY <1>2, FileIs
  <2>2. pos = NestedStart(k + 1)
    BY <1>4, <1>6, <1>7, <1>8
  <2>3. NestedStart(k + 1) > PayloadAt(Now) /\ NestedStart(k + 1) \in Nat
    BY <1>7, <1>8, <2>1
  <2> QED
    BY <2>2, <2>3
<1>16. List(to)
  <2> DEFINE m == 1
             n == End(Packed, k)
  <2>1. m \in 1 .. Len(Packed) + 1 /\ n \in m - 1 .. Len(Packed)
    <3> HIDE DEF n
    <3>1. n \in Nat /\ n <= Len(Packed)
      BY <1>14 DEF n
    <3> QED
      BY <1>13, <3>1
  <2> HIDE DEF m, n
  <2>2. List(SubSeq(Packed, m, n))
    BY <1>13, <2>1, ListSub
  <2> QED
    BY <2>2 DEF m, n
<1> HIDE DEF to
<1>17. List(win_data)' /\ win_pos' \in 1 .. Len(win_data') + 1
  <2>1. Len(to) \in Nat
    BY <1>16, ListLen
  <2> QED
    BY <1>1, <1>5, <1>10, <1>16, <2>1
<1>18. /\ wire' = wire /\ sec_comp' = sec_comp /\ Now' = Now /\ AtHand' = AtHand /\ Packed' = Packed
       /\ \A i : PayloadAt(i)' = PayloadAt(i) /\ Start(i)' = Start(i)
       /\ \A i : NestedStart(i)' = NestedStart(i)
  BY Still
<1>19. /\ pos' \in 1 .. Len(wire') + 1 /\ done' \in BOOLEAN /\ cur_addr' \in [CopySrc -> Int]
       /\ op_buffer' \in Seq(Op) /\ outer[1] \in SectionHeader
  <2>1. pos' \in 1 .. Len(wire') + 1 /\ done' \in BOOLEAN /\ outer[1] \in SectionHeader
    BY <1>1, <1>2, <1>18 DEF ReaderTypeOK
  <2>2. <<>> \in Seq(Op)
    OBVIOUS
  <2> QED
    BY <1>1, <2>1, <2>2, NoAddrType
<1>20. CASE header.more_sections
  <2>1. reader' = "idle" /\ header' = header /\ outer' = outer
    BY <1>1, <1>20
  <2>2. ReaderTypeOK'
    <3>1. header' \in SectionHeader /\ outer'[1] \in SectionHeader
      BY <1>2, <1>19, <2>1 DEF ReaderTypeOK
    <3> QED
      BY <1>17, <1>19, <2>1, <3>1 DEF ReaderTypeOK
  <2>3. PICK j : j = k + 1
    OBVIOUS
  <2>4. j \in 1 .. NestedSections(Packed) /\ From(j) = End(Packed, k)
    BY <1>7, <1>12, <1>14, <1>20, <2>3
  <2>5. InNested(j)'
    BY <1>1, <1>5, <1>10, <1>18, <2>1, <2>4 DEF InNested, to
  <2>6. pos' = NestedStart(j)'
    BY <1>1, <1>15, <1>18, <2>3
  <2>7. Idle'
    BY <1>18, <2>4, <2>5, <2>6 DEF Idle
  <2> QED
    BY <1>1, <1>2, <1>17, <2>1, <2>2, <2>7, GoesOn
<1>21. CASE ~ header.more_sections
  <2>1. reader' = "ops" /\ header' = outer[1] /\ outer' = <<>>
    BY <1>1, <1>21
  <2>2. ReaderTypeOK'
    BY <1>17, <1>19, <2>1 DEF ReaderTypeOK
  <2>3. k = NestedSections(Packed) /\ pos' = Start(Now + 1)
    BY <1>1, <1>7, <1>12, <1>15, <1>21
  <2>4. win_data' = Packed
    <3>1. to = SubSeq(Packed, 1, Len(Packed))
      BY <1>14, <2>3 DEF to
    <3>2. SubSeq(Packed, 1, Len(Packed)) = Packed
      <4> DEFINE d == Packed
      <4>1. List(d)
        BY <1>13
      <4> HIDE DEF d
      <4>2. SubSeq(d, 1, Len(d)) = d
        BY <4>1 DEF List
      <4> QED
        BY <4>2 DEF d
    <3> QED
      BY <1>10, <3>1, <3>2
  <2>5. Sound(patch[Now])
    <3>1. sec_comp = 0 \/ Sound(patch[Now]) \/ Len(wire) < PayloadAt(Now)
      BY <1>2 DEF WireCut
    <3>2. PayloadAt(Now) \in Nat /\ pos <= Len(wire) + 1
      <4>1. PayloadAt(Now) \in Nat
        BY <1>2, FileIs
      <4>2. pos \in 1 .. Len(wire) + 1
        BY <1>2 DEF ReaderTypeOK
      <4> QED
        BY <1>2, <4>1, <4>2
    <3>3. ~ (Len(wire) < PayloadAt(Now))
      <4>1. Len(wire) \in Nat /\ pos \in Nat /\ pos > PayloadAt(Now)
        BY <1>2, <1>15
      <4> QED
        BY <3>2, <4>1
    <3> QED
      BY <1>5, <3>1, <3>3
  <2>6. PICK t, algo, base : t = AtHand /\ algo = sec_comp /\ base = 1
    OBVIOUS
  <2>7. InWindow(t, algo, base)'
    <3>1. Behind' = Behind /\ patch' = patch
      BY Still
    <3>3. Behind = Start(Now + 1)
      BY <1>5 DEF Behind
    <3>2. /\ Sound(patch[Now])' /\ sec_comp' # 0 /\ outer' = <<>>
          /\ (sec_comp = 3 => AtHand.ops # <<>>)' /\ (pos = Behind)'
      BY <1>5, <1>18, <2>1, <2>3, <2>5, <3>1, <3>3
    <3> QED
      BY <1>18, <2>4, <2>6, <3>2 DEF InWindow
  <2>8. Partly(t, algo, base)'
    <3>1. Formed(t) /\ HeaderRead(header', t, algo)
      BY <1>2, <1>5, <2>1, <2>6, HandIs
    <3>2. Spot' = base /\ base \in Nat
      BY <1>1, <1>5, <1>18, <2>1, <2>6 DEF Spot, Window
    <3> QED
      BY <1>1, <2>1, <3>1, <3>2, NothingRead
  <2>9. InOps'
    BY <2>7, <2>8 DEF InOps, Place
  <2> QED
    BY <1>1, <1>2, <1>17, <2>1, <2>2, <2>9, GoesOn
<1> QED
  BY <1>20, <1>21

(* The file of a writer that stopped without an error is there to its end, *)
(* so nothing is missing where it is read.                                 *)
LEMMA AllThere ==
    ASSUME PatchInv, WireCut, writer = "ok", Now \in 1 .. Len(patch)
    PROVE  /\ Start(Now) \in Nat /\ PayloadAt(Now) = Start(Now) + Len(HeaderOf(AtHand, sec_comp))
           /\ PayloadAt(Now) \in Nat /\ Start(Now + 1) \in Nat
           /\ PayloadAt(Now) + Len(Payload(AtHand)) <= Len(wire) + 1
           /\ PayloadAt(Now) <= Len(wire) + 1 /\ Start(Now + 1) <= Len(wire) + 1
           /\ List(wire) /\ Len(wire) \in Nat
<1>1. wire = File[Len(patch)] /\ List(wire) /\ Len(wire) \in Nat
  BY ListLen DEF WireCut
<1>2. /\ Start(Now) \in Nat /\ PayloadAt(Now) \in Nat
      /\ PayloadAt(Now) = Start(Now) + Len(HeaderOf(AtHand, sec_comp))
      /\ Start(Now + 1) = PayloadAt(Now) + Len(Payload(AtHand))
      /\ Start(Now + 1) = Len(File[Now]) + 1
  BY FileIs DEF AtHand, PayloadAt
<1>3. Len(File[Now]) \in Nat /\ Len(File[Now]) <= Len(File[Len(patch)])
  <2>1. Len(patch) \in Nat
    BY PatchIs
  <2>2. Now \in 0 .. Len(patch) /\ Len(patch) \in 0 .. Len(patch) /\ Now <= Len(patch)
    BY <2>1
  <2> QED
    BY <2>2, FileIs
<1>4. Formed(AtHand)
  BY HandIs
<1>5. Len(Payload(AtHand)) \in Nat
  BY <1>4, PayloadIs
<1> DEFINE pay == Len(Payload(AtHand))
           at == PayloadAt(Now)
           next == Start(Now + 1)
           mine == Len(File[Now])
           whole == Len(wire)
<1>6. /\ at \in Nat /\ pay \in Nat /\ next = at + pay /\ next = mine + 1
      /\ mine \in Nat /\ mine <= whole /\ whole \in Nat
  BY <1>1, <1>2, <1>3, <1>5
<1> HIDE DEF pay, at, next, mine, whole
<1>7. next \in Nat /\ at + pay <= whole + 1 /\ at <= whole + 1 /\ next <= whole + 1
  BY <1>6
<1> QED
  BY <1>1, <1>2, <1>7 DEF pay, at, next, whole

LEMMA HeaderThere ==
    ASSUME WriterInv, ReaderInv, writer = "ok", reader = "idle", ~ done
    PROVE  /\ CanReadHeader
           /\ Value(pos).format = "Segregated" =>
                 \A rest \in HeaderRest :
                    rest.adds + rest.size \in Nat /\ rest.adds + rest.size < U32_SIZE
<1>1. WriterStopped
  BY DEF WriterStopped
<1>2. /\ Idle /\ PatchInv /\ WireCut /\ PartAt(wire, 1, File[Len(patch)])
      /\ Now \in 1 .. Len(patch)
  BY <1>1, ReadingIs DEF ReaderInv
<1>3. /\ Start(Now) \in Nat /\ PayloadAt(Now) = Start(Now) + Len(HeaderOf(AtHand, sec_comp))
      /\ PayloadAt(Now) <= Len(wire) + 1 /\ Start(Now + 1) <= Len(wire) + 1
      /\ Len(wire) \in Nat /\ Start(Now + 1) \in Nat /\ PayloadAt(Now) \in Nat
  BY <1>2, AllThere
<1>4. Source = wire
  BY DEF Source, FromWindow
<1>5. CASE outer = <<>> /\ pos = Start(Now)
  <2>1. HeaderIs(AtHand.header) /\ sec_comp \in Algo
    BY <1>2, PatchIs, HandIs, FormedIs
  <2>2. PartAt(Source, pos, HeaderOf(AtHand, sec_comp))
    BY <1>2, <1>4, <1>5, FileAt DEF AtHand
  <2>3. pos \in Nat /\ Len(Source) \in Nat
        /\ pos + Len(HeaderOf(AtHand, sec_comp)) <= Len(Source) + 1
    BY <1>3, <1>4, <1>5
  <2>4. CanReadHeader
    BY <2>1, <2>2, <2>3, CanReadHeaderAll
  <2>5. AtHand.header.format = "Segregated" =>
           AtHand.header.num_add_bytes <= AtHand.header.output_size
    <3>1. SUFFICES ASSUME AtHand.header.format = "Segregated"
                   PROVE  AtHand.header.num_add_bytes <= AtHand.header.output_size
      OBVIOUS
    <3>2. Sound(AtHand) /\ Formed(AtHand)
      BY <1>2, HandIs DEF WireCut
    <3>3. /\ SumOal(AtHand.ops) = AtHand.header.output_size
          /\ Len(Together(HeldOf(AtHand))[Len(AtHand.ops)]) = AtHand.header.num_add_bytes
      BY <3>1, <3>2 DEF Sound, AddsUp
    <3>4. Len(AtHand.ops) \in 0 .. Len(AtHand.ops) /\ ShapedList(AtHand.ops)
      BY <3>2, FormedIs
    <3>5. Len(Together(HeldOf(AtHand))[Len(AtHand.ops)]) = AddsAmong(AtHand.ops, Len(AtHand.ops))
      BY <3>1, <3>2, <3>4, HeldLen
    <3>6. AddsAmong(AtHand.ops, Len(AtHand.ops)) <= SumOal(AtHand.ops)
      BY <3>4, AddsWithin
    <3> QED
      BY <3>3, <3>5, <3>6
  <2>6. ASSUME Value(pos).format = "Segregated", NEW rest \in HeaderRest
        PROVE  rest.adds + rest.size \in Nat /\ rest.adds + rest.size < U32_SIZE
    BY <2>1, <2>2, <2>3, <2>4, <2>5, <2>6, HeaderFitsU32
  <2> QED
    BY <2>4, <2>6
<1>6. CASE \E k \in 1 .. NestedSections(Packed) : InNested(k) /\ pos = NestedStart(k)
  <2>1. PICK k \in 1 .. NestedSections(Packed) : InNested(k) /\ pos = NestedStart(k)
    BY <1>6
  <2> DEFINE s == NestedSection(Packed, k)
             algo == 0
             h == HeaderOf(s, 0)
             part == NestedPart(Packed, k)
  <2>2. sec_comp = 1
    BY <2>1 DEF InNested
  <2>3. /\ Fields(Packed) /\ NestedStart(k) \in Nat
        /\ NestedStart(k + 1) = NestedStart(k) + Len(part)
        /\ NestedStart(k + 1) <= Start(Now + 1)
        /\ PartAt(wire, NestedStart(k), h)
    BY <1>2, <2>2, NestedAt
  <2>4. Formed(s) /\ HeaderIs(s.header)
    BY <2>3, NestedFormed, FormedIs
  <2>8. s.header.format # "Segregated"
    BY DEF NestedSection
  <2>5. /\ Len(part) = Len(h) + Len(Body(s))
        /\ Len(h) \in Nat /\ Len(Body(s)) \in Nat
    BY <2>3, NestedPartIs
  <2>6. algo \in Algo /\ PartAt(Source, pos, HeaderOf(s, algo)) /\ Len(HeaderOf(s, algo)) = Len(h)
    BY <1>4, <2>1, <2>3 DEF Algo
  <2> HIDE DEF s, algo, h, part
  <2>7. pos \in Nat /\ Len(Source) \in Nat
        /\ pos + Len(HeaderOf(s, algo)) <= Len(Source) + 1
    <3>1. pos \in Nat /\ pos + Len(part) <= Start(Now + 1) /\ Len(Source) = Len(wire)
      BY <1>4, <2>1, <2>3
    <3>2. Len(wire) \in Nat /\ Start(Now + 1) <= Len(wire) + 1 /\ Start(Now + 1) \in Nat
      BY <1>3
    <3>3. Len(part) \in Nat /\ Len(HeaderOf(s, algo)) \in Nat /\ Len(HeaderOf(s, algo)) <= Len(part)
      BY <2>5, <2>6
    <3> QED
      BY <3>1, <3>2, <3>3
  <2>9. CanReadHeader
    BY <2>4, <2>6, <2>7, CanReadHeaderAll
  <2>10. ASSUME Value(pos).format = "Segregated", NEW rest \in HeaderRest
         PROVE  rest.adds + rest.size \in Nat /\ rest.adds + rest.size < U32_SIZE
    BY <2>4, <2>6, <2>7, <2>8, <2>9, <2>10, HeaderFitsU32
  <2> QED
    BY <2>9, <2>10
<1>7. ~ AtTail
  BY DEF AtTail
<1> QED
  BY <1>2, <1>5, <1>6, <1>7 DEF Idle

LEMMA FrameThere ==
    ASSUME WriterInv, ReaderInv, writer = "ok", reader \in {"open", "frame"}
    PROVE  /\ ~ done
           /\ reader = "open" => FieldsAre(<<"frame_head">>, pos)
           /\ reader = "frame" => FieldsAre(<<"frame">>, pos)
           /\ reader = "frame" /\ header.num_operations = 0 => sec_comp = 3 /\ AtHand.ops = <<>>
<1>1. WriterStopped
  BY DEF WriterStopped
<1>2. /\ Framed /\ PatchInv /\ WireCut /\ Now \in 1 .. Len(patch) /\ ~ done
  BY <1>1, ReadingIs DEF ReaderInv
<1>3. /\ pos \in Nat /\ pos >= 1 /\ Len(wire) \in Nat /\ Start(Now + 1) \in Nat
      /\ reader = "open" => Start(Now + 1) = pos + 2
      /\ reader = "frame" => Start(Now + 1) = pos + 1
      /\ Start(Now + 1) <= Len(wire) + 1
      /\ pos <= Len(wire) => wire[pos] = IF reader = "open" THEN Field("frame_head", 2)
                                         ELSE Field("frame", Packed)
  BY <1>2, FrameIs
<1>4. pos <= Len(wire)
  BY <1>3
<1>5. Source = wire
  BY DEF Source, FromWindow
<1>6. CASE reader = "open"
  <2>1. Source[pos].kind = "frame_head"
    BY <1>3, <1>4, <1>5, <1>6, FieldIs
  <2>2. FieldsAre(<<"frame_head">>, pos)
    BY <1>3, <1>4, <1>5, <2>1, OneThere
  <2> QED
    BY <1>2, <1>6, <2>2
<1>7. CASE reader = "frame"
  <2>1. Source[pos].kind = "frame"
    BY <1>3, <1>4, <1>5, <1>7, FieldIs
  <2>2. FieldsAre(<<"frame">>, pos)
    BY <1>3, <1>4, <1>5, <2>1, OneThere
  <2>3. ASSUME header.num_operations = 0 PROVE sec_comp = 3 /\ AtHand.ops = <<>>
    <3>1. sec_comp = 3 /\ header.num_operations = AtHand.header.num_operations
      BY <1>2, <1>7, <2>3 DEF Framed, HeaderRead
    <3>2. Fits(AtHand) /\ List(AtHand.ops)
      BY <1>2, HandIs DEF WireCut, Sound
    <3>3. Len(AtHand.ops) = 0
      BY <2>3, <3>1, <3>2 DEF Fits
    <3> QED
      BY <3>1, <3>2, <3>3, ListEmpty
  <2> QED
    BY <1>2, <1>7, <2>2, <2>3
<1> QED
  BY <1>6, <1>7

(* What is known of a section of such a file. *)
LEMMA InWhole ==
    ASSUME WriterInv, ReaderInv, writer = "ok", reader \in {"ops", "adds"}
    PROVE  \E s, algo, base :
              /\ Place(s, algo, base) /\ Partly(s, algo, base)
              /\ Formed(s) /\ List(Text) /\ Len(Text) \in Nat
              /\ base \in Nat /\ base >= 1
              /\ PartAt(Text, base, Body(s))
              /\ base + Len(Body(s)) <= Len(Text) + 1
              /\ SumOal(s.ops) = s.header.output_size
              /\ s.header.num_operations = Len(s.ops)
              /\ Source = Text /\ Here = Spot
<1>1. WriterStopped
  BY DEF WriterStopped
<1>2. /\ PatchInv /\ WireCut /\ Now \in 1 .. Len(patch)
  BY <1>1, ReadingIs DEF ReaderInv
<1>3. PICK s, algo, base :
              /\ Place(s, algo, base) /\ Partly(s, algo, base)
              /\ Formed(s) /\ List(Text) /\ Len(Text) \in Nat
              /\ base \in Nat /\ base >= 1
              /\ PartAt(Text, base, Body(s))
              /\ s.header.num_operations = Len(s.ops) \/ Len(Text) < base
              /\ Source = Text /\ Here = Spot /\ (FromWindow <=> Window)
  BY <1>1, InSection
<1>4. /\ base + Len(Body(s)) <= Len(Text) + 1
      /\ SumOal(s.ops) = s.header.output_size
      /\ s.header.num_operations = Len(s.ops)
  BY <1>2, <1>3, PlaceIs
<1> QED
  BY <1>3, <1>4

LEMMA OpThere ==
    ASSUME WriterInv, ReaderInv, writer = "ok", reader = "ops",
           Len(op_buffer) < header.num_operations
    PROVE  CanReadOp
<1> DEFINE n == Len(op_buffer)
<1>1. PICK s, algo, base :
              /\ Place(s, algo, base) /\ Partly(s, algo, base)
              /\ Formed(s) /\ List(Text) /\ Len(Text) \in Nat
              /\ base \in Nat /\ base >= 1
              /\ PartAt(Text, base, Body(s))
              /\ base + Len(Body(s)) <= Len(Text) + 1
              /\ SumOal(s.ops) = s.header.output_size
              /\ s.header.num_operations = Len(s.ops)
              /\ Source = Text /\ Here = Spot
  BY InWhole
<1> DEFINE L(i) == Len(Together(OpsOf(s))[i])
           op == s.ops[n + 1]
           all == Len(s.ops)
           body == Len(Body(s))
<1>2. /\ HeaderRead(header, s, algo)
      /\ n \in Nat
      /\ cur_addr = Registers(s.ops)[n]
      /\ Spot = base + L(n)
  BY <1>1, ListLen DEF Partly
<1>3. header.format = s.header.format /\ header.num_operations = s.header.num_operations
  BY <1>2 DEF HeaderRead
<1>4. /\ all \in Nat /\ s.header.format \in Format
      /\ \A k \in 1 .. Len(s.ops) : Shaped(s.ops[k])
      /\ \A k \in 0 .. Len(s.ops) : Registers(s.ops)[k] \in [CopySrc -> Nat]
  BY <1>1, FormedIs
<1>5. n + 1 \in 1 .. all /\ (n + 1) - 1 = n /\ n + 1 \in 0 .. all /\ n \in 0 .. all
      /\ all \in 0 .. all /\ n + 1 <= all
  BY <1>1, <1>2, <1>3, <1>4
<1>6. /\ PartAt(Text, base + L(n), OpFields(op, Registers(s.ops)[n], s.header.format))
      /\ L(n + 1) = L(n) + Len(OpFields(op, Registers(s.ops)[n], s.header.format))
      /\ L(n + 1) \in Nat /\ L(n) \in Nat /\ L(all) \in Nat
  <2>1. /\ \A k \in 1 .. Len(s.ops) :
              PartAt(Text, base + L(k - 1),
                 OpFields(s.ops[k], Registers(s.ops)[k - 1], s.header.format))
        /\ \A k \in 0 .. Len(s.ops) : L(k) \in Nat
        /\ \A k \in 1 .. Len(s.ops) :
              L(k) = L(k - 1) + Len(OpFields(s.ops[k], Registers(s.ops)[k - 1], s.header.format))
    BY <1>1, BodyAt
  <2> QED
    BY <1>5, <2>1
<1>7. L(n + 1) <= L(all)
  <2>1. AreLists(OpsOf(s)) /\ Len(OpsOf(s)) = all
    BY <1>1, SectionParts
  <2> QED
    BY <1>5, <2>1, JoinedGrows
<1>8. body = L(all) + Len(Together(HeldOf(s))[all]) /\ Len(Together(HeldOf(s))[all]) \in Nat
  <2>1. body = L(all) + Len(Together(HeldOf(s))[all])
    BY <1>1, SectionParts
  <2>2. List(Together(HeldOf(s))[all])
    BY <1>1, <1>5, SectionParts
  <2> QED
    BY <2>1, <2>2, ListLen
<1> DEFINE fields == OpFields(op, cur_addr, header.format)
           held == Len(Together(HeldOf(s))[all])
<1>9. PartAt(Source, Here, fields) /\ L(n + 1) = L(n) + Len(fields)
  BY <1>1, <1>2, <1>3, <1>6
<1>10. Shaped(op) /\ cur_addr \in [CopySrc -> Nat] /\ header.format \in Format
  BY <1>2, <1>3, <1>4, <1>5
<1>11. Fields(fields)
  BY <1>10, OpFieldsAre
<1>12. Len(fields) \in Nat
  BY <1>11, ListLen DEF Fields
<1>13. /\ Here = base + L(n) /\ base \in Nat /\ L(n) \in Nat /\ L(n + 1) <= L(all)
       /\ body = L(all) + held /\ held \in Nat /\ L(all) \in Nat
       /\ base + body <= Len(Source) + 1 /\ Len(Source) \in Nat
  BY <1>1, <1>2, <1>6, <1>7, <1>8
<1> DEFINE here == L(n)
           next == L(n + 1)
           last == L(all)
<1>14. /\ Here = base + here /\ base \in Nat /\ here \in Nat /\ next <= last
       /\ body = last + held /\ held \in Nat /\ last \in Nat
       /\ base + body <= Len(Source) + 1 /\ Len(Source) \in Nat
       /\ next = here + Len(fields) /\ Len(fields) \in Nat
  BY <1>9, <1>12, <1>13
<1> HIDE DEF L, op, all, body, fields, here, next, last, held
<1>15. Here \in Nat /\ Here + Len(fields) <= Len(Source) + 1
  BY <1>14
<1> QED
  BY <1>9, <1>10, <1>14, <1>15, CanReadAll DEF fields

LEMMA SizesRight ==
    ASSUME WriterInv, ReaderInv, writer = "ok", reader = "ops",
           Len(op_buffer) = header.num_operations
    PROVE  SumOal(op_buffer) = header.output_size
<1>1. PICK s, algo, base :
              /\ Place(s, algo, base) /\ Partly(s, algo, base)
              /\ Formed(s) /\ List(Text) /\ Len(Text) \in Nat
              /\ base \in Nat /\ base >= 1
              /\ PartAt(Text, base, Body(s))
              /\ base + Len(Body(s)) <= Len(Text) + 1
              /\ SumOal(s.ops) = s.header.output_size
              /\ s.header.num_operations = Len(s.ops)
              /\ Source = Text /\ Here = Spot
  BY InWhole
<1>2. /\ HeaderRead(header, s, algo)
      /\ \A i \in 1 .. Len(op_buffer) : op_buffer[i] = Unfilled(s.ops[i], s.header.format)
  BY <1>1 DEF Partly
<1>3. Len(op_buffer) = Len(s.ops) /\ header.output_size = s.header.output_size
  BY <1>1, <1>2 DEF HeaderRead
<1>4. \A k \in 1 .. Len(s.ops) : Shaped(s.ops[k])
  BY <1>1, FormedIs
<1>5. \A k \in 1 .. Len(op_buffer) : /\ is_add(op_buffer[k]) <=> is_add(s.ops[k])
                                     /\ oal(op_buffer[k]) = oal(s.ops[k])
  BY <1>2, <1>3, <1>4, UnfilledIs
<1>6. SumOal(op_buffer) = SumOal(s.ops)
  BY <1>3, <1>5, SameSizes
<1> QED
  BY <1>1, <1>3, <1>6

LEMMA AddsThere ==
    ASSUME WriterInv, ReaderInv, writer = "ok", reader = "adds"
    PROVE  FieldsAre([i \in 1 .. AddLen |-> "byte"], Here)
<1>1. PICK s, algo, base :
              /\ Place(s, algo, base) /\ Partly(s, algo, base)
              /\ Formed(s) /\ List(Text) /\ Len(Text) \in Nat
              /\ base \in Nat /\ base >= 1
              /\ PartAt(Text, base, Body(s))
              /\ base + Len(Body(s)) <= Len(Text) + 1
              /\ SumOal(s.ops) = s.header.output_size
              /\ s.header.num_operations = Len(s.ops)
              /\ Source = Text /\ Here = Spot
  BY InWhole
<1> DEFINE n == Len(s.ops)
           L(i) == Len(Together(OpsOf(s))[i])
           held == Together(HeldOf(s))[Len(s.ops)]
           H == Len(held)
           body == Len(Body(s))
<1>2. /\ List(op_buffer) /\ Len(op_buffer) = n /\ s.header.format = "Segregated"
      /\ \A i \in 1 .. Len(op_buffer) : op_buffer[i] = Unfilled(s.ops[i], s.header.format)
      /\ Spot = base + L(n)
  BY <1>1 DEF Partly
<1>3. n \in Nat /\ n \in 0 .. n
  BY <1>1, FormedIs
<1>4. PartAt(Text, base + L(n), Bytes(held)) /\ L(n) \in Nat
  BY <1>1, <1>3, BodyAt
<1>5. body = L(n) + H
  BY <1>1, SectionParts
<1>6. List(held) /\ H \in Nat
  <2>1. List(held)
    BY <1>1, <1>3, SectionParts
  <2> QED
    BY <2>1, ListLen
<1> DEFINE here == L(n)
<1>7. /\ Here = base + here /\ base \in Nat /\ here \in Nat /\ body = here + H /\ H \in Nat
      /\ base + body <= Len(Source) + 1 /\ Len(Source) \in Nat
      /\ PartAt(Source, Here, Bytes(held))
  BY <1>1, <1>2, <1>4, <1>5, <1>6
<1> HIDE DEF L, here, body, H, n
<1>8. Here \in Nat /\ Here + H <= Len(Source) + 1
  BY <1>7
<1> HIDE DEF held
<1>9. /\ AddLen = H
      /\ FieldsAre([i \in 1 .. AddLen |-> "byte"], Here) <=> Here + AddLen <= Len(Source) + 1
  BY <1>1, <1>2, <1>7, <1>8, FilledIs DEF held, H, n
<1> QED
  BY <1>8, <1>9

(* So the reader has nothing to refuse, but a brotli stream it wants nothing of. *)
LEMMA NothingRefused ==
    ASSUME WriterInv, ReaderInv, ReadError \/ ReadPanic, writer = "ok"
    PROVE  ReadError /\ ~ done /\ sec_comp = 3 /\ AtHand.ops = <<>>
<1>1. CASE reader = "idle" /\ ~ done /\ ~ CanReadHeader
  BY <1>1, HeaderThere
<1>2. CASE reader = "frame" /\ ~ FieldsAre(<<"frame">>, pos)
  BY <1>2, FrameThere
<1>3. CASE reader = "frame" /\ header.num_operations = 0
  <2>1. ~ done /\ sec_comp = 3 /\ AtHand.ops = <<>>
    BY <1>3, FrameThere
  <2>2. ~ ReadPanic
    BY <1>3 DEF ReadPanic
  <2> QED
    BY <2>1, <2>2
<1>4. CASE reader = "ops" /\ Len(op_buffer) < header.num_operations /\ ~ CanReadOp
  BY <1>4, OpThere
<1>5. CASE /\ reader = "ops" /\ Len(op_buffer) = header.num_operations
           /\ SumOal(op_buffer) # header.output_size
  BY <1>5, SizesRight
<1>6. CASE reader = "adds" /\ ~ FieldsAre([i \in 1 .. AddLen |-> "byte"], Here)
  BY <1>6, AddsThere
<1>7. CASE ReadPanic
  <2>1. CASE reader = "open" /\ ~ FieldsAre(<<"frame_head">>, pos)
    BY <2>1, FrameThere
  <2>2. CASE /\ reader = "idle" /\ ~ done /\ Value(pos).format = "Segregated"
             /\ \E rest \in HeaderRest : rest.adds + rest.size >= U32_SIZE
    <3>1. PICK rest \in HeaderRest : rest.adds + rest.size >= U32_SIZE
      BY <2>2
    <3> DEFINE n == rest.adds + rest.size
    <3>2. n \in Nat /\ n < U32_SIZE /\ n >= U32_SIZE
      BY <2>2, <3>1, HeaderThere
    <3> HIDE DEF n
    <3> QED
      BY <3>2, WireAssumption
  <2> QED
    BY <1>7, <2>1, <2>2 DEF ReadPanic
<1> QED
  BY <1>1, <1>2, <1>3, <1>4, <1>5, <1>6, <1>7 DEF ReadError

LEMMA ReturnKeeps ==
    ASSUME WriterInv, WriterStopped, ReaderInv, Return,
           UNCHANGED <<wire, writerVars>>,
           delivered' = Append(delivered, [header |-> header, ops |-> op_buffer])
    PROVE  ReaderInv' /\ op_buffer \in Seq(Op)
<1>1. /\ reader = "ready" /\ outer = <<>>
      /\ done' = (done \/ ~ header.more_sections) /\ reader' = "idle"
      /\ UNCHANGED <<pos, header, op_buffer, cur_addr, winVars>>
  BY DEF Return
<1>2. /\ ~ done /\ ReaderTypeOK /\ Ready /\ List(win_data)
      /\ PatchInv /\ WireCut /\ Now \in 1 .. Len(patch) /\ Len(patch) \in Nat
      /\ List(delivered) /\ Len(delivered) \in Nat
      /\ Delivers
      /\ Now = Len(delivered) + 1
  BY <1>1, ReadingIs DEF ReaderInv, Now
<1>3. PICK s, algo, base : Place(s, algo, base) /\ Wholly(s, algo, base)
  BY <1>2 DEF Ready
<1>4. s = AtHand /\ base \in Nat
  BY <1>1, <1>2, <1>3, PlaceIs
<1>5. HeaderRead(header, AtHand, algo) /\ op_buffer = AtHand.ops /\ Spot = base + Len(Body(AtHand))
  BY <1>3, <1>4 DEF Wholly
<1>6. header.more_sections <=> Now < Len(patch)
  BY <1>2, <1>5, HandIs DEF HeaderRead
<1>7. /\ pos = Start(Now + 1) \/ (Now = Len(patch) /\ TailUnread /\ pos = Start(Now + 1) - 1)
      /\ sec_comp = 3 => AtHand.ops # <<>>
  <2>1. Start(Now + 1) = PayloadAt(Now) + Len(Payload(AtHand))
    BY <1>2, FileIs DEF AtHand
  <2>2. CASE InFile(s, algo, base)
    <3>1. sec_comp = 0 /\ base = PayloadAt(Now)
      BY <2>2 DEF InFile
    <3>2. Spot = pos
      BY <3>1 DEF Spot, Window
    <3>3. Formed(AtHand)
      BY <1>2, HandIs
    <3>4. Payload(AtHand) = Body(AtHand)
      BY <1>2, <3>1, <3>3, PayloadIs
    <3> QED
      BY <1>5, <2>1, <3>1, <3>2, <3>4
  <2>3. CASE InWindow(s, algo, base)
    <3>1. Sound(patch[Now]) /\ pos = Behind /\ (sec_comp = 3 => AtHand.ops # <<>>)
      BY <2>3 DEF InWindow
    <3>2. CASE sec_comp = 2 /\ AtHand.ops = <<>>
      <4>1. Now = Len(patch) /\ TailUnread
        BY <1>2, <3>1, <3>2, HandIs
      <4> QED
        BY <3>1, <3>2, <4>1 DEF Behind
    <3>3. CASE ~ (sec_comp = 2 /\ AtHand.ops = <<>>)
      BY <3>1, <3>3 DEF Behind
    <3> QED
      BY <3>2, <3>3
  <2>4. ASSUME NEW k, Inside(s, algo, base, k) PROVE FALSE
    <3>1. outer = <<outer[1]>>
      BY <2>4 DEF Inside, InNested
    <3> QED
      BY <1>1, <3>1
  <2> QED
    BY <1>3, <2>2, <2>3, <2>4 DEF Place
<1>8. /\ wire' = wire /\ patch' = patch /\ sec_comp' = sec_comp /\ writer' = writer
      /\ \A i : Start(i)' = Start(i)
      /\ Heard' = Heard /\ File' = File
  BY PatchKept DEF writerVars
<1>9. /\ List(delivered') /\ Len(delivered') = Len(delivered) + 1
      /\ \A i \in 1 .. Len(delivered) : delivered'[i] = delivered[i]
      /\ delivered'[Len(delivered) + 1] = [header |-> header, ops |-> op_buffer]
  <2> DEFINE x == [header |-> header, ops |-> op_buffer]
  <2>1. delivered' = Append(delivered, x)
    OBVIOUS
  <2> HIDE DEF x
  <2>2. /\ List(delivered') /\ Len(delivered') = Len(delivered) + 1
        /\ \A i \in 1 .. Len(delivered) : delivered'[i] = delivered[i]
        /\ delivered'[Len(delivered) + 1] = x
    BY <1>2, <2>1, ListAppend
  <2> QED
    BY <2>2 DEF x
<1>10. Now' = Now + 1
  BY <1>2, <1>9 DEF Now
<1>11. /\ Len(delivered') <= Len(patch')
       /\ Delivers'
       /\ done' <=> Len(delivered') = Len(patch')
  <2>1. Len(delivered') = Now /\ Now <= Len(patch) /\ Now \in Nat
    BY <1>2, <1>9
  <2>2. delivered'[Now].ops = Heard[Now].ops /\ (sec_comp = 3 => Heard[Now].ops # <<>>)
    BY <1>2, <1>5, <1>7, <1>9 DEF AtHand
  <2>3. \A i \in 1 .. Now : i = Now \/ i \in 1 .. Len(delivered)
    BY <1>2
  <2>4. \A i \in 1 .. Len(delivered) :
           delivered'[i].ops = Heard[i].ops /\ (sec_comp = 3 => Heard[i].ops # <<>>)
    BY <1>2, <1>9 DEF Delivers
  <2>5. Delivers'
    BY <1>8, <2>1, <2>2, <2>3, <2>4 DEF Delivers
  <2>6. done' <=> Now = Len(patch)
    <3>1. done' = (done \/ ~ header.more_sections) /\ ~ done
      BY <1>1, <1>2
    <3>2. done' <=> ~ (Now < Len(patch))
      BY <1>6, <3>1, Zenon
    <3>3. ~ (Now < Len(patch)) <=> Now = Len(patch)
      BY <1>2, <2>1
    <3> QED
      BY <3>2, <3>3, Zenon
  <2> QED
    BY <1>8, <2>1, <2>5, <2>6
<1>12. Idle'
  <2>1. Start(Now)' = Start(Now + 1)
    BY <1>8, <1>10 DEF Start
  <2>2. outer' = <<>> /\ pos' = pos
    BY <1>1 DEF winVars
  <2>3. CASE pos = Start(Now + 1)
    BY <2>1, <2>2, <2>3 DEF Idle
  <2>4. CASE Now = Len(patch) /\ TailUnread /\ pos = Start(Now + 1) - 1
    <3>1. TailUnread'
      BY <1>8, <2>4 DEF TailUnread
    <3>2. done'
      <4>1. ~ (Now < Len(patch))
        BY <1>2, <2>4
      <4> QED
        BY <1>1, <1>6, <4>1
    <3>3. AtTail'
      BY <2>1, <2>2, <2>4, <3>1, <3>2 DEF AtTail
    <3> QED
      BY <2>2, <3>3 DEF Idle
  <2> QED
    BY <1>7, <2>3, <2>4
<1>13. ReaderTypeOK' /\ List(win_data)' /\ outer' = <<>>
  <2>1. UNCHANGED <<outer, win_data, win_pos, pos, header, op_buffer, cur_addr>>
    BY <1>1 DEF winVars
  <2>2. done' \in BOOLEAN
    BY <1>1, <1>2 DEF ReaderTypeOK
  <2> QED
    BY <1>1, <1>2, <1>8, <2>1, <2>2 DEF ReaderTypeOK
<1>14. WriterStopped' /\ reader' = "idle"
  BY <1>1, <1>8 DEF WriterStopped
<1>15. op_buffer \in Seq(Op)
  BY <1>1, <1>2 DEF ReaderTypeOK
<1> QED
  BY <1>9, <1>11, <1>12, <1>13, <1>14, <1>15 DEF ReaderInv

LEMMA ReturnNoneKeeps ==
    ASSUME WriterInv, WriterStopped, ReaderInv, ReturnNone,
           UNCHANGED <<wire, writerVars, delivered>>
    PROVE  ReaderInv'
<1>1. /\ reader = "idle" /\ done /\ reader' = "none"
      /\ UNCHANGED <<pos, header, op_buffer, cur_addr, done, outer, win_data, win_pos>>
  BY DEF ReturnNone, winVars
<1>2. ReaderTypeOK /\ Idle /\ outer = <<>> /\ List(win_data)
  BY <1>1 DEF ReaderInv
<1>3. pos = Start(Now) \/ AtTail
  <2>1. SUFFICES ASSUME NEW k, InNested(k) PROVE FALSE
    BY <1>2 DEF Idle
  <2>2. outer = <<outer[1]>>
    BY <2>1 DEF InNested
  <2> QED
    BY <1>2, <2>2
<1>4. /\ patch' = patch /\ wire' = wire /\ delivered' = delivered /\ WriterStopped'
      /\ Now' = Now /\ sec_comp' = sec_comp /\ (Delivers' <=> Delivers)
  BY Still
<1>5. Start(Now)' = Start(Now)
  BY Still
<1>6. ReaderTypeOK'
  BY <1>1, <1>2, <1>4 DEF ReaderTypeOK
<1>7. /\ List(delivered) /\ Len(delivered) <= Len(patch)
      /\ Delivers
      /\ done <=> Len(delivered) = Len(patch)
  BY DEF ReaderInv
<1>9. TailUnread' <=> TailUnread
  BY <1>4 DEF TailUnread
<1>10. (pos = Start(Now))' \/ AtTail'
  BY <1>1, <1>3, <1>5, <1>9 DEF AtTail
<1>8. done' /\ outer' = <<>> /\ List(win_data)' /\ reader' = "none"
  BY <1>1, <1>2
<1> QED
  BY <1>1, <1>4, <1>6, <1>7, <1>8, <1>10 DEF ReaderInv

LEMMA ReadErrorKeeps ==
    ASSUME WriterInv, WriterStopped, ReaderInv, ReadError \/ ReadPanic,
           UNCHANGED <<wire, writerVars, delivered>>
    PROVE  ReaderInv' /\ reader' \in {"error", "panic"}
<1>1. /\ reader' \in {"error", "panic"}
      /\ UNCHANGED <<pos, header, op_buffer, cur_addr, done, outer, win_data, win_pos>>
  BY DEF ReadError, ReadPanic, winVars
<1>2. ReaderTypeOK /\ List(win_data) /\ (outer = <<>> \/ ~ done)
  BY DEF ReaderInv
<1>3. /\ patch' = patch /\ wire' = wire /\ delivered' = delivered /\ WriterStopped'
      /\ writer' = writer /\ sec_comp' = sec_comp /\ AtHand' = AtHand /\ (Delivers' <=> Delivers)
  BY Still
<1>4. ReaderTypeOK'
  <2>1. reader' \in {"idle", "open", "frame", "ops", "adds", "ready", "none", "error", "panic"}
    BY <1>1
  <2> QED
    BY <1>1, <1>2, <1>3, <2>1 DEF ReaderTypeOK
<1>5. writer' = "ok" => Unread'
  <2>1. SUFFICES ASSUME writer' = "ok" PROVE Unread'
    OBVIOUS
  <2>2. ReadError /\ ~ done /\ sec_comp = 3 /\ AtHand.ops = <<>>
    BY <1>3, <2>1, NothingRefused
  <2>3. reader' = "error"
    BY <2>2 DEF ReadError
  <2> QED
    BY <1>1, <1>3, <2>2, <2>3 DEF Unread
<1>6. /\ List(delivered) /\ Len(delivered) <= Len(patch)
      /\ Delivers
      /\ done <=> Len(delivered) = Len(patch)
  BY DEF ReaderInv
<1>7. reader' \notin {"idle", "open", "frame", "ops", "adds", "ready", "none"}
  BY <1>1
<1>8. (outer = <<>> \/ ~ done)' /\ List(win_data)'
  BY <1>1, <1>2
<1> QED
  BY <1>1, <1>3, <1>4, <1>5, <1>6, <1>7, <1>8 DEF ReaderInv

(* The reader is not there yet while the file is written. *)
LEMMA WritingKeeps ==
    ASSUME WriterInv, ReaderInv, WriterNext, WriterInv', pos = 1, reader = "idle",
           UNCHANGED <<readerVars, delivered>>
    PROVE  ReaderInv'
<1>1. UNCHANGED <<patch, sec_comp>> /\ (WriterStopped => WriterStopped')
  <2>1. CASE WriteHeader
    BY <2>1 DEF WriteHeader, WriterStopped
  <2>2. CASE WriteOp
    BY <2>2 DEF WriteOp, WriterStopped
  <2>3. CASE FinishOps
    BY <2>3 DEF FinishOps, WriterStopped
  <2>4. CASE Truncate
    BY <2>4 DEF Truncate, WriterStopped
  <2>5. CASE WriteHeaderPanics
    BY <2>5 DEF WriteHeaderPanics, WriterStopped
  <2> QED
    BY <2>1, <2>2, <2>3, <2>4, <2>5 DEF WriterNext
<1>2. /\ UNCHANGED <<pos, header, op_buffer, cur_addr, done, outer, win_data, win_pos, reader,
                     delivered>>
  BY DEF readerVars, winVars
<1>3. /\ ReaderTypeOK /\ Idle /\ List(win_data) /\ (outer = <<>> \/ ~ done)
      /\ List(delivered) /\ Len(delivered) <= Len(patch)
      /\ Delivers
      /\ done <=> Len(delivered) = Len(patch)
      /\ ~ WriterStopped => delivered = <<>> /\ pos = 1 /\ reader = "idle" /\ outer = <<>>
  BY DEF ReaderInv
<1>4. Len(wire') \in Nat
  <2>1. CASE WriterStopped'
    BY <2>1, ListLen DEF WriterInv, WireCut
  <2>2. CASE writer' = "header"
    <3>1. wire' = File'[section' - 1] /\ section' \in 1 .. Len(patch') /\ PatchInv' /\ File' = File
          /\ PatchInv
      BY <1>1, <2>2, PatchKept DEF WriterInv
    <3>2. section' - 1 \in 0 .. Len(patch)
      <4>1. Len(patch) \in Nat
        BY <3>1, PatchIs
      <4>2. section' \in 1 .. Len(patch)
        BY <1>1, <3>1
      <4>3. \A n \in Nat : \A i \in 1 .. n : i - 1 \in 0 .. n
        OBVIOUS
      <4> DEFINE n == Len(patch)
                 i == section'
      <4>4. n \in Nat /\ i \in 1 .. n
        BY <4>1, <4>2
      <4> HIDE DEF n, i
      <4>5. i - 1 \in 0 .. n
        BY <4>3, <4>4
      <4> QED
        BY <4>5 DEF n, i
    <3> QED
      BY <3>1, <3>2, FileIs
  <2>3. CASE writer' = "ops"
    <3>1. PatchInv' /\ section' \in 1 .. Len(patch') /\ WritingOps'
      BY <2>3 DEF WriterInv
    <3>2. PatchInv /\ section' \in 1 .. Len(patch) /\ patch' = patch /\ sec_comp' = sec_comp
          /\ File' = File
      BY <1>1, <3>1, PatchKept DEF WriterInv
    <3> DEFINE i == section'
               o == File[i - 1] \o HeaderOf(Heard[i], sec_comp)
    <3>7. HeaderOf(Heard[i], sec_comp) = HeaderOf(patch[i], sec_comp)
      BY <3>2, PatchIs DEF HeaderOf
    <3>3. Opened' = o /\ Section' = patch[i]
      BY <3>2, <3>7 DEF Opened, Section
    <3>4. List(o) /\ Len(o) \in Nat
      BY <3>2, OpenedIs, ListLen
    <3>5. CASE sec_comp # 0
      BY <3>1, <3>2, <3>3, <3>4, <3>5 DEF WritingOps
    <3>6. CASE sec_comp = 0
      <4> DEFINE p == Together(OpsOf(patch[i]))[written']
      <4>1. wire' = o \o p /\ written' \in 0 .. Len(patch[i].ops)
        BY <3>1, <3>2, <3>3, <3>6 DEF WritingOps
      <4>2. Fields(p)
        BY <3>2, <4>1, PatchIs, SectionParts
      <4> HIDE DEF o, p
      <4>3. List(p) /\ List(o)
        BY <3>4, <4>2 DEF Fields
      <4>4. List(o \o p)
        BY <4>3, ListConcat
      <4> QED
        BY <4>1, <4>4, ListLen
    <3> QED
      BY <3>5, <3>6
  <2> QED
    BY <2>1, <2>2, <2>3 DEF WriterInv, WriterStopped
<1>5. ReaderTypeOK'
  <2>1. pos' \in 1 .. Len(wire') + 1
    BY <1>2, <1>4
  <2> QED
    BY <1>2, <1>3, <2>1 DEF ReaderTypeOK
<1>7. /\ \A i : PayloadAt(i)' = PayloadAt(i) /\ Start(i)' = Start(i)
      /\ File' = File /\ Heard' = Heard
  BY <1>1, PatchKept
<1>6. Now' = Now /\ AtHand' = AtHand /\ Packed' = Packed
  BY <1>2, <1>7 DEF Now, AtHand, Packed
<1>8. Start(Now)' = Start(Now) /\ PayloadAt(Now)' = PayloadAt(Now)
  BY <1>1, <1>6, <1>7 DEF Start, PayloadAt
<1>12. Delivers' <=> Delivers
  BY <1>1, <1>2, <1>7 DEF Delivers
<1>13. AtTail => AtTail'
  BY <1>1, <1>2, <1>8 DEF AtTail, TailUnread
<1>9. \A k : NestedStart(k)' = NestedStart(k)
  BY <1>6, <1>8 DEF NestedStart
<1>10. \A k : InNested(k) => InNested(k)'
  BY <1>1, <1>2, <1>6 DEF InNested
<1>11. Idle'
  BY <1>2, <1>3, <1>6, <1>8, <1>9, <1>10, <1>13 DEF Idle
<1> QED
  BY <1>1, <1>2, <1>3, <1>5, <1>11, <1>12 DEF ReaderInv

LEMMA ReaderStarts ==
    ASSUME WriterInit, ReaderInit, delivered = <<>>
    PROVE  ReaderInv
<1>1. PatchInv /\ Len(wire) \in Nat /\ ~ WriterStopped /\ writer = "header"
  BY DEF WriterInit, PatchInv, WriterStopped
<1>2. /\ pos = 1 /\ header = NoHeader /\ op_buffer = <<>> /\ cur_addr = NoAddr /\ done = FALSE
      /\ outer = <<>> /\ win_data = <<>> /\ win_pos = 1 /\ reader = "idle"
  BY DEF ReaderInit
<1>3. Len(patch) \in Nat /\ Len(patch) >= 1
  BY <1>1, PatchIs
<1>4. List(<<>>) /\ Len(<<>>) = 0 /\ <<>> \in Seq(Op)
  BY ListEmpty
<1>5. Idle
  <2>1. Now = 1 /\ Len(File[0]) = 0
    BY <1>1, <1>4, FileIs DEF Now
  <2>2. Start(Now) = 1
    BY <2>1 DEF Start
  <2> QED
    BY <1>2, <2>2 DEF Idle
<1>6. NoHeader \in SectionHeader
  BY DEF NoHeader, SectionHeader, Algo, Format
<1>7. ReaderTypeOK
  <2>1. cur_addr \in [CopySrc -> Int] /\ header \in SectionHeader
    BY <1>2, <1>6, NoAddrType
  <2>2. pos \in 1 .. Len(wire) + 1 /\ win_pos \in 1 .. Len(win_data) + 1
    BY <1>1, <1>2, <1>4
  <2> QED
    BY <1>2, <1>4, <2>1, <2>2 DEF ReaderTypeOK
<1>8. Delivers
  BY <1>4 DEF Delivers
<1> QED
  BY <1>1, <1>2, <1>3, <1>4, <1>5, <1>7, <1>8 DEF ReaderInv

-----------------------------------------------------------------------------
(* The decoder, for every alphabet, dictionary, sink and patch. *)

(* Writing inside a sink keeps the bytes before the position, puts the new *)
(* bytes next and never shortens the sink (apply_ops, every write_all).    *)
LEMMA WrittenProperties ==
    ASSUME NEW s \in Seq(Byte), NEW bytes \in Seq(Byte), NEW cut \in 0 .. Len(s)
    PROVE  /\ Written(s, cut, bytes) \in Seq(Byte)
           /\ cut + Len(bytes) <= Len(Written(s, cut, bytes))
           /\ SubSeq(Written(s, cut, bytes), 1, cut + Len(bytes))
                = SubSeq(s, 1, cut) \o bytes
<1> DEFINE before == SubSeq(s, 1, cut)
           after == SubSeq(s, cut + Len(bytes) + 1, Len(s))
           new == before \o bytes
<1>1. before \in Seq(Byte) /\ Len(before) = cut
  BY SubSeqProperties
<1>2. after \in Seq(Byte)
  BY SubSeqProperties
<1>3. new \in Seq(Byte) /\ Len(new) = cut + Len(bytes)
  BY <1>1, ConcatProperties
<1>4. Written(s, cut, bytes) = new \o after
  BY DEF Written
<1> HIDE DEF before, after, new
<1>5. /\ new \o after \in Seq(Byte)
      /\ Len(new \o after) = Len(new) + Len(after)
      /\ \A i \in 1 .. Len(new) + Len(after) :
            (new \o after)[i] = IF i <= Len(new) THEN new[i] ELSE after[i - Len(new)]
  BY <1>2, <1>3, ConcatProperties, ZenonT(40)
<1>6. SubSeq(new \o after, 1, Len(new)) = new
  <2>1. /\ SubSeq(new \o after, 1, Len(new)) \in Seq(Byte)
        /\ Len(SubSeq(new \o after, 1, Len(new))) = Len(new)
        /\ \A i \in 1 .. Len(new) :
              SubSeq(new \o after, 1, Len(new))[i] = (new \o after)[i]
    BY <1>2, <1>3, <1>5, SubSeqProperties
  <2> QED
    BY <2>1, <1>2, <1>3, <1>5, SeqEqual
<1>7. Written(s, cut, bytes) \in Seq(Byte)
  BY <1>4, <1>5
<1>8. Len(new) <= Len(Written(s, cut, bytes))
  <2>1. Len(new) \in Nat /\ Len(after) \in Nat
    BY <1>2, <1>3
  <2> QED
    BY <1>4, <1>5, <2>1
<1>9. SubSeq(Written(s, cut, bytes), 1, Len(new)) = new
  BY <1>4, <1>6
<1>10. Len(new) = cut + Len(bytes) /\ new = SubSeq(s, 1, cut) \o bytes
  BY <1>3 DEF new, before
<1> QED
  BY <1>7, <1>8, <1>9, <1>10

(* A slice that ends inside a prefix is the same slice of the whole. *)
LEMMA SliceOfPrefix ==
    ASSUME NEW s \in Seq(Byte), NEW cut \in 0 .. Len(s),
           NEW addr \in Nat, NEW len \in Nat, addr + len <= cut
    PROVE  SubSeq(s, addr + 1, addr + len)
             = SubSeq(SubSeq(s, 1, cut), addr + 1, addr + len)
<1> DEFINE p == SubSeq(s, 1, cut)
<1>1. /\ p \in Seq(Byte) /\ Len(p) = cut
      /\ \A i \in 1 .. cut : p[i] = s[i]
  BY SubSeqProperties
<1>2. /\ SubSeq(s, addr + 1, addr + len) \in Seq(Byte)
      /\ Len(SubSeq(s, addr + 1, addr + len)) = len
      /\ \A i \in 1 .. len : SubSeq(s, addr + 1, addr + len)[i] = s[addr + i]
  BY SubSeqProperties
<1> HIDE DEF p
<1>3. /\ SubSeq(p, addr + 1, addr + len) \in Seq(Byte)
      /\ Len(SubSeq(p, addr + 1, addr + len)) = len
      /\ \A i \in 1 .. len : SubSeq(p, addr + 1, addr + len)[i] = p[addr + i]
  BY <1>1, SubSeqProperties
<1>4. SubSeq(s, addr + 1, addr + len) = SubSeq(p, addr + 1, addr + len)
  <2> DEFINE of_s == SubSeq(s, addr + 1, addr + len)
             of_p == SubSeq(p, addr + 1, addr + len)
  <2>1. \A i \in 1 .. len : addr + i \in 1 .. cut
    OBVIOUS
  <2>2. \A i \in 1 .. len : of_s[i] = of_p[i]
    BY <1>1, <1>2, <1>3, <2>1
  <2>3. of_s \in Seq(Byte) /\ of_p \in Seq(Byte) /\ Len(of_s) = len /\ Len(of_p) = len
    BY <1>2, <1>3
  <2> HIDE DEF of_s, of_p
  <2>4. of_s = of_p
    BY <2>2, <2>3, SeqEqual
  <2> QED
    BY <2>4 DEF of_s, of_p
<1> QED
  BY <1>4 DEF p

(* A slice that ends inside the bytes it is taken from is a string of bytes. *)
LEMMA SliceType ==
    ASSUME NEW s \in Seq(Byte), NEW op \in CopyOps, Reaches(op, s)
    PROVE  Slice(op, s) \in Seq(Byte)
  BY SubSeqProperties, LimitsAssumption DEF Slice, Reaches, CopyOps

-----------------------------------------------------------------------------
(* The invariant: the types, and the cursor standing at the output's end. *)
DecoderInv == DecoderTypeOK /\ CursorAtOutputEnd

(* What every completed operation does to the invariant, from what it writes. *)
LEMMA WriteKeepsInv ==
    ASSUME DecoderInv, Consume,
           NEW bytes \in Seq(Byte), NEW at, at = cur_o_pos,
           WriteAll(at, bytes)
    PROVE  /\ DecoderInv'
           /\ SubSeq(sink, 1, cur_o_pos)' = SubSeq(sink, 1, cur_o_pos) \o bytes
<1>1. ops \in Seq(Op) /\ ops # <<>> /\ ops' \in Seq(Op)
  BY HeadTailProperties DEF DecoderInv, DecoderTypeOK, Consume
<1>2. /\ sink \in Seq(Byte) /\ cur_o_pos \in 0 .. Len(sink)
      /\ sink' = Written(sink, cur_o_pos, bytes)
      /\ cursor' = cur_o_pos + Len(bytes) /\ cur_o_pos' = cur_o_pos + Len(bytes)
  BY DEF DecoderInv, DecoderTypeOK, CursorAtOutputEnd, WriteAll
<1>3. /\ sink' \in Seq(Byte)
      /\ cur_o_pos' <= Len(sink')
      /\ SubSeq(sink', 1, cur_o_pos') = SubSeq(sink, 1, cur_o_pos) \o bytes
  BY <1>2, WrittenProperties
<1>4. Len(bytes) \in Nat
  OBVIOUS
<1>5. cursor' \in Nat /\ cur_o_pos' \in Nat /\ cursor' = cur_o_pos'
  BY <1>2, <1>4
<1>6. DecoderTypeOK'
  BY <1>1, <1>3, <1>5 DEF DecoderInv, DecoderTypeOK, Consume
<1>7. CursorAtOutputEnd'
  BY <1>3, <1>5 DEF CursorAtOutputEnd
<1> QED
  BY <1>3, <1>6, <1>7 DEF DecoderInv

(* What each kind of operation writes is a sequence of bytes. *)
LEMMA OpCases ==
    ASSUME NEW op \in Op
    PROVE  /\ is_add(op) => op.bytes \in Seq(Byte)
           /\ is_run(op) => [i \in 1 .. op.len |-> op.byte] \in Seq(Byte)
           /\ is_copy(op) => op \in CopyOps /\ op.addr \in Nat /\ op.len \in Nat
<1>1. CASE op \in AddOps
  BY <1>1 DEF AddOps, is_add, is_run, is_copy
<1>2. CASE op \in CopyOps
  BY <1>2, LimitsAssumption DEF CopyOps, is_add, is_run, is_copy
<1>3. CASE op \in RunOps
  <2>1. op.op = "Run" /\ op.len \in Nat /\ op.byte \in Byte
    BY <1>3, LimitsAssumption DEF RunOps
  <2>2. [i \in 1 .. op.len |-> op.byte] \in Seq(Byte)
    BY <2>1
  <2> QED
    BY <2>1, <2>2 DEF is_add, is_run, is_copy
<1> QED
  BY <1>1, <1>2, <1>3 DEF Op

LEMMA HeadIsOp ==
    ASSUME DecoderTypeOK, ops # <<>>
    PROVE  Head(ops) \in Op
  BY HeadTailProperties DEF DecoderTypeOK

(* Each action that applies an operation keeps the invariant and appends to *)
(* the output the bytes it writes.                                          *)
LEMMA ApplyAddStep ==
    ASSUME DecoderInv, ApplyAdd
    PROVE  /\ DecoderInv'
           /\ SubSeq(sink, 1, cur_o_pos)' = SubSeq(sink, 1, cur_o_pos) \o Head(ops).bytes
<1>1. Head(ops).bytes \in Seq(Byte)
  BY HeadIsOp, OpCases DEF DecoderInv, ApplyAdd, Consume
<1>2. cursor = cur_o_pos
  BY DEF DecoderInv, CursorAtOutputEnd, ApplyAdd, Consume
<1> QED
  BY <1>1, <1>2, WriteKeepsInv DEF ApplyAdd

LEMMA ApplyRunStep ==
    ASSUME DecoderInv, ApplyRun
    PROVE  /\ DecoderInv'
           /\ SubSeq(sink, 1, cur_o_pos)'
                = SubSeq(sink, 1, cur_o_pos) \o [i \in 1 .. Head(ops).len |-> Head(ops).byte]
<1>1. [i \in 1 .. Head(ops).len |-> Head(ops).byte] \in Seq(Byte)
  BY HeadIsOp, OpCases DEF DecoderInv, ApplyRun, Consume
<1>2. cursor = cur_o_pos
  BY DEF DecoderInv, CursorAtOutputEnd, ApplyRun, Consume
<1> QED
  BY <1>1, <1>2, WriteKeepsInv DEF ApplyRun

LEMMA ApplyCopyDictStep ==
    ASSUME DecoderInv, ApplyCopyDict
    PROVE  /\ DecoderInv'
           /\ SubSeq(sink, 1, cur_o_pos)'
                = SubSeq(sink, 1, cur_o_pos) \o Slice(Head(ops), Src)
<1>1. Slice(Head(ops), Src) \in Seq(Byte)
  <2>1. Head(ops) \in CopyOps
    BY HeadIsOp, OpCases DEF DecoderInv, ApplyCopyDict, Consume, is_copy_from
  <2> QED
    BY <2>1, SliceType, DecoderAssumption DEF ApplyCopyDict
<1>2. cursor = cur_o_pos
  BY DEF DecoderInv, CursorAtOutputEnd, ApplyCopyDict, Consume
<1> QED
  BY <1>1, <1>2, WriteKeepsInv DEF ApplyCopyDict

LEMMA ApplyCopyOutputStep ==
    ASSUME DecoderInv, ApplyCopyOutput
    PROVE  /\ DecoderInv'
           /\ SubSeq(sink, 1, cur_o_pos)'
                = SubSeq(sink, 1, cur_o_pos) \o Slice(Head(ops), sink)
<1>1. Slice(Head(ops), sink) \in Seq(Byte)
  <2>1. Head(ops) \in CopyOps
    BY HeadIsOp, OpCases DEF DecoderInv, ApplyCopyOutput, Consume, is_copy_from
  <2> QED
    BY <2>1, SliceType DEF ApplyCopyOutput, DecoderInv, DecoderTypeOK
<1> QED
  BY <1>1, WriteKeepsInv DEF ApplyCopyOutput

-----------------------------------------------------------------------------
(* The invariant is inductive. *)
LEMMA DecoderInvInit == DecoderInit => DecoderInv
  BY DecoderAssumption
  DEF DecoderInit, DecoderInv, DecoderTypeOK, CursorAtOutputEnd

LEMMA DecoderInvNext == DecoderInv /\ [DecoderNext]_decoderVars => DecoderInv'
<1> SUFFICES ASSUME DecoderInv, [DecoderNext]_decoderVars
             PROVE  DecoderInv'
  OBVIOUS
<1>1. CASE ApplyAdd
  BY <1>1, ApplyAddStep
<1>2. CASE ApplyRun
  BY <1>2, ApplyRunStep
<1>3. CASE ApplyCopyDict
  BY <1>3, ApplyCopyDictStep
<1>4. CASE ApplyCopyOutput
  BY <1>4, ApplyCopyOutputStep
<1>5. CASE PanicNoSource
  BY <1>5 DEF PanicNoSource, DecoderInv, DecoderTypeOK, CursorAtOutputEnd
<1>6. CASE CopyFails
  <2>1. cursor' \in Nat
    <3>1. ops # <<>>
      BY <1>6 DEF CopyFails
    <3>2. is_copy(Head(ops)) => Head(ops).addr \in Nat
      BY <3>1, HeadIsOp, OpCases DEF DecoderInv
    <3> QED
      BY <1>6, <3>2 DEF CopyFails, DecoderInv, DecoderTypeOK, is_copy_from
  <2> QED
    BY <1>6, <2>1 DEF CopyFails, DecoderInv, DecoderTypeOK, CursorAtOutputEnd
<1>7. CASE NextSection
  BY <1>7, DecoderAssumption
  DEF NextSection, BeginSection, DecoderInv, DecoderTypeOK, CursorAtOutputEnd
<1>8. CASE NoMoreSections
  BY <1>8 DEF NoMoreSections, ReaderEnds, DecoderInv, DecoderTypeOK, CursorAtOutputEnd
<1>9. CASE ReadFails
  BY <1>9 DEF ReadFails, ReaderEnds, DecoderInv, DecoderTypeOK, CursorAtOutputEnd
<1>10. CASE UNCHANGED decoderVars
  BY <1>10 DEF decoderVars, DecoderInv, DecoderTypeOK, CursorAtOutputEnd
<1> QED
  BY <1>1, <1>2, <1>3, <1>4, <1>5, <1>6, <1>7, <1>8, <1>9, <1>10
  DEF DecoderNext, ApplyOp

(* The decoder's state always has its types. *)
THEOREM DecoderTypeCorrect == DecoderSpec => []DecoderTypeOK
<1>1. DecoderInv => DecoderTypeOK
  BY DEF DecoderInv
<1> QED
  BY <1>1, DecoderInvInit, DecoderInvNext, PTL DEF DecoderSpec

(* Between operations the sink's cursor stands at the output's end, and the *)
(* output is inside the sink, whatever patch is applied (apply_ops).        *)
THEOREM CursorCorrect == DecoderSpec => []CursorAtOutputEnd
<1>1. DecoderInv => CursorAtOutputEnd
  BY DEF DecoderInv
<1> QED
  BY <1>1, DecoderInvInit, DecoderInvNext, PTL DEF DecoderSpec

-----------------------------------------------------------------------------
(* The refinement: the initial states, then every action. *)
LEMMA DecoderRefinesInit == DecoderInit => Abstract!MeaningInit
  BY SubSeqEmpty DEF DecoderInit, Abstract!MeaningInit

(* An operation that is applied has a meaning, and writes it. *)
LEMMA ApplyRefines ==
    ASSUME DecoderInv, Consume,
           Abstract!HasMeaning(Head(ops), SubSeq(sink, 1, cur_o_pos)),
           SubSeq(sink, 1, cur_o_pos)' = SubSeq(sink, 1, cur_o_pos)
              \o Abstract!Meaning(Head(ops), Src, SubSeq(sink, 1, cur_o_pos))
    PROVE  Abstract!Apply
  BY DEF Consume, Abstract!Apply

LEMMA DecoderRefinesNext ==
    DecoderInv /\ CopiesStayInOutput /\ [DecoderNext]_decoderVars
        => [Abstract!MeaningNext]_Abstract!meaningVars
<1> SUFFICES ASSUME DecoderInv, CopiesStayInOutput, [DecoderNext]_decoderVars
             PROVE  [Abstract!MeaningNext]_Abstract!meaningVars
  OBVIOUS
<1> DEFINE out == SubSeq(sink, 1, cur_o_pos)
           op == Head(ops)
<1>a. ops # <<>> => op \in Op
  BY HeadIsOp DEF DecoderInv
<1>b. out \in Seq(Byte) /\ Len(out) = cur_o_pos /\ cur_o_pos \in 0 .. Len(sink)
  BY SubSeqProperties DEF DecoderInv, DecoderTypeOK, CursorAtOutputEnd
<1>1. CASE ApplyAdd
  <2>1. Consume /\ is_add(op)
    BY <1>1 DEF ApplyAdd
  <2>2. Abstract!HasMeaning(op, out) /\ Abstract!Meaning(op, Src, out) = op.bytes
    BY <2>1 DEF Abstract!HasMeaning, Abstract!Meaning, Abstract!is_copy,
                Abstract!is_add, is_add
  <2> QED
    BY <1>1, <2>1, <2>2, ApplyAddStep, ApplyRefines DEF Abstract!MeaningNext
<1>2. CASE ApplyRun
  <2>1. Consume /\ is_run(op)
    BY <1>2 DEF ApplyRun
  <2>2. /\ Abstract!HasMeaning(op, out)
        /\ Abstract!Meaning(op, Src, out) = [i \in 1 .. op.len |-> op.byte]
    BY <2>1 DEF Abstract!HasMeaning, Abstract!Meaning, Abstract!is_copy,
                Abstract!is_add, Abstract!is_run, is_run
  <2> QED
    BY <1>2, <2>1, <2>2, ApplyRunStep, ApplyRefines DEF Abstract!MeaningNext
<1>3. CASE ApplyCopyDict
  <2>1. Consume /\ is_copy_from(op, "Dict") /\ has_src /\ Reaches(op, Src)
    BY <1>3 DEF ApplyCopyDict
  <2>2. Abstract!HasMeaning(op, out) /\ Abstract!Meaning(op, Src, out) = Slice(op, Src)
    BY <2>1 DEF Abstract!HasMeaning, Abstract!Meaning, Abstract!CopiedFrom,
                Abstract!is_add, Abstract!is_run, Abstract!is_copy,
                is_copy_from, is_copy, Slice, Reaches
  <2> QED
    BY <1>3, <2>1, <2>2, ApplyCopyDictStep, ApplyRefines DEF Abstract!MeaningNext
<1>4. CASE ApplyCopyOutput
  <2>1. Consume /\ is_copy_from(op, "Output") /\ Reaches(op, sink)
    BY <1>4 DEF ApplyCopyOutput
  <2>2. op.addr \in Nat /\ op.len \in Nat
    BY <2>1, <1>a, OpCases DEF Consume, is_copy_from
  <2>3. op.len = 0 \/ op.addr + op.len <= cur_o_pos
    BY <2>1, <1>b DEF CopiesStayInOutput, Consume, Reaches
  <2>4. Slice(op, sink) = SubSeq(out, op.addr + 1, op.addr + op.len)
    <3>1. CASE op.len = 0
      <4>1. op.addr + 1 \in Int /\ op.addr + op.len \in Int /\ op.addr + op.len < op.addr + 1
        BY <2>2, <3>1
      <4> QED
        BY <4>1, SubSeqEmpty DEF Slice
    <3>2. CASE op.addr + op.len <= cur_o_pos
      BY <2>2, <3>2, <1>b, SliceOfPrefix DEF Slice, DecoderInv, DecoderTypeOK
    <3> QED
      BY <2>3, <3>1, <3>2
  <2>5. Abstract!HasMeaning(op, out) /\ Abstract!Meaning(op, Src, out) = Slice(op, sink)
    BY <2>1, <2>3, <2>4, <1>b
    DEF Abstract!HasMeaning, Abstract!Meaning, Abstract!CopiedFrom,
        Abstract!is_add, Abstract!is_run, Abstract!is_copy, is_copy_from, is_copy
  <2> QED
    BY <1>4, <2>1, <2>5, ApplyCopyOutputStep, ApplyRefines DEF Abstract!MeaningNext
<1>5. CASE PanicNoSource
  <2>1. ~ Abstract!HasMeaning(op, out)
    BY <1>5 DEF PanicNoSource, Abstract!HasMeaning, Abstract!is_copy, is_copy_from, is_copy
  <2> QED
    BY <1>5, <2>1 DEF PanicNoSource, Abstract!MeaningNext, Abstract!Reject
<1>6. CASE CopyFails
  <2>1. ~ Abstract!HasMeaning(op, out)
    <3>1. /\ ops # <<>> /\ is_copy(op)
          /\ \/ op.src = "Dict" /\ ~ Reaches(op, Src)
             \/ op.src = "Output" /\ ~ Reaches(op, sink)
      BY <1>6 DEF CopyFails, is_copy_from
    <3>2. op.addr \in Nat /\ op.len \in Nat
      BY <3>1, <1>a, OpCases
    <3> QED
      BY <3>1, <3>2, <1>b
      DEF Reaches, Abstract!HasMeaning, Abstract!CopiedFrom, Abstract!is_copy, is_copy
  <2> QED
    BY <1>6, <2>1 DEF CopyFails, Abstract!MeaningNext, Abstract!Reject
<1>7. CASE NextSection
  <2>1. PICK given \in Sections : BeginSection(given)
    BY <1>7 DEF NextSection
  <2>2. given \in Seq(Abstract!Op)
    BY DecoderAssumption
    DEF Abstract!Op, Abstract!AddOps, Abstract!CopyOps, Abstract!RunOps,
        Abstract!CopySrc, Op, AddOps, CopyOps, RunOps, CopySrc
  <2> QED
    BY <2>1, <2>2 DEF BeginSection, Abstract!MeaningNext, Abstract!Receive
<1>8. CASE NoMoreSections
  BY <1>8 DEF NoMoreSections, ReaderEnds, Abstract!MeaningNext, Abstract!Stop
<1>9. CASE ReadFails
  BY <1>9 DEF ReadFails, ReaderEnds, Abstract!MeaningNext, Abstract!Stop
<1>10. CASE UNCHANGED decoderVars
  BY <1>10 DEF decoderVars, Abstract!meaningVars
<1> QED
  BY <1>1, <1>2, <1>3, <1>4, <1>5, <1>6, <1>7, <1>8, <1>9, <1>10
  DEF DecoderNext, ApplyOp

(* The decoder implements the meaning of patches: for every dictionary,     *)
(* sink and sequence of sections, each of its steps is one of the meaning,  *)
(* but for a copy that reads what a reused sink held before (apply_patch).  *)
THEOREM DecoderImplementsMeaning == DecoderSpec => ImplementsMeaning
<1>1. DecoderInv /\ [DecoderNext]_decoderVars
        => [CopiesStayInOutput => Abstract!MeaningNext]_(Abstract!meaningVars)
  BY DecoderRefinesNext
<1> QED
  BY <1>1, DecoderInvInit, DecoderInvNext, DecoderRefinesInit, PTL
  DEF DecoderSpec, ImplementsMeaning

(* Where every copy stays inside the output, what the decoder leaves in     *)
(* front of its output position is what the operations mean, and it fails   *)
(* only at an operation that means nothing (apply_patch).                   *)
THEOREM DecoderRefinesMeaning ==
    DecoderSpec /\ []CopiesStayInOutput => Abstract!MeaningSpec
  BY DecoderInvInit, DecoderInvNext, DecoderRefinesInit, DecoderRefinesNext, PTL
  DEF DecoderSpec, Abstract!MeaningSpec

-----------------------------------------------------------------------------
(* The pipeline: what holds of each of its parts. *)
LEMMA WriterKeeps ==
    ASSUME WriterInv, WriterNext
    PROVE  WriterInv'
<1>1. CASE WriteHeader
  BY <1>1, WriteHeaderKeeps
<1>2. CASE WriteOp
  BY <1>2, WriteOpKeeps
<1>3. CASE FinishOps
  BY <1>3, FinishOpsKeeps
<1>4. CASE Truncate
  BY <1>4, TruncateKeeps
<1>5. CASE WriteHeaderPanics
  BY <1>5, WriteHeaderPanicsKeeps
<1> QED
  BY <1>1, <1>2, <1>3, <1>4, <1>5 DEF WriterNext

(* Nothing else is known of the reader than of what it reads. *)
LEMMA ReaderStill ==
    ASSUME ReaderInv, UNCHANGED <<wire, writerVars, readerVars, delivered>>
    PROVE  ReaderInv'
<1>1. UNCHANGED <<pos, header, op_buffer, cur_addr, done, outer, win_data, win_pos, reader,
                  wire, writerVars, delivered>>
  BY DEF readerVars, winVars
<1>2. /\ Now' = Now /\ AtHand' = AtHand /\ Packed' = Packed
      /\ (Delivers' <=> Delivers)
      /\ wire' = wire /\ patch' = patch /\ sec_comp' = sec_comp /\ writer' = writer
      /\ delivered' = delivered
      /\ WriterStopped' <=> WriterStopped
      /\ \A i : PayloadAt(i)' = PayloadAt(i) /\ Start(i)' = Start(i)
      /\ \A k : NestedStart(k)' = NestedStart(k)
  BY <1>1, Still
<1>3. /\ ReaderTypeOK
      /\ List(delivered) /\ Len(delivered) <= Len(patch)
      /\ Delivers
      /\ done <=> Len(delivered) = Len(patch)
      /\ outer = <<>> \/ ~ done
      /\ List(win_data)
      /\ ~ WriterStopped => delivered = <<>> /\ pos = 1 /\ reader = "idle" /\ outer = <<>>
      /\ reader = "idle" => Idle
      /\ reader = "none" => done /\ (pos = Start(Now) \/ AtTail)
      /\ reader \in {"open", "frame"} => ~ done /\ Framed
      /\ reader \in {"ops", "adds"} => ~ done /\ InOps
      /\ reader = "ready" => ~ done /\ Ready
      /\ writer = "ok" /\ reader \in {"error", "panic"} => Unread
  BY DEF ReaderInv
<1>4. ReaderTypeOK'
  BY <1>1, <1>2, <1>3 DEF ReaderTypeOK
<1>5. Start(Now)' = Start(Now) /\ PayloadAt(Now)' = PayloadAt(Now)
  BY <1>1, Still
<1>13. AtTail' <=> AtTail
  BY <1>1, <1>2, <1>5 DEF AtTail, TailUnread
<1>14. Unread' <=> Unread
  BY <1>1, <1>2 DEF Unread
<1>6. ASSUME Idle PROVE Idle'
  <2>1. \A k : InNested(k) => InNested(k)'
    BY <1>1, <1>2 DEF InNested
  <2>2. CASE outer = <<>> /\ pos = Start(Now)
    BY <1>1, <1>5, <2>2 DEF Idle
  <2>4. CASE outer = <<>> /\ AtTail
    BY <1>1, <1>13, <2>4 DEF Idle
  <2>3. CASE \E k \in 1 .. NestedSections(Packed) : InNested(k) /\ pos = NestedStart(k)
    <3>1. PICK k \in 1 .. NestedSections(Packed) : InNested(k) /\ pos = NestedStart(k)
      BY <2>3
    <3>2. k \in 1 .. NestedSections(Packed') /\ InNested(k)' /\ pos' = NestedStart(k)'
      BY <1>1, <1>2, <2>1, <3>1
    <3> QED
      BY <3>2 DEF Idle
  <2> QED
    BY <1>6, <2>2, <2>3, <2>4 DEF Idle
<1>7. ASSUME Framed PROVE Framed'
  <2>1. FrameAt' = FrameAt
    BY <1>1, <1>2, <1>5 DEF FrameAt
  <2> QED
    BY <1>1, <1>2, <1>7, <2>1 DEF Framed
<1>8. Spot' = Spot
  BY <1>1, <1>2 DEF Spot, Window
<1>9. \A s, algo, base : Place(s, algo, base) => Place(s, algo, base)'
  <2>1. SUFFICES ASSUME NEW s, NEW algo, NEW base, Place(s, algo, base)
                 PROVE  Place(s, algo, base)'
    OBVIOUS
  <2> QED
    BY <1>1, <2>1, PlaceKept
<1>10. ASSUME InOps PROVE InOps'
  <2>1. PICK s, algo, base : Place(s, algo, base) /\ Partly(s, algo, base)
    BY <1>10 DEF InOps
  <2>2. Partly(s, algo, base)'
    BY <1>1, <1>8, <2>1 DEF Partly
  <2>3. Place(s, algo, base)'
    BY <1>9, <2>1
  <2> QED
    BY <2>2, <2>3 DEF InOps
<1>11. ASSUME Ready PROVE Ready'
  <2>1. PICK s, algo, base : Place(s, algo, base) /\ Wholly(s, algo, base)
    BY <1>11 DEF Ready
  <2>2. Wholly(s, algo, base)'
    BY <1>1, <1>8, <2>1 DEF Wholly
  <2>3. Place(s, algo, base)'
    BY <1>9, <2>1
  <2> QED
    BY <2>2, <2>3 DEF Ready
<1>12. /\ reader' = "idle" => Idle'
       /\ reader' = "none" => done' /\ (pos' = Start(Now)' \/ AtTail')
       /\ reader' \in {"open", "frame"} => ~ done' /\ Framed'
       /\ reader' \in {"ops", "adds"} => ~ done' /\ InOps'
       /\ reader' = "ready" => ~ done' /\ Ready'
  BY <1>1, <1>3, <1>5, <1>6, <1>7, <1>10, <1>11, <1>13
<1> QED
  BY <1>1, <1>2, <1>3, <1>4, <1>12, <1>14 DEF ReaderInv

LEMMA ReaderKeeps ==
    ASSUME WriterInv, WriterStopped, ReaderInv, ReaderStep,
           UNCHANGED <<wire, writerVars, delivered>>
    PROVE  ReaderInv'
<1>1. CASE ReadHeader
  BY <1>1, ReadHeaderKeeps
<1>2. CASE OpenFrame
  BY <1>2, OpenFrameKeeps
<1>7. CASE Inflate
  BY <1>7, InflateKeeps
<1>3. CASE ReadOp
  BY <1>3, ReadOpKeeps
<1>4. CASE CheckSize
  BY <1>4, CheckSizeKeeps
<1>5. CASE FillAdds
  BY <1>5, FillAddsKeeps
<1>6. CASE NestedReturn
  BY <1>6, NestedReturnKeeps
<1> QED
  BY <1>1, <1>2, <1>3, <1>4, <1>5, <1>6, <1>7 DEF ReaderStep

(* The inductive invariant: the writer's and the reader's place in the file, *)
(* the decoder's in the sink, and that only the end of the patch is an "ok". *)
PipelineInv ==
    /\ WriterInv /\ WriterTypeOK
    /\ ReaderInv
    /\ DecoderInv
    /\ outcome = "ok" => reader = "none" /\ ops = <<>>

LEMMA DecoderStill ==
    ASSUME DecoderInv, UNCHANGED decoderVars
    PROVE  DecoderInv'
  BY DecoderInvNext

LEMMA WriterAllStill ==
    ASSUME WriterInv, WriterTypeOK, UNCHANGED <<wire, writerVars>>
    PROVE  WriterInv' /\ WriterTypeOK'
<1>1. WriterInv'
  BY WriterStill
<1>2. WriterTypeOK'
  BY DEF WriterTypeOK, writerVars
<1> QED
  BY <1>1, <1>2

LEMMA PipelineStarts ==
    ASSUME PipelineInit
    PROVE  PipelineInv
<1>1. WriterInit /\ ReaderInit /\ DecoderInit /\ delivered = <<>>
  BY DEF PipelineInit
<1>2. WriterInv /\ ReaderInv
  BY <1>1, WriterStarts, ReaderStarts
<1>3. DecoderInv
  BY <1>1, DecoderInvInit
<1>4. outcome # "ok"
  BY <1>1 DEF DecoderInit
<1>5. WriterTypeOK
  <2>1. /\ section = 1 /\ written = 0 /\ last_addr = NoAddr /\ add_bytes_slices = <<>>
        /\ sec_data_buffer = <<>> /\ writer = "header"
    BY <1>1 DEF WriterInit
  <2>2. /\ Len(patch) \in Nat /\ Len(patch) >= 1 /\ sec_comp \in Algo
        /\ \A i \in 1 .. Len(patch) :
              patch[i].header \in SectionHeader /\ patch[i].ops \in Seq(Op)
    BY <1>2, PatchIs DEF WriterInv
  <2>3. last_addr \in [CopySrc -> Nat]
    BY <2>1 DEF NoAddr
  <2>4. section \in 1 .. Len(patch) /\ add_bytes_slices \in Seq(Byte)
    BY <2>1, <2>2
  <2> QED
    BY <2>1, <2>2, <2>3, <2>4 DEF WriterTypeOK
<1> QED
  BY <1>2, <1>3, <1>4, <1>5 DEF PipelineInv

LEMMA PipelineStep ==
    ASSUME PipelineInv, [PipelineNext]_pipelineVars
    PROVE  PipelineInv'
<1>1. /\ WriterInv /\ WriterTypeOK /\ ReaderInv /\ DecoderInv
      /\ outcome = "ok" => reader = "none" /\ ops = <<>>
  BY DEF PipelineInv
<1>2. CASE Write
  <2>1. pos = 1 /\ reader = "idle" /\ WriterNext /\ UNCHANGED <<readerVars, decoderVars, delivered>>
    BY <1>2 DEF Write
  <2>2. WriterInv'
    BY <1>1, <2>1, WriterKeeps
  <2>3. WriterTypeOK'
    BY <1>1, <2>1, <2>2, WriterTypes
  <2>4. ReaderInv'
    BY <1>1, <2>1, <2>2, WritingKeeps
  <2>5. DecoderInv'
    BY <1>1, <2>1, DecoderStill
  <2>6. outcome' = outcome /\ reader' = reader /\ ops' = ops
    BY <2>1 DEF readerVars, decoderVars
  <2> QED
    BY <1>1, <2>2, <2>3, <2>4, <2>5, <2>6 DEF PipelineInv
<1>3. CASE Read
  <2>1. Reading /\ ReaderStep /\ UNCHANGED <<wire, writerVars, decoderVars, delivered>>
    BY <1>3 DEF Read
  <2>2. WriterStopped /\ outcome = "running"
    BY <2>1 DEF Reading
  <2>3. WriterInv' /\ WriterTypeOK' /\ DecoderInv'
    BY <1>1, <2>1, WriterAllStill, DecoderStill
  <2>4. ReaderInv'
    BY <1>1, <2>1, <2>2, ReaderKeeps
  <2>5. outcome' # "ok"
    BY <2>1, <2>2 DEF decoderVars
  <2> QED
    BY <2>3, <2>4, <2>5 DEF PipelineInv
<1>4. CASE Deliver
  <2>1. /\ Reading /\ Return /\ BeginSection(op_buffer) /\ UNCHANGED <<wire, writerVars>>
        /\ delivered' = Append(delivered, [header |-> header, ops |-> op_buffer])
    BY <1>4 DEF Deliver
  <2>2. WriterStopped
    BY <2>1 DEF Reading
  <2>3. WriterInv' /\ WriterTypeOK'
    BY <1>1, <2>1, WriterAllStill
  <2>4. ReaderInv' /\ op_buffer \in Seq(Op)
    BY <1>1, <2>1, <2>2, ReturnKeeps
  <2>5. DecoderInv' /\ outcome' # "ok"
    BY <1>1, <2>1, <2>4 DEF BeginSection, DecoderInv, DecoderTypeOK, CursorAtOutputEnd
  <2> QED
    BY <2>3, <2>4, <2>5 DEF PipelineInv
<1>5. CASE DeliverError
  <2>1. /\ Reading /\ (ReadError \/ ReadPanic)
        /\ ReaderEnds(reader') /\ UNCHANGED <<wire, writerVars, delivered>>
    BY <1>5 DEF DeliverError
  <2>2. WriterStopped
    BY <2>1 DEF Reading
  <2>3. WriterInv' /\ WriterTypeOK'
    BY <1>1, <2>1, WriterAllStill
  <2>4. ReaderInv' /\ reader' \in {"error", "panic"}
    BY <1>1, <2>1, <2>2, ReadErrorKeeps
  <2>5. DecoderInv' /\ outcome' # "ok"
    BY <1>1, <2>1, <2>4 DEF ReaderEnds, DecoderInv, DecoderTypeOK, CursorAtOutputEnd
  <2> QED
    BY <2>3, <2>4, <2>5 DEF PipelineInv
<1>6. CASE DeliverNone
  <2>1. Reading /\ ReturnNone /\ ReaderEnds("ok") /\ UNCHANGED <<wire, writerVars, delivered>>
    BY <1>6 DEF DeliverNone
  <2>2. WriterStopped
    BY <2>1 DEF Reading
  <2>3. WriterInv' /\ WriterTypeOK'
    BY <1>1, <2>1, WriterAllStill
  <2>4. ReaderInv' /\ reader' = "none"
    BY <1>1, <2>1, <2>2, ReturnNoneKeeps DEF ReturnNone
  <2>5. DecoderInv' /\ ops' = <<>>
    BY <1>1, <2>1 DEF ReaderEnds, DecoderInv, DecoderTypeOK, CursorAtOutputEnd
  <2> QED
    BY <2>3, <2>4, <2>5 DEF PipelineInv
<1>7. CASE ApplyNext
  <2>1. ApplyOp /\ UNCHANGED <<wire, writerVars, readerVars, delivered>>
    BY <1>7 DEF ApplyNext
  <2>2. WriterInv' /\ WriterTypeOK'
    BY <1>1, <2>1, WriterAllStill
  <2>3. ReaderInv'
    BY <1>1, <2>1, ReaderStill
  <2>4. DecoderInv'
    BY <1>1, <2>1, DecoderInvNext DEF DecoderNext
  <2>5. outcome' # "ok"
    BY <2>1 DEF ApplyOp, ApplyAdd, ApplyRun, ApplyCopyDict, ApplyCopyOutput, Consume,
                PanicNoSource, CopyFails
  <2> QED
    BY <2>2, <2>3, <2>4, <2>5 DEF PipelineInv
<1>8. CASE UNCHANGED pipelineVars
  <2>1. UNCHANGED <<wire, writerVars, readerVars, decoderVars, delivered>>
    BY <1>8 DEF pipelineVars
  <2>2. WriterInv' /\ WriterTypeOK' /\ ReaderInv' /\ DecoderInv'
    BY <1>1, <2>1, WriterAllStill, ReaderStill, DecoderStill
  <2>3. outcome' = outcome /\ reader' = reader /\ ops' = ops
    BY <2>1 DEF readerVars, decoderVars
  <2> QED
    BY <1>1, <2>2, <2>3 DEF PipelineInv
<1> QED
  BY <1>2, <1>3, <1>4, <1>5, <1>6, <1>7, <1>8 DEF PipelineNext

-----------------------------------------------------------------------------
(* The pipeline's state always has its types. *)
THEOREM PipelineTypeCorrect == PipelineSpec => []PipelineTypeOK
<1>1. PipelineInit => PipelineInv
  BY PipelineStarts
<1>2. PipelineInv /\ [PipelineNext]_pipelineVars => PipelineInv'
  BY PipelineStep
<1>3. PipelineInv => PipelineTypeOK
  BY DEF PipelineInv, ReaderInv, DecoderInv, PipelineTypeOK
<1> QED
  BY <1>1, <1>2, <1>3, PTL DEF PipelineSpec

(* Whatever a caller writes and however the file is cut short, every section *)
(* that is read has the operations that were written, or none where the     *)
(* header the caller gave says that there are none (write_op_addtl and      *)
(* read_op, in both layouts and under every compression).                   *)
THEOREM ReadsCorrect == PipelineSpec => []ReadsWhatWasWritten
<1>1. PipelineInit => PipelineInv
  BY PipelineStarts
<1>2. PipelineInv /\ [PipelineNext]_pipelineVars => PipelineInv'
  BY PipelineStep
<1>3. PipelineInv => ReadsWhatWasWritten
  <2>1. SUFFICES ASSUME PipelineInv, NEW i \in 1 .. Len(delivered)
                 PROVE  delivered[i].ops = Told(patch[i])
    BY DEF ReadsWhatWasWritten
  <2>2. PatchInv /\ Delivers /\ List(delivered) /\ Len(delivered) <= Len(patch)
    BY <2>1 DEF PipelineInv, WriterInv, ReaderInv
  <2>3. i \in 1 .. Len(patch)
    BY <2>2, PatchIs, ListLen
  <2>4. Heard[i].ops = Told(patch[i])
    BY <2>2, <2>3, PatchIs
  <2> QED
    BY <2>2, <2>4 DEF Delivers
<1> QED
  BY <1>1, <1>2, <1>3, PTL DEF PipelineSpec

(* What the writer accepts, the reader reads: of any sections, operations and *)
(* headers (write_section_header, write_ops; read_section_header, read_ops);  *)
(* but a brotli section without operations it never gets past (into_inner).   *)
THEOREM AcceptedCorrect == PipelineSpec => []AcceptedIsReadable
<1>1. PipelineInit => PipelineInv
  BY PipelineStarts
<1>2. PipelineInv /\ [PipelineNext]_pipelineVars => PipelineInv'
  BY PipelineStep
<1>3. PipelineInv => AcceptedIsReadable
  <2> SUFFICES ASSUME PipelineInv PROVE AcceptedIsReadable
    OBVIOUS
  <2>1. WriterInv /\ ReaderInv /\ PatchInv /\ Delivers
    BY DEF PipelineInv, WriterInv, ReaderInv
  <2>2. ASSUME writer = "ok", reader \in {"error", "panic"}
        PROVE  /\ sec_comp = 3 /\ reader = "error"
               /\ Len(delivered) < Len(patch) /\ patch[Len(delivered) + 1].ops = <<>>
    <3>1. WriterStopped
      BY <2>2 DEF WriterStopped
    <3>2. sec_comp = 3 /\ reader = "error" /\ ~ done /\ AtHand.ops = <<>>
      BY <2>1, <2>2 DEF ReaderInv, Unread
    <3>3. /\ WireCut /\ Now \in 1 .. Len(patch) /\ Len(patch) \in Nat
          /\ Len(delivered) \in Nat
      BY <2>1, <3>1, <3>2, ReadingIs
    <3>4. Sound(patch[Now])
      BY <2>2, <3>3 DEF WireCut
    <3>5. patch[Now].ops = <<>>
      BY <2>1, <3>2, <3>3, <3>4, HandIs
    <3>6. Now = Len(delivered) + 1
      BY DEF Now
    <3>7. Len(delivered) < Len(patch)
      BY <3>3, <3>6
    <3> QED
      BY <3>2, <3>5, <3>6, <3>7
  <2>3. \A i \in 1 .. Len(delivered) : sec_comp = 3 => delivered[i].ops # <<>>
    BY <2>1 DEF Delivers
  <2> QED
    BY <2>2, <2>3 DEF AcceptedIsReadable
<1> QED
  BY <1>1, <1>2, <1>3, PTL DEF PipelineSpec

(* Where the reader of a whole patch ends, and that no operation is lost on *)
(* the way but those of a last section that the writer gave up on.          *)
LEMMA EndIs ==
    ASSUME PatchInv, WireCut, done, Now = Len(patch) + 1, pos = Start(Now) \/ AtTail,
           pos \in 1 .. Len(wire) + 1
    PROVE  /\ writer = "truncated" \/ pos # Len(wire) + 1 => TailUnread
           /\ \A i \in 1 .. Len(patch) : Len(wire) < PayloadAt(i) => i = Len(patch)
<1> DEFINE n == Len(patch)
           L == Len(wire)
           whole == Len(File[n])
           start == Start(n + 1)
           last == PayloadAt(n)
           pay == Len(Payload(Heard[n]))
<1>1. n \in Nat /\ n >= 1 /\ n \in 1 .. n /\ n \in 0 .. n
  BY PatchIs
<1>2. L \in Nat /\ L <= whole /\ (writer = "truncated" => L < whole)
  BY ListLen DEF WireCut
<1>3. whole \in Nat /\ start = whole + 1 /\ start = last + pay /\ last \in Nat
      /\ Start(n) \in Nat /\ Start(n) < last
  BY <1>1, FileIs
<1>4. pay \in Nat /\ (sec_comp = 2 => pay = 2)
  <2>1. Formed(Heard[n])
    BY <1>1, PatchIs
  <2> QED
    BY <2>1, PayloadIs
<1>5. Start(Now) = start
  BY DEF Start
<1>6. pos = start \/ (AtTail /\ pos = start - 1)
  BY <1>5 DEF AtTail
<1>7. AtTail => TailUnread /\ sec_comp = 2
  BY DEF AtTail, TailUnread
<1>8. ASSUME NEW i \in 1 .. n, L < PayloadAt(i), i # n PROVE FALSE
  <2> DEFINE p == PayloadAt(i)
             next == Start(i + 1)
             here == Start(n)
  <2>1. p \in Nat /\ next = p + Len(Payload(Heard[i])) /\ next = Len(File[i]) + 1
    BY FileIs
  <2>2. Len(Payload(Heard[i])) \in Nat
    BY PatchIs, PayloadIs
  <2>3. i \in 0 .. n /\ n - 1 \in 0 .. n /\ i <= n - 1
    BY <1>1, <1>8
  <2>4. Len(File[i]) <= Len(File[n - 1]) /\ Len(File[i]) \in Nat /\ Len(File[n - 1]) \in Nat
    BY <2>3, FileIs
  <2>5. here = Len(File[n - 1]) + 1
    BY DEF Start
  <2>6. here \in Nat /\ here < last
    BY <1>3
  <2>7. L < p
    BY <1>8
  <2> DEFINE a == Len(Payload(Heard[i]))
             b == Len(File[i])
             c == Len(File[n - 1])
  <2> HIDE DEF p, next, here, a, b, c, n, L, whole, start, last, pay
  <2>8. p <= here
    BY <2>1, <2>2, <2>4, <2>5 DEF a, b, c
  <2>9. L < here /\ L + 1 < last
    BY <1>2, <1>3, <2>1, <2>6, <2>7, <2>8
  <2>10. pos <= L + 1
    BY <1>2 DEF L
  <2>11. pos >= last
    <3>1. CASE pos = start
      BY <1>3, <1>4, <3>1
    <3>2. CASE AtTail /\ pos = start - 1
      BY <1>3, <1>4, <1>7, <3>2
    <3> QED
      BY <1>6, <3>1, <3>2
  <2>12. pos \in Nat
    BY <1>2 DEF L
  <2> QED
    BY <1>2, <1>3, <2>9, <2>10, <2>11, <2>12
<1>9. pos <= L + 1 /\ pos \in Nat
  BY <1>2
<1> HIDE DEF n, L, whole, start, last, pay
<1>10. ASSUME writer = "truncated" \/ pos # L + 1, ~ TailUnread PROVE FALSE
  <2>1. pos = start
    BY <1>6, <1>7, <1>10
  <2>2. L = whole
    BY <1>2, <1>3, <1>9, <2>1
  <2> QED
    BY <1>2, <1>3, <1>10, <2>1, <2>2
<1>11. writer = "truncated" \/ pos # Len(wire) + 1 => TailUnread
  BY <1>10 DEF L
<1>12. \A i \in 1 .. Len(patch) : Len(wire) < PayloadAt(i) => i = Len(patch)
  BY <1>8 DEF n, L
<1> QED
  BY <1>11, <1>12

(* A file that lost its end, or that the writer gave up on, is never        *)
(* applied as if it were whole: but for the rest of a zstd frame that holds *)
(* nothing, and for the operations that a last, refused header denies       *)
(* (next_borrowed, apply_patch, write_ops).                                 *)
THEOREM TruncationCorrect == PipelineSpec => []NoSilentTruncation
<1>1. PipelineInit => PipelineInv
  BY PipelineStarts
<1>2. PipelineInv /\ [PipelineNext]_pipelineVars => PipelineInv'
  BY PipelineStep
<1>3. PipelineInv => NoSilentTruncation
  <2>1. SUFFICES ASSUME PipelineInv, outcome = "ok"
                 PROVE  /\ Len(delivered) = Len(patch)
                        /\ writer = "truncated" \/ pos # Len(wire) + 1 => TailUnread
                        /\ (\E i \in 1 .. Len(patch) : delivered[i].ops # patch[i].ops) =>
                              /\ writer \in {"error", "panic"}
                              /\ SaysNothing(patch[Len(patch)].header)
    BY DEF NoSilentTruncation
  <2>2. WriterInv /\ ReaderInv /\ reader = "none"
    BY <2>1 DEF PipelineInv
  <2>3. /\ WriterStopped /\ done /\ (pos = Start(Now) \/ AtTail)
        /\ Len(delivered) = Len(patch) /\ ReaderTypeOK /\ Delivers
    BY <2>2 DEF ReaderInv
  <2>4. PatchInv /\ WireCut
    BY <2>2, <2>3 DEF WriterInv
  <2>5. Now = Len(patch) + 1 /\ pos \in 1 .. Len(wire) + 1
    BY <2>3 DEF Now, ReaderTypeOK
  <2>6. /\ writer = "truncated" \/ pos # Len(wire) + 1 => TailUnread
        /\ \A i \in 1 .. Len(patch) : Len(wire) < PayloadAt(i) => i = Len(patch)
    BY <2>3, <2>4, <2>5, EndIs
  <2>7. ASSUME NEW i \in 1 .. Len(patch), delivered[i].ops # patch[i].ops
        PROVE  writer \in {"error", "panic"} /\ SaysNothing(patch[Len(patch)].header)
    <3>1. Heard[i].ops # patch[i].ops /\ Heard[i].ops = Told(patch[i])
      BY <2>3, <2>4, <2>7, PatchIs DEF Delivers
    <3>2. SaysNothing(patch[i].header)
      BY <3>1 DEF Told
    <3>3. ~ Fits(patch[i])
      BY <2>4, <3>1, PatchIs
    <3>4. Len(wire) < PayloadAt(i)
      BY <2>4, <3>3 DEF WireCut
    <3>5. i = Len(patch)
      BY <2>6, <3>4
    <3>6. writer \notin {"ok", "truncated"}
      BY <2>4, <3>3 DEF WireCut, Sound
    <3>7. writer \in {"error", "panic"}
      BY <2>3, <3>6 DEF WriterStopped
    <3> QED
      BY <3>2, <3>5, <3>7
  <2> QED
    BY <2>3, <2>6, <2>7
<1> QED
  BY <1>1, <1>2, <1>3, PTL DEF PipelineSpec

-----------------------------------------------------------------------------
(* All operations of the patch as its headers tell of them, one section's   *)
(* after another's.                                                         *)
OpLists == [i \in 1 .. Len(patch) |-> Heard[i].ops]
AllOps == Together(OpLists)[Len(patch)]
Given(n) == Len(Together(OpLists)[n])

LEMMA AllOpsAre ==
    ASSUME PatchInv
    PROVE  /\ AreLists(OpLists) /\ List(OpLists) /\ Len(OpLists) = Len(patch)
           /\ \A i \in 1 .. Len(patch) : OpLists[i] = Heard[i].ops
           /\ List(AllOps) /\ Len(AllOps) \in Nat /\ Given(Len(patch)) = Len(AllOps)
           /\ Given(0) = 0
           /\ \A n \in 0 .. Len(patch) : Given(n) \in Nat /\ Given(n) <= Len(AllOps)
           /\ \A n \in 1 .. Len(patch) : /\ Given(n) = Given(n - 1) + Len(Heard[n].ops)
                                         /\ PartAt(AllOps, Given(n - 1) + 1, Heard[n].ops)
<1> DEFINE n == Len(patch)
           L == OpLists
<1>1. n \in Nat /\ \A i \in 1 .. n : Heard[i].ops \in Seq(Op)
  BY PatchIs
<1>2. List(L) /\ Len(L) = n /\ \A i \in 1 .. n : L[i] = Heard[i].ops
  <2>1. DOMAIN L = 1 .. n /\ L = [i \in 1 .. n |-> L[i]] /\ \A i \in 1 .. n : L[i] = Heard[i].ops
    BY DEF OpLists
  <2> HIDE DEF L, n
  <2>2. List(L) /\ Len(L) = n
    BY <1>1, <2>1, ListOf
  <2> QED
    BY <2>1, <2>2
<1>3. \A i \in 1 .. n : List(L[i]) /\ Len(L[i]) \in Nat
  BY <1>1, <1>2, ListIs
<1>4. AreLists(L)
  BY <1>1, <1>2, <1>3 DEF AreLists
<1> HIDE DEF L
<1>5. /\ \A k \in 0 .. n : List(Together(L)[k]) /\ Len(Together(L)[k]) \in Nat
      /\ Len(Together(L)[0]) = 0
      /\ \A k \in 1 .. n : Len(Together(L)[k]) = Len(Together(L)[k - 1]) + Len(L[k])
  BY <1>2, <1>4, JoinedLists
<1>6. n \in 0 .. n
  BY <1>1
<1>7. \A k \in 0 .. n : Len(Together(L)[k]) <= Len(Together(L)[n])
  <2>1. \A k \in 0 .. n : k <= n /\ k \in 0 .. Len(L) /\ n \in 0 .. Len(L)
    BY <1>1, <1>2
  <2> QED
    BY <1>4, <2>1, JoinedGrows
<1>8. \A k \in 1 .. n : PartAt(Together(L)[n], 1 + Len(Together(L)[k - 1]), L[k])
  <2>1. PartAt(Together(L)[n], 1, Together(L)[Len(L)])
    BY <1>2, <1>5, <1>6, AtSelf
  <2> QED
    BY <1>2, <1>4, <2>1, AtJoinedOne
<1>9. \A k \in 1 .. n : 1 + Len(Together(L)[k - 1]) = Given(k - 1) + 1
  <2>1. \A k \in 1 .. n : Len(Together(L)[k - 1]) \in Nat
    <3>1. \A k \in 1 .. n : k - 1 \in 0 .. n
      BY <1>1
    <3> QED
      BY <1>5, <3>1
  <2> QED
    BY <2>1 DEF Given, L
<1>10. \A k \in 1 .. n : PartAt(AllOps, Given(k - 1) + 1, Heard[k].ops)
  BY <1>2, <1>8, <1>9 DEF AllOps, L
<1>11. \A k \in 1 .. n : Given(k) = Given(k - 1) + Len(Heard[k].ops)
  BY <1>2, <1>5 DEF Given, L
<1>12. \A k \in 0 .. n : Given(k) \in Nat /\ Given(k) <= Len(AllOps)
  BY <1>5, <1>7 DEF Given, AllOps, L
<1>13. List(AllOps) /\ Len(AllOps) \in Nat /\ Given(n) = Len(AllOps) /\ Given(0) = 0
  BY <1>5, <1>6 DEF Given, AllOps, L
<1> QED
  BY <1>2, <1>4, <1>10, <1>11, <1>12, <1>13 DEF L

LEMMA ReplayIs ==
    ASSUME PatchInv
    PROVE  Replay(Heard) = OutputAfter(AllOps, Src, <<>>)[Len(AllOps)]
<1>1. AreLists(OpLists) /\ List(OpLists) /\ Len(OpLists) = Len(patch)
  BY AllOpsAre
<1>2. FlattenSeq(OpLists) = AllOps
  BY <1>1, FlattenIs DEF AllOps
<1>3. Len(Heard) = Len(patch)
  BY PatchIs DEF Heard
<1>4. OpLists = [i \in 1 .. Len(Heard) |-> Heard[i].ops]
  BY <1>3 DEF OpLists
<1> QED
  BY <1>2, <1>4 DEF Replay

(* Applying an operation puts to the output what it means. *)
LEMMA ApplyPuts ==
    ASSUME DecoderInv, CopiesStayInOutput, ApplyOp
    PROVE  \/ /\ ops # <<>> /\ ops' = Tail(ops) /\ outcome' # "ok"
              /\ SubSeq(sink, 1, cur_o_pos)' = Put(Head(ops), Src, SubSeq(sink, 1, cur_o_pos))
           \/ UNCHANGED <<ops, sink, cur_o_pos>> /\ outcome' # "ok"
<1> DEFINE out == SubSeq(sink, 1, cur_o_pos)
           op == Head(ops)
<1>a. ops # <<>> => op \in Op
  BY HeadIsOp DEF DecoderInv
<1>b. out \in Seq(Byte) /\ Len(out) = cur_o_pos /\ cur_o_pos \in 0 .. Len(sink)
  BY SubSeqProperties DEF DecoderInv, DecoderTypeOK, CursorAtOutputEnd
<1>c. Consume => ops # <<>> /\ ops' = Tail(ops) /\ outcome' # "ok"
  BY DEF Consume
<1>1. CASE ApplyAdd
  <2>1. Consume /\ Meaning(op, Src, out) = op.bytes
    BY <1>1 DEF ApplyAdd, Meaning
  <2> QED
    BY <1>1, <1>c, <2>1, ApplyAddStep DEF Put
<1>2. CASE ApplyRun
  <2>1. Consume /\ is_run(op)
    BY <1>2 DEF ApplyRun
  <2>2. Meaning(op, Src, out) = [i \in 1 .. op.len |-> op.byte]
    BY <2>1 DEF Meaning, is_add, is_run
  <2> QED
    BY <1>2, <1>c, <2>1, <2>2, ApplyRunStep DEF Put
<1>3. CASE ApplyCopyDict
  <2>1. Consume /\ is_copy_from(op, "Dict")
    BY <1>3 DEF ApplyCopyDict
  <2>2. Meaning(op, Src, out) = Slice(op, Src)
    BY <2>1 DEF Meaning, CopiedFrom, is_add, is_run, is_copy, is_copy_from, Slice
  <2> QED
    BY <1>3, <1>c, <2>1, <2>2, ApplyCopyDictStep DEF Put
<1>4. CASE ApplyCopyOutput
  <2>1. Consume /\ is_copy_from(op, "Output") /\ Reaches(op, sink)
    BY <1>4 DEF ApplyCopyOutput
  <2>2. op.addr \in Nat /\ op.len \in Nat
    BY <2>1, <1>a, OpCases DEF Consume, is_copy_from
  <2>3. op.len = 0 \/ op.addr + op.len <= cur_o_pos
    BY <2>1, <1>b DEF CopiesStayInOutput, Consume, Reaches
  <2>4. Slice(op, sink) = SubSeq(out, op.addr + 1, op.addr + op.len)
    <3>1. CASE op.len = 0
      <4>1. op.addr + 1 \in Int /\ op.addr + op.len \in Int /\ op.addr + op.len < op.addr + 1
        BY <2>2, <3>1
      <4> QED
        BY <4>1, SubSeqEmpty DEF Slice
    <3>2. CASE op.addr + op.len <= cur_o_pos
      BY <2>2, <3>2, <1>b, SliceOfPrefix DEF Slice, DecoderInv, DecoderTypeOK
    <3> QED
      BY <2>3, <3>1, <3>2
  <2>5. Meaning(op, Src, out) = Slice(op, sink)
    BY <2>1, <2>4 DEF Meaning, CopiedFrom, is_add, is_run, is_copy, is_copy_from
  <2> QED
    BY <1>4, <1>c, <2>1, <2>5, ApplyCopyOutputStep DEF Put
<1>5. CASE PanicNoSource \/ CopyFails
  BY <1>5 DEF PanicNoSource, CopyFails
<1> QED
  BY <1>1, <1>2, <1>3, <1>4, <1>5 DEF ApplyOp

(* The output is what the first operations of the patch mean, and the ones  *)
(* after those, up to the last section that was read, are still to apply.   *)
Applied(m) ==
    /\ m \in 0 .. Len(AllOps)
    /\ SubSeq(sink, 1, cur_o_pos) = OutputAfter(AllOps, Src, <<>>)[m]
    /\ m + Len(ops) = Given(Len(delivered))
    /\ PartAt(AllOps, m + 1, ops)
OutputInv == \E m : Applied(m)

LEMMA OutputStarts ==
    ASSUME PipelineInit
    PROVE  OutputInv
<1>1. /\ PatchInv /\ delivered = <<>> /\ ops = <<>> /\ cur_o_pos = 0
  BY DEF PipelineInit, WriterInit, DecoderInit, PatchInv
<1>2. SubSeq(sink, 1, cur_o_pos) = <<>>
  BY <1>1, SubSeqEmpty
<1>3. Len(AllOps) \in Nat /\ Given(0) = 0
  BY <1>1, AllOpsAre
<1>4. OutputAfter(AllOps, Src, <<>>)[0] = <<>>
  BY <1>3, OutputAfterIs
<1>5. Len(<<>>) = 0
  BY ListEmpty
<1>6. PartAt(AllOps, 0 + 1, ops)
  BY <1>1, <1>5 DEF PartAt
<1>7. 0 \in 0 .. Len(AllOps) /\ 0 + Len(ops) = Given(Len(delivered))
  BY <1>1, <1>3, <1>5
<1>8. Applied(0)
  BY <1>2, <1>4, <1>6, <1>7 DEF Applied
<1> QED
  BY <1>8 DEF OutputInv

LEMMA OutputStill ==
    ASSUME OutputInv, UNCHANGED <<patch, sec_comp, delivered, ops, sink, cur_o_pos>>
    PROVE  OutputInv'
<1>1. AllOps' = AllOps /\ Given(Len(delivered))' = Given(Len(delivered))
  BY DEF AllOps, Given, OpLists, Heard
<1>2. PICK m : Applied(m)
  BY DEF OutputInv
<1>3. Applied(m)'
  BY <1>1, <1>2 DEF Applied
<1> QED
  BY <1>3 DEF OutputInv

LEMMA OutputDelivers ==
    ASSUME PipelineInv, OutputInv, Deliver
    PROVE  OutputInv'
<1>1. /\ WriterStopped /\ Return /\ ops = <<>> /\ ops' = op_buffer
      /\ UNCHANGED <<patch, sec_comp, wire, writerVars, sink, cur_o_pos>>
      /\ delivered' = Append(delivered, [header |-> header, ops |-> op_buffer])
  BY DEF Deliver, Reading, BeginSection, writerVars
<1>2. WriterInv /\ ReaderInv /\ PatchInv /\ List(delivered)
  BY DEF PipelineInv, WriterInv, ReaderInv
<1>3. ReaderInv' /\ op_buffer \in Seq(Op)
  BY <1>1, <1>2, ReturnKeeps
<1> DEFINE n == Len(delivered)
           x == [header |-> header, ops |-> op_buffer]
<1>4. Len(delivered') = n + 1 /\ delivered'[n + 1] = x /\ n \in Nat
  <2>1. delivered' = Append(delivered, x)
    BY <1>1
  <2> HIDE DEF x
  <2> QED
    BY <1>2, <2>1, ListAppend, ListLen
<1>5. n + 1 \in 1 .. Len(patch) /\ (n + 1) - 1 = n /\ Len(patch) \in Nat
  <2>1. Len(delivered') <= Len(patch) /\ Len(patch) \in Nat
    BY <1>1, <1>2, <1>3, PatchIs DEF ReaderInv
  <2> QED
    BY <1>4, <2>1
<1>6. ops' = Heard[n + 1].ops
  <2>1. n + 1 \in 1 .. Len(delivered')
    BY <1>4
  <2>2. delivered'[n + 1].ops = Heard'[n + 1].ops
    BY <1>3, <2>1 DEF ReaderInv, Delivers
  <2>4. Heard' = Heard
    BY <1>1, PatchKept
  <2>3. x.ops = op_buffer
    OBVIOUS
  <2> HIDE DEF x
  <2> QED
    BY <1>1, <1>4, <2>2, <2>3, <2>4
<1>7. AllOps' = AllOps /\ \A k : Given(k)' = Given(k)
  BY <1>1 DEF AllOps, Given, OpLists, Heard
<1>8. PICK m : Applied(m)
  BY DEF OutputInv
<1>9. /\ Given(n + 1) = Given(n) + Len(Heard[n + 1].ops)
      /\ PartAt(AllOps, Given(n) + 1, Heard[n + 1].ops)
      /\ Given(n) \in Nat
  <2>1. n \in 0 .. Len(patch)
    BY <1>4, <1>5
  <2> QED
    BY <1>2, <1>5, <2>1, AllOpsAre
<1>10. m = Given(n)
  <2>1. m + Len(ops) = Given(n) /\ m \in 0 .. Len(AllOps) /\ Len(ops) = 0
    BY <1>1, <1>8, ListEmpty DEF Applied
  <2>2. Len(AllOps) \in Nat
    BY <1>2, AllOpsAre
  <2> QED
    BY <2>1, <2>2
<1>11. Applied(m)'
  <2>1. Given(Len(delivered))' = Given(n + 1)
    BY <1>4, <1>7 DEF Given
  <2>2. m + Len(ops') = Given(Len(delivered))' /\ PartAt(AllOps', m + 1, ops')
    BY <1>6, <1>7, <1>9, <1>10, <2>1
  <2> QED
    BY <1>1, <1>7, <1>8, <2>2 DEF Applied
<1> QED
  BY <1>11 DEF OutputInv

LEMMA OutputApplies ==
    ASSUME PipelineInv, OutputInv, CopiesStayInOutput, ApplyNext
    PROVE  OutputInv'
<1>1. ApplyOp /\ UNCHANGED <<wire, writerVars, readerVars, delivered>>
  BY DEF ApplyNext
<1>2. UNCHANGED <<patch, sec_comp, delivered>>
  BY <1>1 DEF writerVars
<1>3. DecoderInv /\ PatchInv /\ ReaderInv
  BY DEF PipelineInv, WriterInv
<1>4. CASE UNCHANGED <<ops, sink, cur_o_pos>>
  BY <1>2, <1>4, OutputStill
<1>5. CASE /\ ops # <<>> /\ ops' = Tail(ops)
           /\ SubSeq(sink, 1, cur_o_pos)' = Put(Head(ops), Src, SubSeq(sink, 1, cur_o_pos))
  <2>1. PICK m : Applied(m)
    BY DEF OutputInv
  <2> DEFINE given == Given(Len(delivered))
             all == Len(AllOps)
             left == Len(ops)
  <2>2. /\ m \in 0 .. all
        /\ SubSeq(sink, 1, cur_o_pos) = OutputAfter(AllOps, Src, <<>>)[m]
        /\ m + left = given /\ PartAt(AllOps, m + 1, ops)
    BY <2>1 DEF Applied
  <2>3. /\ all \in Nat /\ given \in Nat /\ given <= all
    <3>1. Len(delivered) \in 0 .. Len(patch)
      <4>1. Len(delivered) \in Nat /\ Len(delivered) <= Len(patch) /\ Len(patch) \in Nat
        BY <1>3, ListLen, PatchIs DEF ReaderInv
      <4> QED
        BY <4>1
    <3> QED
      BY <1>3, <3>1, AllOpsAre
  <2>4. /\ left \in Nat /\ left > 0 /\ Head(ops) = ops[1] /\ Len(Tail(ops)) = left - 1
        /\ \A i \in 1 .. left - 1 : Tail(ops)[i] = ops[i + 1]
    <3>1. ops \in Seq(Op)
      BY <1>3 DEF DecoderInv, DecoderTypeOK
    <3> QED
      BY <1>5, <3>1
  <2> HIDE DEF given, all, left
  <2>5. m + 1 \in 0 .. all /\ m + 1 \in 1 .. all /\ (m + 1) - 1 = m /\ m \in Nat
        /\ (m + 1) + (left - 1) = given
    BY <2>2, <2>3, <2>4
  <2>6. AllOps[m + 1] = Head(ops)
    <3>1. 1 \in 1 .. left /\ (m + 1) + 1 - 1 <= all /\ (m + 1) + 1 - 1 = m + 1
      BY <2>4, <2>5
    <3> QED
      BY <2>2, <2>4, <3>1 DEF PartAt, all, left
  <2>7. OutputAfter(AllOps, Src, <<>>)[m + 1]
          = Put(AllOps[m + 1], Src, OutputAfter(AllOps, Src, <<>>)[m])
    BY <2>3, <2>5, OutputAfterIs DEF all
  <2>8. PartAt(AllOps, (m + 1) + 1, Tail(ops))
    <3>1. SUFFICES ASSUME NEW i \in 1 .. left - 1, (m + 1) + 1 + i - 1 <= all
                   PROVE  AllOps[(m + 1) + 1 + i - 1] = Tail(ops)[i]
      BY <2>4 DEF PartAt, all
    <3>2. i + 1 \in 1 .. left /\ (m + 1) + 1 + i - 1 = (m + 1) + (i + 1) - 1
      BY <2>4, <2>5
    <3>3. AllOps[(m + 1) + (i + 1) - 1] = ops[i + 1]
      BY <2>2, <3>1, <3>2 DEF PartAt, all, left
    <3> QED
      BY <2>4, <3>2, <3>3
  <2>9. AllOps' = AllOps /\ Given(Len(delivered))' = Given(Len(delivered))
    BY <1>2 DEF AllOps, Given, OpLists, Heard
  <2>10. PICK k : k = m + 1
    OBVIOUS
  <2>11. /\ k \in 0 .. Len(AllOps)
         /\ k + Len(Tail(ops)) = Given(Len(delivered))
         /\ PartAt(AllOps, k + 1, Tail(ops))
    BY <2>4, <2>5, <2>8, <2>10 DEF all, given
  <2>12. SubSeq(sink, 1, cur_o_pos)' = OutputAfter(AllOps, Src, <<>>)[k]
    BY <1>5, <2>2, <2>6, <2>7, <2>10
  <2>13. Applied(k)'
    BY <1>5, <2>9, <2>11, <2>12 DEF Applied
  <2> QED
    BY <2>13 DEF OutputInv
<1> QED
  BY <1>1, <1>3, <1>4, <1>5, ApplyPuts

LEMMA OutputStep ==
    ASSUME PipelineInv, OutputInv, CopiesStayInOutput, [PipelineNext]_pipelineVars
    PROVE  OutputInv'
<1>1. CASE Write
  <2>1. WriterNext /\ UNCHANGED <<readerVars, decoderVars, delivered>>
    BY <1>1 DEF Write
  <2>2. UNCHANGED <<patch, sec_comp>>
    BY <2>1 DEF WriterNext, WriteHeader, WriteHeaderPanics, WriteOp, FinishOps, Truncate
  <2> QED
    BY <2>1, <2>2, OutputStill DEF decoderVars
<1>2. CASE Read
  BY <1>2, OutputStill DEF Read, decoderVars, writerVars
<1>3. CASE Deliver
  BY <1>3, OutputDelivers
<1>4. CASE DeliverError
  BY <1>4, OutputStill DEF DeliverError, ReaderEnds, writerVars
<1>5. CASE DeliverNone
  BY <1>5, OutputStill DEF DeliverNone, ReaderEnds, writerVars
<1>6. CASE ApplyNext
  BY <1>6, OutputApplies
<1>7. CASE UNCHANGED pipelineVars
  BY <1>7, OutputStill DEF pipelineVars, writerVars, decoderVars
<1> QED
  BY <1>1, <1>2, <1>3, <1>4, <1>5, <1>6, <1>7 DEF PipelineNext

(* The output of a patch that was applied without an error is what the      *)
(* operations mean that were written, for every patch, compression and cut  *)
(* into sections; a sink that held bytes is used with copies that stay in   *)
(* the output (write_ops to apply_ops).                                     *)
THEOREM OutputCorrect ==
    PipelineSpec /\ []CopiesStayInOutput => []OutputIsMeaning
<1>1. PipelineInit => PipelineInv /\ OutputInv
  BY PipelineStarts, OutputStarts
<1>2. PipelineInv /\ OutputInv /\ CopiesStayInOutput /\ [PipelineNext]_pipelineVars
        => PipelineInv' /\ OutputInv'
  BY PipelineStep, OutputStep
<1>3. PipelineInv /\ OutputInv => OutputIsMeaning
  <2>1. SUFFICES ASSUME PipelineInv, OutputInv, outcome = "ok"
                 PROVE  SubSeq(sink, 1, cur_o_pos) = Replay(Heard)
    BY DEF OutputIsMeaning
  <2>2. /\ PatchInv /\ ReaderInv /\ reader = "none" /\ ops = <<>>
    BY <2>1 DEF PipelineInv, WriterInv
  <2>3. Len(delivered) = Len(patch)
    BY <2>2 DEF ReaderInv
  <2>4. PICK m : Applied(m)
    BY <2>1 DEF OutputInv
  <2>5. m = Len(AllOps)
    <3>1. m \in 0 .. Len(AllOps) /\ m + Len(ops) = Given(Len(delivered)) /\ Len(ops) = 0
      BY <2>2, <2>4, ListEmpty DEF Applied
    <3>2. Len(AllOps) \in Nat /\ Given(Len(patch)) = Len(AllOps)
      BY <2>2, AllOpsAre
    <3> QED
      BY <2>3, <3>1, <3>2
  <2>6. SubSeq(sink, 1, cur_o_pos) = OutputAfter(AllOps, Src, <<>>)[m]
    BY <2>4 DEF Applied
  <2> QED
    BY <2>2, <2>5, <2>6, ReplayIs
<1> QED
  BY <1>1, <1>2, <1>3, PTL DEF PipelineSpec
=============================================================================
