------------------------------- MODULE Lemmas -------------------------------
(***************************************************************************)
(* What the proofs of several components share.  A recursive function is   *)
(* defined by CHOOSE, and says nothing until some function is shown to     *)
(* satisfy its equation.  That, and what it computes, is proved here by    *)
(* induction on sets of numbers, as the facts that follow from a least     *)
(* element of every non-empty set.                                         *)
(***************************************************************************)
EXTENDS PlacedOps, SequenceTheorems, WellFoundedInduction, TLAPS

(* Each place of an interval has a function on S. *)
RunsUp(f, x, G, a, b, S) ==
    /\ f \in [a .. b -> S]
    /\ a <= b => f[a] = x
    /\ \A p \in a + 1 .. b : f[p] = G[p][f[p - 1]]
RunsDown(f, x, G, a, b, S) ==
    /\ f \in [a .. b -> S]
    /\ a <= b => f[b] = x
    /\ \A p \in a .. b - 1 : f[p] = G[p][f[p + 1]]
StaysIn(G, a, b, S) == \A p \in a .. b, v \in S : G[p][v] \in S

(* Every non-empty set of numbers has a least one. *)
LEMMA LeastElement ==
    ASSUME NEW T, T \subseteq Nat, T # {}
    PROVE  \E m \in T : \A n \in T : m <= n
<1> DEFINE R == OpToRel(<, Nat)
<1>1. IsWellFoundedOn(R, Nat)
  BY NatLessThanWellFounded
<1>2. \A x, y \in Nat : x < y => <<x, y>> \in R
  BY DEF OpToRel
<1> HIDE DEF R
<1>3. PICK x \in T : \A y \in T : ~ (<<y, x>> \in R)
  BY <1>1, WFMin
<1>4. ASSUME NEW y \in T PROVE x <= y
  <2>1. ~ (y < x)
    BY <1>2, <1>3
  <2>2. x \in Nat /\ y \in Nat
    OBVIOUS
  <2> QED
    BY <2>1, <2>2
<1> QED
  BY <1>4

(* Induction over an interval, upwards and downwards. *)
LEMMA Upwards ==
    ASSUME NEW a \in Int, NEW b \in Int, NEW T,
           a <= b => a \in T,
           \A p \in a + 1 .. b : p - 1 \in T => p \in T
    PROVE  a .. b \subseteq T
<1> DEFINE W == {n \in Nat : a + n <= b /\ a + n \notin T}
<1> SUFFICES ASSUME W # {} PROVE FALSE
  <2>1. ASSUME NEW p \in a .. b, p \notin T PROVE p - a \in W
    <3>1. p - a \in Nat /\ a + (p - a) = p
      OBVIOUS
    <3> QED
      BY <2>1, <3>1
  <2> QED
    BY <2>1
<1>1. PICK m \in W : \A n \in W : m <= n
  <2>1. W \subseteq Nat
    OBVIOUS
  <2> HIDE DEF W
  <2> QED
    BY <2>1, LeastElement
<1>2. m \in Nat /\ a + m <= b /\ a + m \notin T
  OBVIOUS
<1>3. m # 0
  <2>1. a + 0 = a
    OBVIOUS
  <2> QED
    BY <1>2, <2>1
<1>4. m - 1 \notin W /\ m - 1 \in Nat
  <2> HIDE DEF W
  <2> QED
    BY <1>1, <1>2, <1>3
<1>5. a + (m - 1) \in T
  BY <1>2, <1>4
<1>6. a + m \in a + 1 .. b /\ (a + m) - 1 = a + (m - 1)
  BY <1>2, <1>3
<1> QED
  BY <1>2, <1>5, <1>6

(* The same downwards. *)
LEMMA Downwards ==
    ASSUME NEW a \in Int, NEW b \in Int, NEW T,
           a <= b => b \in T,
           \A p \in a .. b - 1 : p + 1 \in T => p \in T
    PROVE  a .. b \subseteq T
<1> DEFINE W == {p \in a .. b : a + b - p \in T}
<1>1. a <= b => a \in W
  <2>1. a + b - a = b
    OBVIOUS
  <2> QED
    BY <2>1
<1>2. ASSUME NEW p \in a + 1 .. b, p - 1 \in W PROVE p \in W
  <2>1. a + b - p \in a .. b - 1 /\ (a + b - p) + 1 = a + b - (p - 1) /\ p \in a .. b
    OBVIOUS
  <2> QED
    BY <1>2, <2>1
<1>3. a .. b \subseteq W
  <2> HIDE DEF W
  <2> QED
    BY <1>1, <1>2, Upwards
<1>4. ASSUME NEW p \in a .. b PROVE p \in T
  <2>1. a + b - p \in a .. b /\ a + b - (a + b - p) = p
    OBVIOUS
  <2> QED
    BY <1>3, <2>1
<1> QED
  BY <1>4

(* A function that is defined upwards, each value from the one before. *)
LEMMA DefinedUpwards ==
    ASSUME NEW a \in Int, NEW b \in Int, NEW S, NEW x \in S, NEW G,
           StaysIn(G, a + 1, b, S)
    PROVE  \E f : RunsUp(f, x, G, a, b, S)
<1> DEFINE Upto(n, f) == /\ f \in [a .. n -> S]
                         /\ f[a] = x
                         /\ \A p \in a + 1 .. n : f[p] = G[p][f[p - 1]]
           T == {n \in a .. b : \E f : Upto(n, f)}
<1>1. ASSUME a <= b PROVE a \in T
  <2> DEFINE f == [p \in a .. a |-> x]
  <2>1. f \in [a .. a -> S] /\ f[a] = x /\ a + 1 .. a = {}
    OBVIOUS
  <2> HIDE DEF f
  <2>2. Upto(a, f)
    BY <2>1
  <2>3. a \in a .. b
    BY <1>1
  <2> QED
    BY <2>2, <2>3
<1>2. ASSUME NEW q \in a + 1 .. b, q - 1 \in T PROVE q \in T
  <2>1. PICK f : Upto(q - 1, f)
    BY <1>2
  <2> DEFINE h == [p \in a .. q |-> IF p = q THEN G[q][f[q - 1]] ELSE f[p]]
  <2>2. q \in a .. b /\ q \in a .. q /\ q - 1 \in a .. q - 1 /\ a \in a .. q - 1 /\ q # a
    OBVIOUS
  <2>3. f[q - 1] \in S
    BY <2>1, <2>2
  <2>4. G[q][f[q - 1]] \in S
    BY <2>3 DEF StaysIn
  <2>5. \A p \in a .. q : p # q => p \in a .. q - 1
    OBVIOUS
  <2>6. \A p \in a .. q - 1 : f[p] \in S
    BY <2>1
  <2>7. h \in [a .. q -> S]
    BY <2>4, <2>5, <2>6
  <2>8. h[q] = G[q][f[q - 1]]
    BY <2>2
  <2>9. \A p \in a .. q - 1 : h[p] = f[p]
    <3>1. \A p \in a .. q - 1 : p \in a .. q /\ p # q
      OBVIOUS
    <3> QED
      BY <3>1
  <2> HIDE DEF h
  <2>10. ASSUME NEW p \in a + 1 .. q PROVE h[p] = G[p][h[p - 1]]
    <3>1. p - 1 \in a .. q - 1
      OBVIOUS
    <3>2. CASE p = q
      BY <3>1, <3>2, <2>8, <2>9
    <3>3. CASE p # q
      <4>1. p \in a + 1 .. q - 1 /\ p \in a .. q - 1
        BY <3>3
      <4> QED
        BY <2>1, <3>1, <4>1, <2>9
    <3> QED
      BY <3>2, <3>3
  <2>11. h[a] = x
    BY <2>1, <2>2, <2>9
  <2>12. Upto(q, h)
    BY <2>7, <2>10, <2>11
  <2> QED
    BY <2>2, <2>12
<1>3. a .. b \subseteq T
  <2> HIDE DEF T
  <2> QED
    BY <1>1, <1>2, Upwards
<1>4. CASE a <= b
  <2>1. b \in T
    <3> HIDE DEF T
    <3> QED
      BY <1>3, <1>4
  <2> QED
    BY <2>1 DEF RunsUp
<1>5. CASE ~ (a <= b)
  <2> DEFINE f == [p \in a .. b |-> x]
  <2>1. f \in [a .. b -> S] /\ a + 1 .. b = {}
    BY <1>5
  <2> HIDE DEF f
  <2> QED
    BY <1>5, <2>1 DEF RunsUp
<1> QED
  BY <1>4, <1>5

(* The same downwards. *)
LEMMA DefinedDownwards ==
    ASSUME NEW a \in Int, NEW b \in Int, NEW S, NEW x \in S, NEW G,
           StaysIn(G, a, b - 1, S)
    PROVE  \E f : RunsDown(f, x, G, a, b, S)
<1> DEFINE K == [p \in a .. b |-> G[a + b - p]]
<1>1. \A p \in a .. b : a + b - p \in a .. b
  OBVIOUS
<1>2. \A p \in a .. b : K[p] = G[a + b - p]
  OBVIOUS
<1> HIDE DEF K
<1>3. StaysIn(K, a + 1, b, S)
  <2>1. \A p \in a + 1 .. b : a + b - p \in a .. b - 1 /\ p \in a .. b
    OBVIOUS
  <2> QED
    BY <1>2, <2>1 DEF StaysIn
<1>4. PICK g : RunsUp(g, x, K, a, b, S)
  BY <1>3, DefinedUpwards
<1> DEFINE f == [p \in a .. b |-> g[a + b - p]]
<1>5. f \in [a .. b -> S] /\ \A p \in a .. b : f[p] = g[a + b - p]
  BY <1>1, <1>4 DEF RunsUp
<1> HIDE DEF f
<1>6. ASSUME NEW p \in a .. b - 1 PROVE f[p] = G[p][f[p + 1]]
  <2> DEFINE q == a + b - p
  <2>1. q \in a + 1 .. b /\ q \in a .. b /\ a + b - q = p /\ p \in a .. b
    OBVIOUS
  <2>2. p + 1 \in a .. b /\ a + b - (p + 1) = q - 1
    OBVIOUS
  <2>3. f[p] = g[q] /\ f[p + 1] = g[q - 1]
    BY <1>5, <2>1, <2>2
  <2>4. K[q] = G[p]
    BY <1>2, <2>1
  <2> HIDE DEF q
  <2> QED
    BY <1>4, <2>1, <2>3, <2>4 DEF RunsUp
<1>7. ASSUME a <= b PROVE f[b] = x
  <2>1. b \in a .. b /\ a + b - b = a
    BY <1>7
  <2> QED
    BY <1>4, <1>5, <1>7, <2>1 DEF RunsUp
<1>8. RunsDown(f, x, G, a, b, S)
  BY <1>5, <1>6, <1>7 DEF RunsDown
<1> QED
  BY <1>8

(* Only one function is defined upwards so, *)
LEMMA UpwardsUnique ==
    ASSUME NEW a \in Int, NEW b \in Int, NEW c \in Int, NEW S, NEW x, NEW G, NEW f, NEW g,
           a <= b, b <= c, RunsUp(f, x, G, a, b, S), RunsUp(g, x, G, a, c, S)
    PROVE  \A p \in a .. b : f[p] = g[p]
<1> DEFINE T == {p \in a .. b : f[p] = g[p]}
<1>1. a \in T
  BY DEF RunsUp
<1>2. ASSUME NEW p \in a + 1 .. b, p - 1 \in T PROVE p \in T
  <2>1. p \in a + 1 .. c /\ p \in a .. b
    OBVIOUS
  <2> QED
    BY <1>2, <2>1 DEF RunsUp
<1>3. a .. b \subseteq T
  <2> HIDE DEF T
  <2> QED
    BY <1>1, <1>2, Upwards
<1> QED
  BY <1>3

(* so that one is defined on all numbers. *)
RunsOn(f, x, G, S) ==
    /\ f \in [Nat -> S]
    /\ f[0] = x
    /\ \A n \in Nat : f[n + 1] = G[n + 1][f[n]]

(* A function on all numbers, each value defined from the one before: its  *)
(* parts up to each number agree.                                          *)
LEMMA DefinedOnNat ==
    ASSUME NEW S, NEW x \in S, NEW G, \A n \in Nat : StaysIn(G, 1, n, S)
    PROVE  \E f : RunsOn(f, x, G, S)
<1> DEFINE part(n) == CHOOSE f : RunsUp(f, x, G, 0, n, S)
           f == [n \in Nat |-> part(n)[n]]
<1>1. \A n \in Nat : RunsUp(part(n), x, G, 0, n, S)
  <2> SUFFICES ASSUME NEW n \in Nat PROVE \E g : RunsUp(g, x, G, 0, n, S)
    OBVIOUS
  <2>1. StaysIn(G, 0 + 1, n, S) /\ 0 \in Int /\ n \in Int
    OBVIOUS
  <2> QED
    BY <2>1, DefinedUpwards
<1> HIDE DEF part
<1>2. \A n \in Nat : f[n] = part(n)[n]
  OBVIOUS
<1>3. \A n \in Nat : part(n)[n] \in S
  <2> SUFFICES ASSUME NEW n \in Nat PROVE part(n)[n] \in S
    OBVIOUS
  <2>1. part(n) \in [0 .. n -> S] /\ n \in 0 .. n
    BY <1>1 DEF RunsUp
  <2> QED
    BY <2>1
<1>4. f \in [Nat -> S]
  BY <1>3
<1>5. f[0] = x
  <2>1. 0 \in Nat /\ 0 <= 0
    OBVIOUS
  <2>2. part(0)[0] = x
    BY <1>1, <2>1 DEF RunsUp
  <2> QED
    BY <1>2, <2>1, <2>2
<1>6. ASSUME NEW n \in Nat PROVE f[n + 1] = G[n + 1][f[n]]
  <2>1. n + 1 \in Nat /\ n + 1 \in 0 + 1 .. n + 1 /\ (n + 1) - 1 = n
    OBVIOUS
  <2>2. part(n + 1)[n + 1] = G[n + 1][part(n + 1)[n]]
    <3>1. RunsUp(part(n + 1), x, G, 0, n + 1, S)
      BY <1>1, <2>1
    <3> QED
      BY <2>1, <3>1 DEF RunsUp
  <2>3. part(n)[n] = part(n + 1)[n]
    <3>1. RunsUp(part(n + 1), x, G, 0, n + 1, S) /\ RunsUp(part(n), x, G, 0, n, S)
      BY <1>1, <2>1
    <3>2. 0 \in Int /\ n \in Int /\ n + 1 \in Int /\ 0 <= n /\ n <= n + 1 /\ n \in 0 .. n
      OBVIOUS
    <3>3. \A p \in 0 .. n : part(n)[p] = part(n + 1)[p]
      BY <3>1, <3>2, UpwardsUnique
    <3> QED
      BY <3>2, <3>3
  <2> QED
    BY <1>2, <2>1, <2>2, <2>3
<1> HIDE DEF f
<1>7. RunsOn(f, x, G, S)
  BY <1>4, <1>5, <1>6 DEF RunsOn
<1> QED
  BY <1>7

-----------------------------------------------------------------------------
(* What is added up is what its equation says. *)
LEMMA RunningSumIs ==
    ASSUME NEW last \in Nat, NEW size, \A n \in 1 .. last : size[n] \in Nat
    PROVE  /\ RunningSum(size, last) \in [0 .. last -> Nat]
           /\ RunningSum(size, last)[0] = 0
           /\ \A n \in 1 .. last :
                 RunningSum(size, last)[n] = RunningSum(size, last)[n - 1] + size[n]
<1> DEFINE Eq(f) == f = [n \in 0 .. last |-> IF n = 0 THEN 0 ELSE f[n - 1] + size[n]]
           G == [n \in 1 .. last |-> [v \in Nat |-> v + size[n]]]
<1>1. \A n \in 1 .. last, v \in Nat : G[n][v] = v + size[n] /\ v + size[n] \in Nat
  OBVIOUS
<1> HIDE DEF G
<1>2. StaysIn(G, 0 + 1, last, Nat)
  BY <1>1 DEF StaysIn
<1>3. PICK f : RunsUp(f, 0, G, 0, last, Nat)
  BY <1>2, DefinedUpwards
<1>4. /\ f \in [0 .. last -> Nat] /\ f[0] = 0
      /\ \A n \in 1 .. last : f[n] = f[n - 1] + size[n]
  <2>1. f \in [0 .. last -> Nat] /\ f[0] = 0
    BY <1>3 DEF RunsUp
  <2>2. ASSUME NEW n \in 1 .. last PROVE f[n] = f[n - 1] + size[n]
    <3>1. n \in 0 + 1 .. last /\ n - 1 \in 0 .. last
      OBVIOUS
    <3>2. f[n] = G[n][f[n - 1]] /\ f[n - 1] \in Nat
      BY <1>3, <2>1, <3>1 DEF RunsUp
    <3> QED
      BY <1>1, <3>2
  <2> QED
    BY <2>1, <2>2
<1>5. Eq(f)
  <2>1. \A n \in 0 .. last : n # 0 => n \in 1 .. last
    OBVIOUS
  <2> QED
    BY <1>4, <2>1
<1>6. Eq(CHOOSE g : Eq(g))
  <2> HIDE DEF Eq
  <2> QED
    BY <1>5
<1>7. RunningSum(size, last) = CHOOSE g : Eq(g)
  BY DEF RunningSum
<1> DEFINE S == RunningSum(size, last)
<1>8. Eq(S)
  BY <1>6, <1>7
<1> HIDE DEF S
<1>9. S[0] = 0 /\ \A n \in 1 .. last : S[n] = S[n - 1] + size[n]
  <2>1. 0 \in 0 .. last /\ \A n \in 1 .. last : n \in 0 .. last /\ n # 0
    OBVIOUS
  <2> QED
    BY <1>8, <2>1
<1>10. \A n \in 0 .. last : S[n] \in Nat
  <2> DEFINE T == {n \in 0 .. last : S[n] \in Nat}
  <2>1. 0 \in T
    BY <1>9
  <2>2. ASSUME NEW n \in 0 + 1 .. last, n - 1 \in T PROVE n \in T
    <3>1. n \in 1 .. last /\ n \in 0 .. last /\ S[n - 1] \in Nat
      BY <2>2
    <3> QED
      BY <1>9, <3>1
  <2>3. 0 .. last \subseteq T
    <3> HIDE DEF T
    <3> QED
      BY <2>1, <2>2, Upwards
  <2> QED
    BY <2>3
<1>11. S = [n \in 0 .. last |-> S[n]]
  BY <1>8
<1>12. S \in [0 .. last -> Nat]
  BY <1>10, <1>11
<1> QED
  BY <1>9, <1>12 DEF S

(* What two lists begin with adds up to the same. *)
LEMMA RunningSumPrefix ==
    ASSUME NEW m \in Nat, NEW last \in Nat, m <= last, NEW size, NEW more,
           \A n \in 1 .. last : more[n] \in Nat, \A n \in 1 .. m : size[n] = more[n]
    PROVE  \A n \in 0 .. m : RunningSum(size, m)[n] = RunningSum(more, last)[n]
<1> DEFINE S == RunningSum(size, m)
           M == RunningSum(more, last)
<1>1. \A n \in 1 .. m : n \in 1 .. last /\ size[n] \in Nat
  OBVIOUS
<1>2. S[0] = 0 /\ \A n \in 1 .. m : S[n] = S[n - 1] + size[n]
  BY <1>1, RunningSumIs
<1>3. M[0] = 0 /\ \A n \in 1 .. last : M[n] = M[n - 1] + more[n]
  BY RunningSumIs
<1> HIDE DEF S, M
<1> DEFINE T == {n \in 0 .. m : S[n] = M[n]}
<1>4. 0 \in T
  BY <1>2, <1>3
<1>5. ASSUME NEW n \in 0 + 1 .. m, n - 1 \in T PROVE n \in T
  <2>1. n \in 1 .. m /\ n \in 1 .. last /\ S[n - 1] = M[n - 1] /\ n \in 0 .. m
    BY <1>1, <1>5
  <2> QED
    BY <1>2, <1>3, <2>1
<1>6. 0 .. m \subseteq T
  <2> HIDE DEF T
  <2> QED
    BY <1>4, <1>5, Upwards
<1> QED
  BY <1>6 DEF S, M

-----------------------------------------------------------------------------
(* Lists of placed operations. *)
(* The next operation of a list begins where the last one ends. *)
LEMMA RowAppend ==
    ASSUME NEW list \in Seq(SparseOp), NEW s \in SparseOp, NEW from,
           Row(list, from, s.at)
    PROVE  Row(Append(list, s), from, EndOf(s))
<1> DEFINE more == Append(list, s)
<1>1. Len(more) = Len(list) + 1 /\ Len(list) \in Nat
  OBVIOUS
<1>2. more[Len(list) + 1] = s /\ \A k \in 1 .. Len(list) : more[k] = list[k]
  OBVIOUS
<1>3. more # <<>>
  OBVIOUS
<1>4. \A k \in 1 .. Len(more) : more[k].at = IF k = 1 THEN from ELSE EndOf(more[k - 1])
  <2> SUFFICES ASSUME NEW k \in 1 .. Len(more)
               PROVE  more[k].at = IF k = 1 THEN from ELSE EndOf(more[k - 1])
    OBVIOUS
  <2>1. CASE k \in 1 .. Len(list)
    <3>1. more[k] = list[k] /\ (k # 1 => k - 1 \in 1 .. Len(list))
      BY <2>1, <1>2
    <3>2. k # 1 => more[k - 1] = list[k - 1]
      BY <3>1, <1>2
    <3> QED
      BY <2>1, <3>1, <3>2 DEF Row
  <2>2. CASE k = Len(list) + 1 /\ list = <<>>
    BY <2>2, <1>2 DEF Row
  <2>3. CASE k = Len(list) + 1 /\ list # <<>>
    <3>1. Len(list) \in 1 .. Len(list) /\ k # 1 /\ k - 1 = Len(list)
      BY <2>3, <1>1
    <3>2. more[k - 1] = list[Len(list)]
      BY <3>1, <1>2
    <3> QED
      BY <2>3, <3>1, <3>2, <1>2 DEF Row
  <2> QED
    BY <2>1, <2>2, <2>3, <1>1
<1> QED
  BY <1>1, <1>2, <1>3, <1>4 DEF Row

(* One number more adds to the sum. *)
LEMMA RunningSumMore ==
    ASSUME NEW m \in Nat, NEW size, NEW more, \A n \in 1 .. m : size[n] = more[n],
           \A n \in 1 .. m + 1 : more[n] \in Nat
    PROVE  /\ RunningSum(size, m)[m] \in Nat
           /\ RunningSum(more, m + 1)[m + 1] = RunningSum(size, m)[m] + more[m + 1]
<1> DEFINE S == RunningSum(size, m)
           M == RunningSum(more, m + 1)
<1>1. m + 1 \in Nat /\ m <= m + 1 /\ m \in 0 .. m /\ m + 1 \in 1 .. m + 1 /\ (m + 1) - 1 = m
        /\ m \in 0 .. m + 1
  OBVIOUS
<1>2. M[m + 1] = M[(m + 1) - 1] + more[m + 1] /\ M \in [0 .. m + 1 -> Nat]
  BY <1>1, RunningSumIs
<1>3. S[m] = M[m]
  BY <1>1, RunningSumPrefix
<1> HIDE DEF S, M
<1>4. M[m] \in Nat
  BY <1>1, <1>2
<1>5. S[m] \in Nat /\ M[m + 1] = S[m] + more[m + 1]
  BY <1>1, <1>2, <1>3, <1>4
<1> QED
  BY <1>5 DEF S, M

-----------------------------------------------------------------------------
(* Sequences of whatever elements. *)
List(s) == s \in Seq({s[i] : i \in 1 .. Len(s)})

LEMMA ListIs ==
    ASSUME NEW S, NEW s \in Seq(S)
    PROVE  List(s) /\ Len(s) \in Nat
<1> DEFINE T == {s[i] : i \in 1 .. Len(s)}
<1>1. Len(s) \in Nat /\ s = [i \in 1 .. Len(s) |-> s[i]]
  OBVIOUS
<1>2. \A i \in 1 .. Len(s) : s[i] \in T
  OBVIOUS
<1> HIDE DEF T
<1>3. s \in [1 .. Len(s) -> T]
  BY <1>1, <1>2
<1>4. s \in Seq(T)
  BY <1>1, <1>3
<1> QED
  BY <1>1, <1>4 DEF List, T

(* Lists of a common kind. *)
LEMMA Common ==
    ASSUME NEW s, NEW t, List(s), List(t)
    PROVE  \E S : s \in Seq(S) /\ t \in Seq(S)
<1> DEFINE A == {s[i] : i \in 1 .. Len(s)}
           B == {t[i] : i \in 1 .. Len(t)}
<1>1. s \in Seq(A) /\ t \in Seq(B)
  BY DEF List
<1> HIDE DEF A, B
<1>2. s \in Seq(A \cup B) /\ t \in Seq(A \cup B)
  BY <1>1
<1> QED
  BY <1>2

LEMMA ListLen == ASSUME NEW s, List(s) PROVE Len(s) \in Nat
  BY DEF List

LEMMA ListFun ==
    ASSUME NEW s, List(s)
    PROVE  s = [i \in 1 .. Len(s) |-> s[i]]
<1> DEFINE T == {s[i] : i \in 1 .. Len(s)}
<1>1. s \in Seq(T)
  BY DEF List
<1> HIDE DEF T
<1> QED
  BY <1>1

LEMMA ListEqual ==
    ASSUME NEW s, NEW t, List(s), List(t), Len(s) = Len(t),
           \A i \in 1 .. Len(s) : s[i] = t[i]
    PROVE  s = t
<1>1. PICK S : s \in Seq(S) /\ t \in Seq(S)
  BY Common
<1> QED
  BY <1>1, SeqEqual

LEMMA ListConcat ==
    ASSUME NEW s, NEW t, List(s), List(t)
    PROVE  /\ List(s \o t) /\ Len(s \o t) = Len(s) + Len(t)
           /\ \A i \in 1 .. Len(s) : (s \o t)[i] = s[i]
           /\ \A i \in 1 .. Len(t) : (s \o t)[Len(s) + i] = t[i]
<1>1. PICK S : s \in Seq(S) /\ t \in Seq(S)
  BY Common
<1>2. Len(s) \in Nat /\ Len(t) \in Nat
  BY ListLen
<1>3. /\ s \o t \in Seq(S) /\ Len(s \o t) = Len(s) + Len(t)
      /\ \A i \in 1 .. Len(s) + Len(t) :
            (s \o t)[i] = IF i <= Len(s) THEN s[i] ELSE t[i - Len(s)]
  BY <1>1, ConcatProperties
<1>4. List(s \o t)
  BY <1>3, ListIs
<1> DEFINE u == s \o t
<1> HIDE DEF u
<1>5. ASSUME NEW i \in 1 .. Len(s) PROVE u[i] = s[i]
  <2>1. i \in 1 .. Len(s) + Len(t) /\ i <= Len(s)
    BY <1>2
  <2> QED
    BY <1>3, <2>1 DEF u
<1>6. ASSUME NEW i \in 1 .. Len(t) PROVE u[Len(s) + i] = t[i]
  <2>1. Len(s) + i \in 1 .. Len(s) + Len(t) /\ ~ (Len(s) + i <= Len(s)) /\ (Len(s) + i) - Len(s) = i
    BY <1>2
  <2> QED
    BY <1>3, <2>1 DEF u
<1> QED
  BY <1>3, <1>4, <1>5, <1>6 DEF u

LEMMA ListAssoc ==
    ASSUME NEW s, NEW t, NEW u, List(s), List(t), List(u)
    PROVE  (s \o t) \o u = s \o (t \o u)
<1> DEFINE A == {s[i] : i \in 1 .. Len(s)}
           B == {t[i] : i \in 1 .. Len(t)}
           C == {u[i] : i \in 1 .. Len(u)}
           S == A \cup B \cup C
<1>1. s \in Seq(A) /\ t \in Seq(B) /\ u \in Seq(C)
  BY DEF List
<1> HIDE DEF A, B, C
<1>2. s \in Seq(S) /\ t \in Seq(S) /\ u \in Seq(S)
  BY <1>1
<1> HIDE DEF S
<1> QED
  BY <1>2, ConcatAssociative

LEMMA ListEmpty ==
    /\ List(<<>>) /\ Len(<<>>) = 0
    /\ \A s : List(s) => s \o <<>> = s /\ <<>> \o s = s /\ (Len(s) = 0 => s = <<>>)
<1>1. <<>> \in Seq({}) /\ Len(<<>>) = 0
  OBVIOUS
<1>2. List(<<>>)
  BY <1>1, ListIs
<1>3. ASSUME NEW s, List(s) PROVE s \o <<>> = s /\ <<>> \o s = s
  BY <1>3, ConcatEmptySeq DEF List
<1>4. ASSUME NEW s, List(s), Len(s) = 0 PROVE s = <<>>
  BY <1>1, <1>2, <1>4, ListEqual
<1> QED
  BY <1>1, <1>2, <1>3, <1>4

(* A list given element by element. *)
LEMMA ListOf ==
    ASSUME NEW n \in Nat, NEW f, DOMAIN f = 1 .. n, f = [i \in 1 .. n |-> f[i]]
    PROVE  List(f) /\ Len(f) = n
<1> DEFINE T == {f[i] : i \in 1 .. n}
<1>1. f \in [1 .. n -> T]
  OBVIOUS
<1> HIDE DEF T
<1>2. f \in Seq(T)
  BY <1>1
<1>3. Len(f) = n
  BY <1>2
<1> QED
  BY <1>2, <1>3, ListIs

LEMMA ListOne ==
    ASSUME NEW x PROVE List(<<x>>) /\ Len(<<x>>) = 1 /\ <<x>>[1] = x
<1>1. <<x>> \in Seq({x}) /\ Len(<<x>>) = 1 /\ <<x>>[1] = x
  OBVIOUS
<1> QED
  BY <1>1, ListIs

LEMMA ListAppend ==
    ASSUME NEW s, NEW x, List(s)
    PROVE  /\ List(Append(s, x)) /\ Len(Append(s, x)) = Len(s) + 1
           /\ \A i \in 1 .. Len(s) : Append(s, x)[i] = s[i]
           /\ Append(s, x)[Len(s) + 1] = x
<1> DEFINE S == {s[i] : i \in 1 .. Len(s)} \cup {x}
           t == Append(s, x)
<1>1. s \in Seq(S) /\ x \in S
  BY DEF List
<1> HIDE DEF S
<1>2. Len(s) \in Nat
  BY <1>1
<1>3. t \in Seq(S) /\ Len(t) = Len(s) + 1
  BY <1>1
<1>4. (\A i \in 1 .. Len(s) : t[i] = s[i]) /\ t[Len(s) + 1] = x
  BY <1>1, <1>2, AppendProperties
<1> QED
  BY <1>3, <1>4, ListIs

LEMMA ListSub ==
    ASSUME NEW s, List(s), NEW m \in 1 .. Len(s) + 1, NEW n \in m - 1 .. Len(s)
    PROVE  /\ List(SubSeq(s, m, n)) /\ Len(SubSeq(s, m, n)) = n - m + 1
           /\ \A i \in 1 .. n - m + 1 : SubSeq(s, m, n)[i] = s[m + i - 1]
<1> DEFINE S == {s[i] : i \in 1 .. Len(s)}
           t == SubSeq(s, m, n)
<1>1. s \in Seq(S) /\ Len(s) \in Nat
  BY ListLen DEF List
<1> HIDE DEF S
<1>2. m \in Int /\ n \in Int /\ \A i \in m .. n : s[i] \in S
  BY <1>1
<1>3. /\ t \in Seq(S) /\ Len(t) = (IF m <= n THEN n - m + 1 ELSE 0)
      /\ \A i \in 1 .. n - m + 1 : t[i] = s[m + i - 1]
  BY <1>2, SubSeqProperties
<1>4. Len(t) = n - m + 1
  BY <1>1, <1>3
<1> HIDE DEF t
<1> QED
  BY <1>3, <1>4, ListIs DEF t

-----------------------------------------------------------------------------
(* A function that a recursion defines, each value from the one before. *)
StepsOn(f, x, G, n, S) ==
    f \in [0 .. n -> S] /\ f[0] = x /\ \A k \in 1 .. n : f[k] = G[k][f[k - 1]]

LEMMA Recursion ==
    ASSUME NEW n \in Nat, NEW S, NEW x \in S, NEW G, StaysIn(G, 1, n, S)
    PROVE  \E f : StepsOn(f, x, G, n, S)
<1>1. StaysIn(G, 0 + 1, n, S) /\ 0 \in Int /\ n \in Int /\ 0 <= n
  OBVIOUS
<1>2. PICK f : RunsUp(f, x, G, 0, n, S)
  BY <1>1, DefinedUpwards
<1>3. f \in [0 .. n -> S] /\ f[0] = x
  BY <1>1, <1>2 DEF RunsUp
<1>4. \A k \in 1 .. n : f[k] = G[k][f[k - 1]]
  BY <1>2 DEF RunsUp
<1> QED
  BY <1>3, <1>4 DEF StepsOn

(* What holds first, and of each that follows one of which it holds. *)
LEMMA UpFrom0 ==
    ASSUME NEW n \in Nat, NEW T, 0 \in T, \A k \in 1 .. n : k - 1 \in T => k \in T
    PROVE  0 .. n \subseteq T
<1>1. 0 \in Int /\ n \in Int /\ \A k \in 0 + 1 .. n : k - 1 \in T => k \in T
  OBVIOUS
<1> QED
  BY <1>1, Upwards

(* What the first n of some sequences make, put one after another. *)
Together(items) ==
    LET joined[n \in 0 .. Len(items)] == IF n = 0 THEN <<>> ELSE joined[n - 1] \o items[n]
    IN joined

AreLists(items) == Len(items) \in Nat /\ \A k \in 1 .. Len(items) : List(items[k])

LEMMA TogetherIs ==
    ASSUME NEW items, AreLists(items)
    PROVE  /\ Together(items)[0] = <<>>
           /\ \A k \in 1 .. Len(items) : Together(items)[k] = Together(items)[k - 1] \o items[k]
<1> DEFINE n == Len(items)
           U == UNION {{items[k][i] : i \in 1 .. Len(items[k])} : k \in 1 .. n}
           S == Seq(U)
           G == [k \in 1 .. n |-> [v \in S |-> v \o items[k]]]
           Eq(f) == f = [k \in 0 .. n |-> IF k = 0 THEN <<>> ELSE f[k - 1] \o items[k]]
<1>1. n \in Nat
  BY DEF AreLists
<1>2. ASSUME NEW k \in 1 .. n PROVE items[k] \in S
  <2> DEFINE A == {items[k][i] : i \in 1 .. Len(items[k])}
  <2>1. items[k] \in Seq(A)
    BY DEF AreLists, List
  <2>2. A \subseteq U
    OBVIOUS
  <2> HIDE DEF A, U
  <2> QED
    BY <2>1, <2>2, SeqMonotonic
<1> HIDE DEF U
<1>3. \A k \in 1 .. n, v \in S : G[k][v] = v \o items[k] /\ G[k][v] \in S
  BY <1>2
<1>4. <<>> \in S
  OBVIOUS
<1> HIDE DEF G, n, S
<1>5. StaysIn(G, 1, n, S)
  BY <1>3 DEF StaysIn
<1>6. PICK f : StepsOn(f, <<>>, G, n, S)
  BY <1>1, <1>4, <1>5, Recursion
<1>7. Eq(f)
  <2>0. f \in [0 .. n -> S] /\ f[0] = <<>> /\ \A k \in 1 .. n : f[k] = G[k][f[k - 1]]
    BY <1>6 DEF StepsOn
  <2>1. ASSUME NEW k \in 1 .. n PROVE f[k] = f[k - 1] \o items[k]
    <3>1. k - 1 \in 0 .. n
      BY <1>1
    <3>2. f[k - 1] \in S
      BY <2>0, <3>1
    <3> QED
      BY <1>3, <2>0, <3>2
  <2>2. \A k \in 0 .. n : k # 0 => k \in 1 .. n
    BY <1>1
  <2> QED
    BY <2>0, <2>1, <2>2
<1>8. Eq(CHOOSE g : Eq(g))
  <2> HIDE DEF Eq
  <2> QED
    BY <1>7
<1>9. Together(items) = CHOOSE g : Eq(g)
  BY DEF Together, n
<1> DEFINE J == Together(items)
<1>10. Eq(J)
  BY <1>8, <1>9
<1> HIDE DEF J
<1>11. J[0] = <<>> /\ \A k \in 1 .. n : J[k] = J[k - 1] \o items[k]
  <2>1. 0 \in 0 .. n /\ \A k \in 1 .. n : k \in 0 .. n /\ k # 0
    BY <1>1
  <2> QED
    BY <1>10, <2>1
<1> QED
  BY <1>11 DEF J, n

LEMMA JoinedLists ==
    ASSUME NEW items, AreLists(items)
    PROVE  /\ \A k \in 0 .. Len(items) : List(Together(items)[k]) /\ Len(Together(items)[k]) \in Nat
           /\ Len(Together(items)[0]) = 0
           /\ \A k \in 1 .. Len(items) :
                 Len(Together(items)[k]) = Len(Together(items)[k - 1]) + Len(items[k])
<1> DEFINE n == Len(items)
           J == Together(items)
           T == {k \in 0 .. n : List(J[k])}
<1>1. n \in Nat /\ \A k \in 1 .. n : List(items[k])
  BY DEF AreLists
<1>2. J[0] = <<>> /\ \A k \in 1 .. n : J[k] = J[k - 1] \o items[k]
  BY TogetherIs
<1> HIDE DEF n, J
<1>3. 0 .. n \subseteq T
  <2>1. 0 \in T
    BY <1>1, <1>2, ListEmpty
  <2>2. ASSUME NEW k \in 1 .. n, k - 1 \in T PROVE k \in T
    <3>1. List(J[k - 1])
      BY <2>2
    <3>3. List(items[k])
      BY <1>1
    <3>4. J[k] = J[k - 1] \o items[k]
      BY <1>2
    <3>5. k \in 0 .. n
      BY <1>1
    <3>2. List(J[k - 1] \o items[k])
      BY <3>1, <3>3, ListConcat
    <3> QED
      BY <3>2, <3>4, <3>5
  <2> HIDE DEF T
  <2> QED
    BY <1>1, <2>1, <2>2, UpFrom0
<1>4. \A k \in 0 .. n : List(J[k]) /\ Len(J[k]) \in Nat
  BY <1>3, ListLen
<1>5. ASSUME NEW k \in 1 .. n PROVE Len(J[k]) = Len(J[k - 1]) + Len(items[k])
  <2>1. k - 1 \in 0 .. n
    BY <1>1
  <2>2. List(J[k - 1]) /\ List(items[k]) /\ J[k] = J[k - 1] \o items[k]
    BY <1>1, <1>2, <1>4, <2>1
  <2>3. Len(J[k - 1] \o items[k]) = Len(J[k - 1]) + Len(items[k])
    BY <2>2, ListConcat
  <2> QED
    BY <2>2, <2>3
<1>6. Len(J[0]) = 0
  BY <1>2, ListEmpty
<1> QED
  BY <1>4, <1>5, <1>6 DEF n, J

LEMMA JoinedGrows ==
    ASSUME NEW items, AreLists(items), NEW i \in 0 .. Len(items), NEW j \in 0 .. Len(items), i <= j
    PROVE  Len(Together(items)[i]) <= Len(Together(items)[j])
<1> DEFINE n == Len(items)
           L(k) == Len(Together(items)[k])
           T == {k \in i .. n : L(i) <= L(k)}
<1>1. n \in Nat /\ i \in Int /\ n \in Int
  BY DEF AreLists
<1>2. /\ \A k \in 0 .. n : L(k) \in Nat
      /\ \A k \in 1 .. n : L(k) = L(k - 1) + Len(items[k]) /\ Len(items[k]) \in Nat
  BY JoinedLists, ListLen DEF AreLists
<1> HIDE DEF L, n
<1>3. i \in T
  BY <1>1, <1>2 DEF n
<1>4. ASSUME NEW k \in i + 1 .. n, k - 1 \in T PROVE k \in T
  <2>1. k \in 1 .. n /\ k - 1 \in 0 .. n /\ k \in i .. n /\ i \in 0 .. n
    BY <1>1 DEF n
  <2>2. L(k) = L(k - 1) + Len(items[k]) /\ Len(items[k]) \in Nat /\ L(i) <= L(k - 1)
    BY <1>2, <1>4, <2>1
  <2>3. L(i) \in Nat /\ L(k - 1) \in Nat
    BY <1>2, <2>1
  <2>4. L(i) <= L(k)
    BY <2>2, <2>3
  <2> QED
    BY <2>1, <2>4
<1>5. i .. n \subseteq T
  <2> HIDE DEF T
  <2> QED
    BY <1>1, <1>3, <1>4, Upwards
<1> QED
  BY <1>1, <1>5 DEF n, L

(* Sequences with the same parts make the same. *)
LEMMA JoinedSame ==
    ASSUME NEW items, NEW more, AreLists(items), AreLists(more), NEW n \in Nat,
           n <= Len(items), n <= Len(more), \A k \in 1 .. n : items[k] = more[k]
    PROVE  \A k \in 0 .. n : Together(items)[k] = Together(more)[k]
<1> DEFINE T == {k \in 0 .. n : Together(items)[k] = Together(more)[k]}
<1>0. Together(items)[0] = <<>> /\ Together(more)[0] = <<>>
  BY TogetherIs
<1>1. 0 \in T
  BY <1>0
<1>2. ASSUME NEW k \in 1 .. n, k - 1 \in T PROVE k \in T
  <2>1. k \in 1 .. Len(items) /\ k \in 1 .. Len(more)
    BY DEF AreLists
  <2>2. /\ Together(items)[k] = Together(items)[k - 1] \o items[k]
        /\ Together(more)[k] = Together(more)[k - 1] \o more[k]
    BY <2>1, TogetherIs
  <2>3. Together(items)[k - 1] = Together(more)[k - 1] /\ items[k] = more[k] /\ k \in 0 .. n
    BY <1>2
  <2> QED
    BY <2>2, <2>3
<1>3. 0 .. n \subseteq T
  <2> HIDE DEF T
  <2> QED
    BY <1>1, <1>2, UpFrom0
<1> QED
  BY <1>3

-----------------------------------------------------------------------------
(* The part is at that place of s, as far as s goes. *)
PartAt(s, at, part) == \A i \in 1 .. Len(part) : at + i - 1 <= Len(s) => s[at + i - 1] = part[i]

LEMMA AtConcat ==
    ASSUME NEW s, NEW at \in Int, NEW a, NEW b, List(a), List(b), PartAt(s, at, a \o b)
    PROVE  PartAt(s, at, a) /\ PartAt(s, at + Len(a), b)
<1> DEFINE c == a \o b
<1>1. Len(a) \in Nat /\ Len(b) \in Nat
  BY ListLen
<1>2. /\ Len(c) = Len(a) + Len(b)
      /\ \A i \in 1 .. Len(a) : c[i] = a[i]
      /\ \A i \in 1 .. Len(b) : c[Len(a) + i] = b[i]
  BY ListConcat
<1>3. \A i \in 1 .. Len(c) : at + i - 1 <= Len(s) => s[at + i - 1] = c[i]
  BY DEF PartAt
<1> HIDE DEF c
<1>4. PartAt(s, at, a)
  <2> SUFFICES ASSUME NEW i \in 1 .. Len(a), at + i - 1 <= Len(s) PROVE s[at + i - 1] = a[i]
    BY DEF PartAt
  <2>1. i \in 1 .. Len(c)
    BY <1>1, <1>2
  <2> QED
    BY <1>2, <1>3, <2>1
<1>5. PartAt(s, at + Len(a), b)
  <2> SUFFICES ASSUME NEW i \in 1 .. Len(b), at + Len(a) + i - 1 <= Len(s)
               PROVE  s[at + Len(a) + i - 1] = b[i]
    BY DEF PartAt
  <2>1. Len(a) + i \in 1 .. Len(c) /\ at + (Len(a) + i) - 1 = at + Len(a) + i - 1
    BY <1>1, <1>2
  <2>2. c[Len(a) + i] = b[i]
    BY <1>2
  <2> QED
    BY <1>3, <2>1, <2>2
<1> QED
  BY <1>4, <1>5

(* The other way round. *)
LEMMA AtBoth ==
    ASSUME NEW s, NEW at \in Int, NEW a, NEW b, List(a), List(b),
           PartAt(s, at, a), PartAt(s, at + Len(a), b)
    PROVE  PartAt(s, at, a \o b)
<1> DEFINE c == a \o b
<1>1. Len(a) \in Nat /\ Len(b) \in Nat
  BY ListLen
<1>2. /\ Len(c) = Len(a) + Len(b)
      /\ \A i \in 1 .. Len(a) : c[i] = a[i]
      /\ \A i \in 1 .. Len(b) : c[Len(a) + i] = b[i]
  BY ListConcat
<1> HIDE DEF c
<1> SUFFICES ASSUME NEW i \in 1 .. Len(c), at + i - 1 <= Len(s) PROVE s[at + i - 1] = c[i]
  BY DEF PartAt, c
<1>3. CASE i <= Len(a)
  <2>1. i \in 1 .. Len(a)
    BY <1>1, <1>2, <1>3
  <2> QED
    BY <1>2, <2>1 DEF PartAt
<1>4. CASE ~ (i <= Len(a))
  <2> DEFINE j == i - Len(a)
  <2>1. j \in 1 .. Len(b) /\ i = Len(a) + j /\ at + Len(a) + j - 1 = at + i - 1
    BY <1>1, <1>2, <1>4
  <2> HIDE DEF j
  <2>2. s[at + Len(a) + j - 1] = b[j]
    BY <2>1 DEF PartAt
  <2> QED
    BY <1>2, <2>1, <2>2
<1> QED
  BY <1>3, <1>4

LEMMA AtJoined ==
    ASSUME NEW items, AreLists(items), NEW s, NEW at \in Int,
           PartAt(s, at, Together(items)[Len(items)])
    PROVE  /\ \A k \in 0 .. Len(items) : PartAt(s, at, Together(items)[k])
           /\ \A k \in 1 .. Len(items) : PartAt(s, at + Len(Together(items)[k - 1]), items[k])
<1> DEFINE n == Len(items)
           J == Together(items)
           T == {k \in 0 .. n : PartAt(s, at, J[k])}
<1>1. n \in Nat /\ \A k \in 1 .. n : List(items[k])
  BY DEF AreLists
<1>2. \A k \in 1 .. n : J[k] = J[k - 1] \o items[k]
  BY TogetherIs
<1>3. \A k \in 0 .. n : List(J[k])
  BY JoinedLists
<1>4. PartAt(s, at, J[n])
  OBVIOUS
<1> HIDE DEF n, J
<1>5. ASSUME NEW k \in 1 .. n, PartAt(s, at, J[k])
      PROVE  PartAt(s, at, J[k - 1]) /\ PartAt(s, at + Len(J[k - 1]), items[k])
  <2>1. List(J[k - 1]) /\ List(items[k]) /\ J[k] = J[k - 1] \o items[k]
    <3>1. k - 1 \in 0 .. n
      BY <1>1
    <3> QED
      BY <1>1, <1>2, <1>3, <3>1
  <2>2. PartAt(s, at, J[k - 1] \o items[k])
    BY <1>5, <2>1
  <2> QED
    BY <2>1, <2>2, AtConcat
<1>6. 0 .. n \subseteq T
  <2>1. n \in T
    BY <1>1, <1>4
  <2>2. ASSUME NEW p \in 0 .. n - 1, p + 1 \in T PROVE p \in T
    <3>1. p + 1 \in 1 .. n /\ (p + 1) - 1 = p /\ p \in 0 .. n
      BY <1>1
    <3>2. PartAt(s, at, J[p + 1])
      BY <2>2
    <3>3. PartAt(s, at, J[p])
      BY <1>5, <3>1, <3>2
    <3> QED
      BY <3>1, <3>3
  <2>3. 0 \in Int /\ n \in Int
    BY <1>1
  <2> HIDE DEF T
  <2> QED
    BY <2>1, <2>2, <2>3, Downwards
<1>7. \A k \in 0 .. n : PartAt(s, at, J[k])
  BY <1>6
<1>8. \A k \in 1 .. n : PartAt(s, at + Len(J[k - 1]), items[k])
  <2>1. \A k \in 1 .. n : k \in 0 .. n
    BY <1>1
  <2> QED
    BY <1>5, <1>7, <2>1
<1> QED
  BY <1>7, <1>8 DEF n, J

LEMMA AtSelf ==
    ASSUME NEW s, List(s) PROVE PartAt(s, 1, s)
<1>1. \A i \in 1 .. Len(s) : 1 + i - 1 = i
  BY ListLen
<1> QED
  BY <1>1 DEF PartAt

LEMMA AtCut ==
    ASSUME NEW s, List(s), NEW n \in 0 .. Len(s)
    PROVE  PartAt(SubSeq(s, 1, n), 1, s)
<1> DEFINE t == SubSeq(s, 1, n)
<1>1. Len(s) \in Nat /\ 1 \in 1 .. Len(s) + 1 /\ n \in 1 - 1 .. Len(s)
  BY ListLen
<1>2. Len(t) = n - 1 + 1 /\ \A i \in 1 .. n - 1 + 1 : t[i] = s[1 + i - 1]
  BY <1>1, ListSub
<1> HIDE DEF t
<1> SUFFICES ASSUME NEW i \in 1 .. Len(s), 1 + i - 1 <= Len(t) PROVE t[1 + i - 1] = s[i]
  BY DEF PartAt, t
<1>3. i \in 1 .. n - 1 + 1 /\ 1 + i - 1 = i
  BY <1>1, <1>2
<1> QED
  BY <1>2, <1>3

=============================================================================
