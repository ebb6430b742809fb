------------------------ MODULE EncoderLoop_proofs ------------------------
(***************************************************************************)
(* Proofs about the match loop of the encoder (EncoderLoop).  Its          *)
(* invariant comes in two parts.  LoopTyped says where each variable       *)
(* stands: the numbers inside the target, the two hashes in step with the  *)
(* loop, the tables and chains behind it, the walk a match.  MatchesTrue   *)
(* says that what was found is true and in order, and rests on the first.  *)
(***************************************************************************)
EXTENDS EncoderLoop, Lemmas, SequenceTheorems

-----------------------------------------------------------------------------
(* Rolling hashes (hasher.rs): a checksum rolled on is the checksum of the *)
(* window that it reaches.                                                 *)

(* The powers of the multiplier. *)
LEMMA PowerDefined ==
    /\ Power \in [Nat -> Nat]
    /\ Power[0] = 1
    /\ \A n \in Nat : Power[n + 1] = (HASH_MULT * Power[n]) % HASH_SIZE
<1> DEFINE Eq(f) == f = [n \in Nat |-> IF n = 0 THEN 1 ELSE (HASH_MULT * f[n - 1]) % HASH_SIZE]
           G == [n \in Nat |-> [v \in Nat |-> (HASH_MULT * v) % HASH_SIZE]]
<1>1. \A v \in Nat : (HASH_MULT * v) % HASH_SIZE \in Nat
  BY HashAssumption
<1>2. \A n, v \in Nat : G[n][v] = (HASH_MULT * v) % HASH_SIZE
  OBVIOUS
<1> HIDE DEF G
<1>3. \A n \in Nat : StaysIn(G, 1, n, Nat)
  BY <1>1, <1>2 DEF StaysIn
<1>4. 1 \in Nat
  OBVIOUS
<1>5. PICK f : RunsOn(f, 1, G, Nat)
  BY <1>3, <1>4, DefinedOnNat
<1>6. Eq(f)
  <2>1. f \in [Nat -> Nat] /\ f[0] = 1
    BY <1>5 DEF RunsOn
  <2>2. ASSUME NEW n \in Nat, n # 0 PROVE f[n] = (HASH_MULT * f[n - 1]) % HASH_SIZE
    <3>1. n - 1 \in Nat /\ (n - 1) + 1 = n
      BY <2>2
    <3>2. f[n - 1] \in Nat
      BY <2>1, <3>1
    <3>3. f[n] = G[n][f[n - 1]]
      BY <1>5, <3>1 DEF RunsOn
    <3> QED
      BY <1>2, <3>2, <3>3
  <2> QED
    BY <2>1, <2>2
<1>7. Eq(CHOOSE g : Eq(g))
  <2> HIDE DEF Eq
  <2> QED
    BY <1>6
<1>8. Power = CHOOSE g : Eq(g)
  BY DEF Power
<1>9. Eq(Power)
  BY <1>7, <1>8
<1>10. Power[0] = 1
  BY <1>9
<1>11. ASSUME NEW n \in Nat PROVE Power[n + 1] = (HASH_MULT * Power[n]) % HASH_SIZE
  <2>1. n + 1 \in Nat /\ n + 1 # 0 /\ (n + 1) - 1 = n
    OBVIOUS
  <2> QED
    BY <1>9, <2>1
<1>12. Power \in [Nat -> Nat]
  <2> DEFINE T == {n \in Nat : Power[n] \in Nat}
  <2>1. 0 \in T
    BY <1>10
  <2>2. ASSUME NEW m \in Nat PROVE Power[m] \in Nat
    <3>1. ASSUME NEW p \in 0 + 1 .. m, p - 1 \in T PROVE p \in T
      <4>1. p - 1 \in Nat /\ (p - 1) + 1 = p /\ p \in Nat /\ Power[p - 1] \in Nat
        BY <3>1
      <4>2. Power[p] = (HASH_MULT * Power[p - 1]) % HASH_SIZE
        BY <1>11, <4>1
      <4> QED
        BY <1>1, <4>1, <4>2
    <3>2. 0 .. m \subseteq T
      <4> HIDE DEF T
      <4>1. 0 \in Int /\ m \in Int
        OBVIOUS
      <4> QED
        BY <2>1, <3>1, <4>1, Upwards
    <3> QED
      BY <3>2
  <2>3. Power = [n \in Nat |-> Power[n]]
    BY <1>9
  <2> QED
    BY <2>2, <2>3
<1> QED
  BY <1>10, <1>11, <1>12

(* A checksum is reduced to the hash's size (hasher.rs wraps to 32 bits). *)
LEMMA ModInHash ==
    ASSUME NEW n \in Int
    PROVE  n % HASH_SIZE \in Hash
  BY HashAssumption DEF Hash

(* The bytes that enter a checksum are numbers. *)
LEMMA ByteAtNat ==
    ASSUME NEW s \in Seq(Nat), NEW pos \in Nat
    PROVE  ByteAt(s, pos) \in Nat
<1>1. CASE pos < Len(s)
  <2>1. pos + 1 \in 1 .. Len(s)
    BY <1>1
  <2> QED
    BY <1>1, <2>1 DEF ByteAt
<1>2. CASE ~ (pos < Len(s))
  BY <1>2 DEF ByteAt
<1> QED
  BY <1>1, <1>2

(* The sums of a checksum, *)
Sums(s, pos, window) ==
    CHOOSE sum : sum = [i \in 0 .. window |->
        IF i = 0 THEN 0
        ELSE (sum[i - 1] + Power[window - i] * ByteAt(s, pos + i - 1)) % HASH_SIZE]

(* calculate_checksum is the last of its partial sums. *)
LEMMA ChecksumIsSum ==
    ASSUME NEW s, NEW pos, NEW window
    PROVE  calculate_checksum(s, pos, window) = Sums(s, pos, window)[window]
  BY DEF calculate_checksum, Sums

(* and their defining equation. *)
LEMMA SumsDefined ==
    ASSUME NEW s \in Seq(Nat), NEW pos \in Nat, NEW window \in Nat
    PROVE  /\ Sums(s, pos, window) \in [0 .. window -> Hash]
           /\ Sums(s, pos, window)[0] = 0
           /\ \A i \in 1 .. window :
                 Sums(s, pos, window)[i] =
                     (Sums(s, pos, window)[i - 1] + Power[window - i] * ByteAt(s, pos + i - 1))
                         % HASH_SIZE
<1> DEFINE term(i) == Power[window - i] * ByteAt(s, pos + i - 1)
           Eq(f) == f = [i \in 0 .. window |->
                            IF i = 0 THEN 0 ELSE (f[i - 1] + term(i)) % HASH_SIZE]
           G == [i \in 0 .. window |-> [v \in Hash |-> (v + term(i)) % HASH_SIZE]]
<1>1. ASSUME NEW i \in 1 .. window PROVE term(i) \in Int
  <2>1. window - i \in Nat /\ pos + i - 1 \in Nat
    OBVIOUS
  <2>2. Power[window - i] \in Nat /\ ByteAt(s, pos + i - 1) \in Nat
    BY <2>1, PowerDefined, ByteAtNat
  <2> QED
    BY <2>2
<1> HIDE DEF term
<1>2. \A i \in 1 .. window, v \in Hash : (v + term(i)) % HASH_SIZE \in Hash
  <2> TAKE i \in 1 .. window, v \in Hash
  <2>1. v + term(i) \in Int
    BY <1>1 DEF Hash
  <2> QED
    BY <2>1, ModInHash
<1>3. \A i \in 1 .. window, v \in Hash : G[i][v] = (v + term(i)) % HASH_SIZE
  OBVIOUS
<1> HIDE DEF G
<1>4. StaysIn(G, 0 + 1, window, Hash) /\ 0 \in Hash /\ 0 \in Int /\ window \in Int
  <2>1. StaysIn(G, 0 + 1, window, Hash)
    BY <1>2, <1>3 DEF StaysIn
  <2>2. 0 \in Hash /\ 0 \in Int /\ window \in Int
    BY HashAssumption DEF Hash
  <2> QED
    BY <2>1, <2>2
<1>5. PICK f : RunsUp(f, 0, G, 0, window, Hash)
  BY <1>4, DefinedUpwards
<1>6. /\ f \in [0 .. window -> Hash] /\ f[0] = 0
      /\ \A i \in 1 .. window : f[i] = (f[i - 1] + term(i)) % HASH_SIZE
  <2>1. f \in [0 .. window -> Hash] /\ f[0] = 0
    BY <1>5 DEF RunsUp
  <2>2. ASSUME NEW i \in 1 .. window PROVE f[i] = (f[i - 1] + term(i)) % HASH_SIZE
    <3>1. i \in 0 + 1 .. window /\ i - 1 \in 0 .. window
      OBVIOUS
    <3>2. f[i] = G[i][f[i - 1]] /\ f[i - 1] \in Hash
      BY <1>5, <2>1, <3>1 DEF RunsUp
    <3> QED
      BY <1>3, <3>2
  <2> QED
    BY <2>1, <2>2
<1>7. Eq(f)
  <2>1. \A i \in 0 .. window : i # 0 => i \in 1 .. window
    OBVIOUS
  <2> QED
    BY <1>6, <2>1
<1>8. Eq(CHOOSE g : Eq(g))
  <2> HIDE DEF Eq
  <2> QED
    BY <1>7
<1>9. Sums(s, pos, window) = CHOOSE g : Eq(g)
  BY DEF Sums, term
<1> DEFINE S == Sums(s, pos, window)
<1>10. Eq(S)
  BY <1>8, <1>9
<1> HIDE DEF S
<1>11. S[0] = 0 /\ \A i \in 1 .. window : S[i] = (S[i - 1] + term(i)) % HASH_SIZE
  <2>1. 0 \in 0 .. window /\ \A i \in 1 .. window : i \in 0 .. window /\ i # 0
    OBVIOUS
  <2> QED
    BY <1>10, <2>1
<1>12. \A i \in 0 .. window : S[i] \in Hash
  <2> DEFINE T == {i \in 0 .. window : S[i] \in Hash}
  <2>1. 0 \in T
    BY <1>4, <1>11
  <2>2. ASSUME NEW i \in 0 + 1 .. window, i - 1 \in T PROVE i \in T
    <3>1. i \in 1 .. window /\ i \in 0 .. window /\ S[i - 1] \in Hash
      BY <2>2
    <3> QED
      BY <1>2, <1>11, <3>1
  <2>3. 0 .. window \subseteq T
    <3> HIDE DEF T
    <3> QED
      BY <1>4, <2>1, <2>2, Upwards
  <2> QED
    BY <2>3
<1>13. S \in [0 .. window -> Hash]
  BY <1>10, <1>12
<1> QED
  BY <1>11, <1>13 DEF S, term

(* A checksum is a value of the hash. *)
LEMMA ChecksumInHash ==
    ASSUME NEW s \in Seq(Nat), NEW pos \in Nat, NEW window \in Nat
    PROVE  calculate_checksum(s, pos, window) \in Hash
<1>1. window \in 0 .. window
  OBVIOUS
<1>2. Sums(s, pos, window) \in [0 .. window -> Hash]
  BY SumsDefined
<1>3. Sums(s, pos, window)[window] \in Hash
  BY <1>1, <1>2
<1> QED
  BY <1>3, ChecksumIsSum

(* Equal but for a multiple of the number of hash values. *)
Cong(x, y) == \E k \in Int : x - y = k * HASH_SIZE

(* A number is congruent to its remainder. *)
LEMMA ModCong ==
    ASSUME NEW x \in Int
    PROVE  Cong(x % HASH_SIZE, x) /\ Cong(x, x % HASH_SIZE)
<1> DEFINE H == HASH_SIZE
           q == x \div H
           r == x % H
<1>1. H \in Nat /\ H > 0
  BY HashAssumption
<1> HIDE DEF H
<1>2. q \in Int /\ r \in Int /\ x = H * q + r
  BY <1>1
<1> HIDE DEF q, r
<1>3. -q \in Int /\ r - x = (-q) * H /\ x - r = q * H
  BY <1>1, <1>2
<1> QED
  BY <1>2, <1>3 DEF Cong, r, H

(* Smaller multiples than the number itself are nothing. *)
LEMMA SmallMultiple ==
    ASSUME NEW k \in Int, NEW H \in Nat, k * H < H, -H < k * H
    PROVE  k = 0
<1>1. CASE k >= 1
  <2>1. k - 1 \in Nat /\ k * H = H + (k - 1) * H
    BY <1>1
  <2>2. (k - 1) * H \in Nat
    BY <2>1
  <2> QED
    BY <2>1, <2>2
<1>2. CASE k <= -1
  <2>1. -k - 1 \in Nat /\ k * H = -H - (-k - 1) * H
    BY <1>2
  <2>2. (-k - 1) * H \in Nat
    BY <2>1
  <2> QED
    BY <2>1, <2>2
<1> QED
  BY <1>1, <1>2

(* Two hashes that are congruent are the same. *)
LEMMA CongHash ==
    ASSUME NEW x \in Hash, NEW y \in Hash, Cong(x, y)
    PROVE  x = y
<1>1. PICK k \in Int : x - y = k * HASH_SIZE
  BY DEF Cong
<1>2. HASH_SIZE \in Nat /\ x \in Nat /\ y \in Nat /\ x < HASH_SIZE /\ y < HASH_SIZE
  BY HashAssumption DEF Hash
<1>3. k * HASH_SIZE < HASH_SIZE /\ -HASH_SIZE < k * HASH_SIZE
  BY <1>1, <1>2
<1>4. k = 0
  BY <1>2, <1>3, SmallMultiple
<1>5. x - y = 0
  BY <1>1, <1>2, <1>4
<1> QED
  BY <1>2, <1>5

(* Congruence is symmetric, *)
LEMMA CongSym ==
    ASSUME NEW x \in Int, NEW y \in Int, Cong(x, y)
    PROVE  Cong(y, x)
<1>1. PICK k \in Int : x - y = k * HASH_SIZE
  BY DEF Cong
<1>2. -k \in Int /\ y - x = (-k) * HASH_SIZE
  BY <1>1, HashAssumption
<1> QED
  BY <1>2 DEF Cong

(* transitive, *)
LEMMA CongTrans ==
    ASSUME NEW x \in Int, NEW y \in Int, NEW z \in Int, Cong(x, y), Cong(y, z)
    PROVE  Cong(x, z)
<1>1. PICK k \in Int : x - y = k * HASH_SIZE
  BY DEF Cong
<1>2. PICK l \in Int : y - z = l * HASH_SIZE
  BY DEF Cong
<1>3. k + l \in Int /\ x - z = (k + l) * HASH_SIZE
  BY <1>1, <1>2, HashAssumption
<1> QED
  BY <1>3 DEF Cong

(* and reflexive; *)
LEMMA CongRefl ==
    ASSUME NEW x \in Int
    PROVE  Cong(x, x)
<1>1. 0 \in Int /\ x - x = 0 * HASH_SIZE
  BY HashAssumption
<1> QED
  BY <1>1 DEF Cong

(* sums of congruent numbers are congruent, *)
LEMMA CongAdd ==
    ASSUME NEW x \in Int, NEW y \in Int, NEW u \in Int, NEW v \in Int, Cong(x, y), Cong(u, v)
    PROVE  Cong(x + u, y + v)
<1>1. PICK k \in Int : x - y = k * HASH_SIZE
  BY DEF Cong
<1>2. PICK l \in Int : u - v = l * HASH_SIZE
  BY DEF Cong
<1>3. k + l \in Int /\ (x + u) - (y + v) = (k + l) * HASH_SIZE
  BY <1>1, <1>2, HashAssumption
<1> QED
  BY <1>3 DEF Cong

(* and so are multiples. *)
LEMMA CongMult ==
    ASSUME NEW x \in Int, NEW y \in Int, NEW m \in Int, Cong(x, y)
    PROVE  Cong(m * x, m * y)
<1> DEFINE H == HASH_SIZE
<1>1. PICK k \in Int : x - y = k * H
  BY DEF Cong
<1>2. H \in Int
  BY HashAssumption
<1> HIDE DEF H
<1>3. m * x - m * y = m * (x - y)
  OBVIOUS
<1>4. m * (x - y) = (m * k) * H
  BY <1>1, <1>2
<1>5. m * k \in Int /\ m * x - m * y = (m * k) * H
  BY <1>3, <1>4
<1> QED
  BY <1>5 DEF Cong, H

(* The product of two integers, named for the steps that must not expand   *)
(* it.                                                                     *)
LEMMA TimesInt ==
    ASSUME NEW x \in Int, NEW y \in Int
    PROVE  x * y \in Int
  OBVIOUS

(* The window's checksum times the multiplier, and the byte that enters, is *)
(* the moved window's checksum and the weight of the byte that leaves.      *)
LEMMA WindowMoved ==
    ASSUME NEW s \in Seq(Nat), NEW pos \in Nat, NEW window \in Nat, window # 0
    PROVE  Cong(HASH_MULT * calculate_checksum(s, pos, window) + ByteAt(s, pos + window),
                Power[window] * ByteAt(s, pos) + calculate_checksum(s, pos + 1, window))
<1> DEFINE M == HASH_MULT
           S == Sums(s, pos, window)
           R == Sums(s, pos + 1, window)
           b(i) == ByteAt(s, pos + i)
           P(i) == Power[i]
           left == P(window) * b(0)
           T == {i \in 0 .. window - 1 : Cong(M * S[i + 1], left + R[i])}
<1>1. /\ M \in Nat /\ window \in Nat /\ window - 1 \in Nat /\ pos + 1 \in Nat
      /\ 0 \in Int /\ window - 1 \in Int
  BY HashAssumption
<1>2. ASSUME NEW i \in Nat PROVE P(i) \in Int /\ b(i) \in Int
  <2>1. pos + i \in Nat
    OBVIOUS
  <2>2. P(i) \in Nat /\ b(i) \in Nat
    BY <2>1, PowerDefined, ByteAtNat
  <2> HIDE DEF P, b
  <2> QED
    BY <2>2
<1>3. \A i \in Nat : Cong(M * P(i), P(i + 1))
  <2> SUFFICES ASSUME NEW i \in Nat PROVE Cong(M * P(i), P(i + 1))
    OBVIOUS
  <2>1. M * P(i) \in Int
    <3>1. M \in Int /\ P(i) \in Int
      BY <1>1, <1>2
    <3> HIDE DEF M, P
    <3> QED
      BY <3>1, TimesInt
  <2>2. P(i + 1) = (M * P(i)) % HASH_SIZE
    BY PowerDefined
  <2> HIDE DEF P, M
  <2> QED
    BY <2>1, <2>2, ModCong
<1>4. /\ \A i \in 0 .. window : S[i] \in Int /\ R[i] \in Int
      /\ S[0] = 0 /\ R[0] = 0
  <2>1. S \in [0 .. window -> Hash] /\ R \in [0 .. window -> Hash] /\ S[0] = 0 /\ R[0] = 0
    BY <1>1, SumsDefined
  <2>2. Hash \subseteq Int
    BY DEF Hash
  <2> HIDE DEF S, R
  <2> QED
    BY <2>1, <2>2
<1>5. ASSUME NEW i \in 1 .. window
      PROVE  /\ Cong(S[i], S[i - 1] + P(window - i) * b(i - 1))
             /\ Cong(R[i], R[i - 1] + P(window - i) * b(i))
  <2>1. window - i \in Nat /\ i - 1 \in Nat /\ i \in Nat /\ i - 1 \in 0 .. window
    OBVIOUS
  <2>2. pos + i - 1 = pos + (i - 1) /\ pos + 1 + i - 1 = pos + i
    OBVIOUS
  <2>3. S[i] = (S[i - 1] + P(window - i) * b(i - 1)) % HASH_SIZE
    BY <1>1, <2>2, SumsDefined
  <2>4. R[i] = (R[i - 1] + P(window - i) * b(i)) % HASH_SIZE
    BY <1>1, <2>2, SumsDefined
  <2> HIDE DEF S, R, P, b
  <2>5. P(window - i) * b(i - 1) \in Int /\ P(window - i) * b(i) \in Int
    <3>1. P(window - i) \in Int /\ b(i - 1) \in Int /\ b(i) \in Int
      BY <1>2, <2>1
    <3> QED
      BY <3>1, TimesInt
  <2>6. S[i - 1] + P(window - i) * b(i - 1) \in Int /\ R[i - 1] + P(window - i) * b(i) \in Int
    BY <1>4, <2>1, <2>5
  <2> QED
    BY <2>3, <2>4, <2>6, ModCong
<1> HIDE DEF S, R, P, b, M
<1>6. left \in Int
  BY <1>1, <1>2
<1>7. ASSUME NEW i \in 0 .. window - 1, NEW x \in Int, Cong(M * S[i], x)
      PROVE  Cong(M * S[i + 1], x + P(window - i) * b(i))
  <2> DEFINE w == P(window - (i + 1))
             u == P(window - i)
             c == b(i)
  <2>1. i + 1 \in 1 .. window /\ (i + 1) - 1 = i /\ i \in 0 .. window /\ i + 1 \in 0 .. window
    OBVIOUS
  <2>2. i \in Nat /\ window - (i + 1) \in Nat /\ (window - (i + 1)) + 1 = window - i /\ window - i \in Nat
    OBVIOUS
  <2>3. w \in Int /\ u \in Int /\ c \in Int /\ M \in Int
    BY <1>1, <1>2, <2>2
  <2>4. S[i] \in Int /\ S[i + 1] \in Int
    BY <1>4, <2>1
  <2>5. Cong(S[i + 1], S[i] + w * c)
    BY <1>5, <2>1
  <2>6. Cong(M * w, u)
    BY <1>3, <2>2
  <2> HIDE DEF w, u, c, left
  <2>7. Cong(c * (M * w), c * u)
    <3>1. M * w \in Int
      BY <2>3
    <3> QED
      BY <2>3, <2>6, <3>1, CongMult
  <2>8. M * S[i + 1] \in Int /\ M * S[i] \in Int /\ c * (M * w) \in Int /\ c * u \in Int
    <3> DEFINE p == S[i]
               q == S[i + 1]
    <3>1. p \in Int /\ q \in Int
      BY <2>4
    <3> HIDE DEF p, q
    <3>2. M * q \in Int /\ M * p \in Int /\ M * w \in Int /\ c * u \in Int
      BY <3>1, <2>3
    <3>3. c * (M * w) \in Int
      BY <3>2, <2>3
    <3> QED
      BY <3>2, <3>3 DEF p, q
  <2>9. Cong(M * S[i] + c * (M * w), x + c * u)
    BY <1>7, <2>7, <2>8, CongAdd
  <2>10. Cong(M * S[i + 1], M * (S[i] + w * c))
    <3>1. S[i] + w * c \in Int
      <4>1. w * c \in Int
        BY <2>3
      <4> QED
        BY <2>4, <4>1
    <3> QED
      BY <2>3, <2>4, <2>5, <3>1, CongMult
  <2>11. M * (S[i] + w * c) = M * S[i] + c * (M * w)
    <3> DEFINE p == S[i]
    <3>1. p \in Int
      BY <2>4
    <3> HIDE DEF p
    <3>2. M * (p + w * c) = M * p + c * (M * w)
      BY <3>1, <2>3
    <3> QED
      BY <3>2 DEF p
  <2>12. x + c * u = x + u * c
    BY <2>3
  <2>13. M * S[i] + c * (M * w) \in Int /\ x + c * u \in Int
    BY <2>8
  <2>14. Cong(M * S[i + 1], x + u * c)
    BY <2>8, <2>9, <2>10, <2>11, <2>12, <2>13, CongTrans
  <2> QED
    BY <2>14 DEF u, c
<1>8. 0 <= window - 1 => 0 \in T
  <2>1. 0 \in 0 .. window - 1 /\ window - 0 = window /\ 0 + 1 \in 0 .. window /\ window \in Nat
    BY <1>1
  <2>2. M * S[0] = 0
    BY <1>1, <1>4
  <2>3. Cong(M * S[0], 0)
    BY <2>2, CongRefl
  <2>4. Cong(M * S[0 + 1], 0 + left)
    BY <1>1, <1>7, <2>1, <2>3 DEF left
  <2> HIDE DEF left
  <2>5. 0 + left = left + R[0]
    BY <1>4, <1>6
  <2> QED
    BY <2>1, <2>4, <2>5 DEF left
<1>9. ASSUME NEW i \in 0 + 1 .. window - 1, i - 1 \in T PROVE i \in T
  <2> DEFINE t == P(window - i) * b(i)
  <2>1. i \in 1 .. window /\ i \in 0 .. window - 1 /\ (i - 1) + 1 = i /\ i - 1 \in 0 .. window
        /\ i + 1 \in 0 .. window /\ i \in 0 .. window /\ i \in Nat /\ window - i \in Nat
    OBVIOUS
  <2> HIDE DEF left
  <2>2. Cong(M * S[i], left + R[i - 1])
    BY <1>9, <2>1 DEF left
  <2>3. t \in Int /\ S[i + 1] \in Int /\ R[i - 1] \in Int /\ R[i] \in Int
    <3>1. P(window - i) \in Int /\ b(i) \in Int
      BY <1>2, <2>1
    <3> QED
      BY <1>4, <2>1, <3>1, TimesInt
  <2>4. left + R[i - 1] \in Int
    BY <1>6, <2>3
  <2>5. Cong(M * S[i + 1], (left + R[i - 1]) + t)
    BY <1>7, <2>1, <2>2, <2>4
  <2>6. Cong(R[i], R[i - 1] + t)
    BY <1>5, <2>1
  <2> HIDE DEF t
  <2>7. M * S[i + 1] \in Int
    <3> DEFINE q == S[i + 1]
    <3>1. q \in Int
      BY <2>3
    <3> HIDE DEF q
    <3>2. M * q \in Int
      BY <1>1, <3>1
    <3> QED
      BY <3>2 DEF q
  <2>8. Cong(left + R[i], left + (R[i - 1] + t))
    <3>1. Cong(left, left) /\ R[i - 1] + t \in Int
      BY <1>6, <2>3, CongRefl
    <3> QED
      BY <1>6, <2>3, <2>6, <3>1, CongAdd
  <2>9. left + (R[i - 1] + t) = (left + R[i - 1]) + t /\ left + R[i] \in Int
        /\ (left + R[i - 1]) + t \in Int
    BY <1>6, <2>3
  <2>10. Cong((left + R[i - 1]) + t, left + R[i])
    BY <2>8, <2>9, CongSym
  <2>11. Cong(M * S[i + 1], left + R[i])
    BY <2>5, <2>7, <2>9, <2>10, CongTrans
  <2> QED
    BY <2>1, <2>11 DEF left
<1>10. Cong(M * S[window], left + R[window - 1])
  <2>1. 0 .. window - 1 \subseteq T
    <3> HIDE DEF T
    <3> QED
      BY <1>1, <1>8, <1>9, Upwards
  <2>2. window - 1 \in 0 .. window - 1 /\ (window - 1) + 1 = window
    BY <1>1
  <2> QED
    BY <2>1, <2>2
<1>11. Cong(R[window], R[window - 1] + b(window))
  <2>1. window \in 1 .. window /\ window - window = 0 /\ window \in Nat
    BY <1>1
  <2>2. P(0) = 1
    BY PowerDefined DEF P
  <2>3. P(0) * b(window) = b(window)
    BY <1>2, <2>1, <2>2
  <2> QED
    BY <1>5, <2>1, <2>3
<1> HIDE DEF left
<1>12. /\ S[window] \in Int /\ R[window] \in Int /\ R[window - 1] \in Int
       /\ b(window) \in Int /\ M \in Int
  <2>1. window \in 0 .. window /\ window - 1 \in 0 .. window /\ window \in Nat
    BY <1>1
  <2> QED
    BY <1>1, <1>2, <1>4, <2>1
<1>13. M * S[window] \in Int
  <2> DEFINE q == S[window]
  <2>1. q \in Int
    BY <1>12
  <2> HIDE DEF q
  <2>2. M * q \in Int
    BY <1>12, <2>1
  <2> QED
    BY <2>2 DEF q
<1> DEFINE v == b(window)
           r == R[window]
           r1 == R[window - 1]
           ms == M * S[window]
<1>14. v \in Int /\ r \in Int /\ r1 \in Int /\ ms \in Int
  BY <1>12, <1>13
<1>15. Cong(ms, left + r1) /\ Cong(r, r1 + v)
  BY <1>10, <1>11
<1> HIDE DEF v, r, r1, ms
<1>16. Cong(ms + v, (left + r1) + v)
  <2>1. Cong(v, v) /\ left + r1 \in Int
    BY <1>6, <1>14, CongRefl
  <2> QED
    BY <1>14, <1>15, <2>1, CongAdd
<1>17. Cong(left + r, left + (r1 + v))
  <2>1. Cong(left, left) /\ r1 + v \in Int
    BY <1>6, <1>14, CongRefl
  <2> QED
    BY <1>6, <1>14, <1>15, <2>1, CongAdd
<1>18. left + (r1 + v) = (left + r1) + v /\ ms + v \in Int /\ left + r \in Int
       /\ (left + r1) + v \in Int
  BY <1>6, <1>14
<1>19. Cong(ms + v, left + r)
  BY <1>16, <1>17, <1>18, CongSym, CongTrans
<1>20. S[window] = calculate_checksum(s, pos, window) /\ R[window] = calculate_checksum(s, pos + 1, window)
  BY ChecksumIsSum DEF S, R
<1>21. b(0) = ByteAt(s, pos)
  <2>1. pos + 0 = pos
    OBVIOUS
  <2> QED
    BY <2>1 DEF b
<1> QED
  BY <1>19, <1>20, <1>21 DEF v, r, ms, M, left, P, b

(* Rolling the hash one byte on gives the hash of the window one byte on *)
(* (update_checksum_fwd), for every multiplier, word and window.         *)
THEOREM RollsForward ==
    ASSUME NEW s \in Seq(Nat), NEW pos \in Nat, NEW window \in Nat, window # 0
    PROVE  update_checksum_fwd(calculate_checksum(s, pos, window), ByteAt(s, pos),
                               ByteAt(s, pos + window), window)
               = calculate_checksum(s, pos + 1, window)
<1> DEFINE M == HASH_MULT
           c == calculate_checksum(s, pos, window)
           d == calculate_checksum(s, pos + 1, window)
           old == ByteAt(s, pos)
           new == ByteAt(s, pos + window)
           p == Power[window]
<1>1. /\ c \in Hash /\ d \in Hash /\ Hash \subseteq Int
      /\ old \in Int /\ new \in Int /\ p \in Int /\ M \in Int
  <2>1. pos + 1 \in Nat /\ pos + window \in Nat /\ window \in Nat
    OBVIOUS
  <2>2. old \in Nat /\ new \in Nat /\ c \in Hash /\ d \in Hash
    BY <2>1, ByteAtNat, ChecksumInHash
  <2>3. p \in Nat
    BY <2>1, PowerDefined
  <2> QED
    BY <2>2, <2>3, HashAssumption DEF Hash
<1>2. Cong(M * c + new, p * old + d)
  BY WindowMoved
<1>3. update_checksum_fwd(c, old, new, window) = (M * c - p * old + new) % HASH_SIZE
  BY DEF update_checksum_fwd
<1> HIDE DEF M, c, d, old, new, p
<1> DEFINE po == p * old
           mc == M * c
<1>4. po \in Int /\ mc \in Int /\ d \in Int
  BY <1>1
<1>5. Cong(mc + new, po + d)
  BY <1>2
<1> HIDE DEF po, mc
<1>6. Cong((mc + new) + (- po), (po + d) + (- po))
  <2>1. -po \in Int /\ mc + new \in Int /\ po + d \in Int
    BY <1>1, <1>4
  <2> QED
    BY <1>5, <2>1, CongRefl, CongAdd
<1>7. (mc + new) + (- po) = mc - po + new /\ (po + d) + (- po) = d /\ mc - po + new \in Int
  BY <1>1, <1>4
<1>8. Cong(mc - po + new, d)
  BY <1>6, <1>7
<1>9. Cong((mc - po + new) % HASH_SIZE, mc - po + new)
  BY <1>7, ModCong
<1>10. (mc - po + new) % HASH_SIZE \in Hash
  BY <1>7, ModInHash
<1>11. (mc - po + new) % HASH_SIZE = d
  <2>1. (mc - po + new) % HASH_SIZE \in Int
    BY <1>1, <1>10
  <2>2. Cong((mc - po + new) % HASH_SIZE, d)
    BY <1>4, <1>7, <1>8, <1>9, <2>1, CongTrans
  <2> QED
    BY <1>1, <1>10, <2>2, CongHash
<1> QED
  BY <1>3, <1>11 DEF po, mc, c, d, old, new

(* Rolling it one byte back gives the hash of the window one byte back: the *)
(* inverse of the multiplier takes one factor off each weight               *)
(* (update_checksum_bwd).                                                   *)
THEOREM RollsBackward ==
    ASSUME NEW s \in Seq(Nat), NEW pos \in Nat, NEW window \in Nat, window # 0
    PROVE  update_checksum_bwd(calculate_checksum(s, pos + 1, window), ByteAt(s, pos + window),
                               ByteAt(s, pos), window)
               = calculate_checksum(s, pos, window)
<1> DEFINE M == HASH_MULT
           I == MOD_INV
           c == calculate_checksum(s, pos, window)
           d == calculate_checksum(s, pos + 1, window)
           new == ByteAt(s, pos)
           old == ByteAt(s, pos + window)
           p == Power[window]
<1>1. /\ c \in Hash /\ d \in Hash /\ Hash \subseteq Int
      /\ old \in Int /\ new \in Int /\ p \in Int /\ M \in Int /\ I \in Int
  <2>1. pos + 1 \in Nat /\ pos + window \in Nat /\ window \in Nat
    OBVIOUS
  <2>2. old \in Nat /\ new \in Nat /\ c \in Hash /\ d \in Hash
    BY <2>1, ByteAtNat, ChecksumInHash
  <2>3. p \in Nat
    BY <2>1, PowerDefined
  <2> QED
    BY <2>2, <2>3, HashAssumption DEF Hash
<1>2. Cong(M * c + old, p * new + d)
  BY WindowMoved
<1>3. update_checksum_bwd(d, old, new, window) = ((d - old + p * new) * I) % HASH_SIZE
  BY DEF update_checksum_bwd
<1>4. Cong(M * I, 1)
  <2>1. M * I \in Int /\ (M * I) % HASH_SIZE = 1
    BY <1>1, HashAssumption
  <2> QED
    BY <2>1, ModCong
<1> HIDE DEF M, I, c, d, old, new, p
<1> DEFINE pn == p * new
           mc == M * c
           x == d - old + pn
<1>5. pn \in Int /\ mc \in Int /\ d \in Int /\ c \in Int
  BY <1>1
<1>6. Cong(mc + old, pn + d)
  BY <1>2
<1> HIDE DEF pn, mc
<1>7. Cong((mc + old) + (- old), (pn + d) + (- old))
  <2>1. -old \in Int /\ mc + old \in Int /\ pn + d \in Int
    BY <1>1, <1>5
  <2> QED
    BY <1>6, <2>1, CongRefl, CongAdd
<1>8. (mc + old) + (- old) = mc /\ (pn + d) + (- old) = x /\ x \in Int
  BY <1>1, <1>5
<1>9. Cong(x, mc)
  BY <1>5, <1>7, <1>8, CongSym
<1> HIDE DEF x
<1>10. Cong(I * x, I * mc)
  BY <1>1, <1>5, <1>8, <1>9, CongMult
<1>11. I * mc = c * (M * I)
  BY <1>1, <1>5 DEF mc
<1>12. Cong(c * (M * I), c * 1)
  <2> DEFINE one == 1
  <2>1. M * I \in Int /\ one \in Int /\ Cong(M * I, one)
    BY <1>1, <1>4
  <2> HIDE DEF one
  <2>2. Cong(c * (M * I), c * one)
    BY <1>5, <2>1, CongMult
  <2> QED
    BY <2>2 DEF one
<1>13. I * x = x * I /\ I * x \in Int /\ I * mc \in Int /\ c * 1 = c
  BY <1>1, <1>5, <1>8
<1>14. Cong(x * I, c)
  BY <1>5, <1>10, <1>11, <1>12, <1>13, CongTrans
<1>15. Cong((x * I) % HASH_SIZE, x * I) /\ (x * I) % HASH_SIZE \in Hash
  BY <1>13, ModCong, ModInHash
<1>16. (x * I) % HASH_SIZE = c
  <2>1. (x * I) % HASH_SIZE \in Int /\ x * I \in Int
    BY <1>1, <1>13, <1>15
  <2>2. Cong((x * I) % HASH_SIZE, c)
    BY <1>5, <1>14, <1>15, <2>1, CongTrans
  <2> QED
    BY <1>1, <1>15, <2>2, CongHash
<1> QED
  BY <1>3, <1>16 DEF x, pn, c, d, old, new

-----------------------------------------------------------------------------
(* What the counting helpers of the loop return, and the tables of the two *)
(* matchers.                                                               *)

(* The first place at which a loop of at most limit rounds stops. *)
LEMMA FirstStop ==
    ASSUME NEW limit \in Nat, NEW Stop
    PROVE  \E n \in 0 .. limit : /\ \A i \in 1 .. n : i - 1 \notin Stop
                                 /\ n < limit => n \in Stop
<1> DEFINE T == {n \in 0 .. limit : n = limit \/ n \in Stop}
<1>1. T \subseteq Nat /\ T # {}
  <2>1. limit \in T
    OBVIOUS
  <2> QED
    BY <2>1
<1> HIDE DEF T
<1>2. PICK n \in T : \A m \in T : n <= m
  BY <1>1, LeastElement
<1>3. n \in 0 .. limit /\ (n < limit => n \in Stop)
  BY <1>2 DEF T
<1>4. ASSUME NEW i \in 1 .. n PROVE i - 1 \notin Stop
  <2>1. i - 1 \in 0 .. limit /\ ~ (n <= i - 1)
    BY <1>3
  <2> QED
    BY <1>2, <2>1 DEF T
<1> QED
  BY <1>3, <1>4

(* CommonLen counts at most limit bytes, and those are the same in both    *)
(* places.                                                                 *)
LEMMA CommonLenTrue ==
    ASSUME NEW s, NEW from \in Nat, NEW t, NEW at \in Nat, NEW limit \in Nat
    PROVE  /\ CommonLen(s, from, t, at, limit) \in 0 .. limit
           /\ \A i \in 1 .. CommonLen(s, from, t, at, limit) : s[from + i] = t[at + i]
<1> DEFINE Stop == {n \in Nat : s[from + n + 1] # t[at + n + 1]}
           Is(n) == /\ \A i \in 1 .. n : s[from + i] = t[at + i]
                    /\ n < limit => s[from + n + 1] # t[at + n + 1]
<1>1. PICK n \in 0 .. limit : /\ \A i \in 1 .. n : i - 1 \notin Stop
                              /\ n < limit => n \in Stop
  <2> HIDE DEF Stop
  <2> QED
    BY FirstStop
<1>2. ASSUME NEW i \in 1 .. n PROVE s[from + i] = t[at + i]
  <2>1. i - 1 \in Nat /\ from + (i - 1) + 1 = from + i /\ at + (i - 1) + 1 = at + i
    OBVIOUS
  <2> QED
    BY <1>1, <2>1
<1>3. \E m \in 0 .. limit : Is(m)
  BY <1>1, <1>2
<1>4. CommonLen(s, from, t, at, limit) = CHOOSE m \in 0 .. limit : Is(m)
  BY DEF CommonLen
<1> HIDE DEF Is
<1>5. /\ CommonLen(s, from, t, at, limit) \in 0 .. limit
      /\ Is(CommonLen(s, from, t, at, limit))
  BY <1>3, <1>4
<1> QED
  BY <1>5 DEF Is

(* The bytes in common are the same bytes. *)
LEMMA CommonLenSame ==
    ASSUME NEW s \in Seq(Byte), NEW from \in Nat, NEW t \in Seq(Byte), NEW at \in Nat,
           NEW limit \in Nat, from + limit <= Len(s), at + limit <= Len(t)
    PROVE  SameBytes(s, from, t, at, CommonLen(s, from, t, at, limit))
<1> DEFINE n == CommonLen(s, from, t, at, limit)
<1>1. n \in 0 .. limit
  BY CommonLenTrue
<1>3. \A i \in 1 .. n : s[from + i] = t[at + i]
  BY CommonLenTrue
<1> HIDE DEF n
<1>2. from + n <= Len(s) /\ at + n <= Len(t)
  <2>1. Len(s) \in Nat /\ Len(t) \in Nat
    OBVIOUS
  <2> QED
    BY <1>1, <2>1
<1>4. SameBytes(s, from, t, at, n)
  BY <1>2, <1>3 DEF SameBytes
<1> QED
  BY <1>4 DEF n

(* The bytes that a source match gains backwards are the same in source    *)
(* and target, and lie before both positions (get_match of                 *)
(* src_matcher.rs).                                                        *)
LEMMA PreMatchTrue ==
    ASSUME NEW start \in Nat, cur_o_pos \in Nat
    PROVE  /\ PreMatch(start) \in 0 .. Minus(Smallest(start, cur_o_pos), 1)
           /\ PreMatch(start) <= start /\ PreMatch(start) <= cur_o_pos
           /\ PreMatch(start) > 0 => PreMatch(start) < cur_o_pos
           /\ \A i \in 1 .. PreMatch(start) :
                 src[start - i + 1] = trgt[cur_o_pos - i + 1]
<1> DEFINE limit == Minus(Smallest(start, cur_o_pos), 1)
           Stop == {n \in Nat : src[start - n] # trgt[cur_o_pos - n]}
           Is(n) == /\ \A i \in 1 .. n : src[start - i + 1] = trgt[cur_o_pos - i + 1]
                    /\ n < limit => src[start - n] # trgt[cur_o_pos - n]
           pre == PreMatch(start)
<1>1. limit \in Nat /\ limit <= start /\ limit <= cur_o_pos /\ (limit > 0 => limit < cur_o_pos)
  BY DEF Minus, Largest, Smallest
<1> HIDE DEF limit
<1>2. PICK n \in 0 .. limit : /\ \A i \in 1 .. n : i - 1 \notin Stop
                              /\ n < limit => n \in Stop
  <2> HIDE DEF Stop
  <2> QED
    BY <1>1, FirstStop
<1>3. ASSUME NEW i \in 1 .. n PROVE src[start - i + 1] = trgt[cur_o_pos - i + 1]
  <2>1. i - 1 \in Nat /\ start - (i - 1) = start - i + 1
        /\ cur_o_pos - (i - 1) = cur_o_pos - i + 1
    OBVIOUS
  <2> QED
    BY <1>2, <2>1
<1>4. \E m \in 0 .. limit : Is(m)
  BY <1>2, <1>3
<1>5. pre = CHOOSE m \in 0 .. limit : Is(m)
  BY DEF PreMatch, limit
<1> HIDE DEF Is, pre
<1>6. pre \in 0 .. limit /\ Is(pre)
  BY <1>4, <1>5
<1>7. \A i \in 1 .. pre : src[start - i + 1] = trgt[cur_o_pos - i + 1]
  BY <1>6 DEF Is
<1>8. pre <= start /\ pre <= cur_o_pos /\ (pre > 0 => pre < cur_o_pos)
  BY <1>1, <1>6
<1> QED
  BY <1>6, <1>7, <1>8 DEF limit, pre

(* The run that initial_run_len measures ends with the first window. *)
LEMMA InitialRunTrue ==
    ASSUME MIN_MATCH \in Nat, MIN_MATCH # 0, cur_o_pos \in Nat
    PROVE  /\ InitialRunLen \in 1 .. MIN_MATCH
           /\ \A i \in MIN_MATCH - InitialRunLen + 1 .. MIN_MATCH :
                 trgt[cur_o_pos + i] = trgt[cur_o_pos + MIN_MATCH]
<1> DEFINE M == MIN_MATCH
           in_run(i) == trgt[cur_o_pos + i] = trgt[cur_o_pos + M]
           Stop == {n \in Nat : ~ in_run(M - (n + 1))}
           Is(n) == /\ \A i \in M - n + 1 .. M : in_run(i)
                    /\ n < M => ~ in_run(M - n)
<1>1. M \in Nat /\ M - 1 \in Nat
  OBVIOUS
<1>2. in_run(M)
  OBVIOUS
<1>3. InitialRunLen = CHOOSE m \in 1 .. M : Is(m)
  BY DEF InitialRunLen
<1> HIDE DEF M, in_run
<1>4. PICK n \in 0 .. M - 1 : /\ \A i \in 1 .. n : i - 1 \notin Stop
                              /\ n < M - 1 => n \in Stop
  <2> HIDE DEF Stop
  <2> QED
    BY <1>1, FirstStop
<1> DEFINE k == n + 1
<1>5. k \in 1 .. M /\ n \in Nat /\ (k < M => n < M - 1)
  BY <1>1
<1>6. k < M => ~ in_run(M - k)
  BY <1>4, <1>5
<1>7. ASSUME NEW i \in M - k + 1 .. M PROVE in_run(i)
  <2>1. CASE i = M
    BY <1>2, <2>1
  <2>2. CASE i # M
    <3> DEFINE j == M - i
    <3>1. j \in 1 .. n /\ j - 1 \in Nat /\ M - ((j - 1) + 1) = i
      BY <1>1, <1>5, <2>2
    <3> HIDE DEF j
    <3>2. j - 1 \notin Stop
      BY <1>4, <3>1
    <3> QED
      BY <3>1, <3>2
  <2> QED
    BY <2>1, <2>2
<1> HIDE DEF k
<1>8. \E m \in 1 .. M : Is(m)
  BY <1>5, <1>6, <1>7
<1> HIDE DEF Is
<1>9. InitialRunLen \in 1 .. M /\ Is(InitialRunLen)
  BY <1>3, <1>8
<1> QED
  BY <1>9 DEF Is, M, in_run

(* Extended, the run stays inside the target and is made of its byte. *)
LEMMA ExtendedRunTrue ==
    ASSUME MIN_MATCH \in Nat, run_len \in Nat, cur_o_pos \in Nat,
           NEW len \in Nat, len = Len(trgt), cur_o_pos + MIN_MATCH <= len
    PROVE  /\ ExtendedRunLen \in Nat
           /\ run_len # MIN_MATCH => ExtendedRunLen = run_len
           /\ run_len = MIN_MATCH =>
                 /\ ExtendedRunLen >= MIN_MATCH
                 /\ cur_o_pos + ExtendedRunLen <= len
                 /\ \A j \in MIN_MATCH + 1 .. ExtendedRunLen : trgt[cur_o_pos + j] = run_byte
<1> DEFINE limit == len - cur_o_pos - MIN_MATCH
           after == cur_o_pos + MIN_MATCH
           Stop == {n \in Nat : trgt[after + n + 1] # run_byte}
           Is(n) == /\ \A i \in 1 .. n : trgt[after + i] = run_byte
                    /\ after + n < len => trgt[after + n + 1] # run_byte
           more == CHOOSE m \in 0 .. limit : Is(m)
<1>1. limit \in Nat /\ after \in Nat /\ after + limit = len
  OBVIOUS
<1>2. ExtendedRunLen = IF run_len # MIN_MATCH THEN run_len ELSE MIN_MATCH + more
  BY DEF ExtendedRunLen
<1>3. \A n \in 0 .. limit : after + n < len => n < limit
  OBVIOUS
<1> HIDE DEF limit
<1>4. PICK n \in 0 .. limit : /\ \A i \in 1 .. n : i - 1 \notin Stop
                              /\ n < limit => n \in Stop
  <2> HIDE DEF Stop
  <2> QED
    BY <1>1, FirstStop
<1>5. ASSUME NEW i \in 1 .. n PROVE trgt[after + i] = run_byte
  <2> HIDE DEF after
  <2>1. i - 1 \in Nat /\ after + (i - 1) + 1 = after + i
    BY <1>1
  <2> QED
    BY <1>4, <2>1
<1> HIDE DEF after
<1>6. \E m \in 0 .. limit : Is(m)
  BY <1>3, <1>4, <1>5
<1> HIDE DEF Is
<1>7. more \in 0 .. limit /\ Is(more)
  BY <1>6
<1> HIDE DEF more
<1>8. CASE run_len # MIN_MATCH
  BY <1>2, <1>8
<1>9. CASE run_len = MIN_MATCH
  <2> DEFINE x == MIN_MATCH + more
  <2>1. x \in Nat /\ x >= MIN_MATCH /\ cur_o_pos + x <= len
    BY <1>1, <1>7 DEF after
  <2>2. ASSUME NEW j \in MIN_MATCH + 1 .. x PROVE trgt[cur_o_pos + j] = run_byte
    <3>1. j - MIN_MATCH \in 1 .. more /\ after + (j - MIN_MATCH) = cur_o_pos + j
      BY <1>7 DEF after
    <3> QED
      BY <1>7, <3>1 DEF Is
  <2> HIDE DEF x
  <2>3. ExtendedRunLen = x
    BY <1>2, <1>9 DEF x
  <2> QED
    BY <1>9, <2>1, <2>2, <2>3
<1> QED
  BY <1>8, <1>9

(* The operations that a longer source match leaves are the first ones,    *)
(* and the last of them begins before it.                                  *)
LEMMA StartingBeforeTrue ==
    ASSUME ops \in Seq(InnerOp), NEW pos \in Nat
    PROVE  \E n \in 0 .. Len(ops) :
              /\ StartingBefore(pos) = SubSeq(ops, 1, n)
              /\ n > 0 => ops[n].o_pos < pos
<1> DEFINE len == Len(ops)
           Stop == {k \in Nat : ops[len - k].o_pos < pos}
           Is(n) == /\ \A i \in n + 1 .. len : ops[i].o_pos >= pos
                    /\ n > 0 => ops[n].o_pos < pos
           kept == CHOOSE n \in 0 .. len : Is(n)
<1>1. len \in Nat
  OBVIOUS
<1>2. StartingBefore(pos) = SubSeq(ops, 1, kept)
  BY DEF StartingBefore
<1>3. \A i \in 1 .. len : ops[i].o_pos \in Nat
  <2>1. \A i \in 1 .. len : ops[i] \in InnerOp
    OBVIOUS
  <2> QED
    BY <2>1 DEF InnerOp
<1> HIDE DEF len
<1>4. PICK k \in 0 .. len : /\ \A i \in 1 .. k : i - 1 \notin Stop
                            /\ k < len => k \in Stop
  <2> HIDE DEF Stop
  <2> QED
    BY <1>1, FirstStop
<1> DEFINE n == len - k
<1>5. n \in 0 .. len /\ (n > 0 => k < len)
  BY <1>1
<1>6. n > 0 => ops[n].o_pos < pos
  BY <1>4, <1>5
<1>7. ASSUME NEW i \in n + 1 .. len PROVE ops[i].o_pos >= pos
  <2> DEFINE j == len - i + 1
  <2>1. j \in 1 .. k /\ j - 1 \in Nat /\ len - (j - 1) = i /\ i \in 1 .. len
    BY <1>1, <1>5
  <2> HIDE DEF j
  <2>2. j - 1 \notin Stop
    BY <1>4, <2>1
  <2>3. ~ (ops[i].o_pos < pos) /\ ops[i].o_pos \in Nat
    BY <1>3, <2>1, <2>2
  <2> QED
    BY <2>3
<1> HIDE DEF n
<1>8. \E m \in 0 .. len : Is(m)
  BY <1>5, <1>6, <1>7
<1> HIDE DEF Is
<1>9. kept \in 0 .. len /\ Is(kept)
  BY <1>8
<1> HIDE DEF kept
<1>10. kept > 0 => ops[kept].o_pos < pos
  BY <1>9 DEF Is
<1> QED
  BY <1>2, <1>9, <1>10 DEF len

(* The least power of two. *)
LEMMA PowerOfTwoDefined ==
    /\ \A k \in Nat : PowerOfTwo[k] \in Nat /\ PowerOfTwo[k] >= k + 1
<1> DEFINE Eq(f) == f = [k \in Nat |-> IF k = 0 THEN 1 ELSE 2 * f[k - 1]]
           G == [k \in Nat |-> [v \in Nat |-> 2 * v]]
<1>1. \A k, v \in Nat : G[k][v] = 2 * v
  OBVIOUS
<1> HIDE DEF G
<1>2. \A n \in Nat : StaysIn(G, 1, n, Nat)
  BY <1>1 DEF StaysIn
<1>3. 1 \in Nat
  OBVIOUS
<1>4. PICK f : RunsOn(f, 1, G, Nat)
  BY <1>2, <1>3, DefinedOnNat
<1>5. Eq(f)
  <2>1. f \in [Nat -> Nat] /\ f[0] = 1
    BY <1>4 DEF RunsOn
  <2>2. ASSUME NEW n \in Nat, n # 0 PROVE f[n] = 2 * f[n - 1]
    <3>1. n - 1 \in Nat /\ (n - 1) + 1 = n
      BY <2>2
    <3>2. f[n - 1] \in Nat
      BY <2>1, <3>1
    <3>3. f[n] = G[n][f[n - 1]]
      BY <1>4, <3>1 DEF RunsOn
    <3> QED
      BY <1>1, <3>2, <3>3
  <2> QED
    BY <2>1, <2>2
<1>6. Eq(CHOOSE g : Eq(g))
  <2> HIDE DEF Eq
  <2> QED
    BY <1>5
<1>7. PowerOfTwo = CHOOSE g : Eq(g)
  BY DEF PowerOfTwo
<1>8. Eq(PowerOfTwo)
  BY <1>6, <1>7
<1> DEFINE T == {k \in Nat : PowerOfTwo[k] \in Nat /\ PowerOfTwo[k] >= k + 1}
<1>9. 0 \in T
  BY <1>8
<1>10. ASSUME NEW k \in Nat PROVE k \in T
  <2>1. ASSUME NEW p \in 0 + 1 .. k, p - 1 \in T PROVE p \in T
    <3> DEFINE v == PowerOfTwo[p - 1]
    <3>1. p - 1 \in Nat /\ p \in Nat /\ p # 0
      OBVIOUS
    <3>2. v \in Nat /\ v >= (p - 1) + 1
      BY <2>1
    <3>3. PowerOfTwo[p] = 2 * v
      BY <1>8, <3>1
    <3> HIDE DEF v
    <3>4. 2 * v \in Nat /\ 2 * v >= p + 1
      BY <3>1, <3>2
    <3> QED
      BY <3>1, <3>3, <3>4
  <2>2. 0 .. k \subseteq T
    <3> HIDE DEF T
    <3>1. 0 \in Int /\ k \in Int
      OBVIOUS
    <3> QED
      BY <1>9, <2>1, <3>1, Upwards
  <2> QED
    BY <2>2
<1> QED
  BY <1>10

(* The next power of two is a number, *)
LEMMA NextPowerNat ==
    ASSUME NEW n \in Nat
    PROVE  next_power_of_two(n) \in Nat
<1> DEFINE Is(k) == /\ PowerOfTwo[k] >= n
                    /\ \A j \in 0 .. k - 1 : PowerOfTwo[j] < n
           Stop == {k \in Nat : PowerOfTwo[k] >= n}
           least == CHOOSE k \in 0 .. n : Is(k)
<1>1. \A k \in Nat : PowerOfTwo[k] \in Nat /\ PowerOfTwo[k] >= k + 1
  BY PowerOfTwoDefined
<1>2. PICK k \in 0 .. n : /\ \A i \in 1 .. k : i - 1 \notin Stop
                          /\ k < n => k \in Stop
  <2> HIDE DEF Stop
  <2> QED
    BY FirstStop
<1>3. PowerOfTwo[k] >= n
  <2>1. CASE k < n
    BY <1>2, <2>1
  <2>2. CASE k = n
    <3>1. k \in Nat /\ PowerOfTwo[k] \in Nat /\ PowerOfTwo[k] >= k + 1
      BY <1>1
    <3> QED
      BY <2>2, <3>1
  <2> QED
    BY <2>1, <2>2
<1>4. ASSUME NEW j \in 0 .. k - 1 PROVE PowerOfTwo[j] < n
  <2>1. j + 1 \in 1 .. k /\ (j + 1) - 1 = j /\ j \in Nat
    OBVIOUS
  <2>2. j \notin Stop
    BY <1>2, <2>1
  <2>3. PowerOfTwo[j] \in Nat /\ ~ (PowerOfTwo[j] >= n)
    BY <1>1, <2>1, <2>2
  <2> QED
    BY <2>3
<1>5. \E m \in 0 .. n : Is(m)
  BY <1>3, <1>4
<1> HIDE DEF Is
<1>6. least \in 0 .. n
  BY <1>5
<1>7. PowerOfTwo[least] \in Nat
  <2> HIDE DEF least
  <2> QED
    BY <1>1, <1>6
<1> QED
  BY <1>7 DEF next_power_of_two, least, Is

(* The tables and chains keep their types. *)
LEMMA NewTableTyped ==
    ASSUME NEW B, Empty \in B
    PROVE  NewTable \in [Buckets -> B]
  BY DEF NewTable

(* An empty bucket is a bucket, *)
LEMMA EmptyTyped == Empty \in BucketValue
  BY HashAssumption DEF Empty, BucketValue, Hash

(* a table stays a table when a position is inserted, *)
LEMMA InsertTyped ==
    ASSUME NEW B, NEW table \in [Buckets -> B], NEW hash, NEW position,
           BucketFor(hash, position) \in B
    PROVE  insert(table, hash, position) \in [Buckets -> B]
  BY DEF insert

(* what is inserted is a bucket, *)
LEMMA BucketForTyped ==
    ASSUME NEW hash \in Hash, NEW position \in Nat
    PROVE  BucketFor(hash, position) \in BucketValue
  BY DEF BucketFor, BucketValue

(* At most one position is found, one that a bucket holds. *)
LEMMA GetTrue ==
    ASSUME NEW table \in [Buckets -> BucketValue], NEW hash \in Hash
    PROVE  /\ \A p \in get(table, hash) :
                 \E b \in Buckets : /\ table[b].value # 0 /\ table[b].hash = hash
                                    /\ p = table[b].value - 1 /\ p \in Nat
           /\ \A p, q \in get(table, hash) : p = q
<1>1. BucketOf[hash] \in Buckets
  BY BucketAssumption
<1> DEFINE bucket == table[BucketOf[hash]]
<1>2. bucket \in BucketValue
  BY <1>1
<1>3. bucket.value \in Nat
  BY <1>2 DEF BucketValue
<1>4. get(table, hash) = IF bucket.value # 0 /\ bucket.hash = hash THEN {bucket.value - 1} ELSE {}
  BY DEF get
<1>5. bucket.value # 0 => bucket.value - 1 \in Nat
  BY <1>3
<1> QED
  BY <1>1, <1>4, <1>5

(* The target matchers whose ring has a capacity. *)
Matchers(capacity) ==
    [fwd_hash : Hash, fwd_pos : Nat, table : [Buckets -> BucketValue],
     chain : [0 .. capacity - 1 -> BucketValue], capacity : {capacity}]

(* and the target matcher stays one when a position is stored. *)
LEMMA StoreTyped ==
    ASSUME NEW capacity \in Nat, NEW matcher \in Matchers(capacity),
           NEW hash \in Hash, NEW position \in Nat
    PROVE  store(matcher, hash, position) \in Matchers(capacity)
<1> DEFINE old == matcher.table[BucketOf[hash]]
           table == insert(matcher.table, hash, position)
           chain == IF old.value = 0 \/ matcher.capacity = 0 THEN matcher.chain
                    ELSE [matcher.chain EXCEPT ![position % matcher.capacity] = old]
<1>1. /\ matcher.table \in [Buckets -> BucketValue] /\ matcher.capacity = capacity
      /\ matcher.chain \in [0 .. capacity - 1 -> BucketValue]
  BY DEF Matchers
<1>2. table \in [Buckets -> BucketValue]
  BY <1>1, InsertTyped, BucketForTyped
<1>3. old \in BucketValue
  BY <1>1, BucketAssumption
<1>4. chain \in [0 .. capacity - 1 -> BucketValue]
  BY <1>1, <1>3
<1>5. store(matcher, hash, position) = [matcher EXCEPT !.table = table, !.chain = chain]
  BY DEF store
<1> HIDE DEF table, chain
<1> QED
  BY <1>2, <1>4, <1>5 DEF Matchers

-----------------------------------------------------------------------------
(* The matchers' hashes, moved with the loop. *)

(* A sequence of bytes is a sequence of numbers. *)
LEMMA BytesNat ==
    ASSUME NEW s \in Seq(Byte)
    PROVE  s \in Seq(Nat)
<1>1. Byte \subseteq Nat
  BY EncoderAssumption
<1>2. Len(s) \in Nat /\ s \in [1 .. Len(s) -> Byte]
  OBVIOUS
<1>3. s \in [1 .. Len(s) -> Nat]
  BY <1>1, <1>2
<1> QED
  BY <1>2, <1>3

(* A window's hash that is moved over the target. *)
LEMMA RolledOnTyped ==
    ASSUME trgt \in Seq(Byte), NEW hash \in Hash, NEW pos \in Nat, NEW window \in Nat
    PROVE  RolledOn(hash, pos, window) \in Hash
<1> DEFINE old == ByteAt(trgt, pos)
           new == ByteAt(trgt, pos + window)
           p == Power[window]
           m == HASH_MULT
<1>1. old \in Nat /\ new \in Nat /\ p \in Nat /\ m \in Nat /\ hash \in Int
  <2>1. pos + window \in Nat /\ trgt \in Seq(Nat)
    BY BytesNat
  <2>2. old \in Nat /\ new \in Nat
    BY <2>1, ByteAtNat
  <2>3. p \in Nat
    BY PowerDefined
  <2>4. m \in Nat /\ hash \in Int
    BY HashAssumption DEF Hash
  <2> QED
    BY <2>2, <2>3, <2>4
<1>2. RolledOn(hash, pos, window) = (m * hash - p * old + new) % HASH_SIZE
  BY DEF RolledOn, update_checksum_fwd
<1> HIDE DEF old, new, p, m
<1>3. m * hash - p * old + new \in Int
  BY <1>1
<1> QED
  BY <1>2, <1>3, ModInHash

(* The loop's one step of the hash is the roll forward: it gives the       *)
(* checksum of the next window.                                            *)
LEMMA RolledOnTrue ==
    ASSUME trgt \in Seq(Byte), NEW pos \in Nat, NEW window \in Nat, window # 0
    PROVE  RolledOn(calculate_checksum(trgt, pos, window), pos, window)
               = calculate_checksum(trgt, pos + 1, window)
  BY BytesNat, RollsForward DEF RolledOn

(* The last position with a whole window is a number. *)
LEMMA LastHashPosNat ==
    ASSUME trgt \in Seq(Byte), NEW window \in Nat
    PROVE  LastHashPos(window) \in Nat
<1>1. Len(trgt) \in Nat
  OBVIOUS
<1> QED
  BY <1>1 DEF LastHashPos, Minus, Largest

(* The hashes over which HashMovedTo rolls. *)
Rolled(hash, from, pos, window) ==
    CHOOSE rolled : rolled = [p \in from .. pos |->
        IF p = from THEN hash ELSE RolledOn(rolled[p - 1], p - 1, window)]

(* Rolled on from window to window, the hash of the first becomes the hash *)
(* of the last.                                                            *)
LEMMA RolledTrue ==
    ASSUME trgt \in Seq(Byte), NEW hash \in Hash, NEW from \in Nat, NEW pos \in Nat,
           from <= pos, NEW window \in Nat, window # 0
    PROVE  /\ Rolled(hash, from, pos, window)[pos] \in Hash
           /\ hash = calculate_checksum(trgt, from, window) =>
                 Rolled(hash, from, pos, window)[pos] = calculate_checksum(trgt, pos, window)
<1> DEFINE Eq(f) == f = [p \in from .. pos |->
                            IF p = from THEN hash ELSE RolledOn(f[p - 1], p - 1, window)]
           G == [p \in from .. pos |-> [v \in Hash |-> RolledOn(v, p - 1, window)]]
           F == Rolled(hash, from, pos, window)
           T == {p \in from .. pos :
                    /\ F[p] \in Hash
                    /\ hash = calculate_checksum(trgt, from, window) =>
                          F[p] = calculate_checksum(trgt, p, window)}
<1>1. \A p \in from + 1 .. pos, v \in Hash : RolledOn(v, p - 1, window) \in Hash
  <2> TAKE p \in from + 1 .. pos, v \in Hash
  <2>1. p - 1 \in Nat
    OBVIOUS
  <2> QED
    BY <2>1, RolledOnTyped
<1>2. \A p \in from + 1 .. pos, v \in Hash : G[p][v] = RolledOn(v, p - 1, window)
  <2>1. \A p \in from + 1 .. pos : p \in from .. pos
    OBVIOUS
  <2> QED
    BY <2>1
<1> HIDE DEF G
<1>3. StaysIn(G, from + 1, pos, Hash) /\ from \in Int /\ pos \in Int
  BY <1>1, <1>2 DEF StaysIn
<1>4. PICK f : RunsUp(f, hash, G, from, pos, Hash)
  BY <1>3, DefinedUpwards
<1>5. Eq(f)
  <2>1. f \in [from .. pos -> Hash] /\ f[from] = hash
    BY <1>4 DEF RunsUp
  <2>2. ASSUME NEW p \in from .. pos, p # from PROVE f[p] = RolledOn(f[p - 1], p - 1, window)
    <3>1. p \in from + 1 .. pos /\ p - 1 \in from .. pos
      BY <2>2
    <3>2. f[p] = G[p][f[p - 1]] /\ f[p - 1] \in Hash
      BY <1>4, <2>1, <3>1 DEF RunsUp
    <3> QED
      BY <1>2, <3>1, <3>2
  <2> QED
    BY <2>1, <2>2
<1>6. Eq(CHOOSE g : Eq(g))
  <2> HIDE DEF Eq
  <2> QED
    BY <1>5
<1>7. F = CHOOSE g : Eq(g)
  BY DEF Rolled
<1>8. Eq(F)
  BY <1>6, <1>7
<1> HIDE DEF F
<1>9. from \in T
  <2>1. from \in from .. pos
    OBVIOUS
  <2> QED
    BY <1>8, <2>1
<1>10. ASSUME NEW p \in from + 1 .. pos, p - 1 \in T PROVE p \in T
  <2>1. p \in from .. pos /\ p # from /\ p - 1 \in Nat /\ (p - 1) + 1 = p
    OBVIOUS
  <2>2. F[p] = RolledOn(F[p - 1], p - 1, window)
    BY <1>8, <2>1
  <2>3. F[p] \in Hash
    BY <1>10, <1>1, <2>2
  <2>4. ASSUME hash = calculate_checksum(trgt, from, window)
        PROVE  F[p] = calculate_checksum(trgt, p, window)
    <3>1. F[p - 1] = calculate_checksum(trgt, p - 1, window)
      BY <1>10, <2>4
    <3>2. RolledOn(calculate_checksum(trgt, p - 1, window), p - 1, window)
              = calculate_checksum(trgt, (p - 1) + 1, window)
      BY <2>1, RolledOnTrue
    <3> QED
      BY <2>1, <2>2, <3>1, <3>2
  <2> QED
    BY <2>1, <2>3, <2>4
<1>11. from .. pos \subseteq T
  <2> HIDE DEF T
  <2> QED
    BY <1>3, <1>9, <1>10, Upwards
<1>12. pos \in T
  <2>1. pos \in from .. pos
    OBVIOUS
  <2> HIDE DEF T
  <2> QED
    BY <1>11, <2>1
<1> QED
  BY <1>12 DEF F

(* Moved on, a hash stays one of the window it is said to be of; it is left *)
(* behind where no window is whole.                                         *)
MovedBy(moved, matcher, pos, window) ==
    \/ matcher.fwd_pos >= LastHashPos(window) /\ moved = matcher
    \/ \E hash \in Hash :
          /\ moved = [matcher EXCEPT !.fwd_hash = hash, !.fwd_pos = pos]
          /\ matcher.fwd_hash = calculate_checksum(trgt, matcher.fwd_pos, window)
                => hash = calculate_checksum(trgt, pos, window)

(* A matcher that is moved to a position has the hash of that position's   *)
(* window, or stands where the last window is.                             *)
LEMMA HashMovedToTrue ==
    ASSUME trgt \in Seq(Byte), NEW matcher, matcher.fwd_hash \in Hash,
           matcher.fwd_pos \in Nat, NEW pos \in Nat, matcher.fwd_pos <= pos,
           NEW window \in Nat, window # 0
    PROVE  MovedBy(HashMovedTo(matcher, pos, window), matcher, pos, window)
<1> DEFINE from == matcher.fwd_pos
           h == matcher.fwd_hash
           hash == IF from + window > pos THEN Rolled(h, from, pos, window)[pos]
                   ELSE calculate_checksum(trgt, pos, window)
<1>1. HashMovedTo(matcher, pos, window) =
          IF from >= LastHashPos(window) THEN matcher
          ELSE [matcher EXCEPT !.fwd_hash = hash, !.fwd_pos = pos]
  BY DEF HashMovedTo, Rolled
<1>2. from \in Nat /\ h \in Hash /\ LastHashPos(window) \in Nat /\ from <= pos
  BY LastHashPosNat
<1> HIDE DEF from, h
<1>3. hash \in Hash
  <2>1. calculate_checksum(trgt, pos, window) \in Hash
    BY BytesNat, ChecksumInHash
  <2> QED
    BY <1>2, <2>1, RolledTrue
<1>4. h = calculate_checksum(trgt, from, window) => hash = calculate_checksum(trgt, pos, window)
  BY <1>2, RolledTrue
<1> HIDE DEF hash
<1>5. from >= LastHashPos(window) \/ from < LastHashPos(window)
  BY <1>2
<1> QED
  BY <1>1, <1>2, <1>3, <1>4, <1>5 DEF MovedBy, from, h

(* The same of a matcher that is moved on by one byte. *)
LEMMA HashMovedOnTrue ==
    ASSUME trgt \in Seq(Byte), NEW matcher, matcher.fwd_hash \in Hash,
           matcher.fwd_pos \in Nat, NEW pos \in Nat,
           NEW window \in Nat, window # 0,
           matcher.fwd_pos < LastHashPos(window) => matcher.fwd_pos = pos
    PROVE  MovedBy(HashMovedOn(matcher, pos, window), matcher, pos + 1, window)
<1> DEFINE from == matcher.fwd_pos
           h == matcher.fwd_hash
           hash == RolledOn(h, pos, window)
<1>1. HashMovedOn(matcher, pos, window) =
          IF from >= LastHashPos(window) THEN matcher
          ELSE [matcher EXCEPT !.fwd_hash = hash, !.fwd_pos = pos + 1]
  BY DEF HashMovedOn
<1>2. from \in Nat /\ h \in Hash /\ LastHashPos(window) \in Nat
  BY LastHashPosNat
<1>3. from < LastHashPos(window) => from = pos
  OBVIOUS
<1> HIDE DEF from, h
<1>4. hash \in Hash
  BY <1>2, RolledOnTyped
<1>5. h = calculate_checksum(trgt, pos, window) => hash = calculate_checksum(trgt, pos + 1, window)
  BY RolledOnTrue
<1> HIDE DEF hash
<1>6. from >= LastHashPos(window) \/ from < LastHashPos(window)
  BY <1>2
<1> QED
  BY <1>1, <1>3, <1>4, <1>5, <1>6 DEF MovedBy, from, h

-----------------------------------------------------------------------------
(* The source's table: every bucket leads to a window of the source that   *)
(* has the bucket's hash.                                                  *)

(* The source's table. *)
LEMMA ConfigTyped ==
    ASSUME config \in Configs
    PROVE  /\ config.l_step \in Nat /\ config.l_step # 0
           /\ config.half_win_size \in Nat /\ config.half_win_size # 0
           /\ config.match_src \in BOOLEAN /\ config.match_trgt \in BOOLEAN
           /\ config.chain_check \in Nat /\ config.compress_early_exit \in Nat
           /\ config.prev_table_capacity \in SUBSET Nat
           /\ config.lazy_escape_len \in Nat
<1>1. config \in EncoderConfig
  BY EncoderAssumption
<1> QED
  BY <1>1 DEF EncoderConfig

(* Quotient and remainder of numbers. *)
LEMMA DivNat ==
    ASSUME NEW n \in Nat, NEW d \in Nat, d # 0
    PROVE  /\ n \div d \in Nat
           /\ n % d = 0 => (n \div d) * d = n
           /\ n % d <= n
<1> DEFINE q == n \div d
           r == n % d
<1>1. q \in Nat /\ r \in Nat /\ n = d * q + r
  OBVIOUS
<1> HIDE DEF q, r
<1>2. d * q \in Nat /\ q * d = d * q
  BY <1>1
<1>3. r <= n /\ (r = 0 => q * d = n)
  BY <1>1, <1>2
<1> QED
  BY <1>1, <1>3 DEF q, r

(* align rounds down. *)
LEMMA AlignTrue ==
    ASSUME NEW n \in Nat, NEW step \in Nat, step # 0
    PROVE  align(n, step) \in Nat /\ align(n, step) <= n
<1>1. n % step \in Nat /\ n % step <= n
  BY DivNat
<1> DEFINE r == n % step
<1> HIDE DEF r
<1>2. n - r \in Nat /\ n - r <= n
  BY <1>1 DEF r
<1> QED
  BY <1>2 DEF align, r

(* A source window that starts at or before max_end_pos lies inside the    *)
(* source.                                                                 *)
LEMMA MaxEndPosTrue ==
    ASSUME config \in Configs, src \in Seq(Byte), NEW len \in Nat, len = Len(src)
    PROVE  /\ max_end_pos \in Nat
           /\ \A p \in Nat : p <= max_end_pos /\ max_end_pos > 0 => p + SRC_HASH_LEN <= len
<1>1. SRC_HASH_LEN \in Nat
  BY EncoderAssumption
<1> DEFINE room == Minus(len, SRC_HASH_LEN)
<1>2. room \in Nat /\ (room > 0 => room + SRC_HASH_LEN = len)
  BY <1>1 DEF Minus, Largest
<1> HIDE DEF room
<1>3. max_end_pos \in Nat /\ max_end_pos <= room
  <2>1. align(room, config.l_step) \in Nat /\ align(room, config.l_step) <= room
    BY <1>2, ConfigTyped, AlignTrue
  <2> QED
    BY <2>1 DEF max_end_pos, room
<1> QED
  BY <1>1, <1>2, <1>3

(* The range that is added to the source's table ends inside the source. *)
LEMMA WindowRangeTrue ==
    ASSUME config \in Configs, src \in Seq(Byte), trgt \in Seq(Byte), trgt # <<>>,
           NEW pos \in Nat, NEW max_match_pos \in Nat,
           NEW range \in WindowRange(pos, max_match_pos)
    PROVE  range.start \in Nat /\ range.end \in Nat /\ range.end <= max_end_pos
<1> DEFINE half == config.half_win_size
           step == config.l_step
           scaled == (pos * Len(src)) \div Len(trgt)
           near == Smallest(scaled + half, max_end_pos)
           scaled_end == align(near, step)
           covered == Largest(cur_window_end, max_match_pos)
           from == Largest(covered, Minus(scaled_end, 2 * half))
<1>1. half \in Nat /\ step \in Nat /\ step # 0 /\ max_end_pos \in Nat
  <2>1. Len(src) \in Nat
    OBVIOUS
  <2> QED
    BY <2>1, ConfigTyped, MaxEndPosTrue
<1>2. scaled \in Nat
  <2> DEFINE a == Len(src)
             b == Len(trgt)
  <2>1. a \in Nat /\ b \in Nat /\ b # 0
    OBVIOUS
  <2> HIDE DEF a, b
  <2>2. pos * a \in Nat
    BY <2>1
  <2>3. (pos * a) \div b \in Nat
    BY <2>1, <2>2, DivNat
  <2> QED
    BY <2>3 DEF a, b
<1>3. \/ range = [start |-> 0, end |-> Smallest(2 * half, max_end_pos)]
      \/ range = [start |-> align(from, step), end |-> scaled_end]
  BY DEF WindowRange
<1> HIDE DEF scaled, half, step
<1>4. near \in Nat /\ near <= max_end_pos
  BY <1>1, <1>2 DEF Smallest
<1> HIDE DEF near
<1>5. scaled_end \in Nat /\ scaled_end <= max_end_pos
  <2>1. scaled_end \in Nat /\ scaled_end <= near
    BY <1>1, <1>4, AlignTrue
  <2> HIDE DEF scaled_end
  <2> QED
    BY <1>1, <1>4, <2>1
<1> HIDE DEF scaled_end
<1>6. from \in Nat
  <2>1. covered \in Nat
    BY DEF Largest, cur_window_end
  <2>2. Minus(scaled_end, 2 * half) \in Nat
    BY <1>1, <1>5 DEF Minus, Largest
  <2> HIDE DEF covered
  <2> QED
    BY <2>1, <2>2 DEF Largest
<1> HIDE DEF from
<1>7. align(from, step) \in Nat
  BY <1>1, <1>6, AlignTrue
<1>8. Smallest(2 * half, max_end_pos) \in Nat /\ Smallest(2 * half, max_end_pos) <= max_end_pos
  BY <1>1 DEF Smallest
<1>9. CASE range = [start |-> 0, end |-> Smallest(2 * half, max_end_pos)]
  BY <1>8, <1>9
<1>10. CASE range = [start |-> align(from, step), end |-> scaled_end]
  BY <1>5, <1>7, <1>10
<1> QED
  BY <1>3, <1>9, <1>10

(* A bucket that holds a position of the source holds its window's hash. *)
TrueBuckets ==
    {x \in BucketValue : x.value # 0 =>
        /\ x.hash = calculate_checksum(src, (x.value - 1) * config.l_step, SRC_HASH_LEN)
        /\ (x.value - 1) * config.l_step + SRC_HASH_LEN <= Len(src)}

(* A source position stored by its number of steps is a true bucket: it    *)
(* leads to a whole window of the source with that hash.                   *)
LEMMA BucketForTrue ==
    ASSUME config \in Configs, src \in Seq(Byte), NEW p \in Nat,
           p % config.l_step = 0, p + SRC_HASH_LEN <= Len(src)
    PROVE  BucketFor(calculate_checksum(src, p, SRC_HASH_LEN), p \div config.l_step)
               \in TrueBuckets
<1> DEFINE step == config.l_step
           q == p \div step
           h == calculate_checksum(src, p, SRC_HASH_LEN)
           x == BucketFor(h, q)
<1>1. q \in Nat /\ q * step = p
  BY ConfigTyped, DivNat
<1>2. h \in Hash
  <2>1. SRC_HASH_LEN \in Nat
    BY EncoderAssumption
  <2> QED
    BY <2>1, BytesNat, ChecksumInHash
<1> HIDE DEF q
<1>3. x \in BucketValue /\ x.hash = h /\ x.value = q + 1
  BY <1>1, <1>2, BucketForTyped DEF BucketFor
<1> HIDE DEF x
<1>4. x.value - 1 = q
  BY <1>1, <1>3
<1>5. x \in TrueBuckets
  BY <1>1, <1>3, <1>4 DEF TrueBuckets
<1> QED
  BY <1>5 DEF x, q

(* What TableWith puts in, from the end of a range. *)
SrcRolls == config.l_step < SRC_HASH_LEN
SrcLast(range) ==
    IF SrcRolls THEN align(Minus(range.end, SRC_HASH_LEN), config.l_step) ELSE range.end
SrcHash(later, p) ==
    IF SrcRolls THEN update_checksum_bwd(later.hash, src[p + SRC_HASH_LEN + 1], src[p + 1],
                                         SRC_HASH_LEN)
    ELSE calculate_checksum(src, p, SRC_HASH_LEN)
SrcPut(later, h, p) ==
    IF p % config.l_step = 0 THEN insert(later.table, h, p \div config.l_step)
    ELSE later.table
SrcBack(later, p) ==
    [hash |-> SrcHash(later, p), table |-> SrcPut(later, SrcHash(later, p), p)]
SrcFilled(table, range) ==
    CHOOSE filled : filled = [p \in range.start .. SrcLast(range) |->
        IF p = SrcLast(range)
        THEN [hash |-> calculate_checksum(src, p, SRC_HASH_LEN), table |-> table]
        ELSE SrcBack(filled[p + 1], p)]

(* The table with a range is what its last round leaves. *)
LEMMA TableWithFilled ==
    ASSUME NEW table, NEW range
    PROVE  TableWith(table, range) =
               IF range.start < SrcLast(range) THEN SrcFilled(table, range)[range.start].table
               ELSE table
  BY DEF TableWith, SrcFilled, SrcLast, SrcBack, SrcHash, SrcPut, SrcRolls

(* The windows of a range that the source matcher fills from back to front *)
(* lie inside the source.                                                  *)
LEMMA SrcLastTrue ==
    ASSUME config \in Configs, src \in Seq(Byte), NEW range,
           range.start \in Nat, range.end \in Nat, range.end <= max_end_pos,
           range.start < SrcLast(range), NEW len \in Nat, len = Len(src)
    PROVE  /\ SrcLast(range) \in Nat
           /\ \A p \in Nat : p <= SrcLast(range) => p + SRC_HASH_LEN <= len
<1> DEFINE end == range.end
           last == SrcLast(range)
           room == Minus(end, SRC_HASH_LEN)
<1>1. SRC_HASH_LEN \in Nat /\ end \in Nat /\ max_end_pos \in Nat /\ range.start \in Nat
  BY EncoderAssumption, MaxEndPosTrue
<1>2. room \in Nat /\ room <= end
  BY <1>1 DEF Minus, Largest
<1>3. last \in Nat /\ last <= end
  <2>1. align(room, config.l_step) \in Nat /\ align(room, config.l_step) <= room
    BY <1>2, ConfigTyped, AlignTrue
  <2>2. last = align(room, config.l_step) \/ last = end
    BY DEF SrcLast
  <2> HIDE DEF last, room, end
  <2> QED
    BY <1>1, <1>2, <2>1, <2>2
<1> HIDE DEF last
<1>4. max_end_pos > 0 /\ \A p \in Nat : p <= last => p <= max_end_pos
  <2>1. range.start < last /\ end <= max_end_pos
    BY DEF last
  <2> DEFINE from == range.start
             most == max_end_pos
  <2>2. from \in Nat /\ from < last /\ most \in Nat /\ end \in Nat /\ end <= most
    BY <1>1, <2>1
  <2> HIDE DEF from, most, end
  <2>3. most > 0 /\ \A p \in Nat : p <= last => p <= most
    BY <1>3, <2>2
  <2> QED
    BY <2>3 DEF most
<1>5. \A p \in Nat : p <= last => p + SRC_HASH_LEN <= len
  BY <1>4, MaxEndPosTrue
<1> QED
  BY <1>3, <1>5 DEF last

(* A byte inside a sequence is the one that ByteAt reads. *)
LEMMA ByteInside ==
    ASSUME NEW s \in Seq(Byte), NEW p \in Nat, p < Len(s)
    PROVE  s[p + 1] = ByteAt(s, p) /\ s[p + 1] \in Byte
<1>1. p + 1 \in 1 .. Len(s)
  OBVIOUS
<1> QED
  BY <1>1 DEF ByteAt

(* The hash rolled back by one byte is the checksum of the window before. *)
LEMMA SrcHashTrue ==
    ASSUME src \in Seq(Byte), NEW later, later.hash \in Hash, NEW p \in Nat,
           p + SRC_HASH_LEN < Len(src)
    PROVE  /\ SrcHash(later, p) \in Hash
           /\ later.hash = calculate_checksum(src, p + 1, SRC_HASH_LEN)
                 => SrcHash(later, p) = calculate_checksum(src, p, SRC_HASH_LEN)
<1> DEFINE L == SRC_HASH_LEN
           h == later.hash
           old == src[p + L + 1]
           new == src[p + 1]
           P == Power[L]
           inv == MOD_INV
           h2 == update_checksum_bwd(h, old, new, L)
<1>1. L \in Nat /\ L # 0 /\ src \in Seq(Nat) /\ h \in Hash
  BY EncoderAssumption, BytesNat
<1>2. old = ByteAt(src, p + L) /\ new = ByteAt(src, p) /\ old \in Nat /\ new \in Nat
  <2> DEFINE len == Len(src)
             q == p + L
  <2>1. len \in Nat /\ q \in Nat /\ q < len /\ p < len
    BY <1>1
  <2> HIDE DEF len, q
  <2>2. src[q + 1] = ByteAt(src, q) /\ src[p + 1] = ByteAt(src, p)
        /\ src[q + 1] \in Byte /\ src[p + 1] \in Byte
    BY <2>1, ByteInside DEF len
  <2> QED
    BY <2>2, EncoderAssumption DEF q
<1>3. calculate_checksum(src, p, L) \in Hash
  BY <1>1, ChecksumInHash
<1>4. h2 \in Hash
  <2>1. P \in Nat /\ inv \in Nat /\ h \in Int
    <3>1. P \in Nat
      BY <1>1, PowerDefined
    <3>2. inv \in Nat /\ h \in Int
      BY <1>1, HashAssumption DEF Hash
    <3> QED
      BY <3>1, <3>2
  <2>2. h2 = ((h - old + P * new) * inv) % HASH_SIZE
    BY DEF update_checksum_bwd
  <2> HIDE DEF P, inv, h, old, new, h2
  <2>3. (h - old + P * new) * inv \in Int
    BY <1>2, <2>1
  <2> QED
    BY <2>2, <2>3, ModInHash
<1>5. h = calculate_checksum(src, p + 1, L) => h2 = calculate_checksum(src, p, L)
  BY <1>1, <1>2, RollsBackward
<1>6. SrcHash(later, p) = h2 \/ SrcHash(later, p) = calculate_checksum(src, p, L)
  BY DEF SrcHash
<1> QED
  BY <1>3, <1>4, <1>5, <1>6

TypedFills == [hash : Hash, table : [Buckets -> BucketValue]]
TrueFill(fill, p) ==
    /\ fill.hash = calculate_checksum(src, p, SRC_HASH_LEN)
    /\ fill.table \in [Buckets -> TrueBuckets]

(* A round of the fill keeps the hash in step and the table true. *)
LEMMA SrcBackTrue ==
    ASSUME config \in Configs, src \in Seq(Byte), NEW later \in TypedFills, NEW p \in Nat,
           p + SRC_HASH_LEN < Len(src)
    PROVE  /\ SrcBack(later, p) \in TypedFills
           /\ TrueFill(later, p + 1) => TrueFill(SrcBack(later, p), p)
<1> DEFINE h == SrcHash(later, p)
           table == SrcPut(later, h, p)
           step == config.l_step
<1>1. later.hash \in Hash /\ later.table \in [Buckets -> BucketValue]
  BY DEF TypedFills
<1>2. /\ h \in Hash
      /\ TrueFill(later, p + 1) => h = calculate_checksum(src, p, SRC_HASH_LEN)
  BY <1>1, SrcHashTrue DEF TrueFill
<1>3. step \in Nat /\ step # 0 /\ p \div step \in Nat
  BY ConfigTyped, DivNat
<1> HIDE DEF h
<1>4. table \in [Buckets -> BucketValue]
  BY <1>1, <1>2, <1>3, InsertTyped, BucketForTyped DEF SrcPut
<1>5. ASSUME TrueFill(later, p + 1) PROVE table \in [Buckets -> TrueBuckets]
  <2>1. later.table \in [Buckets -> TrueBuckets]
    BY <1>5 DEF TrueFill
  <2>2. CASE p % step = 0
    <3>1. p + SRC_HASH_LEN <= Len(src)
      <4>1. Len(src) \in Nat /\ SRC_HASH_LEN \in Nat
        BY EncoderAssumption
      <4> QED
        BY <4>1
    <3>2. BucketFor(h, p \div step) \in TrueBuckets
      BY <1>2, <1>5, <2>2, <3>1, BucketForTrue
    <3>3. table = insert(later.table, h, p \div step)
      BY <2>2 DEF SrcPut
    <3> HIDE DEF table
    <3> QED
      BY <2>1, <3>2, <3>3, InsertTyped
  <2>3. CASE p % step # 0
    BY <2>1, <2>3 DEF SrcPut
  <2> QED
    BY <2>2, <2>3
<1>6. SrcBack(later, p) = [hash |-> h, table |-> table]
  BY DEF SrcBack, h
<1> HIDE DEF table
<1> QED
  BY <1>2, <1>4, <1>5, <1>6 DEF TypedFills, TrueFill

(* A table of true buckets is a table. *)
LEMMA TrueBucketsTyped ==
    ASSUME NEW table \in [Buckets -> TrueBuckets]
    PROVE  table \in [Buckets -> BucketValue]
  BY DEF TrueBuckets

(* add_start_positions keeps every bucket of the source's table true. *)
LEMMA TableWithTrue ==
    ASSUME config \in Configs, src \in Seq(Byte), NEW table \in [Buckets -> TrueBuckets],
           NEW range, range.start \in Nat, range.end \in Nat, range.end <= max_end_pos
    PROVE  TableWith(table, range) \in [Buckets -> TrueBuckets]
<1> DEFINE from == range.start
           last == SrcLast(range)
           x == [hash |-> calculate_checksum(src, last, SRC_HASH_LEN), table |-> table]
           Eq(f) == f = [p \in from .. last |->
                            IF p = last
                            THEN [hash |-> calculate_checksum(src, p, SRC_HASH_LEN),
                                  table |-> table]
                            ELSE SrcBack(f[p + 1], p)]
           G == [p \in from .. last |-> [v \in TypedFills |-> SrcBack(v, p)]]
           F == SrcFilled(table, range)
           T == {p \in from .. last : F[p] \in TypedFills /\ TrueFill(F[p], p)}
<1> SUFFICES ASSUME from < last
             PROVE  F[from].table \in [Buckets -> TrueBuckets]
  BY TableWithFilled
<1>1. from \in Nat /\ last \in Nat
  <2>1. Len(src) \in Nat
    OBVIOUS
  <2> QED
    BY <2>1, SrcLastTrue
<1>2. SRC_HASH_LEN \in Nat /\ \A p \in Nat : p <= last => p + SRC_HASH_LEN <= Len(src)
  <2>1. Len(src) \in Nat
    OBVIOUS
  <2> QED
    BY <2>1, SrcLastTrue, EncoderAssumption
<1>3. F = CHOOSE f : Eq(f)
  BY DEF SrcFilled
<1> HIDE DEF from, last
<1>4. ASSUME NEW p \in from .. last - 1 PROVE p \in Nat /\ p + SRC_HASH_LEN < Len(src)
  <2> DEFINE q == p + 1
  <2>1. q \in Nat /\ q <= last /\ p \in Nat /\ Len(src) \in Nat
    BY <1>1
  <2>2. q + SRC_HASH_LEN <= Len(src)
    BY <1>2, <2>1
  <2> QED
    BY <1>2, <2>1, <2>2
<1>5. \A p \in from .. last - 1, v \in TypedFills : SrcBack(v, p) \in TypedFills
  BY <1>4, SrcBackTrue
<1>6. \A p \in from .. last - 1, v \in TypedFills : G[p][v] = SrcBack(v, p)
  <2>1. \A p \in from .. last - 1 : p \in from .. last
    BY <1>1
  <2> QED
    BY <2>1
<1> HIDE DEF G
<1>7. StaysIn(G, from, last - 1, TypedFills) /\ from \in Int /\ last \in Int
  BY <1>1, <1>5, <1>6 DEF StaysIn
<1>8. x \in TypedFills /\ TrueFill(x, last)
  <2>1. calculate_checksum(src, last, SRC_HASH_LEN) \in Hash
    BY <1>1, <1>2, BytesNat, ChecksumInHash
  <2>2. table \in [Buckets -> BucketValue]
    BY TrueBucketsTyped
  <2> QED
    BY <2>1, <2>2 DEF TypedFills, TrueFill
<1>9. PICK f : RunsDown(f, x, G, from, last, TypedFills)
  <2> HIDE DEF x
  <2> QED
    BY <1>7, <1>8, DefinedDownwards
<1>10. Eq(f)
  <2>1. f[last] = x
    BY <1>1, <1>9 DEF RunsDown
  <2>2. ASSUME NEW p \in from .. last, p # last PROVE f[p] = SrcBack(f[p + 1], p)
    <3>1. p \in from .. last - 1 /\ p + 1 \in from .. last
      BY <1>1, <2>2
    <3> QED
      BY <1>6, <1>9, <3>1 DEF RunsDown
  <2> QED
    BY <1>9, <2>1, <2>2 DEF RunsDown
<1>11. Eq(CHOOSE g : Eq(g))
  <2> HIDE DEF Eq
  <2> QED
    BY <1>10
<1>12. Eq(F)
  BY <1>3, <1>11
<1> HIDE DEF F
<1>13. last \in T
  <2>1. last \in from .. last
    BY <1>1
  <2>2. F[last] = x
    BY <1>12, <2>1
  <2> QED
    BY <1>8, <2>1, <2>2
<1>14. ASSUME NEW p \in from .. last - 1, p + 1 \in T PROVE p \in T
  <2>1. p \in from .. last /\ p # last
    BY <1>1
  <2>2. F[p] = SrcBack(F[p + 1], p)
    BY <1>12, <2>1
  <2>3. F[p + 1] \in TypedFills /\ TrueFill(F[p + 1], p + 1)
    BY <1>14
  <2>4. F[p] \in TypedFills /\ TrueFill(F[p], p)
    BY <1>4, <2>2, <2>3, SrcBackTrue
  <2> QED
    BY <2>1, <2>4
<1>15. from .. last \subseteq T
  <2> HIDE DEF T
  <2> QED
    BY <1>7, <1>13, <1>14, Downwards
<1>16. from \in T
  <2>1. from \in from .. last
    BY <1>1
  <2> HIDE DEF T
  <2> QED
    BY <1>15, <2>1
<1> QED
  BY <1>16 DEF TrueFill

SrcMatchers ==
    [fwd_hash : Hash, fwd_pos : Nat, table : [Buckets -> TrueBuckets],
     next_hash_pos : Nat, max_match_pos : Nat]

InStep(matcher) ==
    matcher.fwd_pos < LastHashPos(SRC_HASH_LEN) =>
        matcher.fwd_hash = calculate_checksum(trgt, matcher.fwd_pos, SRC_HASH_LEN)

(* Positions added while the loop runs leave the source matcher true, and  *)
(* its hash where it was.                                                  *)
LEMMA AddStartPositionsTrue ==
    ASSUME config \in Configs, src \in Seq(Byte), trgt \in Seq(Byte), trgt # <<>>,
           NEW matcher \in SrcMatchers, NEW pos \in Nat
    PROVE  LET added == add_start_positions_to_matcher(matcher, pos)
           IN /\ added \in SrcMatchers
              /\ added.fwd_hash = matcher.fwd_hash /\ added.fwd_pos = matcher.fwd_pos
<1> DEFINE added == add_start_positions_to_matcher(matcher, pos)
           ranges == WindowRange(pos, matcher.max_match_pos)
           range == CHOOSE r \in ranges : TRUE
           next == IF range.end >= max_end_pos THEN NEVER ELSE pos + config.half_win_size
           table == TableWith(matcher.table, range)
<1>1. added = IF pos < matcher.next_hash_pos \/ ranges = {} THEN matcher
              ELSE [matcher EXCEPT !.next_hash_pos = next, !.table = table]
  BY DEF add_start_positions_to_matcher
<1>2. matcher.max_match_pos \in Nat /\ matcher.table \in [Buckets -> TrueBuckets]
  BY DEF SrcMatchers
<1>3. CASE ranges # {}
  <2>1. range \in ranges
    BY <1>3
  <2>2. range.start \in Nat /\ range.end \in Nat /\ range.end <= max_end_pos
    BY <1>2, <2>1, WindowRangeTrue
  <2>3. table \in [Buckets -> TrueBuckets]
    BY <1>2, <2>2, TableWithTrue
  <2>4. next \in Nat
    <3>1. NEVER \in Nat
      <4>1. Len(trgt) \in Nat
        OBVIOUS
      <4> QED
        BY <4>1 DEF NEVER
    <3>2. pos + config.half_win_size \in Nat
      BY ConfigTyped
    <3> QED
      BY <3>1, <3>2
  <2> HIDE DEF next, table, ranges
  <2>5. added = matcher \/ added = [matcher EXCEPT !.next_hash_pos = next, !.table = table]
    BY <1>1
  <2> HIDE DEF added
  <2>6. /\ added \in SrcMatchers
        /\ added.fwd_hash = matcher.fwd_hash /\ added.fwd_pos = matcher.fwd_pos
    BY <2>3, <2>4, <2>5 DEF SrcMatchers
  <2> QED
    BY <2>6 DEF added
<1>4. CASE ranges = {}
  BY <1>1, <1>4
<1> QED
  BY <1>3, <1>4

(* The source matcher is built true, its hash in step with where it stands. *)
LEMMA NewSrcMatcherTrue ==
    ASSUME config \in Configs, src \in Seq(Byte), trgt \in Seq(Byte), trgt # <<>>,
           NEW pos \in Nat
    PROVE  /\ NewSrcMatcher(pos) \in SrcMatchers
           /\ NewSrcMatcher(pos).fwd_pos <= pos
           /\ InStep(NewSrcMatcher(pos))
<1> DEFINE last == LastHashPos(SRC_HASH_LEN)
           sum == calculate_checksum(trgt, pos, SRC_HASH_LEN)
           hash == IF pos < last THEN sum ELSE 0
           at == IF pos < last THEN pos ELSE last
           matcher == [fwd_hash |-> hash, fwd_pos |-> at, table |-> NewTable,
                       next_hash_pos |-> 0, max_match_pos |-> pos]
           made == NewSrcMatcher(pos)
<1>1. made = add_start_positions_to_matcher(matcher, pos)
  BY DEF NewSrcMatcher
<1>2. last \in Nat /\ sum \in Hash /\ 0 \in Hash
  <2>1. SRC_HASH_LEN \in Nat
    BY EncoderAssumption
  <2>2. last \in Nat
    BY <2>1, LastHashPosNat
  <2>3. sum \in Hash
    BY <2>1, BytesNat, ChecksumInHash
  <2>4. 0 \in Hash
    BY HashAssumption DEF Hash
  <2> QED
    BY <2>2, <2>3, <2>4
<1>3. NewTable \in [Buckets -> TrueBuckets]
  <2>1. Empty \in TrueBuckets
    BY EmptyTyped DEF TrueBuckets, Empty
  <2> QED
    BY <2>1, NewTableTyped
<1> HIDE DEF last, sum
<1>4. hash \in Hash /\ at \in Nat /\ at <= pos /\ (at < last => at = pos /\ hash = sum)
  BY <1>2
<1> HIDE DEF hash, at
<1>5. matcher \in SrcMatchers /\ matcher.fwd_hash = hash /\ matcher.fwd_pos = at
  BY <1>3, <1>4 DEF SrcMatchers
<1> HIDE DEF matcher
<1>6. made \in SrcMatchers /\ made.fwd_hash = hash /\ made.fwd_pos = at
  BY <1>1, <1>5, AddStartPositionsTrue
<1> HIDE DEF made
<1>7. InStep(made)
  BY <1>4, <1>6 DEF InStep, last, sum
<1>8. made \in SrcMatchers /\ made.fwd_pos <= pos
  BY <1>4, <1>6
<1> QED
  BY <1>7, <1>8 DEF made

(* The target's matcher holds no position after some. *)
UpTo(matcher, n) ==
    /\ \A b \in Buckets : matcher.table[b].value <= n
    /\ \A i \in 0 .. matcher.capacity - 1 : matcher.chain[i].value <= n

(* Storing a position below n keeps the target matcher's positions below n. *)
LEMMA StoreUpTo ==
    ASSUME NEW capacity \in Nat, NEW matcher \in Matchers(capacity), NEW hash \in Hash,
           NEW position \in Nat, NEW n \in Nat, UpTo(matcher, n), position + 1 <= n
    PROVE  LET stored == store(matcher, hash, position)
           IN /\ stored \in Matchers(capacity)
              /\ stored.fwd_pos = matcher.fwd_pos /\ stored.fwd_hash = matcher.fwd_hash
              /\ UpTo(stored, n)
<1> DEFINE stored == store(matcher, hash, position)
           old == matcher.table[BucketOf[hash]]
           table == insert(matcher.table, hash, position)
           chain == IF old.value = 0 \/ matcher.capacity = 0 THEN matcher.chain
                    ELSE [matcher.chain EXCEPT ![position % matcher.capacity] = old]
<1>1. /\ matcher.table \in [Buckets -> BucketValue] /\ matcher.capacity = capacity
      /\ matcher.chain \in [0 .. capacity - 1 -> BucketValue]
      /\ BucketOf[hash] \in Buckets
  BY BucketAssumption DEF Matchers
<1>2. stored = [matcher EXCEPT !.table = table, !.chain = chain]
  BY DEF store
<1>3. \A b \in Buckets : table[b] = matcher.table[b] \/ table[b].value = position + 1
  BY <1>1 DEF insert, BucketFor
<1>4. \A i \in 0 .. capacity - 1 : chain[i] = matcher.chain[i] \/ chain[i] = old
  BY <1>1
<1>5. old.value <= n
  BY <1>1 DEF UpTo
<1> HIDE DEF table, chain, old
<1>6. stored \in Matchers(capacity)
  BY StoreTyped
<1> HIDE DEF stored
<1>7. stored.table = table /\ stored.chain = chain /\ stored.capacity = capacity
      /\ stored.fwd_pos = matcher.fwd_pos /\ stored.fwd_hash = matcher.fwd_hash
  BY <1>1, <1>2 DEF Matchers
<1>8. \A b \in Buckets : table[b].value <= n
  BY <1>3 DEF UpTo
<1>9. \A i \in 0 .. capacity - 1 : chain[i].value <= n
  BY <1>1, <1>4, <1>5 DEF UpTo
<1>10. UpTo(stored, n)
  BY <1>7, <1>8, <1>9 DEF UpTo
<1> QED
  BY <1>6, <1>7, <1>10 DEF stored

(* The steps of Prefilled. *)
FillFirst(matcher, p) ==
    [hash |-> calculate_checksum(trgt, p, MIN_MATCH),
     matcher |-> store(matcher, calculate_checksum(trgt, p, MIN_MATCH), p)]
FillOn(before, p) ==
    [hash |-> RolledOn(before.hash, p - 1, MIN_MATCH),
     matcher |-> store(before.matcher, RolledOn(before.hash, p - 1, MIN_MATCH), p)]
Filled(matcher) ==
    CHOOSE filled : filled = [p \in PrefillStart(matcher) .. matcher.fwd_pos |->
        IF p = PrefillStart(matcher) THEN FillFirst(matcher, p) ELSE FillOn(filled[p - 1], p)]

(* Prefilling is what its last round leaves. *)
LEMMA PrefilledIsFilled ==
    ASSUME NEW matcher
    PROVE  Prefilled(matcher) = Filled(matcher)[matcher.fwd_pos].matcher
  BY DEF Prefilled, Filled, FillFirst, FillOn

(* Prefilled, the target matcher stands at the start and holds positions   *)
(* up to it.                                                               *)
LEMMA PrefilledTrue ==
    ASSUME trgt \in Seq(Byte), NEW capacity \in Nat, NEW matcher \in Matchers(capacity),
           NEW pos \in Nat, matcher.fwd_pos = pos, UpTo(matcher, pos + 1)
    PROVE  /\ Prefilled(matcher) \in Matchers(capacity)
           /\ Prefilled(matcher).fwd_pos = pos
           /\ UpTo(Prefilled(matcher), pos + 1)
<1> DEFINE first == PrefillStart(matcher)
           Good(m) == m \in Matchers(capacity) /\ m.fwd_pos = pos /\ UpTo(m, pos + 1)
           S == {r \in [hash : Hash, matcher : Matchers(capacity)] : Good(r.matcher)}
           Eq(f) == f = [p \in first .. pos |->
                            IF p = first THEN FillFirst(matcher, p) ELSE FillOn(f[p - 1], p)]
           x == FillFirst(matcher, first)
           G == [p \in first .. pos |-> [v \in S |-> FillOn(v, p)]]
           F == Filled(matcher)
           T == {p \in first .. pos : F[p] \in S}
<1>1. first \in Nat /\ first <= pos /\ MIN_MATCH \in Nat
  <2>1. matcher.capacity \in Nat
    BY DEF Matchers
  <2> QED
    BY <2>1, EncoderAssumption DEF PrefillStart, Minus, Largest
<1>2. F = CHOOSE f : Eq(f)
  BY DEF Filled
<1> HIDE DEF first
<1>3. \A m : Good(m) => \A h \in Hash, p \in first .. pos : Good(store(m, h, p))
  <2> SUFFICES ASSUME NEW m, Good(m), NEW h \in Hash, NEW p \in first .. pos
               PROVE  Good(store(m, h, p))
    OBVIOUS
  <2>1. p \in Nat /\ pos + 1 \in Nat /\ p + 1 <= pos + 1
    BY <1>1
  <2> QED
    BY <2>1, StoreUpTo
<1>4. Good(matcher)
  OBVIOUS
<1> HIDE DEF Good
<1>5. ASSUME NEW p \in first + 1 .. pos, NEW v \in S PROVE FillOn(v, p) \in S
  <2>1. p - 1 \in Nat /\ p \in first .. pos
    BY <1>1
  <2>2. v.hash \in Hash /\ Good(v.matcher)
    OBVIOUS
  <2> DEFINE h == RolledOn(v.hash, p - 1, MIN_MATCH)
             m == store(v.matcher, h, p)
  <2>3. h \in Hash
    BY <1>1, <2>1, <2>2, RolledOnTyped
  <2>4. FillOn(v, p) = [hash |-> h, matcher |-> m]
    BY DEF FillOn
  <2> HIDE DEF h
  <2>5. Good(m)
    BY <1>3, <2>1, <2>2, <2>3
  <2> HIDE DEF m
  <2>6. m \in Matchers(capacity)
    BY <2>5 DEF Good
  <2> QED
    BY <2>3, <2>4, <2>5, <2>6
<1>6. x \in S
  <2> DEFINE h == calculate_checksum(trgt, first, MIN_MATCH)
             m == store(matcher, h, first)
  <2>1. h \in Hash /\ first \in first .. pos
    BY <1>1, BytesNat, ChecksumInHash
  <2>2. x = [hash |-> h, matcher |-> m]
    BY DEF FillFirst
  <2> HIDE DEF h
  <2>3. Good(m)
    BY <1>3, <1>4, <2>1
  <2> HIDE DEF m, x
  <2>4. m \in Matchers(capacity)
    BY <2>3 DEF Good
  <2> QED
    BY <2>1, <2>2, <2>3, <2>4
<1>7. \A p \in first + 1 .. pos, v \in S : G[p][v] = FillOn(v, p)
  <2>1. \A p \in first + 1 .. pos : p \in first .. pos
    BY <1>1
  <2> HIDE DEF S
  <2> QED
    BY <2>1
<1> HIDE DEF G, x, S
<1>8. StaysIn(G, first + 1, pos, S) /\ first \in Int /\ pos \in Int
  BY <1>1, <1>5, <1>7 DEF StaysIn
<1>9. PICK f : RunsUp(f, x, G, first, pos, S)
  BY <1>6, <1>8, DefinedUpwards
<1>10. Eq(f)
  <2>1. f \in [first .. pos -> S] /\ f[first] = FillFirst(matcher, first)
    BY <1>1, <1>9 DEF RunsUp, x
  <2>2. ASSUME NEW p \in first .. pos, p # first PROVE f[p] = FillOn(f[p - 1], p)
    <3>1. p \in first + 1 .. pos /\ p - 1 \in first .. pos
      BY <1>1, <2>2
    <3>2. f[p] = G[p][f[p - 1]] /\ f[p - 1] \in S
      BY <1>9, <2>1, <3>1 DEF RunsUp
    <3> QED
      BY <1>7, <3>1, <3>2
  <2> QED
    BY <2>1, <2>2
<1>11. Eq(CHOOSE g : Eq(g))
  <2> HIDE DEF Eq
  <2> QED
    BY <1>10
<1>12. Eq(F)
  BY <1>2, <1>11
<1> HIDE DEF F
<1>13. first \in T
  <2>1. first \in first .. pos
    BY <1>1
  <2>2. F[first] = x
    BY <1>12, <2>1 DEF x
  <2> QED
    BY <1>6, <2>1, <2>2
<1>14. ASSUME NEW p \in first + 1 .. pos, p - 1 \in T PROVE p \in T
  <2>1. p \in first .. pos /\ p # first
    BY <1>1
  <2>2. F[p] = FillOn(F[p - 1], p)
    BY <1>12, <2>1
  <2> QED
    BY <1>5, <1>14, <2>1, <2>2
<1>15. first .. pos \subseteq T
  <2> HIDE DEF T
  <2> QED
    BY <1>8, <1>13, <1>14, Upwards
<1>16. F[pos] \in S
  <2>1. pos \in first .. pos
    BY <1>1
  <2> QED
    BY <1>15, <2>1
<1>17. Good(F[pos].matcher)
  BY <1>16 DEF S
<1>18. Prefilled(matcher) = F[pos].matcher
  BY PrefilledIsFilled DEF F
<1> QED
  BY <1>17, <1>18 DEF Good

(* The target matcher is built empty, with the hash of the window where it *)
(* starts.                                                                 *)
LEMMA TrgtMatcherTrue ==
    ASSUME config \in Configs, trgt \in Seq(Byte), NEW pos \in Nat, pos <= Len(trgt)
    PROVE  \E capacity \in Nat :
              /\ TrgtMatcher(pos) \in Matchers(capacity)
              /\ TrgtMatcher(pos).fwd_pos = pos
              /\ UpTo(TrgtMatcher(pos), 0)
<1> DEFINE len == Len(trgt)
           next == next_power_of_two(len - pos)
           half == next \div 2
           capacity == IF config.prev_table_capacity = {} THEN Smallest(DEFAULT_PREV_SIZE, half)
                       ELSE CHOOSE c \in config.prev_table_capacity : TRUE
           matcher == [fwd_hash |-> 0, fwd_pos |-> pos, table |-> NewTable,
                       chain |-> NewChain(capacity), capacity |-> capacity]
<1>1. TrgtMatcher(pos) = matcher
  BY DEF TrgtMatcher
<1>2. half \in Nat
  <2>1. len - pos \in Nat
    OBVIOUS
  <2>2. next \in Nat
    BY <2>1, NextPowerNat
  <2> HIDE DEF next
  <2> QED
    BY <2>2
<1> HIDE DEF half
<1>3. capacity \in Nat
  <2>1. CASE config.prev_table_capacity = {}
    <3>1. DEFAULT_PREV_SIZE \in Nat
      BY EncoderAssumption
    <3> QED
      BY <1>2, <2>1, <3>1 DEF Smallest
  <2>2. CASE config.prev_table_capacity # {}
    <3>1. config.prev_table_capacity \subseteq Nat
      BY ConfigTyped
    <3> QED
      BY <2>2, <3>1
  <2> QED
    BY <2>1, <2>2
<1> HIDE DEF capacity
<1>4. NewTable \in [Buckets -> BucketValue] /\ \A b \in Buckets : NewTable[b].value = 0
  BY EmptyTyped DEF NewTable, Empty
<1>5. /\ NewChain(capacity) \in [0 .. capacity - 1 -> BucketValue]
      /\ \A i \in 0 .. capacity - 1 : NewChain(capacity)[i].value = 0
  BY EmptyTyped DEF NewChain, Empty
<1>6. 0 \in Hash
  BY HashAssumption DEF Hash
<1>7. matcher \in Matchers(capacity) /\ matcher.fwd_pos = pos
  BY <1>3, <1>4, <1>5, <1>6 DEF Matchers
<1>8. UpTo(matcher, 0)
  BY <1>4, <1>5 DEF UpTo
<1> HIDE DEF matcher
<1> QED
  BY <1>1, <1>3, <1>7, <1>8

(* Built and prefilled, it holds no position behind the start. *)
LEMMA NewTrgtMatcherTrue ==
    ASSUME config \in Configs, trgt \in Seq(Byte), NEW pos \in Nat, pos <= Len(trgt)
    PROVE  \E capacity \in Nat :
              /\ NewTrgtMatcher(pos) \in Matchers(capacity)
              /\ NewTrgtMatcher(pos).fwd_pos = pos
              /\ UpTo(NewTrgtMatcher(pos), pos + 1)
              /\ pos = 0 => UpTo(NewTrgtMatcher(pos), 0)
<1> DEFINE matcher == TrgtMatcher(pos)
           made == NewTrgtMatcher(pos)
<1>1. PICK capacity \in Nat :
          matcher \in Matchers(capacity) /\ matcher.fwd_pos = pos /\ UpTo(matcher, 0)
  BY TrgtMatcherTrue
<1>2. made = IF pos > 0 THEN Prefilled(matcher) ELSE matcher
  BY DEF NewTrgtMatcher
<1> HIDE DEF matcher, made
<1>3. UpTo(matcher, pos + 1)
  <2>1. \A b \in Buckets : matcher.table[b].value \in Nat /\ matcher.table[b].value <= 0
    BY <1>1 DEF UpTo, Matchers, BucketValue
  <2>2. \A i \in 0 .. matcher.capacity - 1 :
            matcher.chain[i].value \in Nat /\ matcher.chain[i].value <= 0
    BY <1>1 DEF UpTo, Matchers, BucketValue
  <2>3. \A n \in Nat : n <= 0 => n <= pos + 1
    OBVIOUS
  <2> QED
    BY <2>1, <2>2, <2>3 DEF UpTo
<1>4. CASE pos > 0
  <2>1. made = Prefilled(matcher)
    BY <1>2, <1>4
  <2>2. made \in Matchers(capacity) /\ made.fwd_pos = pos /\ UpTo(made, pos + 1)
    BY <1>1, <1>3, <2>1, PrefilledTrue
  <2> QED
    BY <1>4, <2>2 DEF made
<1>5. CASE ~ (pos > 0)
  <2>1. made = matcher
    BY <1>2, <1>5
  <2> QED
    BY <1>1, <1>3, <2>1 DEF made
<1> QED
  BY <1>4, <1>5

-----------------------------------------------------------------------------
(* The invariant of the loop. *)

(* The states of a round: it looks for a match, or has found one and moves. *)
WalkStates == {"Examine", "Advance", "EndWalk"}
Looking == {"TryMatch"} \cup WalkStates
Behind == Looking \cup {"FoundMatch", "MoveForwardOneByte"}
Active == {"StartNewMatch"} \cup Behind

(* The numbers of the loop stay in the target. *)
Positions ==
    /\ config \in Configs
    /\ src \in Seq(Byte) /\ trgt \in Seq(Byte)
    /\ max_trgt_match_len \in 0 .. Len(trgt)
    /\ ops \in Seq(InnerOp)
    /\ cur_o_pos \in 0 .. Len(trgt)
    /\ min_match \in Nat /\ min_match >= MIN_MATCH
    /\ run_len \in Nat /\ match_len \in Nat
    /\ run_byte \in Byte \cup {0}
    /\ state \in Behind => run_byte \in Byte
    /\ state \in Active \cup {"begin", "done", "panicked"}
    /\ state \in Active => trgt # <<>>
    /\ state = "begin" => cur_o_pos = 0 /\ ops = <<>> /\ max_trgt_match_len = Len(trgt)
    /\ state = "FoundMatch" => match_len >= MIN_MATCH /\ cur_o_pos + match_len <= Len(trgt)

(* Each matcher looks where the loop does, or its window reached the end. *)
LooksAt(matcher, window) ==
    /\ matcher.fwd_pos <= cur_o_pos
    /\ \/ state = "StartNewMatch" \/ matcher.fwd_pos = cur_o_pos
       \/ matcher.fwd_pos >= LastHashPos(window)

(* The source matcher, while it is on, is true and its hash in step. *)
SourceInStep ==
    /\ src_matcher = OffMatcher \/ (src_matcher \in SrcMatchers /\ InStep(src_matcher))
    /\ state \in Active /\ config.match_src =>
          /\ src_matcher \in SrcMatchers /\ InStep(src_matcher)
          /\ LooksAt(src_matcher, SRC_HASH_LEN)

(* The target matcher holds only positions that the loop has passed. *)
TargetInStep ==
    /\ trgt_matcher = OffMatcher \/ \E capacity \in Nat : trgt_matcher \in Matchers(capacity)
    /\ state \in Active /\ config.match_trgt =>
          /\ \E capacity \in Nat : trgt_matcher \in Matchers(capacity)
          /\ LooksAt(trgt_matcher, MIN_MATCH)
          /\ UpTo(trgt_matcher, cur_o_pos + 1)

(* The best match of a walk is one: its bytes are those where the loop looks. *)
WalkTrue ==
    /\ walk \in [pos : Nat, chain : Nat, best_start : Nat, best_len : Nat]
    /\ state \in WalkStates =>
          /\ config.match_trgt /\ cur_o_pos + MIN_MATCH < max_trgt_match_len
          /\ walk.best_start + walk.best_len <= cur_o_pos
          /\ SameBytes(trgt, walk.best_start, trgt, cur_o_pos, walk.best_len)
    /\ state \in {"Examine", "Advance"} => walk.chain > 0

LoopTyped == Positions /\ SourceInStep /\ TargetInStep /\ WalkTrue

(* Each match reproduces the target's bytes.  Only an empty source that    *)
(* begins the target gives one without a byte.                             *)
OpsTrue ==
    \A i \in 1 .. Len(ops) :
        /\ TrueMatch(ops[i], src, trgt)
        /\ ops[i].length = 0 => i = 1 /\ ops[i].o_pos = 0 /\ src = <<>>

(* A later match starts after an earlier one and reaches further; at the   *)
(* end the operations are only in order.                                   *)
Follows(m, n) ==
    /\ m.o_pos <= n.o_pos
    /\ m.length > 0 => m.o_pos < n.o_pos
    /\ m.o_pos + m.length < n.o_pos + n.length

OpsFollow ==
    IF state = "done" THEN \A i \in 1 .. Len(ops) - 1 : Ordered(ops[i], ops[i + 1])
    ELSE \A i, j \in 1 .. Len(ops) : i < j => Follows(ops[i], ops[j])

(* How far a match found so far may reach, so that the next one, which is  *)
(* at least min_match long where the loop looks, reaches further.          *)
Placed(op) ==
    /\ op.o_pos <= max_trgt_match_len /\ op.o_pos <= cur_o_pos
    /\ state \in {"StartNewMatch"} \cup Looking /\ op.length > 0 => op.o_pos < cur_o_pos
    /\ state \in Looking => op.o_pos + op.length < cur_o_pos + min_match
    /\ state = "FoundMatch" => op.o_pos + op.length <= cur_o_pos + match_len
    /\ state = "MoveForwardOneByte" => op.o_pos + op.length < cur_o_pos + 1 + min_match

OpsPlaced == state # "done" => \A i \in 1 .. Len(ops) : Placed(ops[i])

(* The run that ends with the window where the loop looks. *)
RunTrue ==
    state \in Behind =>
        \A i \in 1 .. MIN_MATCH : i <= run_len => trgt[cur_o_pos + MIN_MATCH - i + 1] = run_byte

(* The loop stops before the target's end only where the source ends it. *)
PrependTrue ==
    max_trgt_match_len < Len(trgt) =>
        /\ max_trgt_match_len = Len(trgt) - Len(src)
        /\ SameBytes(src, 0, trgt, max_trgt_match_len, Len(src))

MatchesTrue == OpsTrue /\ OpsFollow /\ OpsPlaced /\ RunTrue /\ PrependTrue

(* What the table holds was stored before position n, and each place of the *)
(* ring leads back from such a position of that place.                      *)
LeadsBack(matcher, n) ==
    /\ \A b \in Buckets : matcher.table[b].value <= n
    /\ \A i \in 0 .. matcher.capacity - 1 :
          matcher.chain[i].value # 0 =>
              \E q \in 0 .. n - 1 : q % matcher.capacity = i /\ matcher.chain[i].value - 1 < q

(* The target matcher leads back from where the loop looks, and so does    *)
(* the walk; a prefilled one holds the start's own position.               *)
ChainsOrdered ==
    state \in Active /\ config.match_trgt /\ ~ Prefills =>
        /\ LeadsBack(trgt_matcher, cur_o_pos)
        /\ state \in {"Examine", "Advance"} => walk.pos < cur_o_pos

-----------------------------------------------------------------------------
(* What a round finds. *)

(* While a round is not out of data, a whole window lies before the end. *)
LEMMA InsideTarget ==
    ASSUME Positions, ~ OutOfData
    PROVE  /\ cur_o_pos \in Nat /\ MIN_MATCH \in Nat /\ MIN_MATCH # 0 /\ Len(trgt) \in Nat
           /\ max_trgt_match_len \in Nat
           /\ cur_o_pos + MIN_MATCH < max_trgt_match_len /\ max_trgt_match_len <= Len(trgt)
<1> DEFINE len == Len(trgt)
<1>1. len \in Nat
  BY DEF Positions
<1>2. MIN_MATCH \in Nat /\ MIN_MATCH # 0
  BY EncoderAssumption
<1>3. cur_o_pos \in 0 .. len /\ max_trgt_match_len \in 0 .. len
  BY DEF Positions
<1>4. ~ (cur_o_pos + MIN_MATCH >= max_trgt_match_len)
  BY DEF OutOfData
<1> HIDE DEF len
<1>5. /\ cur_o_pos \in Nat /\ max_trgt_match_len \in Nat
      /\ cur_o_pos + MIN_MATCH < max_trgt_match_len /\ max_trgt_match_len <= len
  BY <1>1, <1>2, <1>3, <1>4
<1> QED
  BY <1>1, <1>2, <1>5 DEF len

(* Where a match lies is given by numbers. *)
LEMMA MatchNumbers ==
    ASSUME NEW op \in InnerOp
    PROVE  op.o_pos \in Nat /\ op.length \in Nat /\ op.o_pos + op.length \in Nat
<1>1. op.o_pos \in Nat /\ op.length \in Nat
  BY DEF InnerOp
<1> HIDE DEF InnerOp
<1> QED
  BY <1>1

(* A match found is an operation of the encoder. *)
LEMMA MatchOpTyped ==
    ASSUME NEW kind \in {"MatchSrc", "MatchTrgt"}, NEW start \in Nat, NEW length \in Nat,
           NEW o_pos \in Nat
    PROVE  MatchOp(kind, start, length, o_pos) \in InnerOp
<1>1. (CHOOSE b \in Byte : TRUE) \in Byte
  BY EncoderAssumption
<1> QED
  BY <1>1 DEF MatchOp, InnerOp

(* The same extension of the run, where a round of the loop measures it. *)
LEMMA RunExtended ==
    ASSUME Positions, ~ OutOfData
    PROVE  /\ ExtendedRunLen \in Nat
           /\ run_len # MIN_MATCH => ExtendedRunLen = run_len
           /\ run_len = MIN_MATCH =>
                 /\ ExtendedRunLen >= MIN_MATCH
                 /\ cur_o_pos + ExtendedRunLen <= Len(trgt)
                 /\ \A j \in MIN_MATCH + 1 .. ExtendedRunLen : trgt[cur_o_pos + j] = run_byte
<1> DEFINE len == Len(trgt)
<1>1. /\ cur_o_pos \in Nat /\ MIN_MATCH \in Nat /\ len \in Nat /\ max_trgt_match_len \in Nat
      /\ cur_o_pos + MIN_MATCH < max_trgt_match_len /\ max_trgt_match_len <= len
  BY InsideTarget
<1>2. len = Len(trgt)
  OBVIOUS
<1> HIDE DEF len
<1>3. cur_o_pos + MIN_MATCH <= len /\ run_len \in Nat
  BY <1>1 DEF Positions
<1> QED
  BY <1>1, <1>2, <1>3, ExtendedRunTrue

(* The product of two numbers, named for the steps that must not expand it. *)
LEMMA TimesNat ==
    ASSUME NEW m \in Nat, NEW n \in Nat
    PROVE  m * n \in Nat
OBVIOUS

(* The position that the source's table gives lies with its window inside  *)
(* the source.                                                             *)
LEMMA CandidateTrue ==
    ASSUME Positions, src_matcher \in SrcMatchers, NEW start \in SrcCandidates
    PROVE  /\ start \in Nat /\ start + SRC_HASH_LEN <= Len(src)
           /\ \A other \in SrcCandidates : other = start
<1> DEFINE found == get(src_matcher.table, src_matcher.fwd_hash)
<1>1. src_matcher.table \in [Buckets -> TrueBuckets] /\ src_matcher.fwd_hash \in Hash
  BY DEF SrcMatchers
<1>2. src_matcher.table \in [Buckets -> BucketValue]
  BY <1>1, TrueBucketsTyped
<1>3. \A p, q \in found : p = q
  BY <1>1, <1>2, GetTrue
<1>4. PICK p \in found : start = p * config.l_step
  BY DEF SrcCandidates
<1>5. PICK b \in Buckets : /\ src_matcher.table[b].value # 0
                           /\ p = src_matcher.table[b].value - 1 /\ p \in Nat
  BY <1>1, <1>2, GetTrue
<1>6. src_matcher.table[b] \in TrueBuckets
  BY <1>1
<1>7. start + SRC_HASH_LEN <= Len(src)
  BY <1>4, <1>5, <1>6 DEF TrueBuckets
<1>8. start \in Nat
  BY <1>4, <1>5, ConfigTyped, TimesNat DEF Positions
<1>9. \A other \in SrcCandidates : other = start
  BY <1>3, <1>4 DEF SrcCandidates
<1> QED
  BY <1>7, <1>8, <1>9

(* The bytes that follow it and are counted are those of the target. *)
LEMMA SrcFoundTrue ==
    ASSUME Positions, ~ OutOfData, src_matcher \in SrcMatchers, SrcFound,
           NEW start \in SrcCandidates
    PROVE  /\ PostMatch(start) \in Nat /\ PostMatch(start) >= min_match
           /\ cur_o_pos + PostMatch(start) <= Len(trgt)
           /\ SameBytes(src, start, trgt, cur_o_pos, PostMatch(start))
<1> DEFINE slen == Len(src)
           tlen == Len(trgt)
           limit == Smallest(slen - start, tlen - cur_o_pos)
           post == PostMatch(start)
<1>1. PICK found \in SrcCandidates : PostMatch(found) >= min_match
  BY DEF SrcFound
<1>2. start \in Nat /\ start + SRC_HASH_LEN <= slen /\ found = start
  BY <1>1, CandidateTrue
<1>3. post = CommonLen(src, start, trgt, cur_o_pos, limit)
  BY DEF PostMatch
<1>4. src \in Seq(Byte) /\ trgt \in Seq(Byte) /\ slen \in Nat /\ tlen \in Nat
  BY DEF Positions
<1>5. cur_o_pos \in Nat /\ cur_o_pos < tlen
  <2>1. /\ cur_o_pos \in Nat /\ MIN_MATCH \in Nat /\ max_trgt_match_len \in Nat
        /\ cur_o_pos + MIN_MATCH < max_trgt_match_len /\ max_trgt_match_len <= tlen
    BY InsideTarget
  <2> HIDE DEF tlen
  <2> QED
    BY <1>4, <2>1
<1>6. SRC_HASH_LEN \in Nat
  BY EncoderAssumption
<1>7. limit \in Nat /\ start + limit <= slen /\ cur_o_pos + limit <= tlen
  <2> HIDE DEF slen, tlen
  <2> QED
    BY <1>2, <1>4, <1>5, <1>6 DEF Smallest
<1> HIDE DEF limit
<1>8. post \in 0 .. limit
  BY <1>2, <1>3, <1>5, <1>7, CommonLenTrue
<1>9. SameBytes(src, start, trgt, cur_o_pos, post)
  BY <1>2, <1>3, <1>4, <1>5, <1>7, CommonLenSame
<1>10. post >= min_match
  BY <1>1, <1>2
<1> HIDE DEF post, tlen
<1>11. post \in Nat /\ cur_o_pos + post <= tlen
  BY <1>4, <1>5, <1>7, <1>8
<1> QED
  BY <1>9, <1>10, <1>11 DEF post, tlen

(* The match the loop makes of a candidate, with what it begins before. *)
SrcMatchAt(start) ==
    MatchOp("MatchSrc", start - PreMatch(start), PreMatch(start) + PostMatch(start),
            cur_o_pos - PreMatch(start))

(* The source match that the loop makes of it is true, with the bytes it   *)
(* gains backwards.                                                        *)
LEMMA SrcMatchTrue ==
    ASSUME Positions, ~ OutOfData, src_matcher \in SrcMatchers, SrcFound,
           NEW start \in SrcCandidates
    PROVE  /\ SrcMatchAt(start) \in InnerOp
           /\ TrueMatch(SrcMatchAt(start), src, trgt)
           /\ PreMatch(start) \in Nat /\ PreMatch(start) <= cur_o_pos
           /\ PreMatch(start) > 0 => PreMatch(start) < cur_o_pos
<1> DEFINE slen == Len(src)
           tlen == Len(trgt)
           post == PostMatch(start)
           pre == PreMatch(start)
           limit == Minus(Smallest(start, cur_o_pos), 1)
           op == SrcMatchAt(start)
<1>1. start \in Nat
  BY CandidateTrue
<1>2. cur_o_pos \in Nat
  BY InsideTarget
<1>3. /\ pre \in 0 .. limit /\ pre <= start /\ pre <= cur_o_pos
      /\ pre > 0 => pre < cur_o_pos
      /\ \A i \in 1 .. pre : src[start - i + 1] = trgt[cur_o_pos - i + 1]
  BY <1>1, <1>2, PreMatchTrue
<1>4. /\ post \in Nat /\ cur_o_pos + post <= tlen
      /\ SameBytes(src, start, trgt, cur_o_pos, post)
  BY SrcFoundTrue
<1>5. limit \in Nat
  BY <1>1, <1>2 DEF Minus, Smallest, Largest
<1>6. slen \in Nat /\ tlen \in Nat
  BY DEF Positions
<1>7. op = MatchOp("MatchSrc", start - pre, pre + post, cur_o_pos - pre)
  BY DEF SrcMatchAt
<1> HIDE DEF pre, post, limit, op
<1>8. pre \in Nat /\ start - pre \in Nat /\ pre + post \in Nat /\ cur_o_pos - pre \in Nat
  BY <1>1, <1>2, <1>3, <1>4, <1>5
<1>9. op \in InnerOp
  BY <1>7, <1>8, MatchOpTyped
<1>10. /\ op.kind = "MatchSrc" /\ op.start = start - pre /\ op.length = pre + post
       /\ op.o_pos = cur_o_pos - pre
  BY <1>7 DEF MatchOp
<1>11. SameBytes(src, start - pre, trgt, cur_o_pos - pre, pre + post)
  <2>1. start + post <= slen
    BY <1>4 DEF SameBytes
  <2>2. start - pre + (pre + post) <= slen /\ cur_o_pos - pre + (pre + post) <= tlen
    <3> HIDE DEF slen, tlen
    <3> QED
      BY <1>1, <1>2, <1>3, <1>4, <1>6, <1>8, <2>1
  <2>3. ASSUME NEW j \in 1 .. pre + post
        PROVE  src[start - pre + j] = trgt[cur_o_pos - pre + j]
    <3>1. CASE j <= pre
      <4> DEFINE i == pre - j + 1
      <4>1. i \in 1 .. pre
        BY <1>8, <3>1
      <4>2. start - i + 1 = start - pre + j /\ cur_o_pos - i + 1 = cur_o_pos - pre + j
        BY <1>1, <1>2, <1>8
      <4> QED
        BY <1>3, <4>1, <4>2
    <3>2. CASE j > pre
      <4> DEFINE i == j - pre
      <4>1. i \in 1 .. post
        BY <1>4, <1>8, <3>2
      <4>2. start + i = start - pre + j /\ cur_o_pos + i = cur_o_pos - pre + j
        BY <1>1, <1>2, <1>8
      <4>3. src[start + i] = trgt[cur_o_pos + i]
        BY <1>4, <4>1 DEF SameBytes
      <4> QED
        BY <4>2, <4>3
    <3> QED
      BY <1>4, <1>8, <3>1, <3>2
  <2> QED
    BY <2>2, <2>3 DEF SameBytes
<1>12. TrueMatch(op, src, trgt)
  <2>1. op.o_pos + op.length <= Len(trgt)
    <3> HIDE DEF tlen
    <3>1. cur_o_pos - pre + (pre + post) <= tlen
      BY <1>2, <1>4, <1>6, <1>8
    <3> QED
      BY <1>10, <3>1 DEF tlen
  <2> QED
    BY <1>10, <1>11, <2>1 DEF TrueMatch
<1> QED
  BY <1>3, <1>8, <1>9, <1>12 DEF op, pre

-----------------------------------------------------------------------------
(* The numbers, the two matchers and the walk, step by step. *)

(* The numbers start inside the target. *)
LEMMA PositionsInit == EncoderInit => Positions
<1> SUFFICES ASSUME EncoderInit PROVE Positions
  OBVIOUS
<1> DEFINE len == Len(trgt)
<1>1. config \in Configs /\ src \in Seq(Byte) /\ trgt \in Seq(Byte)
  BY EncoderAssumption DEF EncoderInit
<1>2. len \in Nat
  BY <1>1
<1>3. max_trgt_match_len \in 0 .. len /\ cur_o_pos \in 0 .. len /\ max_trgt_match_len = len
  <2>1. max_trgt_match_len = len /\ cur_o_pos = 0
    BY DEF EncoderInit
  <2> HIDE DEF len
  <2> QED
    BY <1>2, <2>1
<1>4. ops \in Seq(InnerOp) /\ ops = <<>>
  BY DEF EncoderInit
<1>5. min_match \in Nat /\ min_match >= MIN_MATCH
  BY EncoderAssumption DEF EncoderInit
<1>6. state = "begin" /\ run_len = 0 /\ match_len = 0 /\ run_byte = 0 /\ cur_o_pos = 0
  BY DEF EncoderInit
<1> QED
  BY <1>1, <1>3, <1>4, <1>5, <1>6 DEF Positions, Active, Behind, Looking, WalkStates

(* When the source begins or ends the target, the loop starts or stops     *)
(* where the rest begins or ends (the two checks before encode_inner's     *)
(* loop).                                                                  *)
LEMMA AppendedTrue ==
    ASSUME Positions
    PROVE  /\ Appended => Len(src) < Len(trgt) /\ SameBytes(src, 0, trgt, 0, Len(src))
           /\ Prepended => /\ Len(src) < Len(trgt)
                           /\ SameBytes(src, 0, trgt, Len(trgt) - Len(src), Len(src))
           /\ StartPos \in 0 .. Len(trgt)
           /\ ~ (Appended /\ Prepended)
<1>1. Len(src) \in Nat /\ Len(trgt) \in Nat
  BY DEF Positions
<1>2. Larger => Len(src) < Len(trgt)
  BY <1>1 DEF Larger
<1>3. StartPos \in 0 .. Len(trgt)
  BY <1>1, <1>2 DEF StartPos, Appended, StartsWithSrc
<1>4. ~ (Appended /\ Prepended)
  BY DEF Appended, Prepended
<1> QED
  BY <1>2, <1>3, <1>4 DEF Appended, Prepended, StartsWithSrc, EndsWithSrc

(* Every step keeps the numbers of the loop inside the target. *)
LEMMA PositionsStep ==
    ASSUME Positions, SourceInStep, WalkTrue, EncoderNext
    PROVE  Positions'
<1> USE DEF Active, Behind, Looking, WalkStates, LoopStates
<1>1. CASE ReturnNothing \/ BuildPanics
  BY <1>1 DEF ReturnNothing, BuildPanics, Positions, inputVars, runVars, matcherVars
<1>2. CASE Build
  <2> DEFINE slen == Len(src)
             tlen == Len(trgt)
             op == MatchOp("MatchSrc", 0, slen, 0)
  <2>1. UNCHANGED <<inputVars, min_match, runVars, match_len>> /\ state' = "StartNewMatch"
    BY <1>2 DEF Build
  <2>2. slen \in Nat /\ tlen \in Nat
    BY DEF Positions
  <2>3. (Prepended => slen < tlen) /\ StartPos \in 0 .. tlen
    BY AppendedTrue
  <2>4. max_trgt_match_len' \in 0 .. tlen
    <3>1. max_trgt_match_len' = tlen - (IF Prepended THEN slen ELSE 0)
      BY <1>2 DEF Build
    <3> HIDE DEF slen, tlen
    <3> QED
      BY <2>2, <2>3, <3>1
  <2>5. cur_o_pos' \in 0 .. tlen
    BY <1>2, <2>3 DEF Build
  <2>6. ops' \in Seq(InnerOp)
    <3>1. op \in InnerOp
      BY <2>2, MatchOpTyped
    <3>2. ops' = IF Appended THEN <<op>> ELSE <<>>
      BY <1>2 DEF Build
    <3> HIDE DEF op
    <3> QED
      BY <3>1, <3>2
  <2>7. trgt # <<>>
    BY <1>2 DEF Build, NothingToDo
  <2> QED
    BY <2>1, <2>4, <2>5, <2>6, <2>7 DEF Positions, inputVars, runVars
<1>3. CASE StartNewMatch
  <2> DEFINE len == Len(trgt)
             run == InitialRunLen
             next == trgt[cur_o_pos + MIN_MATCH]
             end == LastEnd + 1 - cur_o_pos
  <2>1. /\ UNCHANGED <<inputVars, max_trgt_match_len, ops, cur_o_pos, match_len>>
        /\ state = "StartNewMatch" /\ state' = "TryMatch" /\ ~ OutOfData
        /\ run_len' = run /\ run_byte' = next /\ min_match' = Largest(MIN_MATCH, end)
    BY <1>3 DEF StartNewMatch, At
  <2>2. /\ cur_o_pos \in Nat /\ MIN_MATCH \in Nat /\ MIN_MATCH # 0 /\ len \in Nat
        /\ cur_o_pos + MIN_MATCH <= len
    <3>1. /\ cur_o_pos \in Nat /\ MIN_MATCH \in Nat /\ MIN_MATCH # 0 /\ len \in Nat
          /\ max_trgt_match_len \in Nat
          /\ cur_o_pos + MIN_MATCH < max_trgt_match_len /\ max_trgt_match_len <= len
      BY <2>1, InsideTarget
    <3> HIDE DEF len
    <3> QED
      BY <3>1
  <2>3. run \in Nat
    BY <2>2, InitialRunTrue
  <2>4. next \in Byte
    <3>1. cur_o_pos + MIN_MATCH \in 1 .. len
      <4> HIDE DEF len
      <4> QED
        BY <2>2
    <3> QED
      BY <3>1 DEF Positions
  <2>5. LastEnd \in Nat
    <3>1. CASE ops = <<>>
      BY <3>1 DEF LastEnd
    <3>2. CASE ops # <<>>
      <4>1. ops[Len(ops)] \in InnerOp
        BY <3>2 DEF Positions
      <4> QED
        BY <3>2, <4>1 DEF LastEnd, MatchEnd, InnerOp
    <3> QED
      BY <3>1, <3>2
  <2> HIDE DEF run, next
  <2>6. min_match' \in Nat /\ min_match' >= MIN_MATCH
    BY <2>1, <2>2, <2>5 DEF Largest
  <2> QED
    BY <2>1, <2>3, <2>4, <2>6 DEF Positions, inputVars
<1>4. CASE StartNewMatchPanics
  BY <1>4 DEF StartNewMatchPanics, At, Positions, inputVars, runVars
<1>5. CASE MatchRun
  <2> DEFINE len == Len(trgt)
             ext == ExtendedRunLen
             op == RunOp(run_byte, run_len', cur_o_pos)
  <2>1. /\ UNCHANGED <<inputVars, max_trgt_match_len, cur_o_pos, min_match, run_byte>>
        /\ state = "TryMatch" /\ state' = "FoundMatch" /\ ~ OutOfData
        /\ run_len' = ext /\ ops' = Append(ops, op) /\ match_len' = ext /\ run_len = MIN_MATCH
    BY <1>5 DEF MatchRun, At, RunFound
  <2>2. ext \in Nat /\ ext >= MIN_MATCH /\ cur_o_pos + ext <= len
    BY <2>1, RunExtended
  <2> HIDE DEF ext
  <2>3. op \in InnerOp
    <3>1. run_byte \in Byte
      BY <2>1 DEF Positions
    <3>2. cur_o_pos \in Nat
      BY <2>1, InsideTarget
    <3> QED
      BY <2>1, <2>2, <3>1, <3>2 DEF RunOp, InnerOp
  <2> HIDE DEF op
  <2>4. ops' \in Seq(InnerOp)
    BY <2>1, <2>3 DEF Positions
  <2> QED
    BY <2>1, <2>2, <2>4 DEF Positions, inputVars
<1>6. CASE MatchSrc
  <2>1. /\ UNCHANGED <<inputVars, max_trgt_match_len, cur_o_pos, min_match, run_byte>>
        /\ state = "TryMatch" /\ state' = "FoundMatch" /\ ~ OutOfData /\ SrcFound
        /\ run_len' = ExtendedRunLen
    BY <1>6 DEF MatchSrc, At
  <2>2. src_matcher \in SrcMatchers
    BY <2>1 DEF SourceInStep, SrcFound
  <2>3. PICK start \in SrcCandidates :
            /\ ops' = Append(IF PreMatch(start) > 0 THEN StartingBefore(cur_o_pos - PreMatch(start))
                             ELSE ops, SrcMatchAt(start))
            /\ match_len' = PostMatch(start)
    BY <1>6 DEF MatchSrc, SrcMatchAt
  <2>4. /\ match_len' \in Nat /\ match_len' >= min_match
        /\ cur_o_pos + match_len' <= Len(trgt)
    BY <2>1, <2>2, <2>3, SrcFoundTrue
  <2>5. match_len' >= MIN_MATCH
    BY <2>4, EncoderAssumption DEF Positions
  <2>6. SrcMatchAt(start) \in InnerOp /\ PreMatch(start) \in Nat /\ PreMatch(start) <= cur_o_pos
    BY <2>1, <2>2, SrcMatchTrue
  <2> DEFINE pos == cur_o_pos - PreMatch(start)
             op == SrcMatchAt(start)
             kept == IF PreMatch(start) > 0 THEN StartingBefore(pos) ELSE ops
  <2>7. pos \in Nat
    BY <2>1, <2>6, InsideTarget
  <2>8. kept \in Seq(InnerOp)
    <3>1. ops \in Seq(InnerOp)
      BY DEF Positions
    <3> HIDE DEF pos
    <3>2. PICK n \in 0 .. Len(ops) : StartingBefore(pos) = SubSeq(ops, 1, n)
      BY <2>7, <3>1, StartingBeforeTrue
    <3>3. SubSeq(ops, 1, n) \in Seq(InnerOp)
      BY <3>1
    <3> QED
      BY <3>1, <3>2, <3>3
  <2>9. ops' = Append(kept, op) /\ op \in InnerOp
    BY <2>3, <2>6
  <2> HIDE DEF kept, op
  <2>10. ops' \in Seq(InnerOp)
    BY <2>8, <2>9
  <2>11. run_len' \in Nat
    BY <2>1, RunExtended
  <2> QED
    BY <2>1, <2>4, <2>5, <2>10, <2>11 DEF Positions, inputVars
<1>7. CASE StartWalk \/ NoMatch
  <2>1. /\ UNCHANGED <<inputVars, max_trgt_match_len, ops, cur_o_pos, run_byte, match_len>>
        /\ state = "TryMatch" /\ state' \in {"EndWalk", "Examine", "MoveForwardOneByte"}
        /\ ~ OutOfData /\ run_len' = ExtendedRunLen
        /\ min_match' = min_match \/ min_match' = Largest(min_match - 1, MIN_MATCH)
    BY <1>7 DEF StartWalk, NoMatch, NothingHere, At
  <2>2. run_len' \in Nat
    BY <2>1, RunExtended
  <2>3. min_match' \in Nat /\ min_match' >= MIN_MATCH
    BY <2>1, EncoderAssumption DEF Positions, Largest
  <2> QED
    BY <2>1, <2>2, <2>3 DEF Positions, inputVars
<1>8. CASE PassOver \/ Examine \/ Advance \/ ChainEnd
  <2>1. Walking /\ state \in WalkStates /\ state' \in WalkStates
    BY <1>8 DEF PassOver, Examine, Advance, ChainEnd
  <2> QED
    BY <2>1 DEF Walking, Positions, inputVars, runVars
<1>9. CASE MatchTrgt
  <2> DEFINE op == MatchOp("MatchTrgt", walk.best_start, walk.best_len, cur_o_pos)
  <2>1. /\ UNCHANGED <<inputVars, max_trgt_match_len, cur_o_pos, min_match, run_len, run_byte>>
        /\ state = "EndWalk" /\ state' = "FoundMatch"
        /\ ops' = Append(ops, op) /\ match_len' = walk.best_len /\ walk.best_len >= min_match
    BY <1>9 DEF MatchTrgt, runVars
  <2>2. walk.best_start \in Nat /\ walk.best_len \in Nat /\ cur_o_pos \in Nat
    BY DEF WalkTrue, Positions
  <2>3. op \in InnerOp
    BY <2>2, MatchOpTyped
  <2> HIDE DEF op
  <2>4. ops' \in Seq(InnerOp)
    BY <2>1, <2>3 DEF Positions
  <2>5. cur_o_pos + walk.best_len <= Len(trgt)
    BY <2>1 DEF WalkTrue, SameBytes
  <2>6. match_len' \in Nat /\ match_len' >= MIN_MATCH
    BY <2>1, <2>2, EncoderAssumption DEF Positions
  <2> QED
    BY <2>1, <2>4, <2>5, <2>6 DEF Positions, inputVars
<1>10. CASE NoMatchInChain \/ KeepLooking
  <2>1. /\ UNCHANGED <<inputVars, max_trgt_match_len, ops, cur_o_pos, run_len, run_byte, match_len>>
        /\ state \in {"EndWalk", "FoundMatch"} /\ state' = "MoveForwardOneByte"
        /\ \/ min_match' = Largest(min_match - 1, MIN_MATCH)
           \/ state = "FoundMatch" /\ min_match' = match_len
    BY <1>10 DEF NoMatchInChain, NothingHere, KeepLooking, At, runVars
  <2>2. min_match' \in Nat /\ min_match' >= MIN_MATCH
    BY <2>1, EncoderAssumption DEF Positions, Largest
  <2> QED
    BY <2>1, <2>2 DEF Positions, inputVars
<1>11. CASE Jump
  <2>1. /\ UNCHANGED <<inputVars, max_trgt_match_len, ops, min_match, run_len, run_byte, match_len>>
        /\ state = "FoundMatch" /\ state' = "StartNewMatch"
        /\ cur_o_pos' = cur_o_pos + match_len
    BY <1>11 DEF Jump, At, runVars
  <2>2. cur_o_pos' \in 0 .. Len(trgt)
    <3>1. cur_o_pos \in Nat /\ match_len \in Nat /\ Len(trgt) \in Nat /\ cur_o_pos + match_len <= Len(trgt)
      BY <2>1 DEF Positions
    <3> QED
      BY <2>1, <3>1
  <2> QED
    BY <2>1, <2>2 DEF Positions, inputVars
<1>12. CASE MoveForwardOneByte
  <2> DEFINE next == trgt[cur_o_pos + MIN_MATCH + 1]
             len == Len(trgt)
  <2>1. /\ UNCHANGED <<inputVars, max_trgt_match_len, ops, min_match, match_len>>
        /\ state = "MoveForwardOneByte" /\ state' = "TryMatch" /\ ~ OutOfData
        /\ cur_o_pos' = cur_o_pos + 1 /\ run_byte' = next
        /\ run_len' = run_len + 1 \/ run_len' = 1
    BY <1>12 DEF MoveForwardOneByte, At
  <2>2. /\ cur_o_pos \in Nat /\ MIN_MATCH \in Nat /\ len \in Nat
        /\ cur_o_pos + MIN_MATCH < max_trgt_match_len /\ max_trgt_match_len <= len
        /\ max_trgt_match_len \in Nat
    BY <2>1, InsideTarget
  <2>3. cur_o_pos + 1 \in 0 .. len /\ cur_o_pos + MIN_MATCH + 1 \in 1 .. len
    <3> HIDE DEF len
    <3> QED
      BY <2>2
  <2>4. next \in Byte
    BY <2>3 DEF Positions
  <2>5. run_len' \in Nat
    BY <2>1 DEF Positions
  <2> HIDE DEF next
  <2> QED
    BY <2>1, <2>3, <2>4, <2>5 DEF Positions, inputVars
<1>13. CASE EndOfLoop
  <2> DEFINE op == MatchOp("MatchSrc", 0, Len(src), max_trgt_match_len)
  <2>1. /\ UNCHANGED <<inputVars, max_trgt_match_len, cur_o_pos, min_match, run_len, run_byte, match_len>>
        /\ state' = "done" /\ state \in LoopStates
        /\ ops' = ops \/ ops' = Append(ops, op)
    BY <1>13 DEF EndOfLoop, runVars
  <2>2. op \in InnerOp
    <3>1. Len(src) \in Nat /\ max_trgt_match_len \in Nat
      BY DEF Positions
    <3> QED
      BY <3>1, MatchOpTyped
  <2> HIDE DEF op
  <2>3. ops' \in Seq(InnerOp)
    <3>1. ops \in Seq(InnerOp)
      BY DEF Positions
    <3>2. Append(ops, op) \in Seq(InnerOp)
      BY <2>2, <3>1
    <3> QED
      BY <2>1, <3>1, <3>2
  <2> QED
    BY <2>1, <2>3 DEF Positions, inputVars
<1>14. CASE Returned
  BY <1>14 DEF Returned, Positions, encoderVars
<1> QED
  BY <1>1, <1>2, <1>3, <1>4, <1>5, <1>6, <1>7, <1>8, <1>9, <1>10, <1>11, <1>12, <1>13, <1>14
  DEF EncoderNext

(* What is defined from the inputs alone stays. *)
LEMMA InputsKept ==
    ASSUME inputVars' = inputVars
    PROVE  /\ SrcMatchers' = SrcMatchers
           /\ \A window : LastHashPos(window)' = LastHashPos(window)
<1>1. config' = config /\ src' = src /\ trgt' = trgt
  BY DEF inputVars
<1>2. TrueBuckets' = TrueBuckets
  BY <1>1 DEF TrueBuckets
<1>3. SrcMatchers' = SrcMatchers
  BY <1>2 DEF SrcMatchers
<1>4. \A window : LastHashPos(window)' = LastHashPos(window)
  BY <1>1 DEF LastHashPos
<1> QED
  BY <1>3, <1>4

(* No step changes the inputs. *)
LEMMA StepsKeepInputs ==
    ASSUME EncoderNext
    PROVE  inputVars' = inputVars
  BY DEF EncoderNext, ReturnNothing, Build, BuildPanics, StartNewMatch, StartNewMatchPanics,
         MatchRun, MatchSrc, StartWalk, NoMatch, PassOver, Examine, Advance, ChainEnd, MatchTrgt,
         NoMatchInChain, KeepLooking, Jump, MoveForwardOneByte, EndOfLoop, Returned, Walking,
         inputVars, encoderVars

(* The steps within a round of the loop: they look, and move no matcher. *)
InRound ==
    /\ UNCHANGED <<inputVars, matcherVars, cur_o_pos>>
    /\ state \in Behind /\ state' \in Behind \cup {"done"}

(* The steps that only return or panic. *)
Ends == UNCHANGED <<inputVars, matcherVars, cur_o_pos>> /\ state' \in {"done", "panicked"}

(* The steps, by what they do to position and matchers: those of a round   *)
(* that stay where they are, those that end, and the ones that move on.    *)
LEMMA StepKinds ==
    ASSUME EncoderNext
    PROVE  \/ InRound \/ Ends
           \/ Build \/ StartNewMatch \/ Jump \/ MoveForwardOneByte
  BY DEF EncoderNext, ReturnNothing, BuildPanics, StartNewMatchPanics, MatchRun, MatchSrc,
         StartWalk, NoMatch, NothingHere, PassOver, Examine, Advance, ChainEnd, MatchTrgt,
         NoMatchInChain, KeepLooking, EndOfLoop, Returned, Walking, At,
         inputVars, matcherVars, encoderVars, InRound, Ends, Behind, Looking, WalkStates,
         LoopStates

(* No source matcher is built at first. *)
LEMMA SourceInStepInit == EncoderInit => SourceInStep
  BY DEF EncoderInit, SourceInStep, Active, Behind, Looking, WalkStates

(* A source matcher whose hash is moved stays true and in step. *)
LEMMA SourceMoved ==
    ASSUME trgt \in Seq(Byte), NEW matcher \in SrcMatchers, InStep(matcher), NEW pos \in Nat,
           matcher.fwd_pos <= pos, NEW moved, MovedBy(moved, matcher, pos, SRC_HASH_LEN)
    PROVE  /\ moved \in SrcMatchers /\ InStep(moved) /\ moved.fwd_pos <= pos
           /\ moved.fwd_pos = pos \/ moved.fwd_pos >= LastHashPos(SRC_HASH_LEN)
<1> DEFINE last == LastHashPos(SRC_HASH_LEN)
<1>1. last \in Nat /\ matcher.fwd_pos \in Nat
  BY EncoderAssumption, LastHashPosNat DEF SrcMatchers
<1>2. CASE matcher.fwd_pos >= last /\ moved = matcher
  BY <1>2
<1>3. CASE ~ (matcher.fwd_pos >= last /\ moved = matcher)
  <2>1. PICK hash \in Hash :
            /\ moved = [matcher EXCEPT !.fwd_hash = hash, !.fwd_pos = pos]
            /\ matcher.fwd_hash = calculate_checksum(trgt, matcher.fwd_pos, SRC_HASH_LEN)
                  => hash = calculate_checksum(trgt, pos, SRC_HASH_LEN)
    BY <1>3 DEF MovedBy
  <2>2. moved \in SrcMatchers /\ moved.fwd_pos = pos /\ moved.fwd_hash = hash
    BY <2>1 DEF SrcMatchers
  <2>3. InStep(moved)
    <3>1. CASE matcher.fwd_pos < last
      <4>1. hash = calculate_checksum(trgt, pos, SRC_HASH_LEN)
        BY <2>1, <3>1 DEF InStep
      <4> QED
        BY <2>2, <4>1 DEF InStep
    <3>2. CASE ~ (matcher.fwd_pos < last)
      <4>1. ~ (moved.fwd_pos < last)
        <5> HIDE DEF last
        <5> QED
          BY <1>1, <2>2, <3>2
      <4> QED
        BY <4>1 DEF InStep
    <3> QED
      BY <3>1, <3>2
  <2> QED
    BY <2>2, <2>3
<1> QED
  BY <1>2, <1>3

(* Every step keeps the source matcher true and its hash in step. *)
LEMMA SourceInStepStep ==
    ASSUME Positions, SourceInStep, EncoderNext
    PROVE  SourceInStep'
<1> DEFINE W == SRC_HASH_LEN
<1>1. inputVars' = inputVars /\ config' = config /\ src' = src /\ trgt' = trgt
  BY StepsKeepInputs DEF inputVars
<1>2. SrcMatchers' = SrcMatchers /\ LastHashPos(W)' = LastHashPos(W)
  BY <1>1, InputsKept
<1>3. W \in Nat /\ W # 0 /\ LastHashPos(W) \in Nat
  BY EncoderAssumption, LastHashPosNat DEF Positions
<1>5. ASSUME UNCHANGED src_matcher PROVE InStep(src_matcher)' <=> InStep(src_matcher)
  BY <1>1, <1>2, <1>5 DEF InStep
<1>6. CASE InRound
  <2>1. /\ UNCHANGED <<src_matcher, cur_o_pos>>
        /\ state \in Active /\ state # "StartNewMatch"
    BY <1>6 DEF InRound, matcherVars, Active, Behind, Looking, WalkStates
  <2> QED
    BY <1>1, <1>2, <1>5, <2>1 DEF SourceInStep, LooksAt
<1>7. CASE Ends
  <2>1. UNCHANGED src_matcher /\ state' \notin Active
    BY <1>7 DEF Ends, matcherVars, Active, Behind, Looking, WalkStates
  <2> QED
    BY <1>1, <1>2, <1>5, <2>1 DEF SourceInStep
<1>8. CASE Build
  <2>1. /\ src_matcher' = IF config.match_src THEN NewSrcMatcher(StartPos) ELSE OffMatcher
        /\ cur_o_pos' = StartPos /\ state' = "StartNewMatch" /\ trgt # <<>>
    BY <1>8 DEF Build, NothingToDo
  <2>2. CASE config.match_src
    <3>1. StartPos \in Nat
      <4>1. Len(trgt) \in Nat
        BY DEF Positions
      <4> QED
        BY <4>1, AppendedTrue
    <3> DEFINE pos == StartPos
               made == NewSrcMatcher(pos)
    <3>2. made \in SrcMatchers /\ made.fwd_pos <= pos /\ InStep(made)
      <4>1. config \in Configs /\ src \in Seq(Byte) /\ trgt \in Seq(Byte) /\ trgt # <<>>
        BY <2>1 DEF Positions
      <4>2. pos \in Nat
        BY <3>1
      <4> HIDE DEF pos
      <4>3. made \in SrcMatchers
        BY <4>1, <4>2, NewSrcMatcherTrue
      <4>4. made.fwd_pos <= pos
        BY <4>1, <4>2, NewSrcMatcherTrue
      <4>5. InStep(made)
        BY <4>1, <4>2, NewSrcMatcherTrue
      <4> QED
        BY <4>3, <4>4, <4>5
    <3>3. src_matcher' = made /\ cur_o_pos' = pos
      BY <2>1, <2>2
    <3> HIDE DEF pos, made
    <3>4. InStep(src_matcher)'
      BY <1>1, <1>2, <3>2, <3>3 DEF InStep
    <3> QED
      BY <1>2, <2>1, <3>2, <3>3, <3>4 DEF SourceInStep, LooksAt
  <2>3. CASE ~ config.match_src
    <3>1. src_matcher' = OffMatcher
      BY <2>1, <2>3
    <3> QED
      BY <1>1, <2>3, <3>1 DEF SourceInStep, OffMatcher
  <2> QED
    BY <2>2, <2>3
<1>9. CASE StartNewMatch
  <2>1. /\ src_matcher' = IF config.match_src
                          THEN HashMovedTo(RefilledSrcMatcher, cur_o_pos, W) ELSE src_matcher
        /\ cur_o_pos' = cur_o_pos /\ state = "StartNewMatch" /\ state' = "TryMatch"
        /\ ~ OutOfData
    BY <1>9 DEF StartNewMatch, At
  <2>2. CASE config.match_src
    <3> DEFINE refilled == RefilledSrcMatcher
               moved == HashMovedTo(refilled, cur_o_pos, W)
    <3>1. src_matcher \in SrcMatchers /\ InStep(src_matcher) /\ src_matcher.fwd_pos <= cur_o_pos
      BY <2>1, <2>2 DEF SourceInStep, LooksAt, Active
    <3>2. cur_o_pos \in Nat
      BY <2>1, InsideTarget
    <3>3. /\ refilled \in SrcMatchers
          /\ refilled.fwd_hash = src_matcher.fwd_hash
          /\ refilled.fwd_pos = src_matcher.fwd_pos
      <4>1. trgt # <<>>
        BY <2>1 DEF Positions, Active
      <4> QED
        BY <3>1, <3>2, <4>1, AddStartPositionsTrue DEF Positions, RefilledSrcMatcher
    <3> HIDE DEF refilled
    <3>4. refilled.fwd_hash \in Hash /\ refilled.fwd_pos \in Nat /\ refilled.fwd_pos <= cur_o_pos
      BY <3>1, <3>3 DEF SrcMatchers
    <3>5. InStep(refilled)
      BY <3>1, <3>3 DEF InStep
    <3>6. MovedBy(moved, refilled, cur_o_pos, W)
      BY <1>3, <3>2, <3>4, HashMovedToTrue DEF Positions
    <3>7. src_matcher' = moved
      BY <2>1, <2>2 DEF refilled
    <3> HIDE DEF moved
    <3>8. /\ moved \in SrcMatchers /\ moved.fwd_pos <= cur_o_pos /\ InStep(moved)
          /\ moved.fwd_pos = cur_o_pos \/ moved.fwd_pos >= LastHashPos(W)
      BY <3>2, <3>3, <3>4, <3>5, <3>6, SourceMoved DEF Positions
    <3>9. InStep(src_matcher)'
      BY <1>1, <1>2, <3>7, <3>8 DEF InStep
    <3> QED
      BY <1>2, <2>1, <3>7, <3>8, <3>9 DEF SourceInStep, LooksAt
  <2>3. CASE ~ config.match_src
    <3>1. src_matcher' = src_matcher
      BY <2>1, <2>3
    <3> QED
      BY <1>1, <1>2, <1>5, <2>3, <3>1 DEF SourceInStep
  <2> QED
    BY <2>2, <2>3
<1>10. CASE Jump
  <2>1. /\ UNCHANGED src_matcher /\ cur_o_pos' = cur_o_pos + match_len
        /\ state = "FoundMatch" /\ state' = "StartNewMatch"
    BY <1>10 DEF Jump, At, matcherVars
  <2>2. ASSUME config.match_src
        PROVE  src_matcher.fwd_pos <= cur_o_pos + match_len
    <3>1. cur_o_pos \in Nat /\ match_len \in Nat
      BY DEF Positions
    <3>2. src_matcher.fwd_pos \in Nat /\ src_matcher.fwd_pos <= cur_o_pos
      BY <2>1, <2>2 DEF SourceInStep, LooksAt, Active, Behind, SrcMatchers
    <3> QED
      BY <3>1, <3>2
  <2>3. state \in Active
    BY <2>1 DEF Active, Behind
  <2> QED
    BY <1>1, <1>2, <1>5, <2>1, <2>2, <2>3 DEF SourceInStep, LooksAt
<1>11. CASE MoveForwardOneByte
  <2>1. /\ src_matcher' = IF config.match_src
                          THEN HashMovedOn(src_matcher, cur_o_pos, W) ELSE src_matcher
        /\ cur_o_pos' = cur_o_pos + 1 /\ state = "MoveForwardOneByte" /\ state' = "TryMatch"
        /\ ~ OutOfData
    BY <1>11 DEF MoveForwardOneByte, At
  <2>2. CASE config.match_src
    <3> DEFINE moved == HashMovedOn(src_matcher, cur_o_pos, W)
               pos == cur_o_pos + 1
    <3>1. /\ src_matcher \in SrcMatchers /\ InStep(src_matcher)
          /\ src_matcher.fwd_pos <= cur_o_pos
          /\ src_matcher.fwd_pos = cur_o_pos \/ src_matcher.fwd_pos >= LastHashPos(W)
      BY <2>1, <2>2 DEF SourceInStep, LooksAt, Active, Behind
    <3>2. cur_o_pos \in Nat /\ pos \in Nat
      BY <2>1, InsideTarget
    <3>3. src_matcher.fwd_hash \in Hash /\ src_matcher.fwd_pos \in Nat
      BY <3>1 DEF SrcMatchers
    <3>4. src_matcher.fwd_pos < LastHashPos(W) => src_matcher.fwd_pos = cur_o_pos
      BY <1>3, <3>1, <3>3
    <3>5. MovedBy(moved, src_matcher, pos, W)
      BY <1>3, <3>2, <3>3, <3>4, HashMovedOnTrue DEF Positions
    <3>6. src_matcher' = moved /\ cur_o_pos' = pos
      BY <2>1, <2>2
    <3>7. src_matcher.fwd_pos <= pos
      BY <3>1, <3>2, <3>3
    <3> HIDE DEF moved, pos
    <3>8. /\ moved \in SrcMatchers /\ moved.fwd_pos <= pos /\ InStep(moved)
          /\ moved.fwd_pos = pos \/ moved.fwd_pos >= LastHashPos(W)
      BY <3>1, <3>2, <3>5, <3>7, SourceMoved DEF Positions
    <3>9. InStep(src_matcher)'
      BY <1>1, <1>2, <3>6, <3>8 DEF InStep
    <3> QED
      BY <1>2, <2>1, <3>6, <3>8, <3>9 DEF SourceInStep, LooksAt
  <2>3. CASE ~ config.match_src
    <3>1. src_matcher' = src_matcher
      BY <2>1, <2>3
    <3> QED
      BY <1>1, <1>2, <1>5, <2>3, <3>1 DEF SourceInStep
  <2> QED
    BY <2>2, <2>3
<1> QED
  BY <1>6, <1>7, <1>8, <1>9, <1>10, <1>11, StepKinds

(* A target matcher whose hash is moved keeps its table and chain. *)
LEMMA TargetMoved ==
    ASSUME trgt \in Seq(Byte), NEW capacity \in Nat, NEW matcher \in Matchers(capacity),
           NEW pos \in Nat, matcher.fwd_pos <= pos,
           NEW moved, MovedBy(moved, matcher, pos, MIN_MATCH)
    PROVE  /\ moved \in Matchers(capacity) /\ moved.fwd_pos <= pos
           /\ moved.fwd_pos = pos \/ moved.fwd_pos >= LastHashPos(MIN_MATCH)
           /\ moved.table = matcher.table /\ moved.chain = matcher.chain
           /\ moved.capacity = matcher.capacity
<1> DEFINE last == LastHashPos(MIN_MATCH)
<1>1. last \in Nat /\ matcher.fwd_pos \in Nat
  BY EncoderAssumption, LastHashPosNat DEF Matchers
<1>2. CASE matcher.fwd_pos >= last /\ moved = matcher
  BY <1>2
<1>3. CASE ~ (matcher.fwd_pos >= last /\ moved = matcher)
  <2>1. PICK hash \in Hash : moved = [matcher EXCEPT !.fwd_hash = hash, !.fwd_pos = pos]
    BY <1>3 DEF MovedBy
  <2>2. moved \in Matchers(capacity)
    BY <2>1 DEF Matchers
  <2>3. /\ moved.fwd_pos = pos
        /\ moved.table = matcher.table /\ moved.chain = matcher.chain
        /\ moved.capacity = matcher.capacity
    BY <2>1 DEF Matchers
  <2> QED
    BY <2>2, <2>3
<1> QED
  BY <1>2, <1>3

(* A matcher that holds no position after some holds none after a later. *)
LEMMA UpToLater ==
    ASSUME NEW capacity \in Nat, NEW matcher \in Matchers(capacity), NEW m \in Nat, NEW n \in Nat,
           UpTo(matcher, m), m <= n
    PROVE  UpTo(matcher, n)
<1>1. ASSUME NEW b \in Buckets PROVE matcher.table[b].value <= n
  <2>1. matcher.table[b].value \in Nat /\ matcher.table[b].value <= m
    BY DEF UpTo, Matchers, BucketValue
  <2> QED
    BY <2>1
<1>2. ASSUME NEW i \in 0 .. matcher.capacity - 1 PROVE matcher.chain[i].value <= n
  <2>1. matcher.chain[i].value \in Nat /\ matcher.chain[i].value <= m
    BY DEF UpTo, Matchers, BucketValue
  <2> QED
    BY <2>1
<1> QED
  BY <1>1, <1>2 DEF UpTo

(* No target matcher is built at first. *)
LEMMA TargetInStepInit == EncoderInit => TargetInStep
  BY DEF EncoderInit, TargetInStep, Active, Behind, Looking, WalkStates

(* Every step keeps the target matcher's table and chain inside what the   *)
(* loop has passed.                                                        *)
LEMMA TargetInStepStep ==
    ASSUME Positions, TargetInStep, EncoderNext
    PROVE  TargetInStep'
<1> DEFINE W == MIN_MATCH
<1>1. inputVars' = inputVars /\ config' = config /\ src' = src /\ trgt' = trgt
  BY StepsKeepInputs DEF inputVars
<1>2. LastHashPos(W)' = LastHashPos(W)
  BY <1>1, InputsKept
<1>3. W \in Nat /\ W # 0 /\ LastHashPos(W) \in Nat
  BY EncoderAssumption, LastHashPosNat DEF Positions
<1>4. CASE InRound
  <2>1. /\ UNCHANGED <<trgt_matcher, cur_o_pos>>
        /\ state \in Active /\ state # "StartNewMatch"
    BY <1>4 DEF InRound, matcherVars, Active, Behind, Looking, WalkStates
  <2> QED
    BY <1>1, <1>2, <2>1 DEF TargetInStep, LooksAt, UpTo
<1>5. CASE Ends
  <2>1. UNCHANGED trgt_matcher /\ state' \notin Active
    BY <1>5 DEF Ends, matcherVars, Active, Behind, Looking, WalkStates
  <2> QED
    BY <1>1, <1>2, <2>1 DEF TargetInStep
<1>6. CASE Build
  <2>1. /\ trgt_matcher' = IF config.match_trgt THEN NewTrgtMatcher(StartPos) ELSE OffMatcher
        /\ cur_o_pos' = StartPos /\ state' = "StartNewMatch"
    BY <1>6 DEF Build
  <2>2. CASE config.match_trgt
    <3> DEFINE pos == StartPos
               made == NewTrgtMatcher(pos)
    <3>1. pos \in Nat /\ pos <= Len(trgt)
      <4>1. Len(trgt) \in Nat
        BY DEF Positions
      <4>2. pos \in 0 .. Len(trgt)
        BY AppendedTrue
      <4> HIDE DEF pos
      <4> QED
        BY <4>1, <4>2
    <3>2. trgt_matcher' = made /\ cur_o_pos' = pos
      BY <2>1, <2>2
    <3> HIDE DEF pos
    <3>3. PICK capacity \in Nat :
              made \in Matchers(capacity) /\ made.fwd_pos = pos /\ UpTo(made, pos + 1)
      BY <3>1, NewTrgtMatcherTrue DEF Positions
    <3> HIDE DEF made
    <3>4. UpTo(trgt_matcher, cur_o_pos + 1)' /\ made.fwd_pos <= pos
      BY <3>1, <3>2, <3>3 DEF UpTo
    <3> QED
      BY <2>1, <3>2, <3>3, <3>4 DEF TargetInStep, LooksAt
  <2>3. CASE ~ config.match_trgt
    <3>1. trgt_matcher' = OffMatcher
      BY <2>1, <2>3
    <3> QED
      BY <1>1, <2>3, <3>1 DEF TargetInStep, OffMatcher
  <2> QED
    BY <2>2, <2>3
<1>7. CASE StartNewMatch
  <2>1. /\ trgt_matcher' = IF config.match_trgt THEN HashMovedTo(trgt_matcher, cur_o_pos, W)
                           ELSE trgt_matcher
        /\ cur_o_pos' = cur_o_pos /\ state = "StartNewMatch" /\ state' = "TryMatch"
        /\ ~ OutOfData
    BY <1>7 DEF StartNewMatch, At
  <2>2. CASE config.match_trgt
    <3> DEFINE moved == HashMovedTo(trgt_matcher, cur_o_pos, W)
    <3>1. PICK capacity \in Nat : trgt_matcher \in Matchers(capacity)
      BY <2>1, <2>2 DEF TargetInStep, Active
    <3>2. trgt_matcher.fwd_pos <= cur_o_pos /\ UpTo(trgt_matcher, cur_o_pos + 1)
      BY <2>1, <2>2 DEF TargetInStep, LooksAt, Active
    <3>3. cur_o_pos \in Nat
      BY <2>1, InsideTarget
    <3>4. trgt_matcher.fwd_hash \in Hash /\ trgt_matcher.fwd_pos \in Nat
      BY <3>1 DEF Matchers
    <3>5. MovedBy(moved, trgt_matcher, cur_o_pos, W)
      BY <1>3, <3>2, <3>3, <3>4, HashMovedToTrue DEF Positions
    <3>6. trgt_matcher' = moved
      BY <2>1, <2>2
    <3> HIDE DEF moved
    <3>7. /\ moved \in Matchers(capacity) /\ moved.fwd_pos <= cur_o_pos
          /\ moved.fwd_pos = cur_o_pos \/ moved.fwd_pos >= LastHashPos(W)
          /\ moved.table = trgt_matcher.table /\ moved.chain = trgt_matcher.chain
          /\ moved.capacity = trgt_matcher.capacity
      BY <3>1, <3>2, <3>3, <3>5, TargetMoved DEF Positions
    <3>8. UpTo(trgt_matcher, cur_o_pos + 1)'
      BY <2>1, <3>2, <3>6, <3>7 DEF UpTo
    <3> QED
      BY <1>2, <2>1, <3>6, <3>7, <3>8 DEF TargetInStep, LooksAt
  <2>3. CASE ~ config.match_trgt
    <3>1. trgt_matcher' = trgt_matcher
      BY <2>1, <2>3
    <3> QED
      BY <1>1, <2>3, <3>1 DEF TargetInStep
  <2> QED
    BY <2>2, <2>3
<1>8. CASE Jump
  <2>1. /\ UNCHANGED trgt_matcher /\ cur_o_pos' = cur_o_pos + match_len
        /\ state = "FoundMatch" /\ state' = "StartNewMatch"
    BY <1>8 DEF Jump, At, matcherVars
  <2>2. ASSUME config.match_trgt
        PROVE  /\ trgt_matcher.fwd_pos <= cur_o_pos + match_len
               /\ UpTo(trgt_matcher, cur_o_pos + match_len + 1)
               /\ \E capacity \in Nat : trgt_matcher \in Matchers(capacity)
    <3>1. cur_o_pos \in Nat /\ match_len \in Nat
      BY DEF Positions
    <3>2. PICK capacity \in Nat : trgt_matcher \in Matchers(capacity)
      BY <2>1, <2>2 DEF TargetInStep, Active, Behind
    <3>3. trgt_matcher.fwd_pos <= cur_o_pos /\ UpTo(trgt_matcher, cur_o_pos + 1)
      BY <2>1, <2>2 DEF TargetInStep, LooksAt, Active, Behind
    <3>4. trgt_matcher.fwd_pos \in Nat
      BY <3>2 DEF Matchers
    <3>5. /\ cur_o_pos + 1 \in Nat /\ cur_o_pos + match_len + 1 \in Nat
          /\ cur_o_pos + 1 <= cur_o_pos + match_len + 1
          /\ trgt_matcher.fwd_pos <= cur_o_pos + match_len
      BY <3>1, <3>3, <3>4
    <3>6. UpTo(trgt_matcher, cur_o_pos + match_len + 1)
      BY <3>2, <3>3, <3>5, UpToLater
    <3> QED
      BY <3>2, <3>5, <3>6
  <2>3. ASSUME config.match_trgt PROVE UpTo(trgt_matcher, cur_o_pos + 1)'
    BY <2>1, <2>2, <2>3 DEF UpTo
  <2> QED
    BY <1>1, <1>2, <2>1, <2>2, <2>3 DEF TargetInStep, LooksAt
<1>9. CASE MoveForwardOneByte
  <2> DEFINE stored == store(trgt_matcher, trgt_matcher.fwd_hash, cur_o_pos)
             moved == HashMovedOn(stored, cur_o_pos, W)
             pos == cur_o_pos + 1
  <2>1. /\ trgt_matcher' = IF config.match_trgt THEN moved ELSE trgt_matcher
        /\ cur_o_pos' = pos /\ state = "MoveForwardOneByte" /\ state' = "TryMatch"
        /\ ~ OutOfData
    BY <1>9 DEF MoveForwardOneByte, At
  <2>2. CASE config.match_trgt
    <3>1. PICK capacity \in Nat : trgt_matcher \in Matchers(capacity)
      BY <2>1, <2>2 DEF TargetInStep, Active, Behind
    <3>2. /\ trgt_matcher.fwd_pos <= cur_o_pos
          /\ trgt_matcher.fwd_pos = cur_o_pos \/ trgt_matcher.fwd_pos >= LastHashPos(W)
          /\ UpTo(trgt_matcher, pos)
      BY <2>1, <2>2 DEF TargetInStep, LooksAt, Active, Behind
    <3>3. cur_o_pos \in Nat /\ pos \in Nat /\ cur_o_pos + 1 <= pos
      BY <2>1, InsideTarget
    <3>4. trgt_matcher.fwd_hash \in Hash /\ trgt_matcher.fwd_pos \in Nat
      BY <3>1 DEF Matchers
    <3>5. /\ stored \in Matchers(capacity) /\ UpTo(stored, pos)
          /\ stored.fwd_pos = trgt_matcher.fwd_pos /\ stored.fwd_hash = trgt_matcher.fwd_hash
      <4> HIDE DEF pos
      <4> QED
        BY <3>1, <3>2, <3>3, <3>4, StoreUpTo
    <3> HIDE DEF stored
    <3>6. stored.fwd_pos < LastHashPos(W) => stored.fwd_pos = cur_o_pos
      BY <1>3, <3>2, <3>4, <3>5
    <3>7. MovedBy(moved, stored, pos, W)
      BY <1>3, <3>3, <3>4, <3>5, <3>6, HashMovedOnTrue DEF Positions
    <3>8. stored.fwd_pos <= pos
      BY <3>2, <3>3, <3>4, <3>5
    <3>9. trgt_matcher' = moved
      BY <2>1, <2>2
    <3> HIDE DEF moved
    <3>10. /\ moved \in Matchers(capacity) /\ moved.fwd_pos <= pos
           /\ moved.fwd_pos = pos \/ moved.fwd_pos >= LastHashPos(W)
           /\ moved.table = stored.table /\ moved.chain = stored.chain
           /\ moved.capacity = stored.capacity
      <4> HIDE DEF pos
      <4> QED
        BY <3>3, <3>5, <3>7, <3>8, TargetMoved DEF Positions
    <3>11. UpTo(moved, pos)
      BY <3>5, <3>10 DEF UpTo
    <3>12. UpTo(moved, pos + 1)
      BY <3>3, <3>10, <3>11, UpToLater
    <3> HIDE DEF pos
    <3>13. UpTo(trgt_matcher, cur_o_pos + 1)'
      BY <2>1, <3>9, <3>12 DEF UpTo
    <3> QED
      BY <1>2, <2>1, <3>9, <3>10, <3>13 DEF TargetInStep, LooksAt
  <2>3. CASE ~ config.match_trgt
    <3>1. trgt_matcher' = trgt_matcher
      BY <2>1, <2>3
    <3> QED
      BY <1>1, <2>3, <3>1 DEF TargetInStep
  <2> QED
    BY <2>2, <2>3
<1> QED
  BY <1>4, <1>5, <1>6, <1>7, <1>8, <1>9, StepKinds

(* What the ring leads back to is the bucket of the position's place;      *)
(* without a ring it leads nowhere.                                        *)
LEMMA PreviousTyped ==
    ASSUME NEW capacity \in Nat, NEW matcher \in Matchers(capacity), NEW position \in Nat
    PROVE  /\ Previous(matcher, position) \in BucketValue
           /\ capacity = 0 => Previous(matcher, position).value = 0
           /\ capacity # 0 => /\ position % capacity \in 0 .. capacity - 1
                              /\ Previous(matcher, position) = matcher.chain[position % capacity]
<1>1. matcher.capacity = capacity /\ matcher.chain \in [0 .. capacity - 1 -> BucketValue]
  BY DEF Matchers
<1>2. CASE capacity = 0
  <2>1. Previous(matcher, position) = Empty
    BY <1>1, <1>2 DEF Previous
  <2> QED
    BY <1>2, <2>1, EmptyTyped DEF Empty
<1>3. CASE capacity # 0
  <2>1. position % capacity \in 0 .. capacity - 1
    BY <1>3
  <2>2. Previous(matcher, position) = matcher.chain[position % capacity]
    BY <1>1, <1>3 DEF Previous
  <2> QED
    BY <1>1, <1>3, <2>1, <2>2
<1> QED
  BY <1>2, <1>3

(* No walk has begun at first. *)
LEMMA WalkTrueInit == EncoderInit => WalkTrue
  BY DEF EncoderInit, WalkTrue, WalkStates

(* Every step of the walk along the chain keeps the best match so far a    *)
(* match.                                                                  *)
LEMMA WalkTrueStep ==
    ASSUME Positions, TargetInStep, WalkTrue, EncoderNext
    PROVE  WalkTrue'
<1> DEFINE Walks == [pos : Nat, chain : Nat, best_start : Nat, best_len : Nat]
<1>1. inputVars' = inputVars /\ config' = config /\ src' = src /\ trgt' = trgt
  BY StepsKeepInputs DEF inputVars
<1>2. walk \in Walks
  BY DEF WalkTrue
<1>3. CASE StartWalk
  <2> DEFINE len == Len(trgt)
  <2>1. /\ UNCHANGED <<max_trgt_match_len, cur_o_pos>> /\ state = "TryMatch" /\ ~ OutOfData
        /\ config.match_trgt
        /\ state' = IF ChainChecks = 0 THEN "EndWalk" ELSE "Examine"
    BY <1>3 DEF StartWalk, At, Chained
  <2>2. PICK pos \in get(trgt_matcher.table, trgt_matcher.fwd_hash) :
            walk' = [pos |-> pos, chain |-> ChainChecks, best_start |-> 0, best_len |-> 0]
    BY <1>3 DEF StartWalk
  <2>3. pos \in Nat
    <3>1. PICK capacity \in Nat : trgt_matcher \in Matchers(capacity)
      BY <2>1 DEF TargetInStep, Active, Behind, Looking
    <3>2. trgt_matcher.table \in [Buckets -> BucketValue] /\ trgt_matcher.fwd_hash \in Hash
      BY <3>1 DEF Matchers
    <3> QED
      BY <3>2, GetTrue
  <2>4. ChainChecks \in Nat
    <3>1. config.chain_check \in Nat
      BY ConfigTyped DEF Positions
    <3>2. config.chain_check \div 4 \in Nat
      BY <3>1
    <3> QED
      BY <3>1, <3>2 DEF ChainChecks, Largest
  <2>5. /\ cur_o_pos \in Nat /\ MIN_MATCH \in Nat /\ len \in Nat /\ max_trgt_match_len \in Nat
        /\ cur_o_pos + MIN_MATCH < max_trgt_match_len /\ max_trgt_match_len <= len
    BY <2>1, InsideTarget
  <2>6. SameBytes(trgt, 0, trgt, cur_o_pos, 0)
    <3>1. 0 + 0 <= len /\ cur_o_pos + 0 <= len
      <4> HIDE DEF len
      <4> QED
        BY <2>5
    <3> QED
      BY <3>1 DEF SameBytes
  <2>7. walk' \in Walks /\ (state' = "Examine" => walk'.chain > 0)
        /\ walk'.best_start = 0 /\ walk'.best_len = 0
    BY <2>1, <2>2, <2>3, <2>4
  <2> QED
    BY <1>1, <2>1, <2>5, <2>6, <2>7 DEF WalkTrue, WalkStates
<1>4. CASE PassOver \/ ChainEnd
  BY <1>1, <1>4 DEF PassOver, ChainEnd, Walking, WalkTrue, WalkStates
<1>5. CASE Examine
  <2> DEFINE len == Len(trgt)
             pos == walk.pos
             limit == Smallest(cur_o_pos - pos, len - cur_o_pos)
             length == CommonLen(trgt, pos, trgt, cur_o_pos, limit)
             better == length > walk.best_len
             left == walk.chain - 1
  <2>1. /\ UNCHANGED <<max_trgt_match_len, cur_o_pos>> /\ state = "Examine" /\ Candidate
        /\ walk' = [walk EXCEPT !.chain = left,
                        !.best_start = IF better THEN pos ELSE @,
                        !.best_len = IF better THEN length ELSE @]
        /\ state' = IF left = 0 \/ (better /\ length >= config.compress_early_exit)
                     THEN "EndWalk" ELSE "Advance"
    BY <1>5 DEF Examine, Walking
  <2>2. pos \in Nat /\ walk.chain \in Nat /\ walk.chain > 0 /\ left \in Nat
        /\ walk.best_start \in Nat /\ walk.best_len \in Nat
    BY <1>2, <2>1 DEF WalkTrue
  <2>3. cur_o_pos \in Nat /\ len \in Nat /\ cur_o_pos <= len
    <3>1. cur_o_pos \in 0 .. len /\ len \in Nat
      BY DEF Positions
    <3> HIDE DEF len
    <3> QED
      BY <3>1
  <2>4. MIN_MATCH \in Nat /\ pos + MIN_MATCH < cur_o_pos
    BY <2>1, EncoderAssumption DEF Candidate
  <2>5. /\ limit \in Nat /\ pos + limit <= len /\ cur_o_pos + limit <= len
        /\ pos + limit <= cur_o_pos
    <3> HIDE DEF len, pos
    <3> QED
      BY <2>2, <2>3, <2>4 DEF Smallest
  <2> HIDE DEF limit
  <2>6. length \in 0 .. limit
    BY <2>2, <2>3, <2>5, CommonLenTrue
  <2>7. SameBytes(trgt, pos, trgt, cur_o_pos, length)
    BY <2>2, <2>3, <2>5, CommonLenSame DEF Positions
  <2> HIDE DEF length
  <2>8. length \in Nat /\ pos + length <= cur_o_pos
    <3> HIDE DEF pos
    <3> QED
      BY <2>2, <2>3, <2>5, <2>6
  <2>9. /\ config.match_trgt /\ cur_o_pos + MIN_MATCH < max_trgt_match_len
        /\ walk.best_start + walk.best_len <= cur_o_pos
        /\ SameBytes(trgt, walk.best_start, trgt, cur_o_pos, walk.best_len)
    BY <2>1 DEF WalkTrue, WalkStates
  <2>10. walk' \in Walks /\ walk'.chain = left
    <3> HIDE DEF better, left, pos
    <3> QED
      BY <1>2, <2>1, <2>2, <2>8
  <2>11. \/ walk'.best_start = pos /\ walk'.best_len = length
         \/ walk'.best_start = walk.best_start /\ walk'.best_len = walk.best_len
    <3> HIDE DEF better, left, pos
    <3> QED
      BY <1>2, <2>1
  <2>12. state' = "EndWalk" \/ (state' = "Advance" /\ left > 0)
    BY <2>1, <2>2
  <2>13. /\ walk'.best_start + walk'.best_len <= cur_o_pos
         /\ SameBytes(trgt, walk'.best_start, trgt, cur_o_pos, walk'.best_len)
    <3> HIDE DEF pos
    <3> QED
      BY <2>7, <2>8, <2>9, <2>11
  <2> HIDE DEF left
  <2> QED
    BY <1>1, <2>1, <2>9, <2>10, <2>12, <2>13 DEF WalkTrue, WalkStates
<1>6. CASE Advance
  <2> DEFINE prev == Previous(trgt_matcher, walk.pos)
  <2>1. /\ UNCHANGED <<max_trgt_match_len, cur_o_pos>> /\ state = "Advance"
        /\ ~ ChainEnds(trgt_matcher, walk.pos, cur_o_pos)
        /\ walk' = [walk EXCEPT !.pos = prev.value - 1]
        /\ state' \in {"Examine", "Advance"}
    BY <1>6 DEF Advance, Walking
  <2>2. PICK capacity \in Nat : trgt_matcher \in Matchers(capacity)
    BY <2>1 DEF TargetInStep, WalkTrue, Active, Behind, Looking, WalkStates
  <2>3. prev.value \in Nat
    BY <1>2, <2>2, PreviousTyped DEF BucketValue
  <2>4. prev.value # 0
    BY <2>1 DEF ChainEnds
  <2> HIDE DEF prev
  <2>5. prev.value - 1 \in Nat
    BY <2>3, <2>4
  <2>6. /\ walk' \in Walks /\ walk'.chain = walk.chain
        /\ walk'.best_start = walk.best_start /\ walk'.best_len = walk.best_len
    BY <1>2, <2>1, <2>5
  <2> QED
    BY <1>1, <2>1, <2>6 DEF WalkTrue, WalkStates
<1>7. CASE walk' = walk /\ state' \notin WalkStates
  BY <1>2, <1>7 DEF WalkTrue, WalkStates
<1>8. \/ StartWalk \/ PassOver \/ ChainEnd \/ Examine \/ Advance
      \/ walk' = walk /\ state' \notin WalkStates
  <2>1. CASE \/ ReturnNothing \/ Build \/ BuildPanics \/ StartNewMatch \/ StartNewMatchPanics
             \/ MatchRun \/ MatchSrc \/ NoMatch \/ MatchTrgt \/ NoMatchInChain
             \/ KeepLooking \/ Jump \/ MoveForwardOneByte \/ EndOfLoop \/ Returned
    BY <2>1 DEF ReturnNothing, Build, BuildPanics, StartNewMatch, StartNewMatchPanics,
         MatchRun, MatchSrc, NoMatch, NothingHere, MatchTrgt, NoMatchInChain, KeepLooking, Jump,
         MoveForwardOneByte, EndOfLoop, Returned, encoderVars, WalkStates
  <2> QED
    BY <2>1 DEF EncoderNext
<1> QED
  BY <1>3, <1>4, <1>5, <1>6, <1>7, <1>8

(* The loop's own invariant. *)
THEOREM LoopIsTyped == EncoderSpec => []LoopTyped
<1>1. EncoderInit => LoopTyped
  BY PositionsInit, SourceInStepInit, TargetInStepInit, WalkTrueInit DEF LoopTyped
<1>2. LoopTyped /\ [EncoderNext]_encoderVars => LoopTyped'
  <2> SUFFICES ASSUME LoopTyped, [EncoderNext]_encoderVars PROVE LoopTyped'
    OBVIOUS
  <2>1. CASE EncoderNext
    BY <2>1, PositionsStep, SourceInStepStep, TargetInStepStep, WalkTrueStep DEF LoopTyped
  <2>2. CASE UNCHANGED encoderVars
    <3>1. Positions'
      BY <2>2 DEF LoopTyped, Positions, encoderVars
    <3>2. SourceInStep'
      <4>1. SrcMatchers' = SrcMatchers /\ LastHashPos(SRC_HASH_LEN)' = LastHashPos(SRC_HASH_LEN)
        BY <2>2, InputsKept DEF encoderVars, inputVars
      <4> QED
        BY <2>2, <4>1 DEF LoopTyped, SourceInStep, LooksAt, InStep, encoderVars
    <3>3. TargetInStep'
      <4>1. LastHashPos(MIN_MATCH)' = LastHashPos(MIN_MATCH)
        BY <2>2, InputsKept DEF encoderVars, inputVars
      <4> QED
        BY <2>2, <4>1 DEF LoopTyped, TargetInStep, LooksAt, UpTo, encoderVars
    <3>4. WalkTrue'
      BY <2>2 DEF LoopTyped, WalkTrue, encoderVars
    <3> QED
      BY <3>1, <3>2, <3>3, <3>4 DEF LoopTyped
  <2> QED
    BY <2>1, <2>2
<1> QED
  BY <1>1, <1>2, PTL DEF EncoderSpec

(* Every variable of the loop has its type: positions inside the target,   *)
(* hashes of 32 bits, tables and chains of buckets (encode_inner).         *)
THEOREM EncoderIsTyped == EncoderSpec => []EncoderTypeOK
<1>1. LoopTyped => EncoderTypeOK
  <2> SUFFICES ASSUME LoopTyped PROVE EncoderTypeOK
    OBVIOUS
  <2>1. src_matcher \in SrcMatcher \cup {OffMatcher}
    <3>1. CASE src_matcher \in SrcMatchers
      <4>1. src_matcher.table \in [Buckets -> TrueBuckets]
        BY <3>1 DEF SrcMatchers
      <4>2. src_matcher.table \in [Buckets -> BucketValue]
        BY <4>1, TrueBucketsTyped
      <4> QED
        BY <3>1, <4>2 DEF SrcMatchers, SrcMatcher
    <3> QED
      BY <3>1 DEF LoopTyped, SourceInStep
  <2>2. trgt_matcher = OffMatcher \/ trgt_matcher \in TrgtMatcherSet
    <3>1. ASSUME NEW capacity \in Nat, trgt_matcher \in Matchers(capacity)
          PROVE  trgt_matcher \in TrgtMatcherSet
      <4>1. trgt_matcher.capacity = capacity
        BY <3>1 DEF Matchers
      <4> QED
        BY <3>1, <4>1 DEF Matchers, TrgtMatcherSet
    <3> QED
      BY <3>1 DEF LoopTyped, TargetInStep
  <2> QED
    BY <2>1, <2>2
    DEF LoopTyped, Positions, WalkTrue, EncoderTypeOK, Active, Behind, Looking, WalkStates, LoopStates
<1> QED
  BY <1>1, LoopIsTyped, PTL

(* HashesInStep, for every source, target and size of the hash: the source *)
(* matcher's hash is the checksum of the window where it stands, however   *)
(* it was rolled there, and so is each hash in the source's table.         *)
THEOREM HashesStayInStep == EncoderSpec => []HashesInStep
<1>1. LoopTyped => HashesInStep
  <2> SUFFICES ASSUME LoopTyped, src_matcher # OffMatcher PROVE HashesInStep
    BY DEF HashesInStep
  <2>1. src_matcher \in SrcMatchers /\ InStep(src_matcher)
    BY DEF LoopTyped, SourceInStep
  <2>2. \A b \in Buckets : src_matcher.table[b] \in TrueBuckets
    BY <2>1 DEF SrcMatchers
  <2> QED
    BY <2>1, <2>2 DEF HashesInStep, InStep, TrueBuckets
<1> QED
  BY <1>1, LoopIsTyped, PTL

(* EncoderAssertions: the debug assertions of encode_inner and of the      *)
(* matchers hold.                                                          *)
THEOREM EncoderAsserts == EncoderSpec => []EncoderAssertions
<1>1. LoopTyped => EncoderAssertions
  <2> SUFFICES ASSUME LoopTyped PROVE EncoderAssertions
    OBVIOUS
  <2> DEFINE len == Len(trgt)
  <2>1. Positions /\ SourceInStep /\ TargetInStep /\ WalkTrue
    BY DEF LoopTyped
  <2>2. MIN_MATCH \in Nat /\ SRC_HASH_LEN \in Nat /\ len \in Nat
    BY <2>1, EncoderAssumption DEF Positions
  <2>3. /\ LastHashPos(MIN_MATCH) = IF len - MIN_MATCH > 0 THEN len - MIN_MATCH ELSE 0
        /\ LastHashPos(SRC_HASH_LEN) = IF len - SRC_HASH_LEN > 0 THEN len - SRC_HASH_LEN ELSE 0
    BY DEF LastHashPos, Minus, Largest
  <2>4. ASSUME At("TryMatch"), config.match_src,
               cur_o_pos + SRC_HASH_LEN <= max_trgt_match_len
        PROVE  /\ src_matcher.fwd_pos = cur_o_pos
               /\ \A start \in SrcCandidates :
                     /\ start + SRC_HASH_LEN <= Len(src)
                     /\ PreMatch(start) > 0 => PreMatch(start) < cur_o_pos
    <3>1. ~ OutOfData /\ state = "TryMatch"
      BY <2>4 DEF At
    <3>2. /\ src_matcher \in SrcMatchers /\ src_matcher.fwd_pos <= cur_o_pos
          /\ src_matcher.fwd_pos = cur_o_pos \/ src_matcher.fwd_pos >= LastHashPos(SRC_HASH_LEN)
      BY <2>1, <2>4, <3>1 DEF SourceInStep, LooksAt, Active, Behind, Looking
    <3>3. src_matcher.fwd_pos \in Nat
      BY <3>2 DEF SrcMatchers
    <3>4. cur_o_pos \in Nat /\ max_trgt_match_len \in Nat /\ max_trgt_match_len <= len
      BY <2>1, <3>1, InsideTarget
    <3>5. src_matcher.fwd_pos = cur_o_pos
      <4> HIDE DEF len
      <4> QED
        BY <2>2, <2>3, <2>4, <3>2, <3>3, <3>4
    <3>6. ASSUME NEW start \in SrcCandidates
          PROVE  /\ start + SRC_HASH_LEN <= Len(src)
                 /\ PreMatch(start) > 0 => PreMatch(start) < cur_o_pos
      <4>1. start \in Nat /\ start + SRC_HASH_LEN <= Len(src)
        BY <2>1, <3>2, CandidateTrue
      <4> QED
        BY <3>4, <4>1, PreMatchTrue
    <3> QED
      BY <3>5, <3>6
  <2>5. ASSUME At("TryMatch"), config.match_trgt
        PROVE  trgt_matcher.fwd_pos = cur_o_pos
    <3>1. ~ OutOfData /\ state = "TryMatch"
      BY <2>5 DEF At
    <3>2. PICK capacity \in Nat : trgt_matcher \in Matchers(capacity)
      BY <2>1, <2>5, <3>1 DEF TargetInStep, Active, Behind, Looking
    <3>3. /\ trgt_matcher.fwd_pos <= cur_o_pos
          /\ trgt_matcher.fwd_pos = cur_o_pos \/ trgt_matcher.fwd_pos >= LastHashPos(MIN_MATCH)
      BY <2>1, <2>5, <3>1 DEF TargetInStep, LooksAt, Active, Behind, Looking
    <3>4. trgt_matcher.fwd_pos \in Nat
      BY <3>2 DEF Matchers
    <3>5. /\ cur_o_pos \in Nat /\ max_trgt_match_len \in Nat
          /\ cur_o_pos + MIN_MATCH < max_trgt_match_len /\ max_trgt_match_len <= len
      BY <2>1, <3>1, InsideTarget
    <3> HIDE DEF len
    <3> QED
      BY <2>2, <2>3, <3>3, <3>4, <3>5
  <2>6. ASSUME At("MoveForwardOneByte")
        PROVE  /\ cur_o_pos + MIN_MATCH < len
               /\ config.match_src /\ src_matcher.fwd_pos < LastHashPos(SRC_HASH_LEN) =>
                     cur_o_pos + SRC_HASH_LEN < len
    <3>1. ~ OutOfData /\ state = "MoveForwardOneByte"
      BY <2>6 DEF At
    <3>2. /\ cur_o_pos \in Nat /\ max_trgt_match_len \in Nat
          /\ cur_o_pos + MIN_MATCH < max_trgt_match_len /\ max_trgt_match_len <= len
      BY <2>1, <3>1, InsideTarget
    <3>3. cur_o_pos + MIN_MATCH < len
      <4> HIDE DEF len
      <4> QED
        BY <2>2, <3>2
    <3>4. ASSUME config.match_src, src_matcher.fwd_pos < LastHashPos(SRC_HASH_LEN)
          PROVE  cur_o_pos + SRC_HASH_LEN < len
      <4>1. /\ src_matcher \in SrcMatchers
            /\ src_matcher.fwd_pos = cur_o_pos \/ src_matcher.fwd_pos >= LastHashPos(SRC_HASH_LEN)
        BY <2>1, <3>1, <3>4 DEF SourceInStep, LooksAt, Active, Behind
      <4>2. src_matcher.fwd_pos \in Nat
        BY <4>1 DEF SrcMatchers
      <4> HIDE DEF len
      <4> QED
        BY <2>2, <2>3, <3>2, <3>4, <4>1, <4>2
    <3> QED
      BY <3>3, <3>4
  <2>7. ASSUME state = "Advance"
        PROVE  Previous(trgt_matcher, walk.pos).value <= cur_o_pos + 1
    <3>1. config.match_trgt /\ walk.pos \in Nat /\ state \in Active
      BY <2>1, <2>7 DEF WalkTrue, WalkStates, Active, Behind, Looking
    <3>2. PICK capacity \in Nat : trgt_matcher \in Matchers(capacity)
      BY <2>1, <3>1 DEF TargetInStep
    <3>3. UpTo(trgt_matcher, cur_o_pos + 1) /\ trgt_matcher.capacity = capacity
      BY <2>1, <3>1, <3>2 DEF TargetInStep, Matchers
    <3>4. CASE capacity = 0
      <4>1. Previous(trgt_matcher, walk.pos).value = 0
        BY <3>1, <3>2, <3>4, PreviousTyped
      <4>2. cur_o_pos \in Nat
        BY <2>1 DEF Positions
      <4> QED
        BY <4>1, <4>2
    <3>5. CASE capacity # 0
      <4>1. /\ walk.pos % capacity \in 0 .. capacity - 1
            /\ Previous(trgt_matcher, walk.pos) = trgt_matcher.chain[walk.pos % capacity]
        BY <3>1, <3>2, <3>5, PreviousTyped
      <4> QED
        BY <3>3, <4>1 DEF UpTo
    <3> QED
      BY <3>4, <3>5
  <2>8. state = "EndWalk" => walk.best_start + walk.best_len <= cur_o_pos
    BY <2>1 DEF WalkTrue, WalkStates
  <2> QED
    BY <2>4, <2>5, <2>6, <2>7, <2>8 DEF EncoderAssertions
<1> QED
  BY <1>1, LoopIsTyped, PTL

-----------------------------------------------------------------------------
(* The matches found, step by step. *)

(* The run that ends with the window. *)
LEMMA RunTrueStep ==
    ASSUME Positions, RunTrue, EncoderNext
    PROVE  RunTrue'
<1> USE DEF Behind, Looking, WalkStates, LoopStates
<1>1. trgt' = trgt
  BY StepsKeepInputs DEF inputVars
<1>2. MIN_MATCH \in Nat /\ MIN_MATCH # 0
  BY EncoderAssumption
<1>3. CASE StartNewMatch
  <2> DEFINE n == InitialRunLen
             byte == trgt[cur_o_pos + MIN_MATCH]
  <2>1. /\ cur_o_pos' = cur_o_pos /\ ~ OutOfData /\ run_len' = n /\ run_byte' = byte
    BY <1>3 DEF StartNewMatch, At
  <2>2. cur_o_pos \in Nat
    BY <2>1, InsideTarget
  <2>3. /\ n \in 1 .. MIN_MATCH
        /\ \A i \in MIN_MATCH - n + 1 .. MIN_MATCH : trgt[cur_o_pos + i] = byte
    BY <1>2, <2>2, InitialRunTrue
  <2> HIDE DEF n, byte
  <2>4. ASSUME NEW i \in 1 .. MIN_MATCH, i <= n
        PROVE  trgt[cur_o_pos + MIN_MATCH - i + 1] = byte
    <3>1. MIN_MATCH - i + 1 \in MIN_MATCH - n + 1 .. MIN_MATCH
      BY <1>2, <2>3, <2>4
    <3>2. cur_o_pos + (MIN_MATCH - i + 1) = cur_o_pos + MIN_MATCH - i + 1
      BY <1>2, <2>2
    <3> QED
      BY <2>3, <3>1, <3>2
  <2> QED
    BY <1>1, <2>1, <2>4 DEF RunTrue
<1>4. CASE MatchRun \/ MatchSrc \/ StartWalk \/ NoMatch
  <2>1. /\ UNCHANGED <<cur_o_pos, run_byte>> /\ state = "TryMatch" /\ ~ OutOfData
        /\ run_len' = ExtendedRunLen
    BY <1>4 DEF MatchRun, MatchSrc, StartWalk, NoMatch, At
  <2>2. run_len \in Nat /\ ExtendedRunLen \in Nat
        /\ (run_len # MIN_MATCH => ExtendedRunLen = run_len)
    BY <2>1, RunExtended DEF Positions
  <2>3. \A i \in 1 .. MIN_MATCH : i <= run_len' => i <= run_len
    BY <1>2, <2>1, <2>2
  <2> QED
    BY <1>1, <2>1, <2>3 DEF RunTrue
<1>5. CASE MoveForwardOneByte
  <2> DEFINE next == trgt[cur_o_pos + MIN_MATCH + 1]
  <2>1. /\ cur_o_pos' = cur_o_pos + 1 /\ state = "MoveForwardOneByte" /\ ~ OutOfData
        /\ run_byte' = next
        /\ run_len' = IF run_byte = next THEN run_len + 1 ELSE 1
    BY <1>5 DEF MoveForwardOneByte, At
  <2>2. cur_o_pos \in Nat /\ run_len \in Nat
    BY <2>1, InsideTarget DEF Positions
  <2>3. ASSUME NEW i \in 1 .. MIN_MATCH, i <= run_len'
        PROVE  trgt[cur_o_pos + 1 + MIN_MATCH - i + 1] = next
    <3>1. CASE i = 1
      <4>1. cur_o_pos + 1 + MIN_MATCH - i + 1 = cur_o_pos + MIN_MATCH + 1
        BY <1>2, <2>2, <3>1
      <4> QED
        BY <4>1
    <3>2. CASE i # 1
      <4>1. run_byte = next
        BY <2>1, <2>3, <3>2
      <4>2. i - 1 \in 1 .. MIN_MATCH /\ i - 1 <= run_len
        BY <1>2, <2>1, <2>2, <2>3, <3>2, <4>1
      <4>3. trgt[cur_o_pos + MIN_MATCH - (i - 1) + 1] = run_byte
        BY <2>1, <4>2 DEF RunTrue
      <4>4. cur_o_pos + MIN_MATCH - (i - 1) + 1 = cur_o_pos + 1 + MIN_MATCH - i + 1
        BY <1>2, <2>2
      <4> QED
        BY <4>1, <4>3, <4>4
    <3> QED
      BY <3>1, <3>2
  <2> QED
    BY <1>1, <2>1, <2>3 DEF RunTrue
<1>6. CASE state' \notin Behind
  BY <1>6 DEF RunTrue
<1>7. CASE UNCHANGED <<cur_o_pos, run_len, run_byte>> /\ state \in Behind
  BY <1>1, <1>7 DEF RunTrue
<1>8. \/ StartNewMatch \/ MatchRun \/ MatchSrc \/ StartWalk \/ NoMatch \/ MoveForwardOneByte
      \/ state' \notin Behind
      \/ UNCHANGED <<cur_o_pos, run_len, run_byte>> /\ state \in Behind
  <2>1. CASE ReturnNothing \/ Build \/ BuildPanics \/ StartNewMatchPanics \/ Jump
             \/ EndOfLoop \/ Returned
    BY <2>1 DEF ReturnNothing, Build, BuildPanics, StartNewMatchPanics, Jump, EndOfLoop,
                Returned, encoderVars
  <2>2. CASE PassOver \/ Examine \/ Advance \/ ChainEnd \/ MatchTrgt \/ NoMatchInChain
             \/ KeepLooking
    BY <2>2 DEF PassOver, Examine, Advance, ChainEnd, MatchTrgt, NoMatchInChain, KeepLooking,
                NothingHere, Walking, runVars, At
  <2> QED
    BY <2>1, <2>2 DEF EncoderNext
<1> QED
  BY <1>3, <1>4, <1>5, <1>6, <1>7, <1>8

(* Every step keeps what was found at the target's end. *)
LEMMA PrependTrueStep ==
    ASSUME Positions, PrependTrue, EncoderNext
    PROVE  PrependTrue'
<1>1. src' = src /\ trgt' = trgt
  BY StepsKeepInputs DEF inputVars
<1>2. CASE Build
  <2> DEFINE slen == Len(src)
             tlen == Len(trgt)
  <2>1. max_trgt_match_len' = tlen - (IF Prepended THEN slen ELSE 0)
    BY <1>2 DEF Build
  <2>2. slen \in Nat /\ tlen \in Nat
    BY DEF Positions
  <2>3. Prepended => SameBytes(src, 0, trgt, tlen - slen, slen)
    BY AppendedTrue
  <2>4. CASE Prepended
    BY <1>1, <2>1, <2>3, <2>4 DEF PrependTrue
  <2>5. CASE ~ Prepended
    <3>1. max_trgt_match_len' = tlen
      <4> HIDE DEF slen, tlen
      <4> QED
        BY <2>1, <2>2, <2>5
    <3>2. ~ (max_trgt_match_len' < Len(trgt'))
      <4>1. ~ (tlen < tlen)
        <5> HIDE DEF tlen
        <5> QED
          BY <2>2
      <4> QED
        BY <1>1, <3>1, <4>1
    <3> QED
      BY <3>2 DEF PrependTrue
  <2> QED
    BY <2>4, <2>5
<1>3. CASE max_trgt_match_len' = max_trgt_match_len
  BY <1>1, <1>3 DEF PrependTrue
<1>4. Build \/ max_trgt_match_len' = max_trgt_match_len
  BY DEF EncoderNext, ReturnNothing, BuildPanics, StartNewMatch, StartNewMatchPanics,
         MatchRun, MatchSrc, StartWalk, NoMatch, PassOver, Examine, Advance, ChainEnd, MatchTrgt,
         NoMatchInChain, KeepLooking, Jump, MoveForwardOneByte, EndOfLoop, Returned, Walking,
         encoderVars
<1> QED
  BY <1>2, <1>3, <1>4

(* A match put after some of those found. *)
Starts(m, n) == m.o_pos <= n.o_pos /\ (m.length > 0 => m.o_pos < n.o_pos)

(* Appending to the first n of a list. *)
LEMMA AppendTo ==
    ASSUME NEW list \in Seq(InnerOp), NEW n \in 0 .. Len(list), NEW op \in InnerOp,
           NEW more, more = Append(SubSeq(list, 1, n), op)
    PROVE  /\ Len(more) = n + 1 /\ more[n + 1] = op
           /\ \A i \in 1 .. n : more[i] = list[i] /\ i \in 1 .. Len(list)
<1> DEFINE kept == SubSeq(list, 1, n)
<1>1. n \in Nat /\ n <= Len(list) /\ Len(list) \in Nat
  OBVIOUS
<1>2. kept \in Seq(InnerOp) /\ Len(kept) = n /\ \A i \in 1 .. n : kept[i] = list[i]
  BY <1>1, SubSeqProperties
<1>3. \A i \in 1 .. n : i \in 1 .. Len(list)
  BY <1>1
<1> HIDE DEF kept
<1>4. Len(Append(kept, op)) = n + 1 /\ Append(kept, op)[n + 1] = op
  BY <1>2, AppendProperties
<1>5. \A i \in 1 .. n : Append(kept, op)[i] = kept[i]
  BY <1>1, <1>2, AppendProperties
<1> QED
  BY <1>2, <1>3, <1>4, <1>5 DEF kept

(* A true match that reaches further than the ones kept, and starts after  *)
(* them, is added: all that is said of the list holds of the longer one.   *)
LEMMA NewMatch ==
    ASSUME Positions, OpsTrue, OpsFollow, OpsPlaced, state \in Looking,
           NEW n \in 0 .. Len(ops), NEW op \in InnerOp, NEW found \in Nat,
           TrueMatch(op, src, trgt), op.length > 0,
           op.o_pos <= cur_o_pos, cur_o_pos <= max_trgt_match_len,
           op.o_pos + op.length = cur_o_pos + found, found >= min_match,
           \A i \in 1 .. n : Starts(ops[i], op),
           ops' = Append(SubSeq(ops, 1, n), op), match_len' = found, state' = "FoundMatch",
           UNCHANGED <<src, trgt, cur_o_pos, max_trgt_match_len>>
    PROVE  OpsTrue' /\ OpsFollow' /\ OpsPlaced'
<1> DEFINE more == Append(SubSeq(ops, 1, n), op)
<1>1. ops \in Seq(InnerOp) /\ Len(ops) \in Nat /\ n \in Nat
  BY DEF Positions
<1>2. /\ Len(more) = n + 1 /\ more[n + 1] = op
      /\ \A i \in 1 .. n : more[i] = ops[i] /\ i \in 1 .. Len(ops)
  BY <1>1, AppendTo
<1>3. ops' = more
  OBVIOUS
<1> HIDE DEF more
<1>4. \A i \in 1 .. n + 1 : i \in 1 .. n \/ i = n + 1
  BY <1>1
<1>5. state # "done" /\ state' # "done" /\ state' # "StartNewMatch" /\ state' \notin Looking
  BY DEF Looking, WalkStates
<1>6. \A i \in 1 .. Len(ops) : ops[i] \in InnerOp
  BY DEF Positions
<1>7. OpsTrue'
  <2>1. ASSUME NEW i \in 1 .. n + 1
        PROVE  /\ TrueMatch(more[i], src, trgt)
               /\ more[i].length = 0 => i = 1 /\ more[i].o_pos = 0 /\ src = <<>>
    <3>1. CASE i \in 1 .. n
      BY <1>2, <3>1 DEF OpsTrue
    <3>2. CASE i = n + 1
      <4>1. op.length # 0
        BY DEF InnerOp
      <4> QED
        BY <1>2, <3>2, <4>1
    <3> QED
      BY <1>4, <3>1, <3>2
  <2> QED
    BY <1>2, <1>3, <2>1 DEF OpsTrue
<1>8. OpsFollow'
  <2>1. ASSUME NEW i \in 1 .. n + 1, NEW j \in 1 .. n + 1, i < j
        PROVE  Follows(more[i], more[j])
    <3>1. i \in 1 .. n
      BY <1>1, <2>1
    <3>2. CASE j \in 1 .. n
      BY <1>2, <1>5, <2>1, <3>1, <3>2 DEF OpsFollow
    <3>3. CASE j = n + 1
      <4> DEFINE old == ops[i]
      <4>1. old.o_pos + old.length < cur_o_pos + min_match
        BY <1>2, <1>5, <3>1 DEF OpsPlaced, Placed
      <4>2. old \in InnerOp
        BY <1>2, <1>6, <3>1
      <4>3. cur_o_pos \in Nat /\ min_match \in Nat /\ old.o_pos + old.length \in Nat
        <5>1. cur_o_pos \in Nat /\ min_match \in Nat
          BY DEF Positions
        <5>2. old.o_pos + old.length \in Nat
          BY <4>2, MatchNumbers
        <5> QED
          BY <5>1, <5>2
      <4>4. Starts(old, op)
        BY <3>1
      <4> DEFINE oldEnd == old.o_pos + old.length
                 newEnd == op.o_pos + op.length
      <4>5. oldEnd < newEnd
        <5>1. newEnd = cur_o_pos + found /\ oldEnd < cur_o_pos + min_match /\ oldEnd \in Nat
          BY <4>1, <4>3
        <5> HIDE DEF oldEnd, newEnd
        <5> QED
          BY <4>3, <5>1
      <4>6. Follows(old, op)
        BY <4>4, <4>5 DEF Starts, Follows
      <4> QED
        BY <1>2, <3>1, <3>3, <4>6
    <3> QED
      BY <1>4, <3>2, <3>3
  <2> QED
    BY <1>2, <1>3, <1>5, <2>1 DEF OpsFollow
<1>9. OpsPlaced'
  <2>1. cur_o_pos \in Nat /\ max_trgt_match_len \in Nat /\ min_match \in Nat
    BY DEF Positions
  <2>2. ASSUME NEW i \in 1 .. n + 1
        PROVE  /\ more[i].o_pos <= max_trgt_match_len /\ more[i].o_pos <= cur_o_pos
               /\ more[i].o_pos + more[i].length <= cur_o_pos + found
    <3>1. CASE i \in 1 .. n
      <4> DEFINE old == ops[i]
                 oldEnd == old.o_pos + old.length
      <4>1. /\ oldEnd < cur_o_pos + min_match /\ old.o_pos <= max_trgt_match_len
            /\ old.o_pos <= cur_o_pos
        BY <1>2, <1>5, <3>1 DEF OpsPlaced, Placed
      <4>2. oldEnd \in Nat
        BY <1>2, <1>6, <3>1 DEF InnerOp
      <4>3. oldEnd <= cur_o_pos + found
        <5> HIDE DEF oldEnd
        <5> QED
          BY <2>1, <4>1, <4>2
      <4> QED
        BY <1>2, <3>1, <4>1, <4>3
    <3>2. CASE i = n + 1
      <4>1. op.o_pos \in Nat
        BY DEF InnerOp
      <4>2. op.o_pos <= max_trgt_match_len
        BY <2>1, <4>1
      <4>3. op.o_pos + op.length <= cur_o_pos + found
        BY <2>1
      <4> QED
        BY <1>2, <3>2, <4>2, <4>3
    <3> QED
      BY <1>4, <3>1, <3>2
  <2> QED
    BY <1>2, <1>3, <1>5, <2>2 DEF OpsPlaced, Placed
<1> QED
  BY <1>7, <1>8, <1>9

(* A list is its own longest prefix. *)
LEMMA WholeSubSeq ==
    ASSUME NEW list \in Seq(InnerOp)
    PROVE  SubSeq(list, 1, Len(list)) = list
OBVIOUS

(* Every match found lies before the one found where the loop looks. *)
LEMMA FoundBefore ==
    ASSUME OpsPlaced, state \in Looking, NEW op, op.o_pos = cur_o_pos
    PROVE  \A i \in 1 .. Len(ops) : Starts(ops[i], op)
  BY DEF OpsPlaced, Placed, Starts, Looking, WalkStates

(* The run that match_run adds is a true match in its place. *)
LEMMA MatchRunTrue ==
    ASSUME Positions, OpsTrue, OpsFollow, OpsPlaced, RunTrue, MatchRun
    PROVE  OpsTrue' /\ OpsFollow' /\ OpsPlaced'
<1> DEFINE len == Len(trgt)
           ext == ExtendedRunLen
           op == RunOp(run_byte, run_len', cur_o_pos)
           n == Len(ops)
<1>1. /\ UNCHANGED <<src, trgt, max_trgt_match_len, cur_o_pos>>
      /\ state = "TryMatch" /\ state' = "FoundMatch" /\ ~ OutOfData
      /\ run_len' = ext /\ ops' = Append(ops, op) /\ match_len' = ext
      /\ run_len = MIN_MATCH /\ ext >= min_match
  BY DEF MatchRun, At, RunFound, inputVars
<1>2. /\ ext \in Nat /\ ext >= MIN_MATCH /\ cur_o_pos + ext <= Len(trgt)
      /\ \A j \in MIN_MATCH + 1 .. ext : trgt[cur_o_pos + j] = run_byte
  BY <1>1, RunExtended
<1>3. /\ cur_o_pos \in Nat /\ MIN_MATCH \in Nat /\ MIN_MATCH # 0
      /\ max_trgt_match_len \in Nat /\ cur_o_pos <= max_trgt_match_len
  <2>1. /\ cur_o_pos \in Nat /\ MIN_MATCH \in Nat /\ MIN_MATCH # 0 /\ max_trgt_match_len \in Nat
        /\ cur_o_pos + MIN_MATCH < max_trgt_match_len
    BY <1>1, InsideTarget
  <2> QED
    BY <2>1
<1> HIDE DEF ext
<1>4. /\ op.kind = "Run" /\ op.byte = run_byte /\ op.length = ext /\ op.o_pos = cur_o_pos
  BY <1>1 DEF RunOp
<1>5. op \in InnerOp
  <2>1. run_byte \in Byte
    BY <1>1 DEF Positions, Behind, Looking
  <2> QED
    BY <1>1, <1>2, <1>3, <2>1 DEF RunOp, InnerOp
<1> HIDE DEF op
<1>6. TrueMatch(op, src, trgt)
  <2>1. ASSUME NEW j \in 1 .. ext PROVE trgt[cur_o_pos + j] = run_byte
    <3>1. CASE j > MIN_MATCH
      <4>1. j \in MIN_MATCH + 1 .. ext
        BY <1>2, <1>3, <3>1
      <4> QED
        BY <1>2, <4>1
    <3>2. CASE ~ (j > MIN_MATCH)
      <4> DEFINE i == MIN_MATCH - j + 1
      <4>1. i \in 1 .. MIN_MATCH /\ i <= run_len
        BY <1>1, <1>3, <3>2
      <4>2. trgt[cur_o_pos + MIN_MATCH - i + 1] = run_byte
        BY <1>1, <4>1 DEF RunTrue, Behind, Looking
      <4>3. cur_o_pos + MIN_MATCH - i + 1 = cur_o_pos + j
        BY <1>3
      <4> QED
        BY <4>2, <4>3
    <3> QED
      BY <3>1, <3>2
  <2> QED
    BY <1>2, <1>4, <2>1 DEF TrueMatch
<1>7. n \in 0 .. Len(ops) /\ ops' = Append(SubSeq(ops, 1, n), op)
  <2>1. ops \in Seq(InnerOp)
    BY DEF Positions
  <2> QED
    BY <1>1, <2>1, WholeSubSeq
<1>8. op.length > 0 /\ op.o_pos <= cur_o_pos /\ op.o_pos + op.length = cur_o_pos + ext
  BY <1>2, <1>3, <1>4
<1>9. state \in Looking
  BY <1>1 DEF Looking
<1>10. \A i \in 1 .. n : Starts(ops[i], op)
  BY <1>4, <1>9, FoundBefore
<1> HIDE DEF n
<1> QED
  BY <1>1, <1>2, <1>3, <1>5, <1>6, <1>7, <1>8, <1>9, <1>10, NewMatch

(* The best match of the walk is a true match in its place. *)
LEMMA MatchTrgtTrue ==
    ASSUME Positions, WalkTrue, OpsTrue, OpsFollow, OpsPlaced, MatchTrgt
    PROVE  OpsTrue' /\ OpsFollow' /\ OpsPlaced'
<1> DEFINE found == walk.best_len
           op == MatchOp("MatchTrgt", walk.best_start, found, cur_o_pos)
           n == Len(ops)
<1>1. /\ UNCHANGED <<src, trgt, max_trgt_match_len, cur_o_pos>>
      /\ state = "EndWalk" /\ state' = "FoundMatch"
      /\ ops' = Append(ops, op) /\ match_len' = found /\ found >= min_match
  BY DEF MatchTrgt, inputVars
<1>2. walk.best_start \in Nat /\ found \in Nat /\ cur_o_pos \in Nat /\ max_trgt_match_len \in Nat
      /\ MIN_MATCH \in Nat /\ MIN_MATCH # 0 /\ min_match \in Nat /\ min_match >= MIN_MATCH
  BY EncoderAssumption DEF WalkTrue, Positions
<1>3. /\ cur_o_pos + MIN_MATCH < max_trgt_match_len
      /\ walk.best_start + found <= cur_o_pos
      /\ SameBytes(trgt, walk.best_start, trgt, cur_o_pos, found)
  BY <1>1 DEF WalkTrue, WalkStates
<1>4. /\ op.kind = "MatchTrgt" /\ op.start = walk.best_start /\ op.length = found
      /\ op.o_pos = cur_o_pos
  BY DEF MatchOp
<1>5. op \in InnerOp
  BY <1>2, MatchOpTyped
<1> HIDE DEF op
<1>6. TrueMatch(op, src, trgt)
  BY <1>3, <1>4 DEF TrueMatch, SameBytes
<1>7. n \in 0 .. Len(ops) /\ ops' = Append(SubSeq(ops, 1, n), op)
  <2>1. ops \in Seq(InnerOp)
    BY DEF Positions
  <2> QED
    BY <1>1, <2>1, WholeSubSeq
<1> HIDE DEF found
<1>8. /\ op.length > 0 /\ op.o_pos <= cur_o_pos /\ op.o_pos + op.length = cur_o_pos + found
      /\ cur_o_pos <= max_trgt_match_len
  BY <1>1, <1>2, <1>3, <1>4
<1>9. state \in Looking
  BY <1>1 DEF Looking, WalkStates
<1>10. \A i \in 1 .. n : Starts(ops[i], op)
  BY <1>4, <1>9, FoundBefore
<1> HIDE DEF n
<1> QED
  BY <1>1, <1>2, <1>5, <1>6, <1>7, <1>8, <1>9, <1>10, NewMatch

(* The source match, and the list without those that start inside it,      *)
(* follow one another.                                                     *)
LEMMA MatchSrcTrue ==
    ASSUME Positions, SourceInStep, OpsTrue, OpsFollow, OpsPlaced, MatchSrc
    PROVE  OpsTrue' /\ OpsFollow' /\ OpsPlaced'
<1>1. /\ UNCHANGED <<src, trgt, max_trgt_match_len, cur_o_pos>>
      /\ state = "TryMatch" /\ state' = "FoundMatch" /\ ~ OutOfData /\ SrcFound
  BY DEF MatchSrc, At, inputVars
<1>2. src_matcher \in SrcMatchers
  BY <1>1 DEF SourceInStep, SrcFound, Active, Behind, Looking
<1>3. PICK start \in SrcCandidates :
          /\ ops' = Append(IF PreMatch(start) > 0 THEN StartingBefore(cur_o_pos - PreMatch(start))
                           ELSE ops, SrcMatchAt(start))
          /\ match_len' = PostMatch(start)
  BY DEF MatchSrc, SrcMatchAt
<1> DEFINE pre == PreMatch(start)
           found == PostMatch(start)
           pos == cur_o_pos - pre
           op == SrcMatchAt(start)
<1>4. /\ cur_o_pos \in Nat /\ MIN_MATCH \in Nat /\ MIN_MATCH # 0
      /\ max_trgt_match_len \in Nat /\ cur_o_pos <= max_trgt_match_len
  <2>1. /\ cur_o_pos \in Nat /\ MIN_MATCH \in Nat /\ MIN_MATCH # 0 /\ max_trgt_match_len \in Nat
        /\ cur_o_pos + MIN_MATCH < max_trgt_match_len
    BY <1>1, InsideTarget
  <2> QED
    BY <2>1
<1>5. found \in Nat /\ found >= min_match
  BY <1>1, <1>2, SrcFoundTrue
<1>6. min_match \in Nat /\ min_match >= MIN_MATCH
  BY DEF Positions
<1>7. op \in InnerOp /\ TrueMatch(op, src, trgt) /\ pre \in Nat /\ pre <= cur_o_pos
  BY <1>1, <1>2, SrcMatchTrue
<1>8. op.length = pre + found /\ op.o_pos = pos
  BY DEF SrcMatchAt, MatchOp
<1>9. state \in Looking
  BY <1>1 DEF Looking
<1>10. ops \in Seq(InnerOp)
  BY DEF Positions
<1>11. ops' = Append(IF pre > 0 THEN StartingBefore(pos) ELSE ops, op) /\ match_len' = found
  BY <1>3
<1> HIDE DEF pre, found, op
<1>12. pos \in Nat /\ pos <= cur_o_pos
  BY <1>4, <1>7
<1>13. /\ op.length > 0 /\ op.o_pos <= cur_o_pos /\ op.o_pos + op.length = cur_o_pos + found
  BY <1>4, <1>5, <1>6, <1>7, <1>8
<1>14. PICK n \in 0 .. Len(ops) :
          /\ ops' = Append(SubSeq(ops, 1, n), op)
          /\ \A i \in 1 .. n : Starts(ops[i], op)
  <2>1. CASE pre > 0
    <3> HIDE DEF pos
    <3>1. PICK n \in 0 .. Len(ops) : /\ StartingBefore(pos) = SubSeq(ops, 1, n)
                                     /\ n > 0 => ops[n].o_pos < pos
      BY <1>10, <1>12, StartingBeforeTrue
    <3>2. ASSUME NEW i \in 1 .. n PROVE Starts(ops[i], op)
      <4>1. n > 0 /\ n \in 1 .. Len(ops) /\ i \in 1 .. Len(ops) /\ (i = n \/ i < n)
        BY <1>10
      <4> DEFINE m == ops[i].o_pos
                 l == ops[n].o_pos
      <4>2. m \in Nat /\ l \in Nat
        <5>1. ops[i] \in InnerOp /\ ops[n] \in InnerOp
          BY <1>10, <4>1
        <5> QED
          BY <5>1, MatchNumbers
      <4>3. m <= l
        <5>1. CASE i = n
          BY <4>2, <5>1
        <5>2. CASE i < n
          <6>1. state # "done"
            BY <1>1
          <6> QED
            BY <4>1, <5>2, <6>1 DEF OpsFollow, Follows
        <5> QED
          BY <4>1, <5>1, <5>2
      <4>4. l < pos
        BY <3>1, <4>1
      <4> HIDE DEF m, l
      <4>5. m < pos /\ m <= pos
        BY <1>12, <4>2, <4>3, <4>4
      <4> QED
        BY <1>8, <4>5 DEF Starts, m
    <3>3. ops' = Append(SubSeq(ops, 1, n), op)
      BY <1>11, <2>1, <3>1
    <3> QED
      BY <3>2, <3>3
  <2>2. CASE ~ (pre > 0)
    <3>1. pos = cur_o_pos
      BY <1>4, <1>7, <2>2
    <3>2. \A i \in 1 .. Len(ops) : Starts(ops[i], op)
      BY <1>8, <1>9, <3>1, FoundBefore
    <3>3. ops' = Append(SubSeq(ops, 1, Len(ops)), op)
      BY <1>10, <1>11, <2>2, WholeSubSeq
    <3>4. Len(ops) \in 0 .. Len(ops)
      BY <1>10
    <3> QED
      BY <3>2, <3>3, <3>4
  <2> QED
    BY <2>1, <2>2
<1> QED
  BY <1>1, <1>4, <1>5, <1>7, <1>9, <1>11, <1>13, <1>14, NewMatch

(* When the source begins the target, that is the first match. *)
LEMMA BuildTrue ==
    ASSUME Positions, Build
    PROVE  OpsTrue' /\ OpsFollow' /\ OpsPlaced'
<1> DEFINE slen == Len(src)
           op == MatchOp("MatchSrc", 0, slen, 0)
<1>1. /\ src' = src /\ trgt' = trgt /\ cur_o_pos' = StartPos /\ state' = "StartNewMatch"
      /\ ops' = IF Appended THEN <<op>> ELSE <<>>
  BY DEF Build, inputVars
<1>2. max_trgt_match_len' \in Nat
  <2> DEFINE tlen == Len(trgt)
  <2>1. max_trgt_match_len' = tlen - (IF Prepended THEN slen ELSE 0)
    BY DEF Build
  <2>2. slen \in Nat /\ tlen \in Nat
    BY DEF Positions
  <2>3. Prepended => slen < tlen
    BY AppendedTrue
  <2> HIDE DEF slen, tlen
  <2> QED
    BY <2>1, <2>2, <2>3
<1>3. CASE Appended
  <2>1. slen \in Nat /\ src \in Seq(Byte)
    BY DEF Positions
  <2>2. SameBytes(src, 0, trgt, 0, slen)
    BY <1>3, AppendedTrue
  <2>3. slen = 0 => src = <<>>
    BY <2>1
  <2>4. cur_o_pos' = slen
    BY <1>1, <1>3 DEF StartPos
  <2>5. op.kind = "MatchSrc" /\ op.start = 0 /\ op.length = slen /\ op.o_pos = 0
    BY DEF MatchOp
  <2>6. ops' = <<op>>
    BY <1>1, <1>3
  <2> HIDE DEF op
  <2>7. Len(ops') = 1 /\ ops'[1] = op /\ \A i \in 1 .. 1 : i = 1
    BY <2>6
  <2>8. TrueMatch(op, src, trgt)
    BY <2>2, <2>5 DEF TrueMatch, SameBytes
  <2> HIDE DEF slen
  <2>9. OpsTrue'
    BY <1>1, <2>3, <2>5, <2>7, <2>8 DEF OpsTrue
  <2>10. OpsFollow'
    <3>1. state' # "done"
      BY <1>1
    <3>2. \A i, j \in 1 .. Len(ops') : ~ (i < j)
      BY <2>7
    <3> QED
      BY <3>1, <3>2 DEF OpsFollow
  <2>11. OpsPlaced'
    <3>1. /\ op.o_pos <= max_trgt_match_len' /\ op.o_pos <= cur_o_pos'
          /\ op.length > 0 => op.o_pos < cur_o_pos'
      BY <1>2, <2>1, <2>4, <2>5
    <3> QED
      BY <1>1, <2>7, <3>1 DEF OpsPlaced, Placed, Looking, WalkStates
  <2> QED
    BY <2>9, <2>10, <2>11
<1>4. CASE ~ Appended
  <2>1. ops' = <<>>
    BY <1>1, <1>4
  <2>2. 1 .. Len(ops') = {}
    BY <2>1
  <2> QED
    BY <1>1, <2>2 DEF OpsTrue, OpsFollow, OpsPlaced
<1> QED
  BY <1>3, <1>4

(* When the source ends the target, that is the last match. *)
LEMMA EndOfLoopTrue ==
    ASSUME Positions, OpsTrue, OpsFollow, OpsPlaced, PrependTrue, EndOfLoop
    PROVE  OpsTrue' /\ OpsFollow' /\ OpsPlaced'
<1> DEFINE slen == Len(src)
           tlen == Len(trgt)
           op == MatchOp("MatchSrc", 0, slen, max_trgt_match_len)
           n == Len(ops)
<1>1. /\ src' = src /\ trgt' = trgt /\ state' = "done" /\ state # "done"
      /\ ops' = IF max_trgt_match_len < tlen THEN Append(ops, op) ELSE ops
  BY DEF EndOfLoop, inputVars, LoopStates
<1>2. ops \in Seq(InnerOp) /\ slen \in Nat /\ tlen \in Nat /\ max_trgt_match_len \in Nat
      /\ n \in Nat
  BY DEF Positions
<1>3. OpsPlaced'
  BY <1>1 DEF OpsPlaced
<1>4. ASSUME NEW i \in 1 .. n - 1 PROVE Ordered(ops[i], ops[i + 1])
  <2>1. i \in 1 .. n /\ i + 1 \in 1 .. n /\ i < i + 1
    BY <1>2
  <2>2. Follows(ops[i], ops[i + 1])
    BY <1>1, <2>1 DEF OpsFollow
  <2>3. ops[i] \in InnerOp /\ ops[i + 1] \in InnerOp
    BY <1>2, <2>1
  <2> DEFINE iEnd == ops[i].o_pos + ops[i].length
             jEnd == ops[i + 1].o_pos + ops[i + 1].length
  <2>4. iEnd \in Nat /\ jEnd \in Nat
    BY <2>3 DEF InnerOp
  <2>5. iEnd < jEnd /\ ops[i].o_pos <= ops[i + 1].o_pos
    BY <2>2 DEF Follows
  <2>6. iEnd <= jEnd
    <3> HIDE DEF iEnd, jEnd
    <3> QED
      BY <2>4, <2>5
  <2> QED
    BY <2>5, <2>6 DEF Ordered
<1>5. CASE ~ (max_trgt_match_len < tlen)
  <2>1. ops' = ops
    BY <1>1, <1>5
  <2> QED
    BY <1>1, <1>3, <1>4, <2>1 DEF OpsTrue, OpsFollow
<1>6. CASE max_trgt_match_len < tlen
  <2>1. op.kind = "MatchSrc" /\ op.start = 0 /\ op.length = slen /\ op.o_pos = max_trgt_match_len
    BY DEF MatchOp
  <2>2. op \in InnerOp
    BY <1>2, MatchOpTyped
  <2>3. ops' = Append(SubSeq(ops, 1, n), op) /\ n \in 0 .. Len(ops)
    BY <1>1, <1>2, <1>6, WholeSubSeq
  <2> HIDE DEF op
  <2>4. /\ Len(ops') = n + 1 /\ ops'[n + 1] = op
        /\ \A i \in 1 .. n : ops'[i] = ops[i]
    BY <1>2, <2>2, <2>3, AppendTo
  <2>5. max_trgt_match_len = tlen - slen /\ SameBytes(src, 0, trgt, max_trgt_match_len, slen)
    BY <1>6 DEF PrependTrue
  <2>6. slen # 0
    <3> HIDE DEF slen, tlen
    <3> QED
      BY <1>2, <1>6, <2>5
  <2>7. op.o_pos + op.length = tlen
    <3> HIDE DEF slen, tlen
    <3> QED
      BY <1>2, <2>1, <2>5
  <2>8. TrueMatch(op, src, trgt)
    BY <2>1, <2>5 DEF TrueMatch, SameBytes
  <2>9. \A i \in 1 .. n + 1 : i \in 1 .. n \/ i = n + 1
    BY <1>2
  <2>10. OpsTrue'
    <3>1. ASSUME NEW i \in 1 .. n + 1
          PROVE  /\ TrueMatch(ops'[i], src, trgt)
                 /\ ops'[i].length = 0 => i = 1 /\ ops'[i].o_pos = 0 /\ src = <<>>
      <4>1. CASE i \in 1 .. n
        BY <2>4, <4>1 DEF OpsTrue
      <4>2. CASE i = n + 1
        BY <2>1, <2>4, <2>6, <2>8, <4>2
      <4> QED
        BY <2>9, <4>1, <4>2
    <3> QED
      BY <1>1, <2>4, <3>1 DEF OpsTrue
  <2>11. OpsFollow'
    <3>1. ASSUME NEW i \in 1 .. n PROVE Ordered(ops'[i], ops'[i + 1])
      <4>1. CASE i = n
        <5>1. /\ ops[i].o_pos <= max_trgt_match_len
              /\ TrueMatch(ops[i], src, trgt)
          BY <1>1 DEF OpsPlaced, Placed, OpsTrue
        <5>2. ops[i].o_pos + ops[i].length <= tlen
          BY <5>1 DEF TrueMatch
        <5>3. Ordered(ops[i], op)
          BY <2>1, <2>7, <5>1, <5>2 DEF Ordered
        <5> QED
          BY <2>4, <4>1, <5>3
      <4>2. CASE i # n
        <5>1. i \in 1 .. n - 1 /\ i + 1 \in 1 .. n
          BY <1>2, <4>2
        <5>2. Ordered(ops[i], ops[i + 1])
          BY <1>4, <5>1
        <5> QED
          BY <2>4, <5>1, <5>2
      <4> QED
        BY <4>1, <4>2
    <3>2. Len(ops') - 1 = n
      BY <1>2, <2>4
    <3> HIDE DEF n
    <3> QED
      BY <1>1, <3>1, <3>2 DEF OpsFollow
  <2> QED
    BY <1>3, <2>10, <2>11
<1> QED
  BY <1>5, <1>6

(* The steps that find no match leave those found where they are. *)
LEMMA OpsKeptTrue ==
    ASSUME Positions, OpsTrue, OpsFollow, ops' = ops, src' = src, trgt' = trgt,
           state # "done", state' # "done"
    PROVE  OpsTrue' /\ OpsFollow'
  BY DEF OpsTrue, OpsFollow

(* The steps that find no match keep what is said of the list. *)
LEMMA OtherStepsTrue ==
    ASSUME Positions, OpsTrue, OpsFollow, OpsPlaced, EncoderNext,
           ~ MatchRun, ~ MatchSrc, ~ MatchTrgt, ~ Build, ~ EndOfLoop
    PROVE  OpsTrue' /\ OpsFollow' /\ OpsPlaced'
<1> USE DEF Looking, WalkStates
<1>1. src' = src /\ trgt' = trgt
  BY StepsKeepInputs DEF inputVars
<1>2. /\ cur_o_pos \in Nat /\ min_match \in Nat /\ match_len \in Nat
      /\ max_trgt_match_len \in Nat /\ ops \in Seq(InnerOp) /\ Len(ops) \in Nat
  BY DEF Positions
<1>3. MIN_MATCH \in Nat /\ MIN_MATCH # 0
  BY EncoderAssumption
<1>4. ASSUME NEW i \in 1 .. Len(ops)
      PROVE  ops[i].o_pos \in Nat /\ ops[i].length \in Nat
  <2>1. ops[i] \in InnerOp
    BY <1>2
  <2> QED
    BY <2>1 DEF InnerOp
<1>5. CASE Returned
  BY <1>1, <1>5 DEF Returned, encoderVars, OpsTrue, OpsFollow, OpsPlaced, Placed
<1>6. CASE ReturnNothing
  <2>1. ops' = <<>> /\ state' = "done"
    BY <1>6 DEF ReturnNothing, Positions
  <2>2. 1 .. Len(ops') = {} /\ 1 .. Len(ops') - 1 = {}
    BY <2>1
  <2> QED
    BY <2>1, <2>2 DEF OpsTrue, OpsFollow, OpsPlaced
<1>7. CASE BuildPanics \/ StartNewMatchPanics
  <2>1. UNCHANGED <<max_trgt_match_len, ops, cur_o_pos>> /\ state' = "panicked" /\ state # "done"
    BY <1>7 DEF BuildPanics, StartNewMatchPanics, At
  <2>2. OpsPlaced'
    BY <2>1 DEF OpsPlaced, Placed
  <2> QED
    BY <1>1, <2>1, <2>2, OpsKeptTrue
<1>8. CASE StartNewMatch
  <2>1. /\ UNCHANGED <<max_trgt_match_len, ops, cur_o_pos, match_len>>
        /\ state = "StartNewMatch" /\ state' = "TryMatch"
        /\ min_match' = Largest(MIN_MATCH, LastEnd + 1 - cur_o_pos)
    BY <1>8 DEF StartNewMatch, At
  <2>2. ASSUME NEW i \in 1 .. Len(ops)
        PROVE  /\ ops[i].o_pos <= max_trgt_match_len /\ ops[i].o_pos <= cur_o_pos
               /\ ops[i].length > 0 => ops[i].o_pos < cur_o_pos
               /\ ops[i].o_pos + ops[i].length < cur_o_pos + min_match'
    <3> DEFINE n == Len(ops)
               iEnd == ops[i].o_pos + ops[i].length
    <3>1. /\ ops[i].o_pos <= max_trgt_match_len /\ ops[i].o_pos <= cur_o_pos
          /\ ops[i].length > 0 => ops[i].o_pos < cur_o_pos
      BY <2>1 DEF OpsPlaced, Placed
    <3>2. n \in 1 .. Len(ops) /\ (i = n \/ i < n) /\ ops # <<>>
      BY <1>2
    <3>3. LastEnd = ops[n].o_pos + ops[n].length
      BY <3>2 DEF LastEnd, MatchEnd
    <3>4. LastEnd \in Nat /\ iEnd \in Nat
      BY <1>4, <3>2, <3>3
    <3>5. iEnd <= LastEnd
      <4>1. CASE i = n
        BY <3>3, <3>4, <4>1
      <4>2. CASE i < n
        <5>1. Follows(ops[i], ops[n])
          BY <2>1, <3>2, <4>2 DEF OpsFollow
        <5>2. iEnd < LastEnd
          BY <3>3, <5>1 DEF Follows
        <5> HIDE DEF iEnd
        <5> QED
          BY <3>4, <5>2
      <4> QED
        BY <3>2, <4>1, <4>2
    <3> HIDE DEF iEnd
    <3>6. iEnd < cur_o_pos + min_match'
      BY <1>2, <1>3, <2>1, <3>4, <3>5 DEF Largest
    <3> QED
      BY <3>1, <3>6 DEF iEnd
  <2>3. OpsPlaced'
    BY <2>1, <2>2 DEF OpsPlaced, Placed
  <2> QED
    BY <1>1, <2>1, <2>3, OpsKeptTrue
<1>9. CASE StartWalk \/ PassOver \/ Examine \/ Advance \/ ChainEnd
  <2>1. /\ UNCHANGED <<max_trgt_match_len, ops, cur_o_pos, min_match>>
        /\ state \in Looking /\ state' \in WalkStates
    BY <1>9 DEF StartWalk, PassOver, Examine, Advance, ChainEnd, Walking, At
  <2>2. OpsPlaced'
    BY <2>1 DEF OpsPlaced, Placed
  <2> QED
    BY <1>1, <2>1, <2>2, OpsKeptTrue
<1>10. CASE NoMatch \/ NoMatchInChain \/ KeepLooking
  <2>1. /\ UNCHANGED <<max_trgt_match_len, ops, cur_o_pos>>
        /\ state' = "MoveForwardOneByte"
        /\ \/ state \in Looking /\ min_match' = Largest(min_match - 1, MIN_MATCH)
           \/ state = "FoundMatch" /\ min_match' = match_len
    BY <1>10 DEF NoMatch, NoMatchInChain, KeepLooking, NothingHere, At
  <2>2. ASSUME NEW i \in 1 .. Len(ops)
        PROVE  /\ ops[i].o_pos <= max_trgt_match_len /\ ops[i].o_pos <= cur_o_pos
               /\ ops[i].o_pos + ops[i].length < cur_o_pos + 1 + min_match'
    <3> DEFINE iEnd == ops[i].o_pos + ops[i].length
    <3>1. /\ ops[i].o_pos <= max_trgt_match_len /\ ops[i].o_pos <= cur_o_pos
          /\ \/ min_match' = Largest(min_match - 1, MIN_MATCH) /\ iEnd < cur_o_pos + min_match
             \/ min_match' = match_len /\ iEnd <= cur_o_pos + match_len
      BY <2>1 DEF OpsPlaced, Placed
    <3>2. iEnd \in Nat
      BY <1>4
    <3> HIDE DEF iEnd
    <3>3. iEnd < cur_o_pos + 1 + min_match'
      BY <1>2, <1>3, <3>1, <3>2 DEF Largest
    <3> QED
      BY <3>1, <3>3 DEF iEnd
  <2>3. OpsPlaced'
    BY <2>1, <2>2 DEF OpsPlaced, Placed
  <2>4. state # "done"
    BY <2>1
  <2> QED
    BY <1>1, <2>1, <2>3, <2>4, OpsKeptTrue
<1>11. CASE Jump
  <2>1. /\ UNCHANGED <<max_trgt_match_len, ops>> /\ cur_o_pos' = cur_o_pos + match_len
        /\ state = "FoundMatch" /\ state' = "StartNewMatch"
    BY <1>11 DEF Jump, At
  <2>2. match_len >= MIN_MATCH
    BY <2>1 DEF Positions
  <2>3. ASSUME NEW i \in 1 .. Len(ops)
        PROVE  ops[i].o_pos <= max_trgt_match_len /\ ops[i].o_pos < cur_o_pos + match_len
               /\ ops[i].o_pos <= cur_o_pos + match_len
    <3>1. ops[i].o_pos <= max_trgt_match_len /\ ops[i].o_pos <= cur_o_pos
      BY <2>1 DEF OpsPlaced, Placed
    <3>2. ops[i].o_pos \in Nat
      BY <1>4
    <3> QED
      BY <1>2, <1>3, <2>2, <3>1, <3>2
  <2>4. OpsPlaced'
    BY <2>1, <2>3 DEF OpsPlaced, Placed
  <2> QED
    BY <1>1, <2>1, <2>4, OpsKeptTrue
<1>12. CASE MoveForwardOneByte
  <2>1. /\ UNCHANGED <<max_trgt_match_len, ops, min_match>> /\ cur_o_pos' = cur_o_pos + 1
        /\ state = "MoveForwardOneByte" /\ state' = "TryMatch"
    BY <1>12 DEF MoveForwardOneByte, At
  <2>2. ASSUME NEW i \in 1 .. Len(ops)
        PROVE  /\ ops[i].o_pos <= max_trgt_match_len
               /\ ops[i].o_pos <= cur_o_pos + 1 /\ ops[i].o_pos < cur_o_pos + 1
               /\ ops[i].o_pos + ops[i].length < cur_o_pos + 1 + min_match
    <3>1. /\ ops[i].o_pos <= max_trgt_match_len /\ ops[i].o_pos <= cur_o_pos
          /\ ops[i].o_pos + ops[i].length < cur_o_pos + 1 + min_match
      BY <2>1 DEF OpsPlaced, Placed
    <3>2. ops[i].o_pos \in Nat
      BY <1>4
    <3>3. ops[i].o_pos < cur_o_pos + 1 /\ ops[i].o_pos <= cur_o_pos + 1
      BY <1>2, <3>1, <3>2
    <3> QED
      BY <3>1, <3>3
  <2>3. OpsPlaced'
    BY <2>1, <2>2 DEF OpsPlaced, Placed
  <2> QED
    BY <1>1, <2>1, <2>3, OpsKeptTrue
<1> QED
  BY <1>5, <1>6, <1>7, <1>8, <1>9, <1>10, <1>11, <1>12 DEF EncoderNext

(* What the loop has found is true, in order and in its place: the         *)
(* invariant behind the two that follow.                                   *)
THEOREM LoopFindsTrueMatches == EncoderSpec => []MatchesTrue
<1>1. EncoderInit => MatchesTrue
  <2> SUFFICES ASSUME EncoderInit PROVE MatchesTrue
    OBVIOUS
  <2>1. ops = <<>> /\ state = "begin" /\ max_trgt_match_len = Len(trgt) /\ trgt \in Seq(Byte)
    BY EncoderAssumption DEF EncoderInit
  <2>2. 1 .. Len(ops) = {}
    BY <2>1
  <2>3. ~ (max_trgt_match_len < Len(trgt))
    <3> DEFINE len == Len(trgt)
    <3>1. len \in Nat
      BY <2>1
    <3>2. max_trgt_match_len = len
      BY <2>1
    <3> HIDE DEF len
    <3>3. ~ (max_trgt_match_len < len)
      BY <3>1, <3>2
    <3> QED
      BY <3>3 DEF len
  <2>4. RunTrue
    BY <2>1 DEF RunTrue, Behind, Looking, WalkStates
  <2> QED
    BY <2>1, <2>2, <2>3, <2>4 DEF MatchesTrue, OpsTrue, OpsFollow, OpsPlaced, PrependTrue
<1>2. LoopTyped /\ MatchesTrue /\ [EncoderNext]_encoderVars => MatchesTrue'
  <2> SUFFICES ASSUME LoopTyped, MatchesTrue, [EncoderNext]_encoderVars PROVE MatchesTrue'
    OBVIOUS
  <2> USE DEF LoopTyped, MatchesTrue
  <2>1. CASE EncoderNext
    <3>1. RunTrue' /\ PrependTrue'
      BY <2>1, RunTrueStep, PrependTrueStep
    <3>2. OpsTrue' /\ OpsFollow' /\ OpsPlaced'
      BY <2>1, MatchRunTrue, MatchSrcTrue, MatchTrgtTrue, BuildTrue, EndOfLoopTrue, OtherStepsTrue
    <3> QED
      BY <3>1, <3>2
  <2>2. CASE UNCHANGED encoderVars
    BY <2>2 DEF encoderVars, OpsTrue, OpsFollow, OpsPlaced, Placed, RunTrue, PrependTrue
  <2> QED
    BY <2>1, <2>2
<1> QED
  BY <1>1, <1>2, LoopIsTyped, PTL DEF EncoderSpec

(* MatchesAsPromised: whatever the hashes say, every match that            *)
(* encode_inner hands to the operation maker reproduces the target's       *)
(* bytes, and none starts or ends before an earlier one.                   *)
THEOREM MatchesKeepPromise == EncoderSpec => []MatchesAsPromised
<1>1. LoopTyped /\ MatchesTrue => MatchesAsPromised
  <2> SUFFICES ASSUME LoopTyped, MatchesTrue PROVE MatchesAsPromised
    OBVIOUS
  <2>1. ops \in Seq(InnerOp) /\ Len(ops) \in Nat
    BY DEF LoopTyped, Positions
  <2>2. ASSUME NEW i \in 1 .. Len(ops) - 1 PROVE Ordered(ops[i], ops[i + 1])
    <3>1. CASE state = "done"
      BY <3>1 DEF MatchesTrue, OpsFollow
    <3>2. CASE state # "done"
      <4>1. i \in 1 .. Len(ops) /\ i + 1 \in 1 .. Len(ops) /\ i < i + 1
        BY <2>1
      <4>2. Follows(ops[i], ops[i + 1])
        BY <3>2, <4>1 DEF MatchesTrue, OpsFollow
      <4> DEFINE iEnd == ops[i].o_pos + ops[i].length
                 jEnd == ops[i + 1].o_pos + ops[i + 1].length
      <4>3. iEnd \in Nat /\ jEnd \in Nat
        <5>1. ops[i] \in InnerOp /\ ops[i + 1] \in InnerOp
          BY <2>1, <4>1
        <5> QED
          BY <5>1, MatchNumbers
      <4>4. iEnd < jEnd /\ ops[i].o_pos <= ops[i + 1].o_pos
        BY <4>2 DEF Follows
      <4>5. iEnd <= jEnd
        <5> HIDE DEF iEnd, jEnd
        <5> QED
          BY <4>3, <4>4
      <4> QED
        BY <4>4, <4>5 DEF Ordered
    <3> QED
      BY <3>1, <3>2
  <2> QED
    BY <2>2 DEF MatchesAsPromised, MatchesTrue, OpsTrue
<1> QED
  BY <1>1, LoopIsTyped, LoopFindsTrueMatches, PTL

(* NoneContained: until the loop is done, each match it has found starts   *)
(* and ends after the one before it.                                       *)
THEOREM NoMatchContained == EncoderSpec => []NoneContained
<1>1. LoopTyped /\ MatchesTrue => NoneContained
  <2> SUFFICES ASSUME LoopTyped, MatchesTrue, state # "done", NEW i \in 1 .. Len(ops) - 1
               PROVE  /\ ops[i].length > 0 => ops[i].o_pos < ops[i + 1].o_pos
                      /\ MatchEnd(ops[i]) < MatchEnd(ops[i + 1])
    BY DEF NoneContained
  <2>1. ops \in Seq(InnerOp) /\ Len(ops) \in Nat
    BY DEF LoopTyped, Positions
  <2>2. i \in 1 .. Len(ops) /\ i + 1 \in 1 .. Len(ops) /\ i < i + 1
    BY <2>1
  <2> QED
    BY <2>2 DEF MatchesTrue, OpsFollow, Follows, MatchEnd
<1> QED
  BY <1>1, LoopIsTyped, LoopFindsTrueMatches, PTL

-----------------------------------------------------------------------------
(* The chains of the target matcher, step by step. *)

(* Storing position n keeps the ring leading back: what the place held is  *)
(* overwritten by an earlier position.                                     *)
LEMMA StoreLeadsBack ==
    ASSUME NEW capacity \in Nat, NEW matcher \in Matchers(capacity), NEW hash \in Hash,
           NEW n \in Nat, LeadsBack(matcher, n)
    PROVE  LeadsBack(store(matcher, hash, n), n + 1)
<1> DEFINE stored == store(matcher, hash, n)
           old == matcher.table[BucketOf[hash]]
           table == insert(matcher.table, hash, n)
           chain == IF old.value = 0 \/ matcher.capacity = 0 THEN matcher.chain
                    ELSE [matcher.chain EXCEPT ![n % matcher.capacity] = old]
<1>1. /\ matcher.table \in [Buckets -> BucketValue] /\ matcher.capacity = capacity
      /\ matcher.chain \in [0 .. capacity - 1 -> BucketValue]
      /\ BucketOf[hash] \in Buckets
  BY BucketAssumption DEF Matchers
<1>2. stored = [matcher EXCEPT !.table = table, !.chain = chain]
  BY DEF store
<1>3. stored.table = table /\ stored.chain = chain /\ stored.capacity = capacity
  BY <1>1, <1>2 DEF Matchers
<1>4. \A b \in Buckets : table[b] = matcher.table[b] \/ table[b].value = n + 1
  BY <1>1 DEF insert, BucketFor
<1>5. ASSUME NEW i \in 0 .. capacity - 1
      PROVE  chain[i] = matcher.chain[i] \/ (chain[i] = old /\ i = n % capacity)
  BY <1>1
<1>6. old.value \in Nat /\ old.value <= n
  BY <1>1 DEF LeadsBack, BucketValue
<1> HIDE DEF table, chain, old, stored
<1>7. \A b \in Buckets : table[b].value <= n + 1
  <2> SUFFICES ASSUME NEW b \in Buckets PROVE table[b].value <= n + 1
    OBVIOUS
  <2>1. CASE table[b] = matcher.table[b]
    <3>1. table[b].value \in Nat /\ table[b].value <= n
      BY <1>1, <2>1 DEF LeadsBack, BucketValue
    <3> QED
      BY <3>1
  <2> QED
    BY <1>4, <2>1
<1>8. ASSUME NEW i \in 0 .. capacity - 1, chain[i].value # 0
      PROVE  \E q \in 0 .. n + 1 - 1 : q % capacity = i /\ chain[i].value - 1 < q
  <2>1. CASE chain[i] = matcher.chain[i]
    <3>1. PICK q \in 0 .. n - 1 : q % capacity = i /\ chain[i].value - 1 < q
      BY <1>1, <1>8, <2>1 DEF LeadsBack
    <3>2. q \in 0 .. n + 1 - 1
      OBVIOUS
    <3> QED
      BY <3>1, <3>2
  <2>2. CASE chain[i] = old /\ i = n % capacity
    <3>1. n \in 0 .. n + 1 - 1 /\ old.value - 1 < n
      BY <1>6
    <3> QED
      BY <2>2, <3>1
  <2> QED
    BY <1>5, <2>1, <2>2
<1>9. LeadsBack(stored, n + 1)
  BY <1>3, <1>7, <1>8 DEF LeadsBack
<1> QED
  BY <1>9 DEF stored

(* What leads back from before m leads back from before a later n. *)
LEMMA LeadsBackLater ==
    ASSUME NEW capacity \in Nat, NEW matcher \in Matchers(capacity), NEW m \in Nat, NEW n \in Nat,
           LeadsBack(matcher, m), m <= n
    PROVE  LeadsBack(matcher, n)
<1>1. ASSUME NEW b \in Buckets PROVE matcher.table[b].value <= n
  <2>1. matcher.table[b].value \in Nat /\ matcher.table[b].value <= m
    BY DEF LeadsBack, Matchers, BucketValue
  <2> QED
    BY <2>1
<1>2. ASSUME NEW i \in 0 .. matcher.capacity - 1, matcher.chain[i].value # 0
      PROVE  \E q \in 0 .. n - 1 : q % matcher.capacity = i /\ matcher.chain[i].value - 1 < q
  <2>1. PICK q \in 0 .. m - 1 : q % matcher.capacity = i /\ matcher.chain[i].value - 1 < q
    BY <1>2 DEF LeadsBack
  <2>2. q \in 0 .. n - 1
    OBVIOUS
  <2> QED
    BY <2>1, <2>2
<1> QED
  BY <1>1, <1>2 DEF LeadsBack

(* An empty table and ring lead nowhere. *)
LEMMA EmptyLeadsBack ==
    ASSUME NEW capacity \in Nat, NEW matcher \in Matchers(capacity), UpTo(matcher, 0)
    PROVE  LeadsBack(matcher, 0)
<1>1. \A i \in 0 .. matcher.capacity - 1 : matcher.chain[i].value = 0
  <2> SUFFICES ASSUME NEW i \in 0 .. matcher.capacity - 1 PROVE matcher.chain[i].value = 0
    OBVIOUS
  <2>1. matcher.chain[i].value \in Nat /\ matcher.chain[i].value <= 0
    BY DEF UpTo, Matchers, BucketValue
  <2> QED
    BY <2>1
<1> QED
  BY <1>1 DEF LeadsBack, UpTo

(* Two positions of one place of the ring are at least its size apart. *)
LEMMA PlaceComesRound ==
    ASSUME NEW p \in Nat, NEW q \in Nat, NEW capacity \in Nat, capacity # 0,
           p < q, p % capacity = q % capacity
    PROVE  p + capacity <= q
<1> DEFINE a == p \div capacity
           b == q \div capacity
           r == p % capacity
<1>1. a \in Int /\ b \in Int /\ r \in Int
  OBVIOUS
<1>2. p = capacity * a + r /\ q = capacity * b + r
  OBVIOUS
<1> HIDE DEF a, b, r
<1>3. b > a
  <2> SUFFICES ASSUME b <= a PROVE FALSE
    BY <1>1
  <2>1. a - b \in Nat
    BY <1>1
  <2>2. capacity * (a - b) \in Nat
    BY <2>1, TimesNat
  <2>3. capacity * (a - b) = capacity * a - capacity * b
    BY <1>1
  <2> QED
    BY <1>1, <1>2, <2>2, <2>3
<1>4. b - a - 1 \in Nat
  BY <1>1, <1>3
<1>5. capacity * (b - a - 1) \in Nat
  BY <1>4, TimesNat
<1>6. capacity * (b - a - 1) = capacity * b - capacity * a - capacity
  BY <1>1
<1> DEFINE ca == capacity * a
           cb == capacity * b
<1>7. ca \in Int /\ cb \in Int
  BY <1>1
<1>8. p = ca + r /\ q = cb + r /\ cb - ca - capacity \in Nat
  BY <1>2, <1>5, <1>6
<1> HIDE DEF ca, cb
<1> QED
  BY <1>1, <1>7, <1>8

(* A chain that does not end leads to an earlier position. *)
LEMMA ChainDescends ==
    ASSUME NEW capacity \in Nat, NEW matcher \in Matchers(capacity), NEW pos \in Nat,
           NEW n \in Nat, pos < n, LeadsBack(matcher, n), ~ ChainEnds(matcher, pos, n)
    PROVE  Previous(matcher, pos).value - 1 < pos
<1> DEFINE prev == Previous(matcher, pos)
           to == prev.value - 1
           i == pos % capacity
<1>1. prev.value # 0 /\ ~ (to > pos) /\ ~ (n - to >= capacity)
  <2>1. matcher.capacity = capacity
    BY DEF Matchers
  <2> QED
    BY <2>1 DEF ChainEnds
<1>2. capacity # 0
  BY <1>1, PreviousTyped
<1>3. prev \in BucketValue /\ i \in 0 .. capacity - 1 /\ prev = matcher.chain[i]
  BY <1>2, PreviousTyped
<1> HIDE DEF prev
<1>4. prev.value \in Nat
  BY <1>3 DEF BucketValue
<1>5. matcher.capacity = capacity
  BY DEF Matchers
<1>6. PICK q \in 0 .. n - 1 : q % capacity = i /\ to < q
  BY <1>1, <1>3, <1>5 DEF LeadsBack
<1>7. to # pos
  <2> SUFFICES ASSUME to = pos PROVE FALSE
    OBVIOUS
  <2>1. q \in Nat /\ pos < q /\ pos % capacity = q % capacity
    BY <1>6
  <2>2. pos + capacity <= q
    BY <1>2, <2>1, PlaceComesRound
  <2> HIDE DEF to
  <2> QED
    BY <1>1, <2>1, <2>2
<1> QED
  BY <1>1, <1>4, <1>7 DEF prev

(* Whether the target matcher is prefilled is decided by the inputs. *)
LEMMA PrefillsKept ==
    ASSUME inputVars' = inputVars
    PROVE  Prefills' <=> Prefills
  BY DEF inputVars, Prefills, NothingToDo, StartPos, Appended, StartsWithSrc, EndsWithSrc, Larger

(* Every step keeps the chains leading back. *)
LEMMA ChainsOrderedStep ==
    ASSUME LoopTyped, ChainsOrdered, EncoderNext
    PROVE  ChainsOrdered'
<1> SUFFICES ASSUME state' \in Active, config'.match_trgt, ~ Prefills'
             PROVE  /\ LeadsBack(trgt_matcher', cur_o_pos')
                    /\ state' \in {"Examine", "Advance"} => walk'.pos < cur_o_pos'
  BY DEF ChainsOrdered, LeadsBack
<1> USE DEF Active, Behind, Looking, WalkStates
<1>1. inputVars' = inputVars
  BY StepsKeepInputs
<1>2. config.match_trgt /\ ~ Prefills
  BY <1>1, PrefillsKept DEF inputVars
<1>3. Positions /\ TargetInStep /\ WalkTrue
  BY DEF LoopTyped
<1>4. cur_o_pos \in Nat /\ match_len \in Nat
  BY <1>3 DEF Positions
<1>5. ASSUME state \in Active
      PROVE  /\ LeadsBack(trgt_matcher, cur_o_pos)
             /\ \E capacity \in Nat : trgt_matcher \in Matchers(capacity)
             /\ state \in {"Examine", "Advance"} => walk.pos < cur_o_pos
  BY <1>2, <1>3, <1>5 DEF ChainsOrdered, TargetInStep
<1>6. MIN_MATCH \in Nat /\ MIN_MATCH # 0 /\ LastHashPos(MIN_MATCH) \in Nat
  BY <1>3, EncoderAssumption, LastHashPosNat DEF Positions
<1>7. CASE Build
  <2>1. ~ NothingToDo /\ trgt_matcher' = NewTrgtMatcher(StartPos) /\ cur_o_pos' = StartPos
        /\ state' = "StartNewMatch"
    BY <1>2, <1>7 DEF Build
  <2>2. StartPos = 0
    <3>1. StartPos \in Nat
      <4>1. Len(trgt) \in Nat
        BY <1>3 DEF Positions
      <4> QED
        BY <1>3, <4>1, AppendedTrue
    <3>2. ~ (StartPos > 0)
      BY <1>2, <2>1 DEF Prefills
    <3> QED
      BY <3>1, <3>2
  <2> DEFINE made == NewTrgtMatcher(0)
  <2>3. PICK capacity \in Nat : made \in Matchers(capacity) /\ UpTo(made, 0)
    <3>1. 0 <= Len(trgt)
      <4>1. Len(trgt) \in Nat
        BY <1>3 DEF Positions
      <4> QED
        BY <4>1
    <3> QED
      BY <1>3, <3>1, NewTrgtMatcherTrue DEF Positions
  <2> HIDE DEF made
  <2>4. LeadsBack(made, 0)
    BY <2>3, EmptyLeadsBack
  <2> QED
    BY <2>1, <2>2, <2>4 DEF made
<1>8. CASE StartNewMatch
  <2> DEFINE moved == HashMovedTo(trgt_matcher, cur_o_pos, MIN_MATCH)
  <2>1. trgt_matcher' = moved /\ cur_o_pos' = cur_o_pos /\ state = "StartNewMatch"
        /\ state' = "TryMatch"
    BY <1>2, <1>8 DEF StartNewMatch, At
  <2>2. PICK capacity \in Nat : trgt_matcher \in Matchers(capacity)
    BY <1>5, <2>1
  <2>3. trgt_matcher.fwd_hash \in Hash /\ trgt_matcher.fwd_pos \in Nat
    BY <2>2 DEF Matchers
  <2>4. trgt_matcher.fwd_pos <= cur_o_pos
    BY <1>2, <1>3, <2>1 DEF TargetInStep, LooksAt
  <2>5. MovedBy(moved, trgt_matcher, cur_o_pos, MIN_MATCH)
    BY <1>3, <1>4, <1>6, <2>3, <2>4, HashMovedToTrue DEF Positions
  <2> HIDE DEF moved
  <2>6. /\ moved.table = trgt_matcher.table /\ moved.chain = trgt_matcher.chain
        /\ moved.capacity = trgt_matcher.capacity
    BY <1>3, <1>4, <2>2, <2>4, <2>5, TargetMoved DEF Positions
  <2>7. LeadsBack(moved, cur_o_pos)
    BY <1>5, <2>1, <2>6 DEF LeadsBack
  <2> QED
    BY <2>1, <2>7
<1>9. CASE Jump
  <2>1. trgt_matcher' = trgt_matcher /\ cur_o_pos' = cur_o_pos + match_len
        /\ state = "FoundMatch" /\ state' = "StartNewMatch"
    BY <1>9 DEF Jump, At, matcherVars
  <2>2. PICK capacity \in Nat : trgt_matcher \in Matchers(capacity)
    BY <1>5, <2>1
  <2>3. cur_o_pos + match_len \in Nat /\ cur_o_pos <= cur_o_pos + match_len
    BY <1>4
  <2>4. LeadsBack(trgt_matcher, cur_o_pos + match_len)
    BY <1>4, <1>5, <2>1, <2>2, <2>3, LeadsBackLater
  <2> QED
    BY <2>1, <2>4
<1>10. CASE MoveForwardOneByte
  <2> DEFINE stored == store(trgt_matcher, trgt_matcher.fwd_hash, cur_o_pos)
             moved == HashMovedOn(stored, cur_o_pos, MIN_MATCH)
             pos == cur_o_pos + 1
  <2>1. trgt_matcher' = moved /\ cur_o_pos' = pos /\ state = "MoveForwardOneByte"
        /\ state' = "TryMatch"
    BY <1>2, <1>10 DEF MoveForwardOneByte, At
  <2>2. PICK capacity \in Nat : trgt_matcher \in Matchers(capacity)
    BY <1>5, <2>1
  <2>3. trgt_matcher.fwd_hash \in Hash /\ trgt_matcher.fwd_pos \in Nat /\ pos \in Nat
    BY <1>4, <2>2 DEF Matchers
  <2>4. /\ trgt_matcher.fwd_pos <= cur_o_pos
        /\ trgt_matcher.fwd_pos = cur_o_pos \/ trgt_matcher.fwd_pos >= LastHashPos(MIN_MATCH)
        /\ UpTo(trgt_matcher, pos)
    BY <1>2, <1>3, <2>1 DEF TargetInStep, LooksAt
  <2>5. LeadsBack(stored, pos)
    BY <1>4, <1>5, <2>1, <2>2, <2>3, StoreLeadsBack
  <2>6. cur_o_pos + 1 <= pos
    BY <1>4
  <2>7. /\ stored \in Matchers(capacity)
        /\ stored.fwd_pos = trgt_matcher.fwd_pos /\ stored.fwd_hash = trgt_matcher.fwd_hash
    <3> HIDE DEF pos
    <3> QED
      BY <1>4, <2>2, <2>3, <2>4, <2>6, StoreUpTo
  <2> HIDE DEF stored
  <2>8. stored.fwd_pos < LastHashPos(MIN_MATCH) => stored.fwd_pos = cur_o_pos
    BY <1>6, <2>3, <2>4, <2>7
  <2>9. MovedBy(moved, stored, pos, MIN_MATCH)
    BY <1>3, <1>4, <1>6, <2>3, <2>7, <2>8, HashMovedOnTrue DEF Positions
  <2>10. stored.fwd_pos <= pos
    BY <1>4, <2>3, <2>4, <2>7
  <2> HIDE DEF moved, pos
  <2>11. /\ moved.table = stored.table /\ moved.chain = stored.chain
         /\ moved.capacity = stored.capacity
    BY <1>3, <2>3, <2>7, <2>9, <2>10, TargetMoved DEF Positions
  <2>12. LeadsBack(moved, pos)
    BY <2>5, <2>11 DEF LeadsBack
  <2> QED
    BY <2>1, <2>12
<1>11. CASE InRound
  <2>1. trgt_matcher' = trgt_matcher /\ cur_o_pos' = cur_o_pos /\ state \in Active
    BY <1>11 DEF InRound, matcherVars
  <2>2. LeadsBack(trgt_matcher, cur_o_pos)
    BY <1>5, <2>1
  <2>3. PICK capacity \in Nat : trgt_matcher \in Matchers(capacity)
    BY <1>5, <2>1
  <2>4. ASSUME state' \in {"Examine", "Advance"}
        PROVE  walk'.pos < cur_o_pos
    <3>1. CASE StartWalk
      <4>1. PICK pos \in get(trgt_matcher.table, trgt_matcher.fwd_hash) :
                walk' = [pos |-> pos, chain |-> ChainChecks, best_start |-> 0, best_len |-> 0]
        BY <3>1 DEF StartWalk
      <4>2. trgt_matcher.table \in [Buckets -> BucketValue] /\ trgt_matcher.fwd_hash \in Hash
        BY <2>3 DEF Matchers
      <4>3. PICK b \in Buckets : pos = trgt_matcher.table[b].value - 1 /\ pos \in Nat
        BY <4>1, <4>2, GetTrue
      <4>4. trgt_matcher.table[b].value \in Nat /\ trgt_matcher.table[b].value <= cur_o_pos
        BY <2>2, <4>2 DEF LeadsBack, BucketValue
      <4>5. pos < cur_o_pos
        BY <1>4, <4>3, <4>4
      <4> QED
        BY <4>1, <4>5
    <3>2. CASE Advance
      <4> DEFINE to == Previous(trgt_matcher, walk.pos).value - 1
      <4>1. /\ state = "Advance" /\ ~ ChainEnds(trgt_matcher, walk.pos, cur_o_pos)
            /\ walk' = [walk EXCEPT !.pos = to]
        BY <3>2 DEF Advance
      <4>2. walk.pos < cur_o_pos /\ walk.pos \in Nat
        BY <1>3, <1>5, <2>1, <4>1 DEF WalkTrue
      <4>3. to < walk.pos
        BY <1>4, <2>2, <2>3, <4>1, <4>2, ChainDescends
      <4>4. Previous(trgt_matcher, walk.pos).value \in Nat
        BY <2>3, <4>2, PreviousTyped DEF BucketValue
      <4>5. to < cur_o_pos
        BY <1>4, <4>2, <4>3, <4>4
      <4> HIDE DEF to
      <4>6. walk'.pos = to
        BY <1>3, <4>1 DEF WalkTrue
      <4> QED
        BY <4>5, <4>6
    <3>3. CASE walk'.pos = walk.pos /\ state \in {"Examine", "Advance"}
      BY <1>5, <2>1, <3>3
    <3>4. StartWalk \/ Advance \/ (walk'.pos = walk.pos /\ state \in {"Examine", "Advance"})
      <4>1. CASE Examine
        <5>1. state = "Examine" /\ \E left, start, len : walk' =
                  [walk EXCEPT !.chain = left, !.best_start = start, !.best_len = len]
          BY <4>1 DEF Examine
        <5>2. walk'.pos = walk.pos
          BY <1>3, <5>1 DEF WalkTrue
        <5> QED
          BY <5>1, <5>2
      <4>2. CASE PassOver
        BY <4>2 DEF PassOver
      <4>3. CASE \/ ReturnNothing \/ Build \/ BuildPanics \/ StartNewMatch \/ StartNewMatchPanics
                 \/ MatchRun \/ MatchSrc \/ NoMatch \/ ChainEnd \/ MatchTrgt \/ NoMatchInChain
                 \/ KeepLooking \/ Jump \/ MoveForwardOneByte \/ EndOfLoop \/ Returned
        BY <2>4, <4>3
        DEF ReturnNothing, Build, BuildPanics, StartNewMatch, StartNewMatchPanics, MatchRun,
            MatchSrc, NoMatch, NothingHere, ChainEnd, MatchTrgt, NoMatchInChain, KeepLooking,
            Jump, MoveForwardOneByte, EndOfLoop, Returned, encoderVars
      <4> QED
        BY <4>1, <4>2, <4>3 DEF EncoderNext
    <3> QED
      BY <3>1, <3>2, <3>3, <3>4
  <2> QED
    BY <2>1, <2>2, <2>4
<1>12. ~ Ends
  BY DEF Ends
<1> QED
  BY <1>7, <1>8, <1>9, <1>10, <1>11, <1>12, StepKinds

(* The ring of the target matcher leads only back, from every position     *)
(* that is not overwritten, when it is not prefilled.                      *)
THEOREM ChainsStayOrdered == EncoderSpec => []ChainsOrdered
<1>1. EncoderInit => ChainsOrdered
  BY DEF EncoderInit, ChainsOrdered, Active, Behind, Looking, WalkStates
<1>2. LoopTyped /\ ChainsOrdered /\ [EncoderNext]_encoderVars => ChainsOrdered'
  <2> SUFFICES ASSUME LoopTyped, ChainsOrdered, [EncoderNext]_encoderVars PROVE ChainsOrdered'
    OBVIOUS
  <2>1. CASE UNCHANGED encoderVars
    <3>1. Prefills' <=> Prefills
      BY <2>1, PrefillsKept DEF encoderVars, inputVars
    <3> QED
      BY <2>1, <3>1 DEF ChainsOrdered, LeadsBack, encoderVars
  <2> QED
    BY <2>1, ChainsOrderedStep
<1> QED
  BY <1>1, <1>2, LoopIsTyped, PTL DEF EncoderSpec

(* EveryStepProgresses: unless the target matcher was prefilled, every     *)
(* step moves the loop on, or goes down a chain to an earlier position,    *)
(* although the places of the ring are shared.                             *)
THEOREM StepsProgress == EncoderSpec => EveryStepProgresses
<1>1. LoopTyped /\ ChainsOrdered /\ EncoderNext => (Prefills \/ Progress \/ UNCHANGED encoderVars)
  <2> SUFFICES ASSUME LoopTyped, ChainsOrdered, EncoderNext, ~ Prefills
               PROVE  Progress \/ UNCHANGED encoderVars
    OBVIOUS
  <2> USE DEF Active, Behind, Looking, WalkStates, LoopStates
  <2>1. Positions /\ TargetInStep /\ WalkTrue
    BY DEF LoopTyped
  <2>2. cur_o_pos \in Nat /\ match_len \in Nat /\ MIN_MATCH \in Nat /\ MIN_MATCH # 0
    BY <2>1, EncoderAssumption DEF Positions
  <2>3. CASE Returned
    BY <2>3 DEF Returned
  <2>4. CASE ReturnNothing \/ BuildPanics \/ StartNewMatch \/ StartNewMatchPanics
             \/ MatchRun \/ MatchSrc \/ StartWalk \/ NoMatch \/ ChainEnd \/ MatchTrgt
             \/ NoMatchInChain \/ KeepLooking \/ EndOfLoop
    <3>1. cur_o_pos' = cur_o_pos
      BY <2>4 DEF ReturnNothing, BuildPanics, StartNewMatch, StartNewMatchPanics, MatchRun,
           MatchSrc, StartWalk, NoMatch, ChainEnd, Walking, MatchTrgt, NoMatchInChain,
           KeepLooking, EndOfLoop
    <3>2. \/ state \in {"begin", "StartNewMatch"} \cup LoopStates /\ state' \in {"done", "panicked"}
          \/ state = "StartNewMatch" /\ state' = "TryMatch"
          \/ state = "TryMatch" /\ state' \in {"FoundMatch", "Examine", "EndWalk",
                                               "MoveForwardOneByte"}
          \/ state = "Advance" /\ state' = "EndWalk"
          \/ state = "EndWalk" /\ state' \in {"FoundMatch", "MoveForwardOneByte"}
          \/ state = "FoundMatch" /\ state' = "MoveForwardOneByte"
      BY <2>4 DEF ReturnNothing, BuildPanics, StartNewMatch, StartNewMatchPanics, MatchRun,
           MatchSrc, StartWalk, NoMatch, NothingHere, ChainEnd, MatchTrgt, NoMatchInChain,
           KeepLooking, EndOfLoop, At
    <3>3. Rank[state'] < Rank[state]
      BY <3>2 DEF Rank
    <3> QED
      BY <3>1, <3>3 DEF Progress
  <2>5. CASE Build
    <3>1. cur_o_pos = 0 /\ state = "begin" /\ state' = "StartNewMatch" /\ cur_o_pos' = StartPos
      BY <2>1, <2>5 DEF Build, Positions
    <3>2. StartPos \in Nat
      <4>1. Len(trgt) \in Nat
        BY <2>1 DEF Positions
      <4> QED
        BY <2>1, <4>1, AppendedTrue
    <3>3. Rank[state'] < Rank[state]
      BY <3>1 DEF Rank
    <3>4. cur_o_pos' > cur_o_pos \/ cur_o_pos' = cur_o_pos
      BY <3>1, <3>2
    <3> QED
      BY <3>3, <3>4 DEF Progress
  <2>6. CASE Jump
    <3>1. state = "FoundMatch" /\ cur_o_pos' = cur_o_pos + match_len
      BY <2>6 DEF Jump, At
    <3>2. match_len >= MIN_MATCH
      BY <2>1, <3>1 DEF Positions
    <3>3. cur_o_pos' > cur_o_pos
      BY <2>2, <3>1, <3>2
    <3> QED
      BY <3>3 DEF Progress
  <2>7. CASE MoveForwardOneByte
    <3>1. cur_o_pos' = cur_o_pos + 1
      BY <2>7 DEF MoveForwardOneByte
    <3>2. cur_o_pos' > cur_o_pos
      BY <2>2, <3>1
    <3> QED
      BY <3>2 DEF Progress
  <2>8. CASE PassOver
    BY <2>8 DEF PassOver, Walking, Progress
  <2>9. CASE Examine
    <3>1. /\ state = "Examine" /\ state' \in {"EndWalk", "Advance"} /\ cur_o_pos' = cur_o_pos
          /\ \E left, start, len : walk' =
                [walk EXCEPT !.chain = left, !.best_start = start, !.best_len = len]
      BY <2>9 DEF Examine, Walking
    <3>2. walk'.pos = walk.pos
      BY <2>1, <3>1 DEF WalkTrue
    <3>3. state' = "EndWalk" => Rank[state'] < Rank[state]
      BY <3>1 DEF Rank
    <3> QED
      BY <3>1, <3>2, <3>3 DEF Progress
  <2>10. CASE Advance
    <3> DEFINE to == Previous(trgt_matcher, walk.pos).value - 1
    <3>1. /\ state = "Advance" /\ ~ ChainEnds(trgt_matcher, walk.pos, cur_o_pos)
          /\ walk' = [walk EXCEPT !.pos = to] /\ state' \in {"Examine", "Advance"}
          /\ cur_o_pos' = cur_o_pos
      BY <2>10 DEF Advance, Walking
    <3>2. config.match_trgt /\ state \in Active
      BY <2>1, <3>1 DEF WalkTrue
    <3>3. PICK capacity \in Nat : trgt_matcher \in Matchers(capacity)
      BY <2>1, <3>2 DEF TargetInStep
    <3>4. walk.pos < cur_o_pos /\ walk.pos \in Nat /\ LeadsBack(trgt_matcher, cur_o_pos)
      BY <2>1, <3>1, <3>2 DEF ChainsOrdered, WalkTrue
    <3>5. to < walk.pos
      BY <2>2, <3>1, <3>3, <3>4, ChainDescends
    <3> HIDE DEF to
    <3>6. walk'.pos = to
      BY <2>1, <3>1 DEF WalkTrue
    <3> QED
      BY <3>1, <3>5, <3>6 DEF Progress
  <2> QED
    BY <2>3, <2>4, <2>5, <2>6, <2>7, <2>8, <2>9, <2>10 DEF EncoderNext
<1>2. LoopTyped /\ ChainsOrdered /\ [EncoderNext]_encoderVars => [~ Prefills => Progress]_encoderVars
  BY <1>1
<1> QED
  BY <1>2, LoopIsTyped, ChainsStayOrdered, PTL DEF EncoderSpec, EveryStepProgresses
=============================================================================
