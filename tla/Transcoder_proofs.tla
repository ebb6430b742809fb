------------------------- MODULE Transcoder_proofs -------------------------
(***************************************************************************)
(* The transcoder keeps what a patch makes, whatever its length and its    *)
(* operations: proved from an invariant that adds, to SameMeaning and      *)
(* SizesFit, which Runs are not joined yet and how far an operation is cut. *)
(***************************************************************************)
EXTENDS Transcoder, Lemmas, SequenceTheorems, TLAPS

(* Runs that the loops have not passed are no longer than a patch's. *)
NotJoinedYet ==
    \A k \in 1 .. Len(ops) :
        /\ stage = "adds" \/ (stage = "runs" /\ k >= i)
        /\ is_run(ops[k].op)
        => ops[k].op.len <= MAX_RUN_LEN

(* Of the operation at hand, and of no other, some bytes are converted; a  *)
(* copy is converted at once.                                              *)
PartConverted ==
    processed > 0 =>
        /\ stage = "convert" /\ i <= Len(ops)
        /\ ~ is_copy(ops[i].op) /\ processed < SizeOf(ops[i])

TranscoderInv ==
    /\ given \in Inputs
    /\ TranscoderTypeOK /\ NotJoinedYet /\ PartConverted
    /\ SameMeaning /\ SizesFit

-----------------------------------------------------------------------------
LEMMA Limits ==
    /\ MAX_RUN_LEN \in Nat /\ MAX_RUN_LEN > 0
    /\ MAX_INST_SIZE \in Nat /\ MAX_RUN_LEN < MAX_INST_SIZE
    /\ RUN_LIMIT = 6 * MAX_RUN_LEN
BY LimitsAssumption DEF LimitsAssumption, RUN_LIMIT

LEMMA PatchOps ==
    ASSUME NEW s \in SparseOp
    PROVE  s \in JoinedOp /\ (is_run(s.op) => s.op.len <= MAX_RUN_LEN)
BY Limits DEF SparseOp, Op, JoinedOp, AddOps, CopyOps, RunOps, is_run

LEMMA Sizes ==
    ASSUME NEW s \in JoinedOp
    PROVE  SizeOf(s) \in Nat /\ s.at \in Nat /\ EndOf(s) \in Nat
BY Limits DEF JoinedOp, SizeOf, EndOf, is_add, AddOps, CopyOps

-----------------------------------------------------------------------------
(* What a joint leaves of a list. *)
Joint(old, new, n) ==
    /\ DOMAIN new = 1 .. Len(old) /\ new \in Seq(JoinedOp) /\ Len(new) = Len(old)
    /\ \A k \in 1 .. Len(old) : k # n /\ k # n + 1 => new[k] = old[k]
    /\ new[n].at = old[n].at /\ EndOf(new[n]) = EndOf(old[n + 1])
    /\ new[n + 1].at = EndOf(old[n + 1]) /\ SizeOf(new[n + 1]) = 0

LEMMA JointKeepsRow ==
    ASSUME NEW old \in Seq(JoinedOp), NEW new, NEW n \in 1 .. Len(old) - 1,
           NEW from \in Nat, NEW to \in Nat, Joint(old, new, n), Row(old, from, to)
    PROVE  Row(new, from, to)
<1>1. n \in 1 .. Len(old) /\ n + 1 \in 1 .. Len(old) /\ Len(old) \in Nat
  OBVIOUS
<1>2. EndOf(new[n + 1]) = EndOf(old[n + 1])
  <2>1. EndOf(old[n + 1]) \in Nat
    BY <1>1, Sizes
  <2> QED
    BY <2>1 DEF Joint, EndOf
<1>3. \A k \in 1 .. Len(old) : k # n => EndOf(new[k]) = EndOf(old[k])
  BY <1>2 DEF Joint
<1>4. \A k \in 1 .. Len(new) : new[k].at = IF k = 1 THEN from ELSE EndOf(new[k - 1])
  <2> SUFFICES ASSUME NEW k \in 1 .. Len(old)
               PROVE  new[k].at = IF k = 1 THEN from ELSE EndOf(new[k - 1])
    BY DEF Joint
  <2>1. CASE k = n + 1
    BY <2>1 DEF Joint
  <2>2. CASE k # n + 1
    <3>1. new[k].at = old[k].at
      BY <2>2 DEF Joint
    <3>2. k # 1 => k - 1 \in 1 .. Len(old) /\ k - 1 # n
      BY <2>2
    <3> QED
      BY <3>1, <3>2, <1>3 DEF Row
  <2> QED
    BY <2>1, <2>2
<1>5. Len(old) # n /\ Len(old) \in 1 .. Len(old)
  BY <1>1
<1>6. old # <<>> /\ new # <<>> /\ Len(new) = Len(old)
  BY <1>1 DEF Joint
<1> QED
  BY <1>3, <1>4, <1>5, <1>6 DEF Row

AreAt(bytes, out, at) == \A j \in 1 .. Len(bytes) : bytes[j] = out[at + j]

LEMMA ConcatAt ==
    ASSUME NEW x \in Seq(Byte), NEW y \in Seq(Byte), NEW out, NEW at \in Nat,
           AreAt(x, out, at), AreAt(y, out, at + Len(x))
    PROVE  /\ x \o y \in Seq(Byte) /\ Len(x \o y) = Len(x) + Len(y)
           /\ AreAt(x \o y, out, at)
<1> DEFINE z == x \o y
           n == Len(x)
           m == Len(y)
<1>1. z \in Seq(Byte) /\ Len(z) = n + m
  BY ConcatProperties
<1>2. \A j \in 1 .. n + m : z[j] = IF j <= n THEN x[j] ELSE y[j - n]
  BY ConcatProperties
<1>3. n \in Nat /\ m \in Nat
  OBVIOUS
<1>4. \A j \in 1 .. n : x[j] = out[at + j]
  BY DEF AreAt
<1>5. \A j \in 1 .. m : y[j] = out[at + n + j]
  BY DEF AreAt
<1> HIDE DEF z, n, m
<1>6. ASSUME NEW j \in 1 .. n + m PROVE z[j] = out[at + j]
  <2>1. CASE j <= n
    BY <2>1, <1>2, <1>3, <1>4
  <2>2. CASE ~ (j <= n)
    <3>1. j - n \in 1 .. m /\ at + n + (j - n) = at + j
      BY <2>2, <1>3
    <3> QED
      BY <2>2, <3>1, <1>2, <1>5
  <2> QED
    BY <2>1, <2>2
<1>7. AreAt(z, out, at)
  BY <1>1, <1>6 DEF AreAt
<1> QED
  BY <1>1, <1>7 DEF z, n, m

(* Two neighbours joined make what each made. *)
LEMMA JoinedAddsYield ==
    ASSUME NEW a \in JoinedOp, NEW b \in JoinedOp, is_add(a.op), is_add(b.op),
           NEW src \in Seq(Byte), NEW out \in Seq(Byte),
           b.at = EndOf(a), Yields(a, src, out), Yields(b, src, out),
           NEW s, s = [at |-> a.at, op |-> Add(a.op.bytes \o b.op.bytes)]
    PROVE  s \in JoinedOp /\ EndOf(s) = EndOf(b) /\ Yields(s, src, out)
<1> DEFINE x == a.op.bytes
           y == b.op.bytes
           z == x \o y
<1>1. x \in Seq(Byte) /\ y \in Seq(Byte) /\ a.at \in Nat
  BY DEF JoinedOp, is_add, AddOps, CopyOps
<1>2. b.at = a.at + Len(x) /\ EndOf(b) = b.at + Len(y)
  BY DEF EndOf, SizeOf
<1>3. AreAt(x, out, a.at)
  BY DEF Yields, SizeOf, AreAt
<1>4. AreAt(y, out, a.at + Len(x))
  BY <1>2 DEF Yields, SizeOf, AreAt
<1>5. EndOf(b) <= Len(out)
  BY DEF Yields
<1> HIDE DEF x, y
<1>6. z \in Seq(Byte) /\ Len(z) = Len(x) + Len(y) /\ AreAt(z, out, a.at)
  BY <1>1, <1>3, <1>4, ConcatAt
<1>7. Len(x) \in Nat /\ Len(y) \in Nat
  BY <1>1
<1>8. s.at = a.at /\ s.op = Add(z)
  BY DEF x, y
<1> DEFINE n == Len(x)
           m == Len(y)
<1> HIDE DEF x, y, z, n, m
<1>9. s.op.bytes = z /\ is_add(s.op) /\ ~ is_run(s.op) /\ ~ is_copy(s.op)
  BY <1>8 DEF Add, is_add, is_run, is_copy
<1>10. s \in JoinedOp
  BY <1>1, <1>6, <1>8 DEF JoinedOp, Add, AddOps, x, y, z
<1>11. SizeOf(s) = Len(z) /\ EndOf(s) = a.at + Len(z)
  BY <1>8, <1>9 DEF EndOf, SizeOf
<1>12. EndOf(s) = EndOf(b)
  <2>1. EndOf(b) = a.at + n + m /\ EndOf(s) = a.at + (n + m)
    BY <1>2, <1>6, <1>11 DEF n, m
  <2>2. n \in Nat /\ m \in Nat
    BY <1>7 DEF n, m
  <2> QED
    BY <2>1, <2>2, <1>1
<1>13. Yields(s, src, out)
  BY <1>5, <1>6, <1>8, <1>9, <1>11, <1>12 DEF Yields, is_copy_from, AreAt
<1> QED
  BY <1>10, <1>12, <1>13

LEMMA JoinedRunsYield ==
    ASSUME NEW a \in JoinedOp, NEW b \in JoinedOp, is_run(a.op), is_run(b.op),
           a.op.byte = b.op.byte, a.op.len <= MAX_RUN_LEN, b.op.len <= MAX_RUN_LEN,
           NEW src \in Seq(Byte), NEW out \in Seq(Byte),
           b.at = EndOf(a), Yields(a, src, out), Yields(b, src, out),
           NEW s, s = [at |-> a.at, op |-> Run(a.op.byte, a.op.len + b.op.len)]
    PROVE  s \in JoinedOp /\ EndOf(s) = EndOf(b) /\ Yields(s, src, out)
<1> DEFINE n == a.op.len
           m == b.op.len
<1>1. n \in Nat /\ m \in Nat /\ a.op.byte \in Byte /\ a.at \in Nat
        /\ ~ is_add(a.op) /\ ~ is_add(b.op)
  BY Limits DEF JoinedOp, is_run, is_add, AddOps, CopyOps
<1>2. b.at = a.at + n /\ EndOf(b) = b.at + m
  BY <1>1 DEF EndOf, SizeOf
<1>3. \A j \in 1 .. n : a.op.byte = out[a.at + j]
  BY <1>1 DEF Yields, SizeOf
<1>4. \A j \in 1 .. m : a.op.byte = out[a.at + n + j]
  BY <1>1, <1>2 DEF Yields, SizeOf
<1>5. EndOf(b) <= Len(out)
  BY DEF Yields
<1>6. s.at = a.at /\ s.op = Run(a.op.byte, n + m)
  OBVIOUS
<1>7. s.op.byte = a.op.byte /\ s.op.len = n + m
        /\ is_run(s.op) /\ ~ is_add(s.op) /\ ~ is_copy(s.op)
  BY <1>6 DEF Run, is_add, is_run, is_copy
<1>8. n + m \in 0 .. 2 * MAX_RUN_LEN
  BY <1>1, Limits
<1>9. s \in JoinedOp
  BY <1>1, <1>8 DEF JoinedOp, Run
<1>10. SizeOf(s) = n + m /\ EndOf(s) = a.at + (n + m)
  BY <1>6, <1>7 DEF EndOf, SizeOf
<1>11. EndOf(s) = EndOf(b)
  BY <1>1, <1>2, <1>10
<1>12. ASSUME NEW j \in 1 .. n + m PROVE a.op.byte = out[a.at + j]
  <2> HIDE DEF n, m
  <2>1. CASE j <= n
    BY <2>1, <1>1, <1>3
  <2>2. CASE ~ (j <= n)
    <3>1. j - n \in 1 .. m /\ a.at + n + (j - n) = a.at + j
      BY <2>2, <1>1
    <3> QED
      BY <3>1, <1>4
  <2> QED
    BY <2>1, <2>2
<1>13. Yields(s, src, out)
  BY <1>5, <1>6, <1>7, <1>10, <1>11, <1>12 DEF Yields, is_copy_from
<1> QED
  BY <1>9, <1>11, <1>13

(* What is left of the second of them. *)
LEMMA EmptyAddYields ==
    ASSUME NEW at \in Nat, NEW src, NEW out, at <= Len(out),
           NEW s, s = [at |-> at, op |-> Add(<<>>)]
    PROVE  s \in JoinedOp /\ SizeOf(s) = 0 /\ Yields(s, src, out)
<1>1. s.at = at /\ s.op = Add(<<>>) /\ <<>> \in Seq(Byte) /\ Len(<<>>) = 0
  OBVIOUS
<1>2. is_add(s.op) /\ ~ is_copy(s.op) /\ s.op.bytes = <<>>
  BY <1>1 DEF Add, is_add, is_copy
<1>3. SizeOf(s) = 0 /\ EndOf(s) = at
  BY <1>1, <1>2 DEF SizeOf, EndOf
<1>4. s \in JoinedOp
  BY <1>1 DEF JoinedOp, Add, AddOps
<1> QED
  BY <1>2, <1>3, <1>4 DEF Yields, is_copy_from

LEMMA EmptyRunYields ==
    ASSUME NEW at \in Nat, NEW src, NEW out, at <= Len(out), NEW byte \in Byte,
           NEW s, s = [at |-> at, op |-> Run(byte, 0)]
    PROVE  s \in JoinedOp /\ SizeOf(s) = 0 /\ Yields(s, src, out)
<1>1. s.at = at /\ s.op = Run(byte, 0)
  OBVIOUS
<1>2. ~ is_add(s.op) /\ ~ is_copy(s.op) /\ s.op.len = 0
  BY <1>1 DEF Run, is_add, is_copy
<1>3. SizeOf(s) = 0 /\ EndOf(s) = at
  BY <1>1, <1>2 DEF SizeOf, EndOf
<1>4. s \in JoinedOp
  BY Limits DEF JoinedOp, Run
<1> QED
  BY <1>2, <1>3, <1>4 DEF Yields, is_copy_from

-----------------------------------------------------------------------------
(* The piece of s that begins p bytes into it, fit to be written. *)
IsPiece(piece, s, p, src, out) ==
    /\ piece \in SparseOp /\ piece.at = s.at + p
    /\ SizeOf(piece) = oal(piece.op)
    /\ SizeOf(piece) > 0 \/ is_copy(piece.op)
    /\ p + SizeOf(piece) <= SizeOf(s)
    /\ Yields(piece, src, out)

LEMMA RunPiece ==
    ASSUME NEW s \in JoinedOp, NEW src, NEW out \in Seq(Byte), Yields(s, src, out),
           NEW byte \in Byte, NEW p \in Nat, NEW n \in 1 .. MAX_RUN_LEN,
           p + n <= SizeOf(s),
           \A j \in p + 1 .. p + n : byte = out[s.at + j],
           NEW piece, piece = [at |-> s.at + p, op |-> Run(byte, n)]
    PROVE  IsPiece(piece, s, p, src, out)
<1>1. s.at \in Nat /\ SizeOf(s) \in Nat /\ n \in Nat /\ n > 0 /\ n <= MAX_RUN_LEN
        /\ Len(out) \in Nat
  BY Sizes, Limits
<1>2. piece.at = s.at + p /\ piece.op = Run(byte, n)
  OBVIOUS
<1>3. ~ is_add(piece.op) /\ is_run(piece.op) /\ ~ is_copy(piece.op)
        /\ piece.op.byte = byte /\ piece.op.len = n
  BY <1>2 DEF Run, is_add, is_run, is_copy
<1>4. piece \in SparseOp
  BY <1>1, <1>2, Limits DEF SparseOp, Op, Run, RunOps
<1>5. SizeOf(piece) = n /\ oal(piece.op) = n /\ EndOf(piece) = s.at + p + n
  BY <1>2, <1>3 DEF SizeOf, oal, EndOf
<1>6. EndOf(piece) <= Len(out)
  BY <1>1, <1>5 DEF Yields, EndOf
<1>7. ASSUME NEW j \in 1 .. n PROVE byte = out[piece.at + j]
  <2>1. p + j \in p + 1 .. p + n /\ s.at + (p + j) = s.at + p + j
    BY <1>1
  <2> QED
    BY <2>1, <1>2
<1>8. Yields(piece, src, out)
  BY <1>3, <1>5, <1>6, <1>7 DEF Yields, is_copy_from
<1> QED
  BY <1>1, <1>2, <1>4, <1>5, <1>8 DEF IsPiece

LEMMA AddPiece ==
    ASSUME NEW s \in JoinedOp, NEW src, NEW out \in Seq(Byte), Yields(s, src, out),
           is_add(s.op), NEW p \in Nat, NEW n \in 1 .. MAX_INST_SIZE,
           p + n <= SizeOf(s),
           NEW piece, piece = [at |-> s.at + p, op |-> Add(SubSeq(s.op.bytes, p + 1, p + n))]
    PROVE  IsPiece(piece, s, p, src, out)
<1> DEFINE bytes == s.op.bytes
           part == SubSeq(bytes, p + 1, p + n)
<1>1. bytes \in Seq(Byte) /\ SizeOf(s) = Len(bytes) /\ s.at \in Nat
  BY DEF JoinedOp, is_add, AddOps, CopyOps, SizeOf
<1>2. Len(bytes) \in Nat /\ n \in Nat /\ n > 0 /\ n <= MAX_INST_SIZE /\ Len(out) \in Nat
  BY <1>1, Limits
<1> HIDE DEF bytes
<1>3. part \in Seq(Byte) /\ Len(part) = n
        /\ \A j \in 1 .. n : part[j] = bytes[p + j]
  <2>1. \A k \in p + 1 .. p + n : bytes[k] \in Byte
    BY <1>1, <1>2
  <2>2. p + 1 \in Int /\ p + n \in Int /\ p + 1 <= p + n
          /\ (p + n) - (p + 1) + 1 = n /\ \A j \in 1 .. n : p + 1 + j - 1 = p + j
    BY <1>2
  <2>3. part \in Seq(Byte) /\ Len(part) = n
    BY <2>1, <2>2, SubSeqProperties
  <2>4. \A j \in 1 .. (p + n) - (p + 1) + 1 : part[j] = bytes[p + 1 + j - 1]
    BY <2>1, <2>2, SubSeqProperties
  <2> HIDE DEF part
  <2> QED
    BY <2>2, <2>3, <2>4
<1>4. piece.at = s.at + p /\ piece.op = Add(part)
  BY DEF bytes
<1> HIDE DEF part
<1>5. is_add(piece.op) /\ ~ is_copy(piece.op) /\ piece.op.bytes = part
  BY <1>4 DEF Add, is_add, is_copy
<1>6. piece \in SparseOp
  BY <1>1, <1>3, <1>4 DEF SparseOp, Op, Add, AddOps, part, bytes
<1>7. SizeOf(piece) = n /\ EndOf(piece) = s.at + p + n
  BY <1>3, <1>4, <1>5 DEF SizeOf, EndOf
<1>8. oal(piece.op) = n
  <2>1. n % (MAX_INST_SIZE + 1) = n
    BY <1>2, Limits
  <2> QED
    BY <2>1, <1>3, <1>5 DEF oal
<1>9. EndOf(piece) <= Len(out)
  BY <1>1, <1>2, <1>7 DEF Yields, EndOf
<1>10. \A j \in 1 .. Len(bytes) : bytes[j] = out[s.at + j]
  BY <1>1 DEF Yields, bytes
<1>11. ASSUME NEW j \in 1 .. n PROVE part[j] = out[piece.at + j]
  <2>1. p + j \in 1 .. Len(bytes) /\ s.at + (p + j) = s.at + p + j
    BY <1>1, <1>2
  <2> QED
    BY <2>1, <1>3, <1>4, <1>10
<1>12. Yields(piece, src, out)
  BY <1>5, <1>7, <1>9, <1>11 DEF Yields, is_copy_from
<1> QED
  BY <1>1, <1>2, <1>4, <1>6, <1>7, <1>8, <1>12 DEF IsPiece

LEMMA CopyPiece ==
    ASSUME NEW s \in JoinedOp, NEW src, NEW out, Yields(s, src, out), is_copy(s.op)
    PROVE  IsPiece([at |-> s.at + 0, op |-> s.op], s, 0, src, out)
<1>1. s.at \in Nat /\ SizeOf(s) \in Nat /\ s.at + 0 = s.at
  BY Sizes
<1>2. ~ is_add(s.op) /\ s.op \in CopyOps
  BY DEF JoinedOp, is_add, is_copy, AddOps
<1>3. s = [at |-> s.at + 0, op |-> s.op]
  BY <1>1 DEF JoinedOp
<1>4. s \in SparseOp
  BY <1>2, <1>3, <1>1 DEF SparseOp, Op
<1> QED
  BY <1>1, <1>2, <1>3, <1>4 DEF IsPiece, SizeOf, oal

(* Where an operation of a row ends. *)
LEMMA RowNext ==
    ASSUME NEW list \in Seq(JoinedOp), NEW from, NEW to, Row(list, from, to),
           NEW k \in 1 .. Len(list)
    PROVE  EndOf(list[k]) = IF k + 1 <= Len(list) THEN list[k + 1].at ELSE to
<1>1. CASE k = Len(list)
  <2>1. list # <<>> /\ ~ (k + 1 <= Len(list))
    BY <1>1
  <2> QED
    BY <1>1, <2>1 DEF Row
<1>2. CASE k # Len(list)
  <2>1. k + 1 \in 1 .. Len(list) /\ k + 1 # 1 /\ k + 1 - 1 = k /\ k + 1 <= Len(list)
    BY <1>2
  <2> QED
    BY <2>1 DEF Row
<1> QED
  BY <1>1, <1>2

-----------------------------------------------------------------------------
LEMMA GivenFacts ==
    ASSUME given \in Inputs
    PROVE  /\ given.src \in Seq(Byte) /\ given.out \in Seq(Byte) /\ Len(given.out) \in Nat
           /\ given.ops \in Seq(SparseOp) /\ Row(given.ops, 0, Len(given.out))
           /\ \A k \in 1 .. Len(given.ops) : Yields(given.ops[k], given.src, given.out)
<1>1. given.src \in Seq(Byte) /\ given.out \in Seq(Byte) /\ given.ops \in Seq(SparseOp)
        /\ Row(given.ops, 0, Len(given.out))
  BY TranscoderAssumption DEF TranscoderAssumption
<1>2. \A k \in 1 .. Len(given.ops) : Yields(given.ops[k], given.src, given.out)
  BY TranscoderAssumption DEF TranscoderAssumption
<1> QED
  BY <1>1, <1>2

LEMMA InitInv == TranscoderInit => TranscoderInv
<1> SUFFICES ASSUME TranscoderInit PROVE TranscoderInv
  OBVIOUS
<1>1. given \in Inputs /\ ops = given.ops /\ i = 1 /\ processed = 0 /\ out_ops = <<>>
        /\ stage = "adds"
  BY DEF TranscoderInit
<1>2. ops \in Seq(SparseOp) /\ Len(ops) \in Nat
  BY <1>1, GivenFacts
<1>3. \A k \in 1 .. Len(ops) : ops[k] \in SparseOp
  BY <1>2
<1>4. ops \in Seq(JoinedOp)
  <2>1. \A k \in 1 .. Len(ops) : ops[k] \in JoinedOp
    BY <1>3, PatchOps
  <2>2. ops = [k \in 1 .. Len(ops) |-> ops[k]]
    BY <1>2
  <2> QED
    BY <1>2, <2>1, <2>2
<1>5. TranscoderTypeOK
  BY <1>1, <1>2, <1>4 DEF TranscoderTypeOK
<1>6. NotJoinedYet
  BY <1>3, PatchOps DEF NotJoinedYet
<1>7. SameMeaning
  <2>1. Row(ops, 0, Len(given.out)) /\ \A k \in 1 .. Len(ops) : Yields(ops[k], given.src, given.out)
    BY <1>1, GivenFacts
  <2>2. Row(out_ops, 0, 0) /\ Len(out_ops) = 0
    BY <1>1 DEF Row
  <2> QED
    BY <1>1, <2>1, <2>2 DEF SameMeaning, Reached
<1>8. SizesFit /\ PartConverted
  BY <1>1 DEF SizesFit, PartConverted
<1> QED
  BY <1>1, <1>5, <1>6, <1>7, <1>8 DEF TranscoderInv

LEMMA JoinedIs ==
    ASSUME ops \in Seq(JoinedOp), i \in 1 .. Len(ops) - 1, NEW op, NEW first, NEW second,
           first = [at |-> ops[i].at, op |-> op],
           second = [at |-> EndOf(ops[i + 1]),
                     op |-> IF is_add(ops[i + 1].op) THEN Add(<<>>)
                            ELSE Run(ops[i + 1].op.byte, 0)],
           first \in JoinedOp, EndOf(first) = EndOf(ops[i + 1]),
           second \in JoinedOp, SizeOf(second) = 0
    PROVE  Joint(ops, Joined(op), i) /\ Joined(op)[i] = first /\ Joined(op)[i + 1] = second
<1> DEFINE new == Joined(op)
<1>1. i \in 1 .. Len(ops) /\ i + 1 \in 1 .. Len(ops) /\ i + 1 # i /\ Len(ops) \in Nat
  OBVIOUS
<1>2. new = [ops EXCEPT ![i] = first, ![i + 1] = second]
  BY <1>1 DEF Joined
<1>3. new[i] = first /\ new[i + 1] = second /\ DOMAIN new = 1 .. Len(ops)
        /\ \A k \in 1 .. Len(ops) : k # i /\ k # i + 1 => new[k] = ops[k]
  BY <1>1, <1>2
<1>4. new \in Seq(JoinedOp) /\ Len(new) = Len(ops)
  <2>1. \A k \in 1 .. Len(ops) : new[k] \in JoinedOp
    BY <1>1, <1>3
  <2>2. new = [k \in 1 .. Len(ops) |-> new[k]]
    BY <1>2, <1>3
  <2> QED
    BY <1>1, <2>1, <2>2
<1>5. first.at = ops[i].at /\ second.at = EndOf(ops[i + 1])
  OBVIOUS
<1> QED
  BY <1>3, <1>4, <1>5 DEF Joint

LEMMA JoinKeepsInv ==
    ASSUME TranscoderInv, stage \in {"adds", "runs"}, i \in 1 .. Len(ops) - 1,
           Joint(ops, ops', i), i' = i + 2,
           UNCHANGED <<given, processed, out_ops, stage>>,
           \A k \in {i, i + 1} : /\ Yields(ops'[k], given.src, given.out)
                                 /\ stage = "adds" => is_add(ops'[k].op)
    PROVE  TranscoderInv'
<1>1. Len(ops) \in Nat /\ ops \in Seq(JoinedOp) /\ given \in Inputs /\ i \in Nat
        /\ Len(ops) = Len(given.ops) /\ processed \in Nat /\ out_ops \in Seq(SparseOp)
  BY DEF TranscoderInv, TranscoderTypeOK
<1>2. ops' \in Seq(JoinedOp) /\ Len(ops') = Len(ops)
        /\ \A k \in 1 .. Len(ops) : k # i /\ k # i + 1 => ops'[k] = ops[k]
  BY DEF Joint
<1>3. TranscoderTypeOK'
  <2>1. i' \in 1 .. Len(ops') + 1
    BY <1>1, <1>2
  <2> QED
    BY <1>1, <1>2, <2>1 DEF TranscoderTypeOK
<1>4. NotJoinedYet'
  <2> SUFFICES ASSUME NEW k \in 1 .. Len(ops), stage = "adds" \/ (stage = "runs" /\ k >= i + 2),
                      is_run(ops'[k].op)
               PROVE  ops'[k].op.len <= MAX_RUN_LEN
    BY <1>2 DEF NotJoinedYet
  <2>1. k # i /\ k # i + 1
    <3>1. CASE stage = "adds"
      BY <3>1 DEF is_run, is_add
    <3>2. CASE k >= i + 2
      BY <3>2, <1>1
    <3> QED
      BY <3>1, <3>2
  <2>2. stage = "adds" \/ (stage = "runs" /\ k >= i)
    BY <1>1
  <2> QED
    BY <1>2, <2>1, <2>2 DEF TranscoderInv, NotJoinedYet
<1>5. PartConverted'
  BY <1>1 DEF TranscoderInv, PartConverted
<1>6. SameMeaning'
  <2>1. /\ Row(ops, 0, Len(given.out)) /\ Row(out_ops, 0, 0)
        /\ \A k \in 1 .. Len(ops) : Yields(ops[k], given.src, given.out)
        /\ \A k \in 1 .. Len(out_ops) : Yields(out_ops[k], given.src, given.out)
    BY DEF TranscoderInv, SameMeaning, Reached
  <2>2. Row(ops', 0, Len(given.out))
    BY <1>1, <2>1, GivenFacts, JointKeepsRow
  <2>3. \A k \in 1 .. Len(ops) : Yields(ops'[k], given.src, given.out)
    BY <1>2, <2>1
  <2> QED
    BY <1>2, <2>1, <2>2, <2>3 DEF SameMeaning, Reached
<1>7. SizesFit'
  BY DEF TranscoderInv, SizesFit
<1> QED
  BY <1>1, <1>3, <1>4, <1>5, <1>6, <1>7 DEF TranscoderInv

LEMMA PassKeepsInv ==
    ASSUME TranscoderInv, stage \in {"adds", "runs"}, i < Len(ops), i' \in {i + 1, i + 2},
           UNCHANGED <<given, ops, processed, out_ops, stage>>
    PROVE  TranscoderInv'
<1>1. Len(ops) \in Nat /\ i \in 1 .. Len(ops) + 1 /\ given \in Inputs
  BY DEF TranscoderInv, TranscoderTypeOK
<1>2. TranscoderTypeOK'
  BY <1>1 DEF TranscoderInv, TranscoderTypeOK
<1>3. NotJoinedYet'
  <2>1. \A k \in 1 .. Len(ops) : k >= i' => k >= i
    BY <1>1
  <2> QED
    BY <2>1 DEF TranscoderInv, NotJoinedYet
<1>4. PartConverted' /\ SameMeaning' /\ SizesFit'
  BY DEF TranscoderInv, PartConverted, SameMeaning, Reached, SizesFit
<1> QED
  BY <1>1, <1>2, <1>3, <1>4 DEF TranscoderInv

LEMMA TwoNeighbours ==
    ASSUME TranscoderInv, stage \in {"adds", "runs"}, i < Len(ops)
    PROVE  /\ i \in 1 .. Len(ops) - 1 /\ ops \in Seq(JoinedOp)
           /\ ops[i] \in JoinedOp /\ ops[i + 1] \in JoinedOp
           /\ given.src \in Seq(Byte) /\ given.out \in Seq(Byte)
           /\ Yields(ops[i], given.src, given.out) /\ Yields(ops[i + 1], given.src, given.out)
           /\ ops[i + 1].at = EndOf(ops[i])
           /\ EndOf(ops[i + 1]) \in Nat /\ EndOf(ops[i + 1]) <= Len(given.out)
<1>1. i \in 1 .. Len(ops) - 1 /\ ops \in Seq(JoinedOp) /\ Len(ops) \in Nat
  BY DEF TranscoderInv, TranscoderTypeOK
<1>2. i \in 1 .. Len(ops) /\ i + 1 \in 1 .. Len(ops) /\ i + 1 # 1 /\ i + 1 - 1 = i
  BY <1>1
<1>3. ops[i] \in JoinedOp /\ ops[i + 1] \in JoinedOp
  BY <1>1, <1>2
<1>4. given.src \in Seq(Byte) /\ given.out \in Seq(Byte)
  BY GivenFacts DEF TranscoderInv
<1>5. Yields(ops[i], given.src, given.out) /\ Yields(ops[i + 1], given.src, given.out)
        /\ ops[i + 1].at = EndOf(ops[i])
  BY <1>2 DEF TranscoderInv, SameMeaning, Row
<1>6. EndOf(ops[i + 1]) \in Nat
  BY <1>3, Sizes
<1> QED
  BY <1>1, <1>3, <1>4, <1>5, <1>6 DEF Yields

LEMMA JoinAddsInv == TranscoderInv /\ JoinAdds => TranscoderInv'
<1> SUFFICES ASSUME TranscoderInv, JoinAdds PROVE TranscoderInv'
  OBVIOUS
<1> DEFINE a == ops[i]
           b == ops[i + 1]
           op == Add(a.op.bytes \o b.op.bytes)
           first == [at |-> a.at, op |-> op]
           second == [at |-> EndOf(b), op |-> Add(<<>>)]
<1>1. stage = "adds" /\ i < Len(ops) /\ UNCHANGED <<given, processed, out_ops, stage>>
  BY DEF JoinAdds
<1>2. i \in 1 .. Len(ops) - 1 /\ ops \in Seq(JoinedOp) /\ a \in JoinedOp /\ b \in JoinedOp
        /\ given.src \in Seq(Byte) /\ given.out \in Seq(Byte)
        /\ Yields(a, given.src, given.out) /\ Yields(b, given.src, given.out)
        /\ b.at = EndOf(a) /\ EndOf(b) \in Nat /\ EndOf(b) <= Len(given.out)
  BY <1>1, TwoNeighbours
<1>3. CASE is_add(a.op) /\ is_add(b.op) /\ ops' = Joined(op) /\ i' = i + 2
  <2>1. first \in JoinedOp /\ EndOf(first) = EndOf(b) /\ Yields(first, given.src, given.out)
    BY <1>2, <1>3, JoinedAddsYield
  <2>2. second \in JoinedOp /\ SizeOf(second) = 0 /\ Yields(second, given.src, given.out)
    <3>1. second = [at |-> EndOf(b), op |-> Add(<<>>)]
      OBVIOUS
    <3> HIDE DEF second
    <3> QED
      BY <1>2, <3>1, EmptyAddYields
  <2>3. second = [at |-> EndOf(b), op |-> IF is_add(b.op) THEN Add(<<>>) ELSE Run(b.op.byte, 0)]
    BY <1>3
  <2>4. first.op = op /\ second.op = Add(<<>>) /\ is_add(op) /\ is_add(Add(<<>>))
    BY DEF is_add, Add
  <2> HIDE DEF op, first, second
  <2>5. Joint(ops, Joined(op), i) /\ Joined(op)[i] = first /\ Joined(op)[i + 1] = second
    BY <1>2, <2>1, <2>2, <2>3, JoinedIs DEF first
  <2>6. \A k \in {i, i + 1} : Yields(ops'[k], given.src, given.out) /\ is_add(ops'[k].op)
    BY <1>3, <2>1, <2>2, <2>4, <2>5
  <2> QED
    BY <1>1, <1>2, <1>3, <2>5, <2>6, JoinKeepsInv
<1>4. CASE ops' = ops /\ i' \in {i + 1, i + 2}
  BY <1>1, <1>4, PassKeepsInv
<1>5. \/ is_add(a.op) /\ is_add(b.op) /\ ops' = Joined(op) /\ i' = i + 2
      \/ ops' = ops /\ i' \in {i + 1, i + 2}
  BY DEF JoinAdds
<1> QED
  BY <1>3, <1>4, <1>5

LEMMA JoinRunsInv == TranscoderInv /\ JoinRuns => TranscoderInv'
<1> SUFFICES ASSUME TranscoderInv, JoinRuns PROVE TranscoderInv'
  OBVIOUS
<1> DEFINE a == ops[i]
           b == ops[i + 1]
           op == Run(a.op.byte, a.op.len + b.op.len)
           first == [at |-> a.at, op |-> op]
           second == [at |-> EndOf(b), op |-> Run(b.op.byte, 0)]
<1>1. stage = "runs" /\ i < Len(ops) /\ UNCHANGED <<given, processed, out_ops, stage>>
  BY DEF JoinRuns
<1>2. i \in 1 .. Len(ops) - 1 /\ ops \in Seq(JoinedOp) /\ a \in JoinedOp /\ b \in JoinedOp
        /\ given.src \in Seq(Byte) /\ given.out \in Seq(Byte)
        /\ Yields(a, given.src, given.out) /\ Yields(b, given.src, given.out)
        /\ b.at = EndOf(a) /\ EndOf(b) \in Nat /\ EndOf(b) <= Len(given.out)
  BY <1>1, TwoNeighbours
<1>3. CASE /\ is_run(a.op) /\ is_run(b.op) /\ a.op.byte = b.op.byte
           /\ ops' = Joined(op) /\ i' = i + 2
  <2>1. a.op.len <= MAX_RUN_LEN /\ b.op.len <= MAX_RUN_LEN
    <3>1. i \in 1 .. Len(ops) /\ i + 1 \in 1 .. Len(ops) /\ i >= i /\ i + 1 >= i
      BY <1>2
    <3> QED
      BY <1>1, <1>3, <3>1 DEF TranscoderInv, NotJoinedYet
  <2>2. first \in JoinedOp /\ EndOf(first) = EndOf(b) /\ Yields(first, given.src, given.out)
    BY <1>2, <1>3, <2>1, JoinedRunsYield
  <2>3. b.op.byte \in Byte /\ ~ is_add(b.op)
    BY <1>2, <1>3 DEF JoinedOp, is_run, is_add, AddOps, CopyOps
  <2>4. second \in JoinedOp /\ SizeOf(second) = 0 /\ Yields(second, given.src, given.out)
    <3>1. second = [at |-> EndOf(b), op |-> Run(b.op.byte, 0)]
      OBVIOUS
    <3> HIDE DEF second
    <3> QED
      BY <1>2, <2>3, <3>1, EmptyRunYields
  <2>5. second = [at |-> EndOf(b), op |-> IF is_add(b.op) THEN Add(<<>>) ELSE Run(b.op.byte, 0)]
    BY <2>3
  <2> HIDE DEF op, first, second
  <2>6. Joint(ops, Joined(op), i) /\ Joined(op)[i] = first /\ Joined(op)[i + 1] = second
    BY <1>2, <2>2, <2>4, <2>5, JoinedIs DEF first
  <2>7. \A k \in {i, i + 1} : Yields(ops'[k], given.src, given.out)
    BY <1>3, <2>2, <2>4, <2>6
  <2> QED
    BY <1>1, <1>2, <1>3, <2>6, <2>7, JoinKeepsInv
<1>4. CASE ops' = ops /\ i' \in {i + 1, i + 2}
  BY <1>1, <1>4, PassKeepsInv
<1>5. \/ /\ is_run(a.op) /\ is_run(b.op) /\ a.op.byte = b.op.byte
         /\ ops' = Joined(op) /\ i' = i + 2
      \/ ops' = ops /\ i' \in {i + 1, i + 2}
  BY DEF JoinRuns
<1> QED
  BY <1>3, <1>4, <1>5

(* Each operation made is the next piece of the operation at hand. *)
LEMMA EmitInv ==
    ASSUME TranscoderInv, Converting, NEW op, Emit(op),
           IsPiece([at |-> ops[i].at + processed, op |-> op], ops[i], processed,
                   given.src, given.out),
           is_copy(ops[i].op) => processed + SizeOf([at |-> ops[i].at + processed, op |-> op])
                                    = SizeOf(ops[i])
    PROVE  TranscoderInv'
<1> DEFINE s == [at |-> ops[i].at + processed, op |-> op]
           size == SizeOf(ops[i])
           reached == processed + SizeOf(s)
<1>1. Len(ops) \in Nat /\ ops \in Seq(JoinedOp) /\ given \in Inputs /\ i \in 1 .. Len(ops)
        /\ processed \in Nat /\ out_ops \in Seq(SparseOp) /\ stage = "convert"
        /\ Len(ops) = Len(given.ops)
  BY DEF TranscoderInv, TranscoderTypeOK, Converting
<1>2. ops[i] \in JoinedOp /\ ops[i].at \in Nat /\ size \in Nat /\ EndOf(ops[i]) = ops[i].at + size
  BY <1>1, Sizes DEF EndOf
<1>3. s \in SparseOp /\ s.at = ops[i].at + processed /\ SizeOf(s) = oal(s.op)
        /\ (SizeOf(s) > 0 \/ is_copy(s.op)) /\ reached <= size
        /\ Yields(s, given.src, given.out)
  BY DEF IsPiece
<1>4. SizeOf(s) \in Nat /\ reached \in Nat /\ EndOf(s) = ops[i].at + reached
  <2>1. SizeOf(s) \in Nat
    BY <1>3, PatchOps, Sizes
  <2>2. EndOf(s) = s.at + SizeOf(s)
    BY DEF EndOf
  <2> HIDE DEF s
  <2> QED
    BY <2>1, <2>2, <1>1, <1>2, <1>3
<1>5. out_ops' = Append(out_ops, s) /\ UNCHANGED <<given, ops, stage>>
        /\ processed' = (IF reached < size THEN reached ELSE 0)
        /\ i' = (IF reached < size THEN i ELSE i + 1)
  BY DEF Emit
<1>6. is_copy(ops[i].op) => reached = size
  OBVIOUS
<1>7. /\ Row(ops, 0, Len(given.out)) /\ Row(out_ops, 0, ops[i].at + processed)
      /\ \A k \in 1 .. Len(ops) : Yields(ops[k], given.src, given.out)
      /\ \A k \in 1 .. Len(out_ops) : Yields(out_ops[k], given.src, given.out)
  BY <1>1 DEF TranscoderInv, SameMeaning, Reached
<1>8. EndOf(ops[i]) = IF i + 1 <= Len(ops) THEN ops[i + 1].at ELSE Len(given.out)
  BY <1>1, <1>7, RowNext
<1> HIDE DEF s, size, reached
<1>9. Len(out_ops') = Len(out_ops) + 1 /\ Len(out_ops) \in Nat
        /\ out_ops' \in Seq(SparseOp)
        /\ \A k \in 1 .. Len(out_ops') : out_ops'[k] = IF k = Len(out_ops) + 1 THEN s ELSE out_ops[k]
  BY <1>1, <1>3, <1>5
<1>10. TranscoderTypeOK'
  <2>1. i' \in 1 .. Len(ops) + 1 /\ processed' \in Nat
    BY <1>1, <1>4, <1>5
  <2> QED
    BY <1>1, <1>5, <1>9, <2>1 DEF TranscoderTypeOK
<1>11. NotJoinedYet'
  BY <1>1, <1>5 DEF NotJoinedYet
<1>12. PartConverted'
  <2>1. CASE reached < size
    <3>1. i' = i /\ processed' = reached /\ i <= Len(ops) /\ ~ is_copy(ops[i].op)
      BY <2>1, <1>1, <1>2, <1>4, <1>5, <1>6
    <3> QED
      BY <2>1, <3>1, <1>1, <1>5 DEF PartConverted, size
  <2>2. CASE ~ (reached < size)
    BY <2>2, <1>5 DEF PartConverted
  <2> QED
    BY <2>1, <2>2
<1>13. Row(out_ops', 0, EndOf(s))
  BY <1>1, <1>3, <1>5, <1>7, RowAppend
<1>14. EndOf(s) = Reached'
  <2>1. CASE reached < size
    BY <2>1, <1>1, <1>4, <1>5 DEF Reached
  <2>2. CASE ~ (reached < size)
    <3>1. reached = size /\ i' = i + 1 /\ processed' = 0 /\ ops' = ops /\ given' = given
      BY <2>2, <1>2, <1>3, <1>4, <1>5 DEF size
    <3>2. EndOf(s) = EndOf(ops[i])
      BY <3>1, <1>2, <1>4 DEF size
    <3>3. CASE i + 1 <= Len(ops)
      <4>1. ops[i + 1].at \in Nat
        <5>1. i + 1 \in 1 .. Len(ops)
          BY <3>3, <1>1
        <5> QED
          BY <5>1, <1>1, Sizes
      <4>2. ops[i + 1].at + 0 = ops[i + 1].at
        BY <4>1
      <4> QED
        BY <3>1, <3>2, <3>3, <4>2, <1>1, <1>5, <1>8 DEF Reached
    <3>4. CASE ~ (i + 1 <= Len(ops))
      BY <3>1, <3>2, <3>4, <1>1, <1>5, <1>8 DEF Reached
    <3> QED
      BY <3>3, <3>4
  <2> QED
    BY <2>1, <2>2
<1>15. SameMeaning'
  <2>0. \A n \in 1 .. Len(out_ops) : Yields(out_ops[n], given.src, given.out)
    BY <1>7
  <2>1. ASSUME NEW k \in 1 .. Len(out_ops') PROVE Yields(out_ops'[k], given.src, given.out)
    <3>1. k = Len(out_ops) + 1 \/ k \in 1 .. Len(out_ops)
      BY <1>9
    <3>2. k \in 1 .. Len(out_ops) => k # Len(out_ops) + 1
      BY <1>9
    <3>3. CASE k = Len(out_ops) + 1
      <4>1. out_ops'[k] = s
        BY <3>3, <1>9
      <4> QED
        BY <4>1, <1>3
    <3>4. CASE k \in 1 .. Len(out_ops)
      <4>1. out_ops'[k] = out_ops[k] /\ Yields(out_ops[k], given.src, given.out)
        <5>1. out_ops'[k] = out_ops[k]
          BY <3>2, <3>4, <1>9
        <5>2. Yields(out_ops[k], given.src, given.out)
          BY <3>4, <2>0
        <5> QED
          BY <5>1, <5>2
      <4> QED
        BY <4>1
    <3> QED
      BY <3>1, <3>3, <3>4
  <2> QED
    BY <1>1, <1>5, <1>7, <1>13, <1>14, <2>1 DEF SameMeaning
<1>16. SizesFit'
  BY <1>3, <1>9 DEF TranscoderInv, SizesFit
<1> QED
  BY <1>1, <1>5, <1>10, <1>11, <1>12, <1>15, <1>16 DEF TranscoderInv

(* What the conversion knows of the operation at hand. *)
LEMMA AtHand ==
    ASSUME TranscoderInv, Converting
    PROVE  /\ i \in 1 .. Len(ops) /\ ops[i] \in JoinedOp /\ SizeOf(ops[i]) \in Nat
           /\ ops[i].at \in Nat /\ processed \in Nat
           /\ given.src \in Seq(Byte) /\ given.out \in Seq(Byte)
           /\ Yields(ops[i], given.src, given.out)
           /\ processed > 0 => ~ is_copy(ops[i].op) /\ processed < SizeOf(ops[i])
<1>1. i \in 1 .. Len(ops) /\ ops[i] \in JoinedOp /\ processed \in Nat
  BY DEF TranscoderInv, TranscoderTypeOK, Converting
<1>2. Yields(ops[i], given.src, given.out)
  BY <1>1 DEF TranscoderInv, SameMeaning
<1>3. given.src \in Seq(Byte) /\ given.out \in Seq(Byte)
  BY GivenFacts DEF TranscoderInv
<1> QED
  BY <1>1, <1>2, <1>3, Sizes DEF TranscoderInv, PartConverted

LEMMA ConvertCopyInv == TranscoderInv /\ ConvertCopy => TranscoderInv'
<1> SUFFICES ASSUME TranscoderInv, ConvertCopy PROVE TranscoderInv'
  OBVIOUS
<1>1. Converting /\ is_copy(ops[i].op) /\ Emit(ops[i].op)
  BY DEF ConvertCopy
<1>2. processed = 0 /\ ops[i] \in JoinedOp /\ ops[i].at \in Nat /\ SizeOf(ops[i]) \in Nat
        /\ Yields(ops[i], given.src, given.out)
  BY <1>1, AtHand
<1>3. IsPiece([at |-> ops[i].at + 0, op |-> ops[i].op], ops[i], 0, given.src, given.out)
  BY <1>1, <1>2, CopyPiece
<1>4. 0 + SizeOf([at |-> ops[i].at + 0, op |-> ops[i].op]) = SizeOf(ops[i])
  <2>1. SizeOf([at |-> ops[i].at + 0, op |-> ops[i].op]) = SizeOf(ops[i])
    BY DEF SizeOf
  <2> QED
    BY <2>1, <1>2
<1> QED
  BY <1>1, <1>2, <1>3, <1>4, EmitInv

LEMMA MakeAddOpInv == TranscoderInv /\ MakeAddOp => TranscoderInv'
<1> SUFFICES ASSUME TranscoderInv, MakeAddOp PROVE TranscoderInv'
  OBVIOUS
<1> DEFINE bytes == ops[i].op.bytes
           size == Smaller(Len(bytes) - processed, MAX_INST_SIZE)
           single == Run(bytes[1], 1)
           part == Add(SubSeq(bytes, processed + 1, processed + size))
<1>1. Converting /\ is_add(ops[i].op) /\ SizeOf(ops[i]) > 0
        /\ Emit(IF Len(bytes) = 1 THEN single ELSE part)
  BY DEF MakeAddOp
<1>2. ops[i] \in JoinedOp /\ SizeOf(ops[i]) \in Nat /\ processed \in Nat /\ ops[i].at \in Nat
        /\ given.src \in Seq(Byte) /\ given.out \in Seq(Byte)
        /\ Yields(ops[i], given.src, given.out)
        /\ processed < SizeOf(ops[i])
  BY <1>1, AtHand
<1>3. ~ is_copy(ops[i].op) /\ SizeOf(ops[i]) = Len(bytes) /\ bytes \in Seq(Byte)
  BY <1>1, <1>2 DEF is_add, is_copy, SizeOf, JoinedOp, AddOps, CopyOps
<1>4. CASE Len(bytes) = 1
  <2>1. processed = 0 /\ 1 \in 1 .. MAX_RUN_LEN /\ processed + 1 <= SizeOf(ops[i])
    BY <1>2, <1>3, <1>4, Limits
  <2>2. bytes[1] \in Byte
    BY <1>3, <1>4
  <2>3. bytes[1] = given.out[ops[i].at + 1]
    BY <1>1, <1>2, <1>3, <1>4 DEF Yields
  <2>4. \A j \in processed + 1 .. processed + 1 : bytes[1] = given.out[ops[i].at + j]
    BY <2>1, <2>3
  <2>5. IsPiece([at |-> ops[i].at + processed, op |-> single], ops[i], processed,
                given.src, given.out)
    BY <1>2, <2>1, <2>2, <2>4, RunPiece
  <2> QED
    BY <1>1, <1>3, <1>4, <2>5, EmitInv
<1>5. CASE Len(bytes) # 1
  <2>1. size \in 1 .. MAX_INST_SIZE /\ processed + size <= SizeOf(ops[i])
    <3> DEFINE n == Len(bytes)
    <3>1. n \in Nat /\ processed < n /\ SizeOf(ops[i]) = n /\ size = Smaller(n - processed, MAX_INST_SIZE)
      BY <1>2, <1>3
    <3> HIDE DEF n, size
    <3> QED
      BY <3>1, <1>2, Limits DEF Smaller
  <2>2. IsPiece([at |-> ops[i].at + processed, op |-> part], ops[i], processed,
                given.src, given.out)
    <3> HIDE DEF size
    <3> QED
      BY <1>1, <1>2, <2>1, AddPiece
  <2> QED
    BY <1>1, <1>3, <1>5, <2>2, EmitInv
<1> QED
  BY <1>4, <1>5

LEMMA MakeRunOpInv == TranscoderInv /\ MakeRunOp => TranscoderInv'
<1> SUFFICES ASSUME TranscoderInv, MakeRunOp PROVE TranscoderInv'
  OBVIOUS
<1> DEFINE byte == ops[i].op.byte
           size == Smaller(ops[i].op.len - processed, MAX_RUN_LEN)
<1>1. Converting /\ is_run(ops[i].op) /\ SizeOf(ops[i]) > 0 /\ Emit(Run(byte, size))
  BY DEF MakeRunOp
<1>2. ops[i] \in JoinedOp /\ SizeOf(ops[i]) \in Nat /\ processed \in Nat /\ ops[i].at \in Nat
        /\ given.src \in Seq(Byte) /\ given.out \in Seq(Byte)
        /\ Yields(ops[i], given.src, given.out)
        /\ processed < SizeOf(ops[i])
  BY <1>1, AtHand
<1>3. ~ is_copy(ops[i].op) /\ ~ is_add(ops[i].op) /\ SizeOf(ops[i]) = ops[i].op.len
        /\ byte \in Byte
  BY <1>1, <1>2 DEF is_add, is_run, is_copy, SizeOf, JoinedOp, AddOps, CopyOps
<1>4. size \in 1 .. MAX_RUN_LEN /\ processed + size <= SizeOf(ops[i])
  BY <1>2, <1>3, Limits DEF Smaller
<1>5. \A j \in 1 .. SizeOf(ops[i]) : byte = given.out[ops[i].at + j]
  BY <1>1, <1>2, <1>3 DEF Yields
<1> HIDE DEF size
<1>6. \A j \in processed + 1 .. processed + size : byte = given.out[ops[i].at + j]
  BY <1>2, <1>4, <1>5
<1>7. IsPiece([at |-> ops[i].at + processed, op |-> Run(byte, size)], ops[i], processed,
              given.src, given.out)
  BY <1>2, <1>3, <1>4, <1>6, RunPiece
<1> QED
  BY <1>1, <1>3, <1>7, EmitInv

-----------------------------------------------------------------------------
LEMMA NextStage ==
    ASSUME TranscoderInv, UNCHANGED <<given, ops, processed, out_ops>>,
           \/ stage = "adds" /\ stage' = "runs" /\ i' = 1
           \/ stage = "runs" /\ stage' = "convert" /\ i' = 1
    PROVE  TranscoderInv'
<1>1. Len(ops) \in Nat /\ processed \in Nat /\ given \in Inputs /\ processed = 0
  BY DEF TranscoderInv, TranscoderTypeOK, PartConverted
<1>2. TranscoderTypeOK' /\ PartConverted' /\ SizesFit'
  BY <1>1 DEF TranscoderInv, TranscoderTypeOK, PartConverted, SizesFit
<1>3. NotJoinedYet'
  BY DEF TranscoderInv, NotJoinedYet
<1>4. /\ Row(ops, 0, Len(given.out)) /\ Row(out_ops, 0, 0)
      /\ \A k \in 1 .. Len(ops) : Yields(ops[k], given.src, given.out)
      /\ \A k \in 1 .. Len(out_ops) : Yields(out_ops[k], given.src, given.out)
  BY DEF TranscoderInv, SameMeaning, Reached
<1>5. Reached' = 0
  <2>1. CASE stage' = "runs"
    BY <2>1 DEF Reached
  <2>2. CASE stage' = "convert" /\ i' = 1 /\ 1 <= Len(ops)
    <3>1. ops[1].at = 0
      BY <2>2, <1>1, <1>4 DEF Row
    <3> QED
      BY <2>2, <3>1, <1>1 DEF Reached
  <2>3. CASE stage' = "convert" /\ i' = 1 /\ ~ (1 <= Len(ops))
    <3>1. ops = <<>>
      BY <2>3, <1>1 DEF TranscoderInv, TranscoderTypeOK
    <3>2. Len(given.out) = 0
      BY <3>1, <1>4 DEF Row
    <3> QED
      BY <2>3, <3>2 DEF Reached
  <2> QED
    BY <2>1, <2>2, <2>3
<1>6. SameMeaning'
  <2>1. given' = given /\ ops' = ops /\ out_ops' = out_ops
    OBVIOUS
  <2>2. Row(out_ops', 0, Reached')
    BY <1>4, <1>5, <2>1
  <2> QED
    BY <1>4, <2>1, <2>2 DEF SameMeaning
<1> QED
  BY <1>1, <1>2, <1>3, <1>6 DEF TranscoderInv

LEMMA SkipEmptyInv == TranscoderInv /\ SkipEmpty => TranscoderInv'
<1> SUFFICES ASSUME TranscoderInv, SkipEmpty PROVE TranscoderInv'
  OBVIOUS
<1>1. Converting /\ stage = "convert" /\ SizeOf(ops[i]) = 0 /\ i' = i + 1
        /\ UNCHANGED <<given, ops, processed, out_ops, stage>>
  BY DEF SkipEmpty, Converting
<1>2. i \in 1 .. Len(ops) /\ processed = 0 /\ ops[i].at \in Nat /\ Len(ops) \in Nat
        /\ ops \in Seq(JoinedOp)
  BY <1>1, AtHand DEF TranscoderInv, TranscoderTypeOK
<1>3. TranscoderTypeOK' /\ PartConverted' /\ SizesFit' /\ NotJoinedYet'
  BY <1>1, <1>2 DEF TranscoderInv, TranscoderTypeOK, PartConverted, SizesFit, NotJoinedYet
<1>4. Row(ops, 0, Len(given.out)) /\ Row(out_ops, 0, ops[i].at + processed)
  BY <1>1, <1>2 DEF TranscoderInv, SameMeaning, Reached
<1>5. ops[i].at + processed = Reached'
  <2>1. EndOf(ops[i]) = ops[i].at + processed
    BY <1>1, <1>2 DEF EndOf
  <2>2. EndOf(ops[i]) = IF i + 1 <= Len(ops) THEN ops[i + 1].at ELSE Len(given.out)
    BY <1>2, <1>4, RowNext
  <2>3. i + 1 <= Len(ops) => ops[i + 1].at + 0 = ops[i + 1].at
    <3>1. i + 1 <= Len(ops) => ops[i + 1] \in JoinedOp
      BY <1>2
    <3> QED
      BY <3>1, Sizes
  <2> QED
    BY <2>1, <2>2, <2>3, <1>1, <1>2 DEF Reached
<1>6. SameMeaning'
  BY <1>1, <1>4, <1>5 DEF TranscoderInv, SameMeaning
<1> QED
  BY <1>1, <1>3, <1>6 DEF TranscoderInv

LEMMA NextInv == TranscoderInv /\ [TranscoderNext]_transcoderVars => TranscoderInv'
<1> SUFFICES ASSUME TranscoderInv, [TranscoderNext]_transcoderVars PROVE TranscoderInv'
  OBVIOUS
<1>1. CASE PanicEmpty
  <2>1. stage = "adds" /\ stage' = "panic" /\ UNCHANGED <<given, ops, i, processed, out_ops>>
    BY <1>1 DEF PanicEmpty
  <2>2. Row(out_ops, 0, 0)
    BY <2>1 DEF TranscoderInv, SameMeaning, Reached
  <2>3. SameMeaning'
    BY <2>1, <2>2 DEF TranscoderInv, SameMeaning, Reached
  <2>4. TranscoderTypeOK' /\ NotJoinedYet' /\ PartConverted' /\ SizesFit'
    BY <2>1 DEF TranscoderInv, TranscoderTypeOK, NotJoinedYet, PartConverted, SizesFit
  <2> QED
    BY <2>1, <2>3, <2>4 DEF TranscoderInv
<1>2. CASE JoinAdds
  BY <1>2, JoinAddsInv
<1>3. CASE AddsJoined
  BY <1>3, NextStage DEF AddsJoined
<1>4. CASE JoinRuns
  BY <1>4, JoinRunsInv
<1>5. CASE RunsJoined
  BY <1>5, NextStage DEF RunsJoined
<1>6. CASE SkipEmpty
  BY <1>6, SkipEmptyInv
<1>7. CASE ConvertCopy
  BY <1>7, ConvertCopyInv
<1>8. CASE MakeAddOp
  BY <1>8, MakeAddOpInv
<1>9. CASE MakeRunOp
  BY <1>9, MakeRunOpInv
<1>10. CASE FinishTranscoder
  <2>1. stage = "convert" /\ ~ (i <= Len(ops)) /\ stage' = "done"
          /\ UNCHANGED <<given, ops, i, processed, out_ops>>
    <3>1. i \in Nat /\ Len(ops) \in Nat
      BY DEF TranscoderInv, TranscoderTypeOK
    <3> QED
      BY <1>10, <3>1 DEF FinishTranscoder
  <2>2. processed = 0 /\ processed \in Nat
    BY <2>1 DEF TranscoderInv, TranscoderTypeOK, PartConverted
  <2>3. SameMeaning'
    BY <2>1 DEF TranscoderInv, SameMeaning, Reached
  <2>4. TranscoderTypeOK' /\ NotJoinedYet' /\ PartConverted' /\ SizesFit'
    BY <2>1, <2>2 DEF TranscoderInv, TranscoderTypeOK, NotJoinedYet, PartConverted, SizesFit
  <2> QED
    BY <2>1, <2>3, <2>4 DEF TranscoderInv
<1>11. CASE UNCHANGED transcoderVars
  BY <1>11 DEF TranscoderInv, TranscoderTypeOK, NotJoinedYet, PartConverted, SameMeaning, Reached,
               SizesFit, transcoderVars
<1> QED
  BY <1>1, <1>2, <1>3, <1>4, <1>5, <1>6, <1>7, <1>8, <1>9, <1>10, <1>11 DEF TranscoderNext

(* The invariant that the three properties rest on (transcode). *)
THEOREM InvCorrect == TranscoderSpec => []TranscoderInv
<1>1. TranscoderInit => TranscoderInv
  BY InitInv
<1>2. TranscoderInv /\ [TranscoderNext]_transcoderVars => TranscoderInv'
  BY NextInv
<1> QED
  BY <1>1, <1>2, PTL DEF TranscoderSpec

(* The loops of the transcoder keep their indices in range and no joined    *)
(* Run is longer than two of a patch, so that none is made into copies      *)
(* (join_adjacent_runs, make_run_ops).                                      *)
THEOREM TypeCorrect == TranscoderSpec => []TranscoderTypeOK
<1>1. TranscoderInv => TranscoderTypeOK
  BY DEF TranscoderInv
<1> QED
  BY <1>1, InvCorrect, PTL

(* Joined and cut again, the operations of any patch make the same file     *)
(* (optimize_and_convert_ops).                                              *)
THEOREM MeaningCorrect == TranscoderSpec => []SameMeaning
<1>1. TranscoderInv => SameMeaning
  BY DEF TranscoderInv
<1> QED
  BY <1>1, InvCorrect, PTL

(* Each of them fits the fields of a patch (make_add_ops, make_run_ops). *)
THEOREM SizesCorrect == TranscoderSpec => []SizesFit
<1>1. TranscoderInv => SizesFit
  BY DEF TranscoderInv
<1> QED
  BY <1>1, InvCorrect, PTL

-----------------------------------------------------------------------------
(* The most of an operation that one piece takes. *)
PieceLimit(s) == IF is_run(s.op) THEN MAX_RUN_LEN ELSE MAX_INST_SIZE

(* What two operations of a kind become when they are joined. *)
TwoPieces(s, t) ==
    /\ (is_add(s.op) /\ is_add(t.op)) \/ (is_run(s.op) /\ is_run(t.op))
    /\ SizeOf(s) <= 2 * PieceLimit(s) /\ SizeOf(t) = 0

(* The kind that the loop at hand joins. *)
BeingJoined(s) == stage = "adds" \/ (stage = "runs" /\ is_run(s.op))

(* What takes more than one piece takes two, and has an emptied operation   *)
(* behind it, which the loop that joins such operations is past.            *)
PiecesInv ==
    \A k \in 1 .. Len(ops) :
        SizeOf(ops[k]) > PieceLimit(ops[k]) =>
            /\ k + 1 <= Len(ops) /\ TwoPieces(ops[k], ops[k + 1])
            /\ BeingJoined(ops[k]) => k + 1 < i

(* The operations made are as many as those passed, or one more: between    *)
(* the two pieces of one, or where an emptied operation is next.            *)
CountInv ==
    IF stage \in {"adds", "runs", "panic"} THEN out_ops = <<>>
    ELSE IF processed > 0 THEN Len(out_ops) <= i /\ processed = PieceLimit(ops[i])
    ELSE \/ Len(out_ops) <= i - 1
         \/ /\ Len(out_ops) <= i /\ i <= Len(ops)
            /\ ~ is_copy(ops[i].op) /\ SizeOf(ops[i]) = 0

LEMMA PieceLimits ==
    ASSUME NEW s
    PROVE  /\ PieceLimit(s) \in Nat /\ PieceLimit(s) > 0
           /\ is_run(s.op) => PieceLimit(s) = MAX_RUN_LEN
           /\ ~ is_run(s.op) => PieceLimit(s) = MAX_INST_SIZE
BY Limits DEF PieceLimit

LEMMA InitCounts == TranscoderInit => PiecesInv /\ CountInv
<1> SUFFICES ASSUME TranscoderInit PROVE PiecesInv /\ CountInv
  OBVIOUS
<1>1. given \in Inputs /\ ops = given.ops /\ out_ops = <<>> /\ stage = "adds"
  BY DEF TranscoderInit
<1>2. ASSUME NEW k \in 1 .. Len(ops) PROVE ~ (SizeOf(ops[k]) > PieceLimit(ops[k]))
  <2>1. ops[k] \in SparseOp
    BY <1>1, GivenFacts
  <2>2. SizeOf(ops[k]) <= MAX_INST_SIZE
    BY <1>1, TranscoderAssumption DEF TranscoderAssumption
  <2>3. is_run(ops[k].op) => SizeOf(ops[k]) <= MAX_RUN_LEN
    <3>1. is_run(ops[k].op) => SizeOf(ops[k]) = ops[k].op.len
      BY DEF SizeOf, is_run, is_add
    <3> QED
      BY <2>1, <3>1, PatchOps
  <2>4. SizeOf(ops[k]) \in Nat
    BY <2>1, PatchOps, Sizes
  <2> QED
    BY <2>2, <2>3, <2>4, PieceLimits, Limits
<1> QED
  BY <1>1, <1>2 DEF PiecesInv, CountInv

(* The two operations that a joint changes. *)
LEMMA JoinedPair ==
    ASSUME ops \in Seq(JoinedOp), i \in 1 .. Len(ops) - 1, NEW op
    PROVE  /\ Len(Joined(op)) = Len(ops)
           /\ Joined(op)[i].op = op
           /\ Joined(op)[i + 1].op = IF is_add(ops[i + 1].op) THEN Add(<<>>)
                                     ELSE Run(ops[i + 1].op.byte, 0)
           /\ \A k \in 1 .. Len(ops) : k # i /\ k # i + 1 => Joined(op)[k] = ops[k]
<1> DEFINE first == [at |-> ops[i].at, op |-> op]
           emptied == IF is_add(ops[i + 1].op) THEN Add(<<>>) ELSE Run(ops[i + 1].op.byte, 0)
           second == [at |-> EndOf(ops[i + 1]), op |-> emptied]
           new == Joined(op)
<1>1. i \in 1 .. Len(ops) /\ i + 1 \in 1 .. Len(ops) /\ i + 1 # i
  OBVIOUS
<1>2. new = [ops EXCEPT ![i] = first, ![i + 1] = second]
  BY <1>1 DEF Joined
<1>3. first.op = op /\ second.op = emptied
  OBVIOUS
<1> HIDE DEF first, second
<1>4. new[i] = first /\ new[i + 1] = second /\ Len(new) = Len(ops)
        /\ \A k \in 1 .. Len(ops) : k # i /\ k # i + 1 => new[k] = ops[k]
  BY <1>1, <1>2
<1> QED
  BY <1>3, <1>4

(* Where a joint changes two operations of a kind, neither was joined.      *)
LEMMA JoinKeepsPieces ==
    ASSUME TranscoderInv, PiecesInv, stage \in {"adds", "runs"}, i \in 1 .. Len(ops) - 1,
           NEW op, ops' = Joined(op), i' = i + 2, stage' = stage,
           BeingJoined(ops[i]), BeingJoined(ops[i + 1]),
           TwoPieces(ops'[i], ops'[i + 1])
    PROVE  PiecesInv'
<1>1. ops \in Seq(JoinedOp) /\ Len(ops) \in Nat /\ i \in Nat
  BY DEF TranscoderInv, TranscoderTypeOK
<1>2. Len(ops') = Len(ops) /\ \A k \in 1 .. Len(ops) : k # i /\ k # i + 1 => ops'[k] = ops[k]
  BY <1>1, JoinedPair
<1> SUFFICES ASSUME NEW k \in 1 .. Len(ops), SizeOf(ops'[k]) > PieceLimit(ops'[k])
             PROVE  /\ k + 1 <= Len(ops) /\ TwoPieces(ops'[k], ops'[k + 1])
                    /\ BeingJoined(ops[k])' => k + 1 < i + 2
  BY <1>2 DEF PiecesInv
<1>3. CASE k = i
  BY <1>1, <1>3
<1>4. CASE k = i + 1
  <2>1. SizeOf(ops'[k]) = 0
    BY <1>4 DEF TwoPieces
  <2> QED
    BY <2>1, PieceLimits
<1>5. CASE k # i /\ k # i + 1
  <2>1. ops'[k] = ops[k]
    BY <1>2, <1>5
  <2>2. /\ k + 1 <= Len(ops) /\ TwoPieces(ops[k], ops[k + 1])
        /\ BeingJoined(ops[k]) => k + 1 < i
    BY <2>1 DEF PiecesInv
  <2>3. BeingJoined(ops[k])' <=> BeingJoined(ops[k])
    BY <2>1 DEF BeingJoined
  <2>4. k + 1 # i /\ k + 1 # i + 1
    <3>1. k + 1 = i => BeingJoined(ops[k])
      <4>1. CASE stage = "adds"
        BY <4>1 DEF BeingJoined
      <4>2. CASE stage = "runs"
        <5>1. k + 1 = i => is_run(ops[k + 1].op)
          BY <4>2 DEF BeingJoined
        <5> QED
          BY <2>2, <4>2, <5>1 DEF TwoPieces, BeingJoined, is_run, is_add
      <4> QED
        BY <4>1, <4>2
    <3> QED
      BY <2>2, <3>1, <1>1, <1>5
  <2>5. ops'[k + 1] = ops[k + 1]
    BY <1>1, <1>2, <2>2, <2>4
  <2> QED
    BY <1>1, <2>1, <2>2, <2>3, <2>5
<1> QED
  BY <1>3, <1>4, <1>5

LEMMA PassKeepsPieces ==
    ASSUME TranscoderInv, PiecesInv, UNCHANGED <<ops, stage>>, i' \in {i, i + 1, i + 2}
    PROVE  PiecesInv'
<1>1. i \in Nat /\ Len(ops) \in Nat
  BY DEF TranscoderInv, TranscoderTypeOK
<1>2. \A k \in 1 .. Len(ops) : k + 1 < i => k + 1 < i'
  BY <1>1
<1> QED
  BY <1>2 DEF PiecesInv, BeingJoined

(* An operation that the loops have not passed is one piece. *)
LEMMA NotPassed ==
    ASSUME TranscoderInv, PiecesInv, NEW k \in 1 .. Len(ops), BeingJoined(ops[k]), k >= i
    PROVE  SizeOf(ops[k]) <= PieceLimit(ops[k]) /\ SizeOf(ops[k]) \in Nat
<1>1. i \in Nat /\ ops[k] \in JoinedOp
  BY DEF TranscoderInv, TranscoderTypeOK
<1>2. ~ (SizeOf(ops[k]) > PieceLimit(ops[k]))
  BY <1>1 DEF PiecesInv
<1>3. SizeOf(ops[k]) \in Nat /\ PieceLimit(ops[k]) \in Nat
  BY <1>1, Sizes, PieceLimits
<1> QED
  BY <1>2, <1>3

LEMMA JoinAddsPieces == TranscoderInv /\ PiecesInv /\ JoinAdds => PiecesInv'
<1> SUFFICES ASSUME TranscoderInv, PiecesInv, JoinAdds PROVE PiecesInv'
  OBVIOUS
<1> DEFINE a == ops[i]
           b == ops[i + 1]
           op == Add(a.op.bytes \o b.op.bytes)
<1>1. stage = "adds" /\ i < Len(ops) /\ stage' = stage
  BY DEF JoinAdds
<1>2. i \in 1 .. Len(ops) - 1 /\ ops \in Seq(JoinedOp) /\ a \in JoinedOp /\ b \in JoinedOp
  BY <1>1, TwoNeighbours
<1>3. CASE is_add(a.op) /\ is_add(b.op) /\ ops' = Joined(op) /\ i' = i + 2
  <2>1. BeingJoined(a) /\ BeingJoined(b) /\ ~ is_run(a.op) /\ ~ is_run(b.op)
    BY <1>1, <1>3 DEF BeingJoined, is_run, is_add
  <2>2. SizeOf(a) <= MAX_INST_SIZE /\ SizeOf(b) <= MAX_INST_SIZE
          /\ SizeOf(a) \in Nat /\ SizeOf(b) \in Nat
    <3>1. i \in 1 .. Len(ops) /\ i + 1 \in 1 .. Len(ops) /\ i >= i /\ i + 1 >= i
      BY <1>2
    <3> QED
      BY <2>1, <3>1, NotPassed, PieceLimits
  <2>3. ops'[i].op = op /\ ops'[i + 1].op = Add(<<>>)
    BY <1>2, <1>3, JoinedPair
  <2>4. is_add(op) /\ ~ is_run(op) /\ is_add(Add(<<>>)) /\ Add(<<>>).bytes = <<>>
          /\ op.bytes = a.op.bytes \o b.op.bytes
    BY DEF is_add, is_run, Add
  <2>5. SizeOf(ops'[i]) = SizeOf(a) + SizeOf(b)
    <3>1. a.op.bytes \in Seq(Byte) /\ b.op.bytes \in Seq(Byte)
      BY <1>2, <1>3 DEF JoinedOp, is_add, AddOps, CopyOps
    <3>2. Len(op.bytes) = Len(a.op.bytes) + Len(b.op.bytes)
      BY <2>4, <3>1, ConcatProperties
    <3> HIDE DEF op
    <3> QED
      BY <1>3, <2>3, <2>4, <3>2 DEF SizeOf
  <2>6. SizeOf(ops'[i + 1]) = 0
    BY <2>3, <2>4 DEF SizeOf
  <2>7. PieceLimit(ops'[i]) = MAX_INST_SIZE
    BY <2>3, <2>4, PieceLimits
  <2>8. SizeOf(ops'[i]) <= 2 * PieceLimit(ops'[i])
    BY <2>2, <2>5, <2>7, Limits
  <2>9. TwoPieces(ops'[i], ops'[i + 1])
    BY <2>3, <2>4, <2>6, <2>8 DEF TwoPieces
  <2> HIDE DEF op
  <2> QED
    BY <1>1, <1>2, <1>3, <2>1, <2>9, JoinKeepsPieces
<1>4. CASE ops' = ops /\ i' \in {i + 1, i + 2}
  BY <1>1, <1>4, PassKeepsPieces
<1>5. \/ is_add(a.op) /\ is_add(b.op) /\ ops' = Joined(op) /\ i' = i + 2
      \/ ops' = ops /\ i' \in {i + 1, i + 2}
  BY DEF JoinAdds
<1> QED
  BY <1>3, <1>4, <1>5

LEMMA JoinRunsPieces == TranscoderInv /\ PiecesInv /\ JoinRuns => PiecesInv'
<1> SUFFICES ASSUME TranscoderInv, PiecesInv, JoinRuns PROVE PiecesInv'
  OBVIOUS
<1> DEFINE a == ops[i]
           b == ops[i + 1]
           op == Run(a.op.byte, a.op.len + b.op.len)
<1>1. stage = "runs" /\ i < Len(ops) /\ stage' = stage
  BY DEF JoinRuns
<1>2. i \in 1 .. Len(ops) - 1 /\ ops \in Seq(JoinedOp) /\ a \in JoinedOp /\ b \in JoinedOp
  BY <1>1, TwoNeighbours
<1>3. CASE is_run(a.op) /\ is_run(b.op) /\ ops' = Joined(op) /\ i' = i + 2
  <2>1. BeingJoined(a) /\ BeingJoined(b) /\ ~ is_add(a.op) /\ ~ is_add(b.op)
    BY <1>1, <1>3 DEF BeingJoined, is_run, is_add
  <2>2. SizeOf(a) <= MAX_RUN_LEN /\ SizeOf(b) <= MAX_RUN_LEN
          /\ SizeOf(a) \in Nat /\ SizeOf(b) \in Nat
    <3>1. i \in 1 .. Len(ops) /\ i + 1 \in 1 .. Len(ops) /\ i >= i /\ i + 1 >= i
      BY <1>2
    <3> QED
      BY <1>3, <2>1, <3>1, NotPassed, PieceLimits
  <2>3. ops'[i].op = op /\ ops'[i + 1].op = Run(b.op.byte, 0)
    BY <1>2, <1>3, <2>1, JoinedPair
  <2>4. /\ is_run(op) /\ ~ is_add(op) /\ op.len = a.op.len + b.op.len
        /\ is_run(Run(b.op.byte, 0)) /\ ~ is_add(Run(b.op.byte, 0)) /\ Run(b.op.byte, 0).len = 0
    BY DEF is_add, is_run, Run
  <2>5. SizeOf(ops'[i]) = SizeOf(a) + SizeOf(b) /\ SizeOf(ops'[i + 1]) = 0
    BY <2>1, <2>3, <2>4 DEF SizeOf
  <2>6. PieceLimit(ops'[i]) = MAX_RUN_LEN
    BY <2>3, <2>4, PieceLimits
  <2>7. SizeOf(ops'[i]) <= 2 * PieceLimit(ops'[i])
    BY <2>2, <2>5, <2>6, Limits
  <2>8. TwoPieces(ops'[i], ops'[i + 1])
    BY <2>3, <2>4, <2>5, <2>7 DEF TwoPieces
  <2> HIDE DEF op
  <2> QED
    BY <1>1, <1>2, <1>3, <2>1, <2>8, JoinKeepsPieces
<1>4. CASE ops' = ops /\ i' \in {i + 1, i + 2}
  BY <1>1, <1>4, PassKeepsPieces
<1>5. \/ is_run(a.op) /\ is_run(b.op) /\ ops' = Joined(op) /\ i' = i + 2
      \/ ops' = ops /\ i' \in {i + 1, i + 2}
  BY DEF JoinRuns
<1> QED
  BY <1>3, <1>4, <1>5

(* A piece made: the operation is passed with its last one, which is its    *)
(* first or its second.                                                     *)
LEMMA EmitCounts ==
    ASSUME TranscoderInv, PiecesInv, CountInv, Converting, NEW op, Emit(op), NEW n \in Nat,
           SizeOf([at |-> ops[i].at + processed, op |-> op]) = n,
           is_copy(ops[i].op) \/ SizeOf(ops[i]) > 0,
           processed + n < SizeOf(ops[i]) => n = PieceLimit(ops[i])
    PROVE  PiecesInv' /\ CountInv'
<1> DEFINE size == SizeOf(ops[i])
           limit == PieceLimit(ops[i])
           made == Len(out_ops)
<1>1. /\ stage' = stage /\ ops' = ops
      /\ out_ops' = Append(out_ops, [at |-> ops[i].at + processed, op |-> op])
      /\ processed' = (IF processed + n < size THEN processed + n ELSE 0)
      /\ i' = (IF processed + n < size THEN i ELSE i + 1)
  BY DEF Emit
<1>2. /\ i \in 1 .. Len(ops) /\ size \in Nat /\ processed \in Nat
      /\ processed > 0 => processed < size
  BY AtHand
<1>3. stage = "convert" /\ Len(ops) \in Nat /\ made \in Nat /\ Len(out_ops') = made + 1
  BY <1>1 DEF Converting, TranscoderInv, TranscoderTypeOK
<1>4. limit \in Nat /\ limit > 0
  BY PieceLimits
<1>5. IF processed > 0 THEN made <= i /\ processed = limit
      ELSE \/ made <= i - 1
           \/ made <= i /\ i <= Len(ops) /\ ~ is_copy(ops[i].op) /\ size = 0
  BY <1>3 DEF CountInv
<1>6. size > limit => i + 1 <= Len(ops) /\ TwoPieces(ops[i], ops[i + 1])
  BY <1>2 DEF PiecesInv
<1>7. PiecesInv'
  BY <1>1, PassKeepsPieces
<1> HIDE DEF size, limit, made
<1>8. IF processed' > 0 THEN made + 1 <= i' /\ processed' = PieceLimit(ops'[i'])
      ELSE \/ made + 1 <= i' - 1
           \/ /\ made + 1 <= i' /\ i' <= Len(ops')
              /\ ~ is_copy(ops'[i'].op) /\ SizeOf(ops'[i']) = 0
  <2>1. CASE processed = 0
    <3>1. made <= i - 1
      BY <1>2, <1>3, <1>5, <2>1 DEF size
    <3>2. CASE n < size
      <4>1. i' = i /\ processed' = n /\ n = limit /\ made + 1 <= i
        BY <1>1, <1>2, <1>3, <2>1, <3>1, <3>2 DEF size, limit
      <4> QED
        BY <1>1, <1>4, <4>1 DEF limit
    <3>3. CASE ~ (n < size)
      <4>1. i' = i + 1 /\ processed' = 0 /\ made + 1 <= i' - 1
        BY <1>1, <1>2, <1>3, <2>1, <3>1, <3>3
      <4> QED
        BY <4>1
    <3> QED
      BY <3>2, <3>3
  <2>2. CASE processed > 0
    <3>1. processed = limit /\ made <= i /\ processed < size
      BY <1>2, <1>5, <2>2
    <3>2. i + 1 <= Len(ops) /\ TwoPieces(ops[i], ops[i + 1])
      BY <1>2, <1>4, <1>6, <3>1
    <3>3. size <= 2 * limit /\ SizeOf(ops[i + 1]) = 0 /\ ~ is_copy(ops[i + 1].op)
      BY <3>2 DEF TwoPieces, size, limit, is_add, is_run, is_copy
    <3>4. ~ (processed + n < size)
      <4>1. processed + n < size => n = limit
        BY DEF size, limit
      <4> QED
        BY <1>2, <1>4, <3>1, <3>3, <4>1
    <3>5. processed' = 0 /\ i' = i + 1 /\ ops' = ops
      BY <1>1, <3>4
    <3>6. made + 1 <= i'
      BY <1>2, <1>3, <3>1, <3>5
    <3> QED
      BY <3>2, <3>3, <3>5, <3>6
  <2> QED
    BY <1>2, <2>1, <2>2
<1>9. CountInv'
  BY <1>1, <1>3, <1>8 DEF CountInv
<1> QED
  BY <1>7, <1>9

LEMMA ConvertCopyCounts ==
    TranscoderInv /\ PiecesInv /\ CountInv /\ ConvertCopy => PiecesInv' /\ CountInv'
<1> SUFFICES ASSUME TranscoderInv, PiecesInv, CountInv, ConvertCopy
             PROVE  PiecesInv' /\ CountInv'
  OBVIOUS
<1>1. Converting /\ is_copy(ops[i].op) /\ Emit(ops[i].op)
  BY DEF ConvertCopy
<1>2. SizeOf(ops[i]) \in Nat /\ processed \in Nat
  BY <1>1, AtHand
<1>3. SizeOf([at |-> ops[i].at + processed, op |-> ops[i].op]) = SizeOf(ops[i])
  BY DEF SizeOf
<1>4. ~ (processed + SizeOf(ops[i]) < SizeOf(ops[i]))
  BY <1>2
<1> QED
  BY <1>1, <1>2, <1>3, <1>4, EmitCounts

LEMMA MakeAddOpCounts ==
    TranscoderInv /\ PiecesInv /\ CountInv /\ MakeAddOp => PiecesInv' /\ CountInv'
<1> SUFFICES ASSUME TranscoderInv, PiecesInv, CountInv, MakeAddOp
             PROVE  PiecesInv' /\ CountInv'
  OBVIOUS
<1> DEFINE bytes == ops[i].op.bytes
           size == Smaller(Len(bytes) - processed, MAX_INST_SIZE)
           single == Run(bytes[1], 1)
           part == Add(SubSeq(bytes, processed + 1, processed + size))
           at == ops[i].at + processed
<1>1. Converting /\ is_add(ops[i].op) /\ SizeOf(ops[i]) > 0
        /\ Emit(IF Len(bytes) = 1 THEN single ELSE part)
  BY DEF MakeAddOp
<1>2. /\ processed \in Nat /\ ops[i] \in JoinedOp /\ SizeOf(ops[i]) \in Nat
      /\ processed > 0 => processed < SizeOf(ops[i])
  BY <1>1, AtHand
<1>3. SizeOf(ops[i]) = Len(bytes) /\ bytes \in Seq(Byte) /\ ~ is_run(ops[i].op)
  BY <1>1, <1>2 DEF is_add, is_run, SizeOf, JoinedOp, AddOps, CopyOps
<1>4. PieceLimit(ops[i]) = MAX_INST_SIZE
  BY <1>3, PieceLimits
<1>5. CASE Len(bytes) = 1
  <2>1. SizeOf([at |-> at, op |-> single]) = 1
    BY DEF SizeOf, Run, is_add
  <2>2. ~ (processed + 1 < SizeOf(ops[i]))
    BY <1>2, <1>3, <1>5
  <2>3. Emit(single)
    BY <1>1, <1>5
  <2> HIDE DEF single
  <2> QED
    BY <1>1, <2>1, <2>2, <2>3, EmitCounts
<1>6. CASE Len(bytes) # 1
  <2> DEFINE len == Len(bytes)
  <2>1. len \in Nat /\ processed < len /\ SizeOf(ops[i]) = len /\ len > 0
    BY <1>1, <1>2, <1>3
  <2>2. size = Smaller(len - processed, MAX_INST_SIZE)
    OBVIOUS
  <2> HIDE DEF len, size
  <2>3. /\ size \in Nat /\ processed + size <= len
        /\ processed + size < len => size = MAX_INST_SIZE
    BY <1>2, <2>1, <2>2, Limits DEF Smaller
  <2>4. SizeOf([at |-> at, op |-> part]) = size
    <3>1. Len(SubSeq(bytes, processed + 1, processed + size)) = size
      <4> HIDE DEF bytes
      <4>1. processed + 1 \in 1 .. len + 1 /\ processed + size \in processed .. len
        BY <1>2, <2>1, <2>3
      <4> QED
        BY <1>2, <1>3, <2>1, <2>3, <4>1 DEF len
    <3> QED
      BY <3>1 DEF SizeOf, Add, is_add
  <2>5. Emit(part)
    BY <1>1, <1>6
  <2>6. processed + size < SizeOf(ops[i]) => size = PieceLimit(ops[i])
    BY <1>4, <2>1, <2>3
  <2> HIDE DEF part
  <2> QED
    BY <1>1, <2>3, <2>4, <2>5, <2>6, EmitCounts
<1> QED
  BY <1>5, <1>6

LEMMA MakeRunOpCounts ==
    TranscoderInv /\ PiecesInv /\ CountInv /\ MakeRunOp => PiecesInv' /\ CountInv'
<1> SUFFICES ASSUME TranscoderInv, PiecesInv, CountInv, MakeRunOp
             PROVE  PiecesInv' /\ CountInv'
  OBVIOUS
<1> DEFINE byte == ops[i].op.byte
           size == Smaller(ops[i].op.len - processed, MAX_RUN_LEN)
           part == Run(byte, size)
           at == ops[i].at + processed
<1>1. Converting /\ is_run(ops[i].op) /\ SizeOf(ops[i]) > 0 /\ Emit(part)
  BY DEF MakeRunOp
<1>2. /\ processed \in Nat /\ SizeOf(ops[i]) \in Nat
      /\ processed > 0 => processed < SizeOf(ops[i])
  BY <1>1, AtHand
<1>3. SizeOf(ops[i]) = ops[i].op.len
  BY <1>1 DEF is_add, is_run, SizeOf
<1>4. PieceLimit(ops[i]) = MAX_RUN_LEN
  BY <1>1, PieceLimits
<1>5. SizeOf([at |-> at, op |-> part]) = size
  BY DEF SizeOf, Run, is_add
<1>6. /\ size \in Nat
      /\ processed + size < SizeOf(ops[i]) => size = PieceLimit(ops[i])
  <2> DEFINE len == SizeOf(ops[i])
  <2>1. len \in Nat /\ len > 0 /\ size = Smaller(len - processed, MAX_RUN_LEN)
          /\ (processed > 0 => processed < len)
    BY <1>1, <1>2, <1>3
  <2> HIDE DEF len, size
  <2>2. size \in Nat /\ (processed + size < len => size = MAX_RUN_LEN)
    BY <1>2, <2>1, Limits DEF Smaller
  <2> QED
    BY <1>4, <2>2 DEF len
<1> HIDE DEF part, size
<1> QED
  BY <1>1, <1>5, <1>6, EmitCounts

LEMMA NextCounts ==
    TranscoderInv /\ PiecesInv /\ CountInv /\ [TranscoderNext]_transcoderVars
        => PiecesInv' /\ CountInv'
<1> SUFFICES ASSUME TranscoderInv, PiecesInv, CountInv, [TranscoderNext]_transcoderVars
             PROVE  PiecesInv' /\ CountInv'
  OBVIOUS
<1>1. CASE JoinAdds
  <2>1. CountInv'
    BY <1>1 DEF JoinAdds, CountInv
  <2> QED
    BY <1>1, <2>1, JoinAddsPieces
<1>2. CASE JoinRuns
  <2>1. CountInv'
    BY <1>2 DEF JoinRuns, CountInv
  <2> QED
    BY <1>2, <2>1, JoinRunsPieces
<1>3. ASSUME UNCHANGED <<ops, processed, out_ops>>, stage \in {"adds", "runs"},
             \/ stage' = "panic" /\ i' = i
             \/ stage = "adds" /\ stage' = "runs" /\ i' = 1
             \/ stage = "runs" /\ stage' = "convert" /\ i' = 1
      PROVE  PiecesInv' /\ CountInv'
  <2>1. out_ops = <<>> /\ processed = 0 /\ Len(ops) \in Nat /\ Len(<<>>) = 0
    BY <1>3 DEF CountInv, TranscoderInv, TranscoderTypeOK, PartConverted
  <2>2. CountInv'
    BY <1>3, <2>1 DEF CountInv
  <2>3. PiecesInv'
    <3> SUFFICES ASSUME NEW k \in 1 .. Len(ops), SizeOf(ops[k]) > PieceLimit(ops[k])
                 PROVE  /\ k + 1 <= Len(ops) /\ TwoPieces(ops[k], ops[k + 1])
                        /\ ~ BeingJoined(ops[k])'
      BY <1>3 DEF PiecesInv
    <3>1. k + 1 <= Len(ops) /\ TwoPieces(ops[k], ops[k + 1])
      BY DEF PiecesInv
    <3>2. CASE stage' # "runs"
      BY <1>3, <3>1, <3>2 DEF BeingJoined
    <3>3. CASE stage' = "runs"
      <4>1. stage = "adds"
        BY <1>3, <3>3
      <4>2. is_run(ops[k].op) => ops[k].op.len <= MAX_RUN_LEN
        BY <4>1 DEF TranscoderInv, NotJoinedYet
      <4>3. SizeOf(ops[k]) \in Nat
        BY Sizes DEF TranscoderInv, TranscoderTypeOK
      <4>4. ~ is_run(ops[k].op)
        <5> SUFFICES ASSUME is_run(ops[k].op) PROVE FALSE
          OBVIOUS
        <5>1. SizeOf(ops[k]) <= MAX_RUN_LEN
          BY <4>2 DEF SizeOf, is_run, is_add
        <5> QED
          BY <4>3, <5>1, PieceLimits, Limits
      <4> QED
        BY <1>3, <3>1, <3>3, <4>4 DEF BeingJoined
    <3> QED
      BY <3>2, <3>3
  <2> QED
    BY <2>2, <2>3
<1>4. CASE PanicEmpty \/ AddsJoined \/ RunsJoined
  <2>1. /\ UNCHANGED <<ops, processed, out_ops>> /\ stage \in {"adds", "runs"}
        /\ \/ stage' = "panic" /\ i' = i
           \/ stage = "adds" /\ stage' = "runs" /\ i' = 1
           \/ stage = "runs" /\ stage' = "convert" /\ i' = 1
    BY <1>4 DEF PanicEmpty, AddsJoined, RunsJoined
  <2> QED
    BY <2>1, <1>3
<1>5. CASE SkipEmpty
  <2>1. /\ Converting /\ ~ is_copy(ops[i].op) /\ SizeOf(ops[i]) = 0 /\ i' = i + 1
        /\ UNCHANGED <<ops, processed, out_ops, stage>>
    BY <1>5 DEF SkipEmpty
  <2>2. processed = 0 /\ i \in 1 .. Len(ops) /\ stage = "convert"
    BY <2>1, AtHand DEF Converting
  <2>3. Len(out_ops) \in Nat /\ Len(ops) \in Nat
    BY DEF TranscoderInv, TranscoderTypeOK
  <2>4. Len(out_ops) <= i' - 1
    BY <2>1, <2>2, <2>3 DEF CountInv
  <2>5. CountInv'
    BY <2>1, <2>2, <2>4 DEF CountInv
  <2> QED
    BY <2>1, <2>5, PassKeepsPieces
<1>6. CASE FinishTranscoder
  <2>1. stage = "convert" /\ stage' = "done" /\ UNCHANGED <<ops, i, processed, out_ops>>
    BY <1>6 DEF FinishTranscoder
  <2>2. CountInv'
    BY <2>1 DEF CountInv
  <2> QED
    BY <2>1, <2>2 DEF PiecesInv, BeingJoined
<1>7. CASE UNCHANGED transcoderVars
  BY <1>7 DEF transcoderVars, PiecesInv, BeingJoined, CountInv
<1> QED
  BY <1>1, <1>2, <1>4, <1>5, <1>6, <1>7, ConvertCopyCounts, MakeAddOpCounts, MakeRunOpCounts
     DEF TranscoderNext

(* No patch has more operations than it had: two that were joined are cut   *)
(* into two at most, and nothing else is cut (make_add_ops, make_run_ops).  *)
THEOREM CountCorrect == TranscoderSpec => []NotMoreOps
<1>1. TranscoderInv /\ CountInv => NotMoreOps
  <2> SUFFICES ASSUME TranscoderInv, CountInv PROVE Len(out_ops) <= Len(given.ops)
    BY DEF NotMoreOps
  <2>1. /\ Len(ops) = Len(given.ops) /\ Len(ops) \in Nat /\ i \in 1 .. Len(ops) + 1
        /\ Len(out_ops) \in Nat /\ processed \in Nat /\ Len(<<>>) = 0
        /\ processed > 0 => i <= Len(ops)
    BY DEF TranscoderInv, TranscoderTypeOK, PartConverted
  <2> QED
    BY <2>1 DEF CountInv
<1> QED
  BY <1>1, InvCorrect, InitCounts, NextCounts, PTL DEF TranscoderSpec
=============================================================================
