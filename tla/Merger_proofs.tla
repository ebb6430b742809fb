---------------------------- MODULE Merger_proofs ----------------------------
(***************************************************************************)
(* Merged from the last to the first, patches of any number and length     *)
(* make the last file, byte for byte, and nothing that the merger unwraps  *)
(* is missing.                                                             *)
(***************************************************************************)
EXTENDS Merger, Lemmas

(* The files before and after the patch at hand, and the last one. *)
Src == chain.files[left + 1]
Mid == chain.files[left + 2]
Final == chain.files[Len(chain.files)]

(* An operation of a patch, and one that reads no output. *)
Good(s, src, out) ==
    /\ s \in SparseOp /\ SizeOf(s) > 0
    /\ is_add(s.op) => Len(s.op.bytes) <= MAX_INST_SIZE
    /\ Yields(s, src, out)
Flat(s, src, out) == Good(s, src, out) /\ ~ is_copy_from(s.op, "Output")

AllGood(list, src, out) == \A k \in 1 .. Len(list) : Good(list[k], src, out)
AllFlat(list, src, out) == \A k \in 1 .. Len(list) : Flat(list[k], src, out)
Whole(list, src, out) == Row(list, 0, Len(out)) /\ AllFlat(list, src, out)

Moved(s, by) == [at |-> s.at + by, op |-> s.op]

-----------------------------------------------------------------------------
LEMMA Limits ==
    /\ MAX_RUN_LEN \in Nat /\ MAX_RUN_LEN > 0
    /\ MAX_INST_SIZE \in Nat /\ MAX_RUN_LEN < MAX_INST_SIZE
BY LimitsAssumption DEF LimitsAssumption

LEMMA Kinds ==
    ASSUME NEW op \in Op
    PROVE  /\ is_add(op) => /\ ~ is_run(op) /\ ~ is_copy(op) /\ op \in AddOps
                            /\ op.bytes \in Seq(Byte) /\ Len(op.bytes) \in Nat
           /\ is_run(op) => /\ ~ is_add(op) /\ ~ is_copy(op) /\ op \in RunOps
                            /\ op.byte \in Byte /\ op.len \in 0 .. MAX_RUN_LEN
           /\ is_copy(op) => /\ ~ is_add(op) /\ ~ is_run(op) /\ op \in CopyOps
                             /\ op.src \in CopySrc /\ op.addr \in Nat
                             /\ op.len \in 0 .. MAX_INST_SIZE
           /\ is_add(op) \/ is_run(op) \/ is_copy(op)
<1>1. CASE op \in AddOps
  BY <1>1 DEF AddOps, is_add, is_run, is_copy
<1>2. CASE op \in RunOps
  BY <1>2 DEF RunOps, is_add, is_run, is_copy
<1>3. CASE op \in CopyOps
  BY <1>3 DEF CopyOps, is_add, is_run, is_copy
<1> QED
  BY <1>1, <1>2, <1>3 DEF Op

LEMMA Sizes ==
    ASSUME NEW s \in SparseOp
    PROVE  /\ s.at \in Nat /\ s.op \in Op /\ SizeOf(s) \in Nat /\ EndOf(s) \in Nat
           /\ EndOf(s) = s.at + SizeOf(s)
           /\ ~ is_add(s.op) => SizeOf(s) = s.op.len /\ SizeOf(s) <= MAX_INST_SIZE
           /\ is_add(s.op) => SizeOf(s) = Len(s.op.bytes)
           /\ s = [at |-> s.at, op |-> s.op]
<1>1. s.at \in Nat /\ s.op \in Op /\ s = [at |-> s.at, op |-> s.op]
  BY DEF SparseOp
<1>2. is_add(s.op) => SizeOf(s) = Len(s.op.bytes) /\ Len(s.op.bytes) \in Nat
  BY <1>1, Kinds DEF SizeOf
<1>3. ~ is_add(s.op) => SizeOf(s) = s.op.len
  BY DEF SizeOf
<1>4. ~ is_add(s.op) => s.op.len \in Nat /\ s.op.len <= MAX_INST_SIZE
  <2>1. is_run(s.op) => s.op.len \in Nat /\ s.op.len <= MAX_INST_SIZE
    BY <1>1, Kinds, Limits
  <2>2. is_copy(s.op) => s.op.len \in Nat /\ s.op.len <= MAX_INST_SIZE
    BY <1>1, Kinds, Limits
  <2> QED
    BY <1>1, <2>1, <2>2, Kinds
<1>5. SizeOf(s) \in Nat
  BY <1>2, <1>3, <1>4
<1>6. EndOf(s) = s.at + SizeOf(s)
  BY DEF EndOf
<1> QED
  BY <1>1, <1>2, <1>3, <1>4, <1>5, <1>6

LEMMA GoodFacts ==
    ASSUME NEW s, NEW src, NEW out, Good(s, src, out)
    PROVE  /\ s \in SparseOp /\ s.at \in Nat /\ s.op \in Op /\ SizeOf(s) \in Nat /\ SizeOf(s) > 0
           /\ EndOf(s) = s.at + SizeOf(s) /\ EndOf(s) \in Nat /\ EndOf(s) <= Len(out)
           /\ oal(s.op) = SizeOf(s)
<1>1. s \in SparseOp /\ SizeOf(s) > 0 /\ EndOf(s) <= Len(out)
  BY DEF Good, Yields
<1>2. oal(s.op) = SizeOf(s)
  <2>1. CASE is_add(s.op)
    <3> DEFINE n == Len(s.op.bytes)
    <3>1. n \in Nat /\ n <= MAX_INST_SIZE
      BY <1>1, <2>1, Sizes DEF Good
    <3>2. oal(s.op) = n % (MAX_INST_SIZE + 1) /\ SizeOf(s) = n
      BY <2>1 DEF oal, SizeOf
    <3> HIDE DEF n
    <3>3. n % (MAX_INST_SIZE + 1) = n
      BY <3>1, Limits
    <3> QED
      BY <3>2, <3>3
  <2>2. CASE ~ is_add(s.op)
    BY <2>2 DEF oal, SizeOf
  <2> QED
    BY <2>1, <2>2
<1> QED
  BY <1>1, <1>2, Sizes

(* What a flat operation makes does not depend on its place. *)
LEMMA FlatMoves ==
    ASSUME NEW s, NEW src, NEW mid, NEW out, Flat(s, src, mid), NEW by \in Int,
           s.at + by \in Nat, s.at + by + SizeOf(s) <= Len(out),
           \A j \in 1 .. SizeOf(s) : out[s.at + by + j] = mid[s.at + j]
    PROVE  Flat(Moved(s, by), src, out) /\ SizeOf(Moved(s, by)) = SizeOf(s)
<1> DEFINE t == Moved(s, by)
           byte(j) == IF is_add(s.op) THEN s.op.bytes[j]
                      ELSE IF is_run(s.op) THEN s.op.byte
                      ELSE src[s.op.addr + j]
<1>1. t.at = s.at + by /\ t.op = s.op
  BY DEF Moved
<1>2. s \in SparseOp /\ SizeOf(s) > 0 /\ s.op \in Op /\ SizeOf(s) \in Nat
  BY GoodFacts DEF Flat
<1>3. SizeOf(t) = SizeOf(s)
  BY <1>1 DEF SizeOf
<1>4. t \in SparseOp
  BY <1>1, <1>2 DEF Moved, SparseOp
<1>5. EndOf(t) <= Len(out)
  BY <1>1, <1>3 DEF EndOf
<1>6. is_copy(s.op) => s.op.src = "Dict"
  BY <1>2, Kinds DEF Flat, is_copy_from, CopySrc
<1>7. is_copy(s.op) => s.op.addr + s.op.len <= Len(src)
  BY <1>6 DEF Flat, Good, Yields, CopiedFrom
<1>8. \A j \in 1 .. SizeOf(s) : byte(j) = mid[s.at + j]
  <2>1. CASE is_copy(s.op)
    BY <1>6, <2>1 DEF Flat, Good, Yields, CopiedFrom
  <2>2. CASE ~ is_copy(s.op)
    BY <1>2, <2>2, Kinds DEF Flat, Good, Yields
  <2> QED
    BY <2>1, <2>2
<1>9. \A j \in 1 .. SizeOf(t) : byte(j) = out[t.at + j]
  BY <1>1, <1>3, <1>8
<1>10. Yields(t, src, out)
  <2>1. CASE is_copy(s.op)
    <3>1. CopiedFrom(t.op, src, out) = src /\ ~ is_copy_from(t.op, "Output")
      BY <1>1, <1>6, <2>1 DEF CopiedFrom, is_copy_from
    <3>2. ~ is_add(s.op) /\ ~ is_run(s.op)
      BY <1>2, <2>1, Kinds
    <3> HIDE DEF t
    <3> QED
      BY <1>1, <1>5, <1>7, <1>9, <3>1, <3>2 DEF Yields
  <2>2. CASE ~ is_copy(s.op)
    <3>1. is_add(s.op) \/ is_run(s.op)
      BY <1>2, <2>2, Kinds
    <3> HIDE DEF t
    <3> QED
      BY <1>1, <1>5, <1>9, <2>2, <3>1 DEF Yields, is_copy_from
  <2> QED
    BY <2>1, <2>2
<1>11. Good(t, src, out)
  <2> HIDE DEF t
  <2> QED
    BY <1>1, <1>2, <1>3, <1>4, <1>10 DEF Good, Flat
<1>12. ~ is_copy_from(t.op, "Output")
  BY <1>1 DEF Flat
<1> QED
  BY <1>3, <1>11, <1>12 DEF Flat

(* An operation shortened at its front and at its back. *)
Cut(op, front, back) == trunc(skip(op, front), back)
PartOf(part, whole, front) ==
    \A j \in 1 .. Len(part) : part[j] = whole[front + j]

LEMMA CutAdd ==
    ASSUME NEW op \in Op, is_add(op), NEW front \in Nat, NEW back \in Nat,
           front + back < Len(op.bytes), NEW c, c = Cut(op, front, back)
    PROVE  /\ c \in Op /\ is_add(c) /\ c.bytes \in Seq(Byte)
           /\ Len(c.bytes) = Len(op.bytes) - front - back
           /\ PartOf(c.bytes, op.bytes, front)
<1> DEFINE b == op.bytes
           n == Len(b)
           tail == SubSeq(b, front + 1, n)
           part == SubSeq(tail, 1, Len(tail) - back)
<1>1. b \in Seq(Byte) /\ n \in Nat /\ op \in AddOps
  BY Kinds
<1>2. front + 1 \in 1 .. n + 1 /\ n \in front .. n
  BY <1>1
<1>3. tail \in Seq(Byte) /\ Len(tail) = n - front
  BY <1>1, <1>2
<1>4. \A j \in 1 .. n - front : tail[j] = b[front + j]
  BY <1>1, <1>2
<1> HIDE DEF tail, n, b
<1>5. Len(tail) - back \in 1 .. Len(tail) /\ Len(tail) \in Nat /\ n - front - back \in Nat
        /\ n - front - back <= n - front /\ Len(tail) - back = n - front - back
  BY <1>1, <1>3 DEF n, b
<1>6. part \in Seq(Byte) /\ Len(part) = n - front - back /\ \A j \in 1 .. Len(part) : part[j] = tail[j]
  BY <1>3, <1>5
<1>7. c = [op EXCEPT !.bytes = part]
  <2>1. skip(op, front) = [op EXCEPT !.bytes = tail]
    BY DEF skip, tail, n, b
  <2>2. skip(op, front).op = "Add" /\ skip(op, front).bytes = tail
    BY <1>1, <2>1 DEF AddOps
  <2>3. c = [skip(op, front) EXCEPT !.bytes = part]
    BY <2>2 DEF Cut, trunc, is_add
  <2> QED
    BY <1>1, <2>1, <2>3 DEF AddOps
<1> HIDE DEF part
<1>8. c.bytes = part /\ is_add(c) /\ c \in AddOps
  BY <1>1, <1>6, <1>7 DEF AddOps, is_add
<1>9. \A j \in 1 .. Len(part) : part[j] = b[front + j]
  <2> TAKE j \in 1 .. Len(part)
  <2>1. j \in 1 .. n - front
    BY <1>1, <1>5, <1>6
  <2> QED
    BY <2>1, <1>4, <1>6
<1> QED
  BY <1>6, <1>8, <1>9 DEF Op, n, b, PartOf

LEMMA CutRun ==
    ASSUME NEW op \in Op, is_run(op), NEW front \in Nat, NEW back \in Nat,
           front + back < op.len, NEW c, c = Cut(op, front, back)
    PROVE  /\ c \in Op /\ is_run(c) /\ c.byte = op.byte /\ c.len = op.len - front - back
<1>1. op \in RunOps /\ op.len \in 0 .. MAX_RUN_LEN /\ ~ is_add(op)
  BY Kinds
<1>2. skip(op, front) = [op EXCEPT !.len = op.len - front]
  BY <1>1 DEF skip
<1>3. ~ is_add(skip(op, front)) /\ skip(op, front).len = op.len - front
  BY <1>1, <1>2 DEF RunOps, is_add
<1>4. c = [skip(op, front) EXCEPT !.len = op.len - front - back]
  BY <1>3 DEF Cut, trunc
<1>5. op.len - front - back \in 0 .. MAX_RUN_LEN
  BY <1>1, Limits
<1>6. c = [op EXCEPT !.len = op.len - front - back]
  BY <1>1, <1>2, <1>4 DEF RunOps
<1> QED
  BY <1>1, <1>5, <1>6 DEF RunOps, Op, is_run

LEMMA CutCopy ==
    ASSUME NEW op \in Op, is_copy(op), NEW front \in Nat, NEW back \in Nat,
           front + back < op.len, NEW c, c = Cut(op, front, back)
    PROVE  /\ c \in Op /\ is_copy(c) /\ c.src = op.src /\ c.addr = op.addr + front
           /\ c.len = op.len - front - back
<1>1. op \in CopyOps /\ op.len \in 0 .. MAX_INST_SIZE /\ ~ is_add(op) /\ ~ is_run(op)
        /\ op.addr \in Nat
  BY Kinds
<1>2. skip(op, front) = [op EXCEPT !.addr = op.addr + front, !.len = op.len - front]
  BY <1>1 DEF skip
<1>3. ~ is_add(skip(op, front)) /\ skip(op, front).len = op.len - front
  BY <1>1, <1>2 DEF CopyOps, is_add
<1>4. c = [skip(op, front) EXCEPT !.len = op.len - front - back]
  BY <1>3 DEF Cut, trunc
<1>5. op.len - front - back \in 0 .. MAX_INST_SIZE /\ op.addr + front \in Nat
  BY <1>1, Limits
<1>6. c = [op EXCEPT !.addr = op.addr + front, !.len = op.len - front - back]
  BY <1>1, <1>2, <1>4 DEF CopyOps
<1> QED
  BY <1>1, <1>5, <1>6 DEF CopyOps, Op, is_copy

-----------------------------------------------------------------------------
(* Lists in a row. *)
Later(list) ==
    \A j, k \in 1 .. Len(list) : j < k => EndOf(list[j]) <= list[k].at

LEMMA RowLater ==
    ASSUME NEW list \in Seq(SparseOp), NEW from, NEW to, Row(list, from, to)
    PROVE  Later(list)
<1> SUFFICES ASSUME NEW j \in 1 .. Len(list)
             PROVE  \A k \in 1 .. Len(list) : j < k => EndOf(list[j]) <= list[k].at
  BY DEF Later
<1>1. \A k \in 1 .. Len(list) : /\ list[k] \in SparseOp /\ list[k].at \in Nat
                                /\ EndOf(list[k]) \in Nat /\ list[k].at <= EndOf(list[k])
  <2> SUFFICES ASSUME NEW k \in 1 .. Len(list)
               PROVE  /\ list[k] \in SparseOp /\ list[k].at \in Nat
                      /\ EndOf(list[k]) \in Nat /\ list[k].at <= EndOf(list[k])
    OBVIOUS
  <2>1. list[k] \in SparseOp
    OBVIOUS
  <2> DEFINE s == list[k]
  <2>2. s \in SparseOp
    BY <2>1
  <2> HIDE DEF s
  <2>3. s.at \in Nat /\ EndOf(s) \in Nat /\ EndOf(s) = s.at + SizeOf(s) /\ SizeOf(s) \in Nat
    BY <2>2, Sizes
  <2>4. s.at <= EndOf(s)
    BY <2>3
  <2> QED
    BY <2>1, <2>3, <2>4 DEF s
<1> DEFINE n == Len(list)
           T == {k \in j + 1 .. n : EndOf(list[j]) <= list[k].at}
<1>2. n \in Nat
  OBVIOUS
<1>3. ASSUME j + 1 <= n PROVE j + 1 \in T
  <2>1. j + 1 \in 1 .. Len(list) /\ j + 1 # 1 /\ (j + 1) - 1 = j
    BY <1>2, <1>3
  <2>2. list[j + 1].at = EndOf(list[(j + 1) - 1])
    BY <2>1 DEF Row
  <2> QED
    BY <1>1, <1>2, <1>3, <2>1, <2>2
<1>4. ASSUME NEW p \in (j + 1) + 1 .. n, p - 1 \in T PROVE p \in T
  <2>1. p \in 1 .. Len(list) /\ p # 1 /\ p - 1 \in 1 .. Len(list) /\ p \in j + 1 .. n
    BY <1>2
  <2>2. list[p].at = EndOf(list[p - 1])
    BY <2>1 DEF Row
  <2>3. EndOf(list[j]) <= list[p - 1].at
    BY <1>4
  <2> QED
    BY <1>1, <2>1, <2>2, <2>3
<1>5. j + 1 .. n \subseteq T
  <2>1. j + 1 \in Int /\ n \in Int
    BY <1>2
  <2> HIDE DEF T, n
  <2> QED
    BY <2>1, <1>3, <1>4, Upwards
<1> QED
  <2> SUFFICES ASSUME NEW k \in 1 .. Len(list), j < k PROVE EndOf(list[j]) <= list[k].at
    OBVIOUS
  <2>1. k \in j + 1 .. n
    OBVIOUS
  <2> QED
    BY <1>5, <2>1

(* The operations of a row are between its two places. *)
LEMMA RowBounds ==
    ASSUME NEW list \in Seq(SparseOp), NEW from \in Int, NEW to \in Int, Row(list, from, to)
    PROVE  /\ from <= to
           /\ \A k \in 1 .. Len(list) : from <= list[k].at /\ EndOf(list[k]) <= to
<1>1. Later(list)
  BY RowLater
<1>2. CASE list = <<>>
  BY <1>2 DEF Row
<1>3. CASE list # <<>>
  <2> DEFINE n == Len(list)
  <2>1. n \in Nat /\ n > 0 /\ 1 \in 1 .. n /\ n \in 1 .. n
    BY <1>3
  <2>2. list[1].at = from /\ to = EndOf(list[n])
    BY <1>3, <2>1 DEF Row
  <2>3. ASSUME NEW k \in 1 .. n
        PROVE  /\ list[k] \in SparseOp /\ list[k].at \in Nat /\ EndOf(list[k]) \in Nat
               /\ list[k].at <= EndOf(list[k])
    <3> DEFINE s == list[k]
    <3>1. s \in SparseOp
      OBVIOUS
    <3> HIDE DEF s
    <3>2. s.at \in Nat /\ EndOf(s) \in Nat /\ EndOf(s) = s.at + SizeOf(s) /\ SizeOf(s) \in Nat
      BY <3>1, Sizes
    <3>3. s.at <= EndOf(s)
      BY <3>2
    <3> QED
      BY <3>1, <3>2, <3>3 DEF s
  <2>4. ASSUME NEW k \in 1 .. n PROVE from <= list[k].at /\ EndOf(list[k]) <= to
    <3>1. CASE k = 1
      <4>1. n > 1 => EndOf(list[1]) <= list[n].at
        BY <1>1, <2>1 DEF Later
      <4> QED
        BY <2>1, <2>2, <2>3, <3>1, <4>1
    <3>2. CASE k = n
      <4>1. n > 1 => EndOf(list[1]) <= list[n].at
        BY <1>1, <2>1 DEF Later
      <4> QED
        BY <2>1, <2>2, <2>3, <3>2, <4>1
    <3>3. CASE k > 1 /\ k < n
      <4>1. EndOf(list[1]) <= list[k].at /\ EndOf(list[k]) <= list[n].at
        BY <1>1, <2>1, <3>3 DEF Later
      <4> QED
        BY <2>1, <2>2, <2>3, <4>1
    <3> QED
      BY <2>1, <3>1, <3>2, <3>3
  <2>5. from <= to
    BY <2>1, <2>2, <2>3, <2>4
  <2> QED
    BY <2>4, <2>5
<1> QED
  BY <1>2, <1>3

(* The first operation, and the rest. *)
LEMMA RowTail ==
    ASSUME NEW list \in Seq(SparseOp), list # <<>>, NEW from, NEW to, Row(list, from, to)
    PROVE  /\ Head(list) = list[1] /\ Head(list) \in SparseOp /\ Head(list).at = from
           /\ Tail(list) \in Seq(SparseOp) /\ Len(Tail(list)) = Len(list) - 1
           /\ \A k \in 1 .. Len(Tail(list)) : Tail(list)[k] = list[k + 1]
           /\ Row(Tail(list), EndOf(Head(list)), to)
<1> DEFINE n == Len(list)
           more == Tail(list)
<1>1. n \in Nat /\ n > 0
  OBVIOUS
<1>2. Head(list) = list[1] /\ Head(list) \in SparseOp
  OBVIOUS
<1>3. list[1].at = from
  BY <1>1 DEF Row
<1>4. more \in Seq(SparseOp) /\ Len(more) = n - 1
  OBVIOUS
<1>5. \A k \in 1 .. n - 1 : more[k] = list[k + 1]
  OBVIOUS
<1> HIDE DEF more
<1>6. \A k \in 1 .. Len(more) :
         more[k].at = IF k = 1 THEN EndOf(list[1]) ELSE EndOf(more[k - 1])
  <2> SUFFICES ASSUME NEW k \in 1 .. Len(more)
               PROVE  more[k].at = IF k = 1 THEN EndOf(list[1]) ELSE EndOf(more[k - 1])
    OBVIOUS
  <2>1. k \in 1 .. n - 1 /\ k + 1 \in 1 .. Len(list) /\ k + 1 # 1 /\ (k + 1) - 1 = k
    BY <1>1, <1>4
  <2>2. list[k + 1].at = EndOf(list[(k + 1) - 1])
    BY <2>1 DEF Row
  <2>3. more[k] = list[k + 1]
    BY <1>5, <2>1
  <2>4. k # 1 => k - 1 \in 1 .. n - 1 /\ (k - 1) + 1 = k
    BY <2>1
  <2>5. k # 1 => more[k - 1] = list[k]
    BY <1>5, <2>4
  <2> QED
    BY <2>1, <2>2, <2>3, <2>5
<1>7. to = EndOf(list[n])
  BY DEF Row
<1>8. to = IF more = <<>> THEN EndOf(list[1]) ELSE EndOf(more[Len(more)])
  <2>1. CASE n = 1
    BY <1>4, <1>7, <2>1
  <2>2. CASE n # 1
    <3>1. n - 1 \in 1 .. n - 1 /\ (n - 1) + 1 = n /\ more # <<>>
      BY <1>1, <1>4, <2>2
    <3>2. more[n - 1] = list[n]
      BY <1>5, <3>1
    <3> QED
      BY <1>4, <1>7, <3>1, <3>2
  <2> QED
    BY <2>1, <2>2
<1>9. Row(more, EndOf(Head(list)), to)
  BY <1>2, <1>6, <1>8 DEF Row
<1> QED
  BY <1>2, <1>3, <1>4, <1>5, <1>9 DEF more

LEMMA RowSingle ==
    ASSUME NEW s \in SparseOp
    PROVE  /\ Row(<<s>>, s.at, EndOf(s)) /\ <<s>> \in Seq(SparseOp) /\ Len(<<s>>) = 1
           /\ <<s>>[1] = s
<1>1. Len(<<s>>) = 1 /\ <<s>>[1] = s /\ <<s>> # <<>> /\ <<s>> \in Seq(SparseOp)
  OBVIOUS
<1> QED
  BY <1>1 DEF Row

(* A place of a row is where the next operation begins, or the end. *)
LEMMA RowFirst ==
    ASSUME NEW list \in Seq(SparseOp), NEW from, NEW to, Row(list, from, to)
    PROVE  from = IF list = <<>> THEN to ELSE list[1].at
<1>1. CASE list = <<>>
  BY <1>1 DEF Row
<1>2. CASE list # <<>>
  <2>1. 1 \in 1 .. Len(list)
    BY <1>2
  <2> QED
    BY <1>2, <2>1 DEF Row
<1> QED
  BY <1>1, <1>2

-----------------------------------------------------------------------------
(* get_exact_slice.  It finds all of a range that the list makes. *)
LEMMA CoveredIn ==
    ASSUME NEW list \in Seq(SparseOp), NEW to \in Nat, Row(list, 0, to),
           NEW start \in Nat, NEW len \in Nat, len > 0, start + len <= to
    PROVE  Covered(list, start, len)
<1> DEFINE n == Len(list)
           end(k) == EndOf(list[k])
           A == {k \in 1 .. n : end(k) > start}
           B == {k \in 1 .. n : end(k) >= start + len}
<1>1. n \in Nat /\ n > 0 /\ n \in 1 .. n /\ end(n) = to
  <2>1. list # <<>>
    <3>1. to # 0
      OBVIOUS
    <3> QED
      BY <3>1 DEF Row
  <2> QED
    BY <2>1 DEF Row
<1>2. \A k \in 1 .. n : end(k) \in Nat
  <2> SUFFICES ASSUME NEW k \in 1 .. n PROVE EndOf(list[k]) \in Nat
    OBVIOUS
  <2>1. list[k] \in SparseOp
    OBVIOUS
  <2> QED
    BY <2>1, Sizes
<1>3. list[1].at = 0 /\ \A k \in 2 .. n : list[k].at = end(k - 1)
  <2>1. 1 \in 1 .. Len(list)
    BY <1>1
  <2>2. \A k \in 2 .. n : k \in 1 .. Len(list) /\ k # 1
    BY <1>1
  <2> QED
    BY <2>1, <2>2 DEF Row
<1> HIDE DEF n, end
<1>4. n \in A /\ n \in B /\ A \subseteq Nat /\ B \subseteq Nat
  BY <1>1, <1>2
<1> HIDE DEF A, B
<1>5. PICK first \in A : \A k \in A : first <= k
  <2>1. A # {} /\ A \subseteq Nat
    BY <1>4
  <2> QED
    BY <2>1, LeastElement
<1>6. PICK last \in B : \A k \in B : last <= k
  <2>1. B # {} /\ B \subseteq Nat
    BY <1>4
  <2> QED
    BY <2>1, LeastElement
<1>7. first \in 1 .. n /\ end(first) > start /\ last \in 1 .. n /\ end(last) >= start + len
  BY DEF A, B
<1>8. \A k \in 1 .. n : k < first => end(k) <= start
  <2> SUFFICES ASSUME NEW k \in 1 .. n, k < first PROVE end(k) <= start
    OBVIOUS
  <2>1. k \notin A
    BY <1>5, <1>7
  <2> QED
    BY <2>1, <1>2 DEF A
<1>9. \A k \in 1 .. n : k < last => end(k) < start + len
  <2> SUFFICES ASSUME NEW k \in 1 .. n, k < last PROVE end(k) < start + len
    OBVIOUS
  <2>1. k \notin B
    BY <1>6, <1>7
  <2> QED
    BY <2>1, <1>2 DEF B
<1>10. first <= last
  <2>1. end(last) > start
    BY <1>2, <1>7
  <2>2. last \in A
    BY <1>7, <2>1 DEF A
  <2> QED
    BY <1>5, <2>2
<1>11. list[first].at <= start
  <2>1. CASE first = 1
    BY <1>3, <2>1
  <2>2. CASE first # 1
    <3>1. first \in 2 .. n /\ first - 1 \in 1 .. n /\ first - 1 < first
      BY <1>1, <1>7, <2>2
    <3>2. end(first - 1) <= start
      BY <1>8, <3>1
    <3> QED
      BY <1>3, <3>1, <3>2
  <2> QED
    BY <2>1, <2>2
<1>12. first \in find_controlling_op(list, start)
  BY <1>7, <1>11 DEF find_controlling_op, n, end
<1>13. last \in first .. n
  BY <1>1, <1>7, <1>10
<1>14. \A k \in first .. last - 1 : end(k) < start + len
  <2> SUFFICES ASSUME NEW k \in first .. last - 1 PROVE end(k) < start + len
    OBVIOUS
  <2>1. k \in 1 .. n /\ k < last
    BY <1>1, <1>7
  <2> QED
    BY <1>9, <2>1
<1>15. Covers(list, start, len, first, last)
  BY <1>7, <1>12, <1>13, <1>14 DEF Covers, n, end
<1> QED
  BY <1>7, <1>15 DEF Covered, n

(* An operation cut to a range that it has bytes of makes those bytes. *)
LEMMA ClipFlat ==
    ASSUME NEW s, NEW src \in Seq(Byte), NEW out \in Seq(Byte), Flat(s, src, out),
           NEW start \in Nat, NEW end \in Nat, start < EndOf(s), s.at < end,
           start < end, NEW c, c = Clip(s, start, end)
    PROVE  /\ Flat(c, src, out)
           /\ c.at = IF start > s.at THEN start ELSE s.at
           /\ EndOf(c) = IF end < EndOf(s) THEN end ELSE EndOf(s)
<1> DEFINE a == s.at
           e == EndOf(s)
           front == IF start > a THEN start - a ELSE 0
           back == IF end < e THEN e - end ELSE 0
           size == SizeOf(s)
           rest == size - front - back
<1>1. /\ s \in SparseOp /\ s.at \in Nat /\ s.op \in Op /\ size \in Nat /\ size > 0
      /\ EndOf(s) = s.at + size /\ EndOf(s) <= Len(out)
  BY GoodFacts DEF Flat
<1>3. c.at = a + front
  BY DEF Clip
<1>15. c.op = Cut(s.op, front, back) /\ c = [at |-> c.at, op |-> c.op]
  BY DEF Clip, Cut
<1>17. a \in Nat /\ size \in Nat /\ size > 0 /\ e = a + size /\ start < e /\ a < end
  BY <1>1
<1> HIDE DEF size, a, e
<1>2. front \in Nat /\ back \in Nat /\ front + back < size
  <2>1. front \in Nat /\ front < size /\ (front = 0 \/ front = start - a)
    BY <1>17
  <2>2. back \in Nat /\ back < size /\ (back = 0 \/ back = e - end)
    BY <1>17
  <2> HIDE DEF front, back
  <2> QED
    BY <1>17, <2>1, <2>2
<1>0. Len(src) \in Nat /\ Len(out) \in Nat
  OBVIOUS
<1>4. c.at = IF start > a THEN start ELSE a
  BY <1>3, <1>17
<1>5. c.at + rest = IF end < e THEN end ELSE e
  <2>1. c.at + rest = a + size - back
    <3>1. front \in Nat /\ back \in Nat
      BY <1>2
    <3> HIDE DEF front, back
    <3> QED
      BY <1>3, <1>17, <3>1
  <2> QED
    BY <1>17, <2>1
<1>16. rest = size - front - back
  OBVIOUS
<1> HIDE DEF front, back, rest
<1>6. rest = size - front - back /\ rest \in Nat /\ rest > 0 /\ c.at \in Nat /\ front + rest <= size
  BY <1>2, <1>3, <1>16, <1>17
<1> DEFINE byte(op, j) == IF is_add(op) THEN op.bytes[j]
                          ELSE IF is_run(op) THEN op.byte
                          ELSE CopiedFrom(op, src, out)[op.addr + j]
<1>7. \A j \in 1 .. size : byte(s.op, j) = out[s.at + j]
  <2>1. \A j \in 1 .. SizeOf(s) :
           (IF is_add(s.op) THEN s.op.bytes[j]
            ELSE IF is_run(s.op) THEN s.op.byte
            ELSE CopiedFrom(s.op, src, out)[s.op.addr + j]) = out[s.at + j]
    BY DEF Flat, Good, Yields
  <2> QED
    BY <2>1 DEF size
<1>8. ~ is_copy_from(s.op, "Output")
  BY DEF Flat
<1>9. /\ c.op \in Op /\ SizeOf(c) = rest
      /\ is_add(c.op) => Len(c.op.bytes) <= MAX_INST_SIZE
      /\ ~ is_copy_from(c.op, "Output")
      /\ \A j \in 1 .. rest : byte(c.op, j) = byte(s.op, front + j)
      /\ is_copy(c.op) => c.op.addr + c.op.len <= Len(CopiedFrom(c.op, src, out))
  <2>1. CASE is_add(s.op)
    <3>1. size = Len(s.op.bytes) /\ Len(s.op.bytes) <= MAX_INST_SIZE
      BY <2>1 DEF size, SizeOf, Flat, Good
    <3>2. front + back < Len(s.op.bytes)
      BY <1>2, <3>1
    <3>3. /\ c.op \in Op /\ is_add(c.op)
          /\ Len(c.op.bytes) = Len(s.op.bytes) - front - back
          /\ \A j \in 1 .. Len(c.op.bytes) : c.op.bytes[j] = s.op.bytes[front + j]
      <4> DEFINE b == s.op
                 d == c.op
      <4>1. b \in Op /\ is_add(b) /\ front \in Nat /\ back \in Nat
              /\ front + back < Len(b.bytes) /\ d = Cut(b, front, back)
        BY <1>1, <1>2, <1>15, <2>1, <3>2
      <4> HIDE DEF b, d
      <4>2. /\ d \in Op /\ is_add(d)
            /\ Len(d.bytes) = Len(b.bytes) - front - back
            /\ PartOf(d.bytes, b.bytes, front)
        BY <4>1, CutAdd
      <4> QED
        BY <4>2 DEF b, d, PartOf
    <3>4. Len(c.op.bytes) = rest
      BY <1>6, <3>1, <3>3
    <3>5. ~ is_copy(c.op)
      BY <3>3, Kinds
    <3>6. Len(c.op.bytes) <= MAX_INST_SIZE
      BY <1>1, <1>6, <3>1, <3>4, <1>2, Limits
    <3> QED
      BY <2>1, <3>3, <3>4, <3>5, <3>6 DEF is_copy_from, SizeOf
  <2>2. CASE is_run(s.op)
    <3>0. ~ is_add(s.op)
      BY <1>1, <2>2, Kinds
    <3>1. size = s.op.len
      BY <3>0 DEF size, SizeOf
    <3>2. front + back < s.op.len
      BY <1>2, <3>1
    <3>3. /\ c.op \in Op /\ is_run(c.op) /\ c.op.byte = s.op.byte
          /\ c.op.len = s.op.len - front - back
      BY <1>1, <1>2, <1>15, <2>2, <3>2, CutRun
    <3>4. c.op.len = rest
      BY <1>6, <3>1, <3>3
    <3>5. ~ is_copy(c.op) /\ ~ is_add(c.op)
      BY <3>3, Kinds
    <3> QED
      BY <2>2, <3>0, <3>3, <3>4, <3>5 DEF is_copy_from, SizeOf
  <2>3. CASE is_copy(s.op)
    <3>0. ~ is_add(s.op) /\ ~ is_run(s.op)
      BY <1>1, <2>3, Kinds
    <3>1. size = s.op.len /\ s.op.addr \in Nat
      BY <1>1, <2>3, <3>0, Kinds DEF size, SizeOf
    <3>2. front + back < s.op.len
      BY <1>2, <3>1
    <3>3. /\ c.op \in Op /\ is_copy(c.op) /\ c.op.src = s.op.src
          /\ c.op.addr = s.op.addr + front /\ c.op.len = s.op.len - front - back
      BY <1>1, <1>2, <1>15, <2>3, <3>2, CutCopy
    <3>4. c.op.len = rest
      BY <1>6, <3>1, <3>3
    <3>5. ~ is_add(c.op) /\ ~ is_run(c.op)
      BY <3>3, Kinds
    <3>6. CopiedFrom(c.op, src, out) = CopiedFrom(s.op, src, out)
      BY <3>3 DEF CopiedFrom
    <3>7. s.op.addr + s.op.len <= Len(CopiedFrom(s.op, src, out))
      BY <2>3 DEF Flat, Good, Yields
    <3>8. c.op.addr + c.op.len <= Len(CopiedFrom(c.op, src, out))
      <4>1. c.op.addr + c.op.len <= s.op.addr + s.op.len /\ s.op.addr + s.op.len \in Nat
              /\ c.op.addr + c.op.len \in Nat
        <5> DEFINE m == s.op.addr
                   k == s.op.len
                   p == c.op.addr
                   q == c.op.len
        <5>1. m \in Nat /\ k = size /\ p = m + front /\ q = rest
          BY <3>1, <3>3, <3>4
        <5> HIDE DEF m, k, p, q
        <5>2. p + q <= m + k /\ m + k \in Nat /\ p + q \in Nat
          BY <1>2, <1>6, <1>17, <5>1
        <5> QED
          BY <5>2 DEF m, k, p, q
      <4> DEFINE l == Len(CopiedFrom(s.op, src, out))
                 p == c.op.addr + c.op.len
                 b == s.op.addr + s.op.len
      <4>2. p <= b /\ p \in Nat /\ b \in Nat
        BY <4>1
      <4>3. b <= l
        BY <3>7
      <4>4. l \in Int
        BY <1>0 DEF CopiedFrom
      <4> HIDE DEF l, p, b
      <4>5. p <= l
        BY <4>2, <4>3, <4>4
      <4> QED
        BY <4>5, <3>6 DEF p, l
    <3>9. \A j \in 1 .. rest : byte(c.op, j) = byte(s.op, front + j)
      <4> SUFFICES ASSUME NEW j \in 1 .. rest PROVE byte(c.op, j) = byte(s.op, front + j)
        OBVIOUS
      <4>1. c.op.addr + j = s.op.addr + (front + j)
        BY <1>2, <1>6, <3>1, <3>3
      <4> QED
        BY <3>0, <3>5, <3>6, <4>1
    <3>11. SizeOf(c) = rest /\ ~ is_copy_from(c.op, "Output")
      BY <1>8, <2>3, <3>3, <3>4, <3>5 DEF is_copy_from, SizeOf
    <3> QED
      BY <3>3, <3>5, <3>8, <3>9, <3>11
  <2> QED
    BY <1>1, <2>1, <2>2, <2>3, Kinds
<1>10. \A j \in 1 .. SizeOf(c) : byte(c.op, j) = out[c.at + j]
  <2> SUFFICES ASSUME NEW j \in 1 .. rest PROVE byte(c.op, j) = out[c.at + j]
    BY <1>9
  <2>1. front + j \in 1 .. size /\ a + (front + j) = c.at + j
    BY <1>2, <1>3, <1>6, <1>17
  <2> QED
    BY <1>7, <1>9, <2>1 DEF a
<1>11. EndOf(c) = c.at + rest
  BY <1>9 DEF EndOf
<1>12. c \in SparseOp
  BY <1>6, <1>9, <1>15 DEF SparseOp
<1>13. EndOf(c) <= Len(out)
  <2>1. EndOf(c) <= e /\ EndOf(c) \in Nat /\ e \in Nat
    BY <1>5, <1>6, <1>11, <1>17
  <2>2. e <= Len(out)
    BY <1>1 DEF e
  <2> QED
    BY <1>0, <2>1, <2>2
<1>14. Yields(c, src, out)
  BY <1>9, <1>10, <1>13 DEF Yields
<1> QED
  BY <1>4, <1>5, <1>6, <1>9, <1>11, <1>12, <1>14 DEF Flat, Good, a, e

(* What it returns makes just that range. *)
LEMMA SliceFlat ==
    ASSUME NEW list \in Seq(SparseOp), NEW from, NEW to, Row(list, from, to),
           NEW src \in Seq(Byte), NEW out \in Seq(Byte), AllFlat(list, src, out),
           NEW start \in Nat, NEW len \in Nat, len > 0, Covered(list, start, len),
           NEW slice, slice = get_exact_slice(list, start, len)
    PROVE  /\ slice \in Seq(SparseOp) /\ slice # <<>>
           /\ Row(slice, start, start + len) /\ AllFlat(slice, src, out)
<1> DEFINE n == Len(list)
           Right(r) == Covers(list, start, len, r[1], r[2])
           pair == CHOOSE r \in (1 .. n) \X (1 .. n) : Right(r)
           first == pair[1]
           last == pair[2]
           end == start + len
           size == last - first + 1
           old(k) == list[first + k - 1]
           new(k) == Clip(old(k), start, end)
<1>1. pair \in (1 .. n) \X (1 .. n) /\ Right(pair)
  <2>1. PICK a \in 1 .. n, b \in 1 .. n : Covers(list, start, len, a, b)
    BY DEF Covered
  <2>2. <<a, b>> \in (1 .. n) \X (1 .. n) /\ Right(<<a, b>>)
    BY <2>1
  <2> HIDE DEF Right
  <2> QED
    BY <2>2
<1>2. slice = [k \in 1 .. size |-> new(k)]
  BY DEF get_exact_slice
<1> HIDE DEF pair
<1>3. n \in Nat /\ first \in 1 .. n /\ last \in 1 .. n
  BY <1>1
<1>4. /\ list[first].at <= start /\ start < EndOf(list[first])
      /\ last \in first .. n /\ EndOf(list[last]) >= end
      /\ \A k \in first .. last - 1 : EndOf(list[k]) < end
  BY <1>1 DEF Covers, find_controlling_op
<1> HIDE DEF first, last
<1>16. first \in Nat /\ last \in Nat /\ n \in Nat /\ 1 <= first /\ first <= last /\ last <= n
  BY <1>3, <1>4
<1>5. end \in Nat /\ start < end /\ size \in Nat /\ size > 0
  BY <1>16
<1>6. Later(list)
  BY RowLater
<1>7. ASSUME NEW k \in 1 .. n
      PROVE  Flat(list[k], src, out) /\ list[k].at \in Nat /\ EndOf(list[k]) \in Nat
  <2>1. Flat(list[k], src, out)
    BY DEF AllFlat
  <2> DEFINE s == list[k]
  <2>2. Good(s, src, out)
    BY <2>1 DEF Flat
  <2> HIDE DEF s
  <2>3. s.at \in Nat /\ EndOf(s) \in Nat
    BY <2>2, GoodFacts
  <2> QED
    BY <2>1, <2>3 DEF s
<1> HIDE DEF n
<1>8. ASSUME NEW k \in 1 .. size
      PROVE  /\ Flat(new(k), src, out)
             /\ new(k).at = IF k = 1 THEN start ELSE EndOf(new(k - 1))
             /\ k # 1 => EndOf(new(k - 1)) = old(k).at
             /\ EndOf(new(k)) = IF k = size THEN end ELSE EndOf(old(k))
  <2>1. ASSUME NEW j \in 1 .. size
        PROVE  /\ Flat(new(j), src, out)
               /\ new(j).at = IF j = 1 THEN start ELSE old(j).at
               /\ EndOf(new(j)) = IF j = size THEN end ELSE EndOf(old(j))
    <3> DEFINE i == first + j - 1
               s == list[i]
               c == Clip(s, start, end)
    <3>1. i \in 1 .. n /\ i \in first .. last /\ (j # 1 => first < i)
            /\ (j # size => i \in first .. last - 1) /\ (j = 1 => i = first)
            /\ (j = size => i = last)
      BY <1>16
    <3>2. /\ Flat(s, src, out) /\ s.at \in Nat /\ EndOf(s) \in Nat
          /\ EndOf(list[first]) \in Nat
      BY <1>3, <1>7, <3>1
    <3>3. j = 1 => s.at <= start /\ start < EndOf(s)
      BY <1>4, <3>1
    <3>4. j # 1 => EndOf(list[first]) <= s.at
      BY <1>3, <1>6, <3>1 DEF Later, n
    <3>5. s.at < EndOf(s)
      <4>1. Good(s, src, out)
        BY <3>2 DEF Flat
      <4> HIDE DEF s
      <4> QED
        BY <4>1, GoodFacts
    <3>6. start < EndOf(s) /\ (j # 1 => start < s.at)
      <4> DEFINE x == s.at
                 y == EndOf(s)
                 z == EndOf(list[first])
      <4>1. x \in Nat /\ y \in Nat /\ z \in Nat /\ x < y /\ (j = 1 => start < y)
              /\ (j # 1 => z <= x) /\ start < z
        BY <1>4, <3>2, <3>3, <3>4, <3>5
      <4> HIDE DEF x, y, z
      <4>2. start < y /\ (j # 1 => start < x)
        BY <4>1
      <4> QED
        BY <4>2 DEF x, y
    <3>7. j # size => EndOf(s) < end
      BY <1>4, <3>1
    <3>8. j = size => EndOf(s) >= end
      BY <1>4, <3>1
    <3>9. s.at < end
      <4>1. CASE j = 1
        <5> DEFINE x == s.at
        <5>1. x \in Nat /\ x <= start
          BY <3>2, <3>3, <4>1
        <5> HIDE DEF x
        <5>2. x < end
          BY <5>1, <1>5
        <5> QED
          BY <5>2 DEF x
      <4>2. CASE j # 1
        <5>1. i - 1 \in first .. last - 1 /\ i - 1 \in 1 .. n /\ i # 1
          BY <1>16, <3>1, <4>2
        <5>2. EndOf(list[i - 1]) < end
          BY <1>4, <5>1
        <5>3. s.at = EndOf(list[i - 1])
          BY <3>1, <5>1 DEF Row, n
        <5> QED
          BY <5>2, <5>3
      <4> QED
        BY <4>1, <4>2
    <3> HIDE DEF s
    <3>10. /\ Flat(c, src, out)
           /\ c.at = IF start > s.at THEN start ELSE s.at
           /\ EndOf(c) = IF end < EndOf(s) THEN end ELSE EndOf(s)
      <4> HIDE DEF end
      <4> QED
        BY <1>5, <3>2, <3>6, <3>9, ClipFlat
    <3> DEFINE x == s.at
               y == EndOf(s)
               xx == c.at
               yy == EndOf(c)
    <3>11. /\ x \in Nat /\ y \in Nat /\ (j = 1 => x <= start) /\ (j # 1 => start < x)
           /\ (j # size => y < end) /\ (j = size => y >= end)
           /\ xx = IF start > x THEN start ELSE x
           /\ yy = IF end < y THEN end ELSE y
      BY <3>2, <3>3, <3>6, <3>7, <3>8, <3>10
    <3> HIDE DEF x, y, xx, yy, end
    <3>12. xx = IF j = 1 THEN start ELSE x
      BY <1>5, <3>11
    <3>13. yy = IF j = size THEN end ELSE y
      BY <1>5, <3>11
    <3> QED
      BY <3>10, <3>12, <3>13 DEF x, y, xx, yy, s
  <2>2. k # 1 => EndOf(new(k - 1)) = old(k).at
    <3> SUFFICES ASSUME k # 1 PROVE EndOf(new(k - 1)) = old(k).at
      OBVIOUS
    <3>1. k - 1 \in 1 .. size /\ k - 1 # size /\ first + k - 1 \in 1 .. n /\ first + k - 1 # 1
            /\ (first + k - 1) - 1 = first + (k - 1) - 1
      BY <1>16
    <3>2. EndOf(new(k - 1)) = EndOf(old(k - 1))
      BY <2>1, <3>1
    <3>3. list[first + k - 1].at = EndOf(list[(first + k - 1) - 1])
      BY <3>1 DEF Row, n
    <3> QED
      BY <3>1, <3>2, <3>3
  <2> HIDE DEF new, old, size
  <2> QED
    BY <2>1, <2>2
<1>9. \A k \in 1 .. size : slice[k] = new(k)
  <2> HIDE DEF new, size
  <2> QED
    BY <1>2
<1> HIDE DEF new, old, size, end
<1>10. slice \in Seq(SparseOp) /\ Len(slice) = size
  <2>1. \A k \in 1 .. size : new(k) \in SparseOp
    BY <1>8 DEF Flat, Good
  <2>2. slice \in [1 .. size -> SparseOp]
    BY <1>2, <2>1
  <2> QED
    BY <2>2, <1>5
<1>11. slice # <<>>
  BY <1>5, <1>10
<1>12. \A k \in 1 .. size : slice[k].at = IF k = 1 THEN start ELSE EndOf(slice[k - 1])
  <2> SUFFICES ASSUME NEW k \in 1 .. size
               PROVE  slice[k].at = IF k = 1 THEN start ELSE EndOf(slice[k - 1])
    OBVIOUS
  <2>1. k # 1 => k - 1 \in 1 .. size
    BY <1>5
  <2>2. k # 1 => slice[k - 1] = new(k - 1)
    BY <1>9, <2>1
  <2>3. slice[k] = new(k)
    BY <1>9
  <2> QED
    BY <1>8, <2>2, <2>3
<1>13. EndOf(slice[size]) = end
  <2>1. size \in 1 .. size
    BY <1>5
  <2> QED
    BY <1>8, <1>9, <2>1
<1>14. Row(slice, start, start + len)
  BY <1>10, <1>11, <1>12, <1>13 DEF Row, end
<1>15. AllFlat(slice, src, out)
  BY <1>8, <1>9, <1>10 DEF AllFlat
<1> QED
  BY <1>10, <1>11, <1>14, <1>15

(* Moved to where the bytes are the same, flat operations make them there. *)
AllMoved(list, by, src, out) ==
    \A k \in 1 .. Len(list) : Flat(Moved(list[k], by), src, out)
SameBytes(mid, addr, out, at, len) ==
    \A j \in 1 .. len : out[at + j] = mid[addr + j]

LEMMA SliceMoves ==
    ASSUME NEW list \in Seq(SparseOp), NEW addr \in Nat, NEW len \in Nat,
           Row(list, addr, addr + len), NEW src, NEW mid, AllFlat(list, src, mid),
           NEW out, NEW at \in Nat, at + len <= Len(out), Len(out) \in Nat,
           SameBytes(mid, addr, out, at, len)
    PROVE  AllMoved(list, at - addr, src, out)
<1> SUFFICES ASSUME NEW k \in 1 .. Len(list) PROVE Flat(Moved(list[k], at - addr), src, out)
  BY DEF AllMoved
<1> DEFINE s == list[k]
           by == at - addr
           size == SizeOf(s)
           place == s.at
<1>1. Flat(s, src, mid)
  BY DEF AllFlat
<1>2. addr <= s.at /\ EndOf(s) <= addr + len
  BY RowBounds
<1> HIDE DEF s
<1>3. place \in Nat /\ size \in Nat /\ EndOf(s) = place + size
  BY <1>1, GoodFacts DEF Flat
<1>4. addr <= place /\ place + size <= addr + len
  BY <1>2, <1>3
<1>5. by \in Int /\ place + by \in Nat /\ place + by + size <= Len(out)
  <2> HIDE DEF place, size
  <2> QED
    BY <1>3, <1>4
<1>6. \A j \in 1 .. size : out[place + by + j] = mid[place + j]
  <2> HIDE DEF place, size
  <2> SUFFICES ASSUME NEW j \in 1 .. size PROVE out[place + by + j] = mid[place + j]
    OBVIOUS
  <2> DEFINE i == place - addr + j
  <2>1. i \in 1 .. len /\ at + i = place + by + j /\ addr + i = place + j
    BY <1>3, <1>4
  <2> HIDE DEF i
  <2> QED
    BY <2>1 DEF SameBytes
<1> HIDE DEF by
<1>7. Flat(Moved(s, by), src, out)
  BY <1>1, <1>5, <1>6, FlatMoves
<1> QED
  BY <1>7 DEF s, by

(* An operation that is no copy reads no file. *)
LEMMA FlatAnySrc ==
    ASSUME NEW s, NEW src, NEW other, NEW out, Flat(s, src, out), ~ is_copy(s.op)
    PROVE  Flat(s, other, out)
<1>1. s.op \in Op
  BY GoodFacts DEF Flat
<1>2. is_add(s.op) \/ is_run(s.op)
  BY <1>1, Kinds
<1>3. Yields(s, other, out)
  BY <1>2 DEF Flat, Good, Yields, is_copy_from
<1> QED
  BY <1>3 DEF Flat, Good

LEMMA MovedNowhere ==
    ASSUME NEW s \in SparseOp
    PROVE  Moved(s, 0) = s
BY Sizes DEF Moved

-----------------------------------------------------------------------------
(* Numbers in order. *)
(* A list has the numbers of a set, from the least to the greatest. *)
Lists(list, set) ==
    /\ \A j, k \in 1 .. Len(list) : j < k => list[j] < list[k]
    /\ \A k \in 1 .. Len(list) : list[k] \in set
    /\ \A x \in set : \E k \in 1 .. Len(list) : list[k] = x

LEMMA ListsJoin ==
    ASSUME NEW a \in Seq(Nat), NEW b \in Seq(Nat), NEW A, NEW B, Lists(a, A), Lists(b, B),
           \A x \in A, y \in B : x < y
    PROVE  a \o b \in Seq(Nat) /\ Lists(a \o b, A \cup B)
<1> DEFINE c == a \o b
           n == Len(a)
           m == Len(b)
<1>1. /\ n \in Nat /\ m \in Nat /\ c \in Seq(Nat) /\ Len(c) = n + m
      /\ \A k \in 1 .. n : c[k] = a[k] /\ a[k] \in Nat
      /\ \A k \in n + 1 .. n + m : c[k] = b[k - n]
      /\ \A k \in 1 .. m : b[k] \in Nat
  OBVIOUS
<1>2. /\ \A j, k \in 1 .. n : j < k => a[j] < a[k]
      /\ \A k \in 1 .. n : a[k] \in A
      /\ \A x \in A : \E k \in 1 .. n : a[k] = x
  BY DEF Lists
<1>3. /\ \A j, k \in 1 .. m : j < k => b[j] < b[k]
      /\ \A k \in 1 .. m : b[k] \in B
      /\ \A x \in B : \E k \in 1 .. m : b[k] = x
  BY DEF Lists
<1> HIDE DEF c, n, m
<1>4. \A k \in 1 .. m : n + k \in n + 1 .. n + m /\ (n + k) - n = k /\ n + k \in 1 .. n + m
  BY <1>1
<1>5. \A k \in n + 1 .. n + m : k - n \in 1 .. m
  BY <1>1
<1>6. ASSUME NEW j \in 1 .. Len(c), NEW k \in 1 .. Len(c), j < k PROVE c[j] < c[k]
  <2>1. CASE k \in 1 .. n
    <3>1. j \in 1 .. n
      BY <1>1, <1>6, <2>1
    <3> QED
      BY <1>1, <1>2, <1>6, <2>1, <3>1
  <2>2. CASE j \in 1 .. n /\ k \in n + 1 .. n + m
    <3>1. c[j] \in A
      BY <1>1, <1>2, <2>2
    <3>2. c[k] \in B
      BY <1>1, <1>3, <1>5, <2>2
    <3> QED
      BY <3>1, <3>2
  <2>3. CASE j \in n + 1 .. n + m /\ k \in n + 1 .. n + m
    <3>1. j - n \in 1 .. m /\ k - n \in 1 .. m /\ j - n < k - n
      BY <1>1, <1>6, <2>3
    <3>2. b[j - n] < b[k - n]
      BY <1>3, <3>1
    <3> QED
      BY <1>1, <2>3, <3>2
  <2> QED
    BY <1>1, <1>6, <2>1, <2>2, <2>3
<1>7. ASSUME NEW k \in 1 .. Len(c) PROVE c[k] \in A \cup B
  <2>1. CASE k \in 1 .. n
    BY <1>1, <1>2, <2>1
  <2>2. CASE k \in n + 1 .. n + m
    BY <1>1, <1>3, <1>5, <2>2
  <2> QED
    BY <1>1, <2>1, <2>2
<1>8. ASSUME NEW x \in A \cup B PROVE \E k \in 1 .. Len(c) : c[k] = x
  <2>1. CASE x \in A
    <3>1. PICK k \in 1 .. n : a[k] = x
      BY <1>2, <2>1
    <3>2. k \in 1 .. Len(c) /\ c[k] = x
      BY <1>1, <3>1
    <3> QED
      BY <3>2
  <2>2. CASE x \in B
    <3>1. PICK k \in 1 .. m : b[k] = x
      BY <1>3, <2>2
    <3>2. n + k \in n + 1 .. n + m /\ (n + k) - n = k /\ n + k \in 1 .. Len(c)
      BY <1>1, <1>4
    <3>3. c[n + k] = x
      BY <1>1, <3>1, <3>2
    <3> QED
      BY <3>2, <3>3
  <2> QED
    BY <2>1, <2>2
<1>9. Lists(c, A \cup B)
  BY <1>6, <1>7, <1>8 DEF Lists
<1> QED
  BY <1>1, <1>9 DEF c

LEMMA ListsNext ==
    ASSUME NEW a \in Seq(Nat), NEW A, Lists(a, A), NEW x \in Nat, \A y \in A : y < x
    PROVE  Append(a, x) \in Seq(Nat) /\ Lists(Append(a, x), A \cup {x})
<1> DEFINE b == <<x>>
<1>1. b \in Seq(Nat) /\ Len(b) = 1 /\ b[1] = x /\ Append(a, x) = a \o b
  OBVIOUS
<1> HIDE DEF b
<1>2. Lists(b, {x})
  BY <1>1 DEF Lists
<1> QED
  BY <1>1, <1>2, ListsJoin

LEMMA ListsWithin ==
    ASSUME NEW list \in Seq(Nat), NEW S, Lists(list, S), NEW T, S \subseteq T
    PROVE  list \in Seq(T)
<1>1. \A k \in 1 .. Len(list) : list[k] \in T
  BY DEF Lists
<1>2. list = [k \in 1 .. Len(list) |-> list[k]] /\ Len(list) \in Nat
  OBVIOUS
<1>3. list \in [1 .. Len(list) -> T]
  BY <1>1, <1>2
<1> QED
  BY <1>2, <1>3

-----------------------------------------------------------------------------
(* find_mergeable_copies has the indices of all copies from the dictionary. *)
Mergeables(list) == {k \in 1 .. Len(list) : is_mergeable(list[k])}
From(first, set) == {first + k - 1 : k \in set}

LEMMA FindMergeable ==
    ASSUME NEW list \in Seq(SparseOp), NEW first \in Nat \ {0}, NEW r,
           r = find_mergeable_copies(list, first)
    PROVE  r \in Seq(Nat) /\ Lists(r, From(first, Mergeables(list)))
<1> DEFINE n == Len(list)
           Is(k) == is_mergeable(list[k])
           Eq(f) == f = [k \in 0 .. n |->
                           IF k = 0 THEN <<>>
                           ELSE IF Is(k) THEN Append(f[k - 1], first + k - 1)
                           ELSE f[k - 1]]
           S == Seq(Nat)
           G == [k \in 1 .. n |-> [v \in S |-> IF Is(k) THEN Append(v, first + k - 1) ELSE v]]
<1>1. n \in Nat /\ <<>> \in S
  OBVIOUS
<1>2. Mergeables(list) = {k \in 1 .. n : Is(k)}
  BY DEF Mergeables
<1> HIDE DEF n, Is
<1>3. \A k \in 1 .. n, v \in S :
         G[k][v] = (IF Is(k) THEN Append(v, first + k - 1) ELSE v) /\ G[k][v] \in S
  <2> SUFFICES ASSUME NEW k \in 1 .. n, NEW v \in S
               PROVE  G[k][v] = (IF Is(k) THEN Append(v, first + k - 1) ELSE v) /\ G[k][v] \in S
    OBVIOUS
  <2>1. first + k - 1 \in Nat
    BY <1>1
  <2>2. Append(v, first + k - 1) \in S
    BY <2>1
  <2> QED
    BY <2>2
<1> HIDE DEF G
<1>4. StaysIn(G, 0 + 1, n, S)
  BY <1>3 DEF StaysIn
<1>5. PICK f : RunsUp(f, <<>>, G, 0, n, S)
  <2>1. 0 \in Int /\ n \in Int
    BY <1>1
  <2> HIDE DEF S
  <2> QED
    BY <2>1, <1>1, <1>4, DefinedUpwards
<1>6. /\ f \in [0 .. n -> S] /\ f[0] = <<>>
      /\ \A k \in 1 .. n : f[k] = IF Is(k) THEN Append(f[k - 1], first + k - 1) ELSE f[k - 1]
  <2>1. f \in [0 .. n -> S] /\ f[0] = <<>>
    BY <1>1, <1>5 DEF RunsUp
  <2>2. ASSUME NEW k \in 1 .. n
        PROVE  f[k] = IF Is(k) THEN Append(f[k - 1], first + k - 1) ELSE f[k - 1]
    <3>1. k \in 0 + 1 .. n /\ k - 1 \in 0 .. n
      BY <1>1
    <3>2. f[k] = G[k][f[k - 1]] /\ f[k - 1] \in S
      BY <1>5, <2>1, <3>1 DEF RunsUp
    <3> QED
      BY <1>3, <3>2
  <2> QED
    BY <2>1, <2>2
<1>7. Eq(f)
  <2>1. \A k \in 0 .. n : k # 0 => k \in 1 .. n
    BY <1>1
  <2> QED
    BY <1>6, <2>1
<1>8. Eq(CHOOSE g : Eq(g))
  <2> HIDE DEF Eq
  <2> QED
    BY <1>7
<1> DEFINE R == CHOOSE g : Eq(g)
<1>9. r = R[n]
  BY DEF find_mergeable_copies, n, Is
<1>10. Eq(R)
  BY <1>8
<1> HIDE DEF R
<1>11. R[0] = <<>> /\ \A k \in 1 .. n :
          R[k] = IF Is(k) THEN Append(R[k - 1], first + k - 1) ELSE R[k - 1]
  <2>1. 0 \in 0 .. n /\ \A k \in 1 .. n : k \in 0 .. n /\ k # 0
    BY <1>1
  <2> QED
    BY <1>10, <2>1
<1> DEFINE Up(m) == From(first, {k \in 1 .. m : Is(k)})
           T == {m \in 0 .. n : R[m] \in Seq(Nat) /\ Lists(R[m], Up(m))}
<1>12. 0 \in T
  <2>1. Up(0) = {}
    BY DEF From
  <2>2. <<>> \in Seq(Nat) /\ Len(<<>>) = 0
    OBVIOUS
  <2>3. Lists(<<>>, {})
    BY <2>2 DEF Lists
  <2>4. 0 \in 0 .. n
    BY <1>1
  <2> QED
    BY <1>11, <2>1, <2>2, <2>3, <2>4
<1>13. ASSUME NEW m \in 0 + 1 .. n, m - 1 \in T PROVE m \in T
  <2>1. m \in 1 .. n /\ m \in 0 .. n /\ m - 1 \in Nat /\ first + m - 1 \in Nat
    BY <1>1
  <2>2. R[m - 1] \in Seq(Nat) /\ Lists(R[m - 1], Up(m - 1))
    BY <1>13
  <2>3. CASE Is(m)
    <3>1. Up(m) = Up(m - 1) \cup {first + m - 1}
      <4>1. {k \in 1 .. m : Is(k)} = {k \in 1 .. m - 1 : Is(k)} \cup {m}
        BY <2>1, <2>3
      <4> QED
        BY <4>1 DEF From
    <3>2. \A y \in Up(m - 1) : y < first + m - 1
      BY <2>1 DEF From
    <3> HIDE DEF Up
    <3>3. Append(R[m - 1], first + m - 1) \in Seq(Nat)
            /\ Lists(Append(R[m - 1], first + m - 1), Up(m - 1) \cup {first + m - 1})
      BY <2>1, <2>2, <3>2, ListsNext
    <3> QED
      BY <1>11, <2>1, <2>3, <3>1, <3>3
  <2>4. CASE ~ Is(m)
    <3>1. Up(m) = Up(m - 1)
      <4>1. {k \in 1 .. m : Is(k)} = {k \in 1 .. m - 1 : Is(k)}
        BY <2>1, <2>4
      <4> QED
        BY <4>1
    <3> HIDE DEF Up
    <3> QED
      BY <1>11, <2>1, <2>2, <2>4, <3>1
  <2> QED
    BY <2>3, <2>4
<1>14. n \in T
  <2> HIDE DEF T
  <2>1. 0 .. n \subseteq T
    <3>1. 0 \in Int /\ n \in Int
      BY <1>1
    <3>2. \A m \in 0 + 1 .. n : m - 1 \in T => m \in T
      BY <1>13
    <3> QED
      BY <1>12, <3>1, <3>2, Upwards
  <2> QED
    BY <1>1, <2>1
<1> QED
  BY <1>2, <1>9, <1>14

-----------------------------------------------------------------------------
(* A list being built, that makes a file up to a place, and the operations on *)
(* their way into it, that make the file from there, once they are moved, to   *)
(* another place.                                                              *)
Building(done, place, rest, to, src, out) ==
    /\ Row(done, 0, place) /\ AllFlat(done, src, out)
    /\ \E by \in Int : Row(rest, place - by, to - by) /\ AllMoved(rest, by, src, out)

LEMMA BuildingDone ==
    ASSUME NEW done, NEW place \in Int, NEW to \in Int, NEW src, NEW out,
           Building(done, place, <<>>, to, src, out)
    PROVE  place = to /\ Row(done, 0, to) /\ AllFlat(done, src, out)
<1>1. PICK by \in Int : Row(<<>>, place - by, to - by)
  BY DEF Building
<1>2. to - by = place - by
  BY <1>1 DEF Row
<1>3. to = place
  BY <1>2
<1> QED
  BY <1>3 DEF Building

LEMMA BuildingPush ==
    ASSUME NEW done \in Seq(SparseOp), NEW place \in Nat, NEW rest \in Seq(SparseOp),
           rest # <<>>, NEW to, NEW src, NEW out, Building(done, place, rest, to, src, out),
           NEW s, s = [Head(rest) EXCEPT !.at = place]
    PROVE  /\ s \in SparseOp /\ Append(done, s) \in Seq(SparseOp) /\ Tail(rest) \in Seq(SparseOp)
           /\ s.op = Head(rest).op /\ place + oal(s.op) \in Nat
           /\ Building(Append(done, s), place + oal(s.op), Tail(rest), to, src, out)
<1>1. PICK by \in Int :
          /\ Row(rest, place - by, to - by)
          /\ \A k \in 1 .. Len(rest) : Flat(Moved(rest[k], by), src, out)
  BY DEF Building, AllMoved
<1> DEFINE h == Head(rest)
           more == Tail(rest)
           a == h.at
           size == SizeOf(h)
<1>2. /\ h = rest[1] /\ h \in SparseOp /\ a = place - by
      /\ more \in Seq(SparseOp) /\ Len(more) = Len(rest) - 1
      /\ Row(more, EndOf(h), to - by)
  BY <1>1, RowTail
<1>3. \A k \in 1 .. Len(more) : more[k] = rest[k + 1]
  BY <1>1, RowTail
<1>4. Len(rest) \in Nat /\ Len(rest) > 0
  OBVIOUS
<1> HIDE DEF h, more
<1>5. h \in [at : Nat, op : Op]
  BY <1>2 DEF SparseOp
<1>6. s = [at |-> place, op |-> h.op] /\ s.at = place /\ s.op = h.op
  BY <1>5 DEF h
<1>7. a \in Nat /\ size \in Nat /\ EndOf(h) = a + size
  BY <1>2, Sizes
<1>8. Moved(h, by) = s
  <2> HIDE DEF a
  <2>1. a + by = place
    BY <1>2, <1>7
  <2> QED
    BY <1>6, <2>1 DEF Moved, a
<1>9. Flat(s, src, out)
  <2>1. 1 \in 1 .. Len(rest)
    BY <1>4
  <2> QED
    BY <1>1, <1>2, <1>8, <2>1
<1>10. s \in SparseOp /\ oal(s.op) = SizeOf(s) /\ EndOf(s) = s.at + SizeOf(s)
  BY <1>9, GoodFacts DEF Flat
<1>11. SizeOf(s) = size
  BY <1>6 DEF SizeOf
<1>12. Append(done, s) \in Seq(SparseOp) /\ place + oal(s.op) = EndOf(s)
         /\ place + oal(s.op) \in Nat /\ EndOf(s) = place + size
  BY <1>6, <1>7, <1>10, <1>11
<1>13. Row(Append(done, s), 0, EndOf(s))
  BY <1>6, <1>10, RowAppend DEF Building
<1>14. AllFlat(Append(done, s), src, out)
  <2>1. \A k \in 1 .. Len(done) : Flat(done[k], src, out)
    BY DEF Building, AllFlat
  <2>2. /\ Len(Append(done, s)) = Len(done) + 1 /\ Len(done) \in Nat
        /\ Append(done, s)[Len(done) + 1] = s
        /\ \A k \in 1 .. Len(done) : Append(done, s)[k] = done[k]
    OBVIOUS
  <2> SUFFICES ASSUME NEW k \in 1 .. Len(Append(done, s))
               PROVE  Flat(Append(done, s)[k], src, out)
    BY DEF AllFlat
  <2> QED
    BY <1>9, <2>1, <2>2
<1>15. Row(more, (place + size) - by, to - by)
  <2> HIDE DEF a
  <2>1. a + size = (place + size) - by
    BY <1>2, <1>7
  <2> QED
    BY <1>2, <1>7, <2>1
<1>16. \A k \in 1 .. Len(more) : Flat(Moved(more[k], by), src, out)
  <2> SUFFICES ASSUME NEW k \in 1 .. Len(more) PROVE Flat(Moved(more[k], by), src, out)
    OBVIOUS
  <2>1. k + 1 \in 1 .. Len(rest)
    BY <1>2, <1>4
  <2> QED
    BY <1>1, <1>3, <2>1
<1>17. Building(Append(done, s), EndOf(s), more, to, src, out)
  BY <1>12, <1>13, <1>14, <1>15, <1>16 DEF Building, AllMoved
<1> QED
  BY <1>2, <1>6, <1>10, <1>12, <1>17 DEF h, more

(* The places of the copies from the dictionary, in the list and on the way. *)
Built(done, rest, k) == IF k <= Len(done) THEN done[k] ELSE rest[k - Len(done)]
Copies(done, rest) == {k \in 1 .. Len(done) + Len(rest) : is_mergeable(Built(done, rest, k))}

LEMMA CopiesPush ==
    ASSUME NEW done \in Seq(SparseOp), NEW rest \in Seq(SparseOp), rest # <<>>,
           NEW s \in SparseOp, s.op = Head(rest).op
    PROVE  /\ Len(Append(done, s)) + Len(Tail(rest)) = Len(done) + Len(rest)
           /\ Copies(Append(done, s), Tail(rest)) = Copies(done, rest)
<1> DEFINE n == Len(done)
           m == Len(rest)
           more == Append(done, s)
           tail == Tail(rest)
<1>1. /\ n \in Nat /\ m \in Nat /\ m > 0 /\ Len(more) = n + 1 /\ Len(tail) = m - 1
      /\ more[n + 1] = s /\ \A k \in 1 .. n : more[k] = done[k]
  OBVIOUS
<1>2. \A k \in 1 .. m - 1 : tail[k] = rest[k + 1]
  OBVIOUS
<1>3. rest[1] = Head(rest)
  OBVIOUS
<1> HIDE DEF more, tail
<1>4. ASSUME NEW k \in 1 .. n + m
      PROVE  is_mergeable(Built(more, tail, k)) <=> is_mergeable(Built(done, rest, k))
  <2>1. CASE k <= n
    <3>1. k \in 1 .. n /\ k <= n + 1
      BY <1>1, <2>1
    <3> QED
      BY <1>1, <2>1, <3>1 DEF Built
  <2>2. CASE k = n + 1
    <3>1. ~ (k <= n) /\ k - n = 1 /\ k <= n + 1
      BY <1>1, <2>2
    <3>2. Built(more, tail, k) = s /\ Built(done, rest, k) = rest[1]
      BY <1>1, <2>2, <3>1 DEF Built
    <3> QED
      BY <1>3, <3>2 DEF is_mergeable
  <2>3. CASE k > n + 1
    <3>1. ~ (k <= n) /\ ~ (k <= n + 1) /\ k - (n + 1) \in 1 .. m - 1 /\ (k - (n + 1)) + 1 = k - n
      BY <1>1, <2>3
    <3>2. Built(more, tail, k) = tail[k - (n + 1)] /\ Built(done, rest, k) = rest[k - n]
      BY <1>1, <3>1 DEF Built
    <3>3. tail[k - (n + 1)] = rest[k - n]
      BY <1>2, <3>1
    <3> QED
      BY <3>2, <3>3
  <2> QED
    BY <1>1, <2>1, <2>2, <2>3
<1>5. Len(more) + Len(tail) = n + m
  BY <1>1
<1>6. Copies(more, tail) = Copies(done, rest)
  BY <1>4, <1>5 DEF Copies
<1> QED
  BY <1>5, <1>6 DEF more, tail

(* Those on the way follow those in the list. *)
LEMMA CopiesStart ==
    ASSUME NEW done \in Seq(SparseOp), NEW rest \in Seq(SparseOp)
    PROVE  /\ Copies(done, <<>>) = Mergeables(done)
           /\ Copies(done, rest) = Mergeables(done) \cup From(Len(done) + 1, Mergeables(rest))
<1> DEFINE n == Len(done)
           m == Len(rest)
<1>1. n \in Nat /\ m \in Nat /\ Len(<<>>) = 0
  OBVIOUS
<1>2. Copies(done, <<>>) = Mergeables(done)
  BY <1>1 DEF Copies, Mergeables, Built
<1>3. \A k \in 1 .. n : Built(done, rest, k) = done[k]
  BY <1>1 DEF Built
<1>4. \A k \in 1 .. m : Built(done, rest, (n + 1) + k - 1) = rest[k]
  <2> SUFFICES ASSUME NEW k \in 1 .. m PROVE Built(done, rest, (n + 1) + k - 1) = rest[k]
    OBVIOUS
  <2>1. ~ ((n + 1) + k - 1 <= n) /\ ((n + 1) + k - 1) - n = k
    BY <1>1
  <2> QED
    BY <2>1 DEF Built
<1> HIDE DEF n, m
<1>5. ASSUME NEW k \in Copies(done, rest)
      PROVE  k \in Mergeables(done) \cup From(n + 1, Mergeables(rest))
  <2>1. k \in 1 .. n + m /\ is_mergeable(Built(done, rest, k))
    BY <1>5 DEF Copies, n, m
  <2>2. CASE k \in 1 .. n
    BY <1>3, <2>1, <2>2 DEF Mergeables, n
  <2>3. CASE k \in n + 1 .. n + m
    <3>1. k - n \in 1 .. m /\ (n + 1) + (k - n) - 1 = k
      BY <1>1, <2>3
    <3>2. k - n \in Mergeables(rest)
      BY <1>4, <2>1, <3>1 DEF Mergeables, m
    <3> QED
      BY <3>1, <3>2 DEF From
  <2> QED
    BY <1>1, <2>1, <2>2, <2>3
<1>6. ASSUME NEW k \in Mergeables(done) PROVE k \in Copies(done, rest)
  <2>1. k \in 1 .. n /\ is_mergeable(done[k])
    BY DEF Mergeables, n
  <2>2. k \in 1 .. n + m
    BY <1>1, <2>1
  <2> QED
    BY <1>3, <2>1, <2>2 DEF Copies, n, m
<1>7. ASSUME NEW k \in From(n + 1, Mergeables(rest)) PROVE k \in Copies(done, rest)
  <2>1. PICK j \in Mergeables(rest) : k = (n + 1) + j - 1
    BY <1>7 DEF From
  <2>2. j \in 1 .. m /\ is_mergeable(rest[j])
    BY DEF Mergeables, m
  <2>3. k \in 1 .. n + m
    BY <1>1, <2>1, <2>2
  <2> QED
    BY <1>4, <2>1, <2>2, <2>3 DEF Copies, n, m
<1>8. Copies(done, rest) = Mergeables(done) \cup From(n + 1, Mergeables(rest))
  BY <1>5, <1>6, <1>7
<1> QED
  BY <1>2, <1>8 DEF n

-----------------------------------------------------------------------------
(* The operations inserted for each copy shift all that is behind it. *)
Extra(list) == [n \in 1 .. Len(list) |-> Len(list[n].ops) - 1]
Shifts(list) == RunningSum(Extra(list), Len(list))
Full(list) == \A n \in 1 .. Len(list) : list[n].ops # <<>>

(* Where the first of the n-th insert will be, and all the copies of the first m. *)
Place(list, n) == list[n].index + Shifts(list)[n - 1]
InsertedBy(list, m) == UNION {From(Place(list, n), Mergeables(list[n].ops)) : n \in 1 .. m}

LEMMA InsertFacts ==
    ASSUME NEW ins \in Inserts
    PROVE  /\ ins.index \in Nat /\ ins.ops \in Seq(SparseOp) /\ Len(ins.ops) \in Nat
           /\ ins.ops # <<>> => Len(ins.ops) - 1 \in Nat
<1>1. ins.index \in Nat /\ ins.ops \in Seq(SparseOp)
  BY DEF Inserts
<1> DEFINE ops == ins.ops
<1>2. ops \in Seq(SparseOp)
  BY <1>1
<1> HIDE DEF ops
<1>3. Len(ops) \in Nat /\ (ops # <<>> => Len(ops) - 1 \in Nat)
  BY <1>2
<1> QED
  BY <1>1, <1>3 DEF ops

LEMMA ExtraIs ==
    ASSUME NEW list \in Seq(Inserts), Full(list)
    PROVE  \A n \in 1 .. Len(list) : /\ Extra(list)[n] = Len(list[n].ops) - 1
                                     /\ Extra(list)[n] \in Nat
<1> SUFFICES ASSUME NEW n \in 1 .. Len(list)
             PROVE  /\ Extra(list)[n] = Len(list[n].ops) - 1
                    /\ Extra(list)[n] \in Nat
  OBVIOUS
<1>1. list[n] \in Inserts /\ list[n].ops # <<>>
  BY DEF Full
<1>2. Extra(list)[n] = Len(list[n].ops) - 1
  BY DEF Extra
<1> DEFINE ins == list[n]
<1>3. ins \in Inserts /\ ins.ops # <<>>
  BY <1>1
<1> HIDE DEF ins
<1>4. Len(ins.ops) - 1 \in Nat
  BY <1>3, InsertFacts
<1> QED
  BY <1>2, <1>4 DEF ins

LEMMA ShiftsIs ==
    ASSUME NEW list \in Seq(Inserts), Full(list)
    PROVE  /\ Shifts(list) \in [0 .. Len(list) -> Nat]
           /\ Shifts(list)[0] = 0
           /\ \A n \in 1 .. Len(list) :
                 Shifts(list)[n] = Shifts(list)[n - 1] + (Len(list[n].ops) - 1)
<1> DEFINE n == Len(list)
           G == Extra(list)
<1>1. n \in Nat
  OBVIOUS
<1>2. \A k \in 1 .. n : G[k] = Len(list[k].ops) - 1
  BY ExtraIs
<1>3. \A k \in 1 .. n : G[k] \in Nat
  BY ExtraIs
<1> HIDE DEF G, n
<1>4. /\ RunningSum(G, n) \in [0 .. n -> Nat]
      /\ RunningSum(G, n)[0] = 0
      /\ \A k \in 1 .. n : RunningSum(G, n)[k] = RunningSum(G, n)[k - 1] + G[k]
  BY <1>1, <1>3, RunningSumIs
<1> QED
  BY <1>2, <1>4 DEF Shifts, G, n

SameShifts(more, list) ==
    /\ \A n \in 1 .. Len(list) : more[n] = list[n]
    /\ \A n \in 0 .. Len(list) : Shifts(more)[n] = Shifts(list)[n]

LEMMA ShiftsMore ==
    ASSUME NEW list \in Seq(Inserts), Full(list), NEW ins \in Inserts, ins.ops # <<>>,
           NEW more, more = Append(list, ins)
    PROVE  /\ more \in Seq(Inserts) /\ Full(more) /\ Len(more) = Len(list) + 1
           /\ more[Len(more)] = ins /\ SameShifts(more, list)
           /\ Shifts(more)[Len(more)] = Shifts(list)[Len(list)] + (Len(ins.ops) - 1)
<1> DEFINE n == Len(list)
<1>1. /\ n \in Nat /\ more \in Seq(Inserts) /\ Len(more) = n + 1 /\ more[n + 1] = ins
      /\ \A k \in 1 .. n : more[k] = list[k]
  OBVIOUS
<1>2. Full(more)
  BY <1>1 DEF Full
<1>3. \A k \in 1 .. n + 1 : Extra(more)[k] \in Nat
  BY <1>1, <1>2, ExtraIs
<1>4. \A k \in 1 .. n : Extra(list)[k] = Extra(more)[k]
  <2>1. \A k \in 1 .. n : k \in 1 .. n + 1
    BY <1>1
  <2> QED
    BY <1>1, <2>1 DEF Extra
<1>5. \A k \in 0 .. n : Shifts(list)[k] = Shifts(more)[k]
  <2>1. n + 1 \in Nat /\ n <= n + 1
    BY <1>1
  <2> DEFINE G == Extra(list)
             H == Extra(more)
  <2> HIDE DEF G, H
  <2>2. \A k \in 0 .. n : RunningSum(G, n)[k] = RunningSum(H, n + 1)[k]
    <3>1. \A k \in 1 .. n + 1 : H[k] \in Nat
      BY <1>3 DEF H
    <3>2. \A k \in 1 .. n : G[k] = H[k]
      BY <1>4 DEF G, H
    <3> HIDE DEF n
    <3> QED
      BY <1>1, <2>1, <3>1, <3>2, RunningSumPrefix
  <2> QED
    BY <1>1, <2>2 DEF Shifts, G, H
<1>6. Shifts(more)[n + 1] = Shifts(more)[(n + 1) - 1] + (Len(more[n + 1].ops) - 1)
  <2>1. n + 1 \in 1 .. Len(more)
    BY <1>1
  <2> QED
    BY <1>1, <1>2, <2>1, ShiftsIs
<1>7. (n + 1) - 1 = n /\ n \in 0 .. n
  BY <1>1
<1>8. Shifts(more)[n + 1] = Shifts(list)[n] + (Len(ins.ops) - 1)
  BY <1>1, <1>5, <1>6, <1>7
<1> QED
  BY <1>1, <1>2, <1>5, <1>8 DEF SameShifts

LEMMA InsertedNext ==
    ASSUME NEW list, NEW m \in Nat
    PROVE  InsertedBy(list, m + 1)
             = InsertedBy(list, m) \cup From(Place(list, m + 1), Mergeables(list[m + 1].ops))
<1> DEFINE F(n) == From(Place(list, n), Mergeables(list[n].ops))
<1> HIDE DEF F
<1>1. 1 .. m + 1 = (1 .. m) \cup {m + 1}
  OBVIOUS
<1>2. UNION {F(n) : n \in 1 .. m + 1} = (UNION {F(n) : n \in 1 .. m}) \cup F(m + 1)
  BY <1>1
<1> QED
  BY <1>2 DEF InsertedBy, F

LEMMA InsertedNone ==
    ASSUME NEW list
    PROVE  InsertedBy(list, 0) = {}
<1>1. 1 .. 0 = {}
  OBVIOUS
<1> QED
  BY <1>1 DEF InsertedBy

LEMMA InsertedMore ==
    ASSUME NEW list \in Seq(Inserts), Full(list), NEW ins \in Inserts, ins.ops # <<>>,
           NEW more, more = Append(list, ins)
    PROVE  InsertedBy(more, Len(more))
             = InsertedBy(list, Len(list))
               \cup From(ins.index + Shifts(list)[Len(list)], Mergeables(ins.ops))
<1> DEFINE m == Len(list)
           F(n) == From(Place(list, n), Mergeables(list[n].ops))
           G(n) == From(Place(more, n), Mergeables(more[n].ops))
<1>1. /\ m \in Nat /\ Len(more) = m + 1 /\ more[m + 1] = ins
      /\ \A n \in 1 .. m : more[n] = list[n]
  OBVIOUS
<1>7. \A n \in 0 .. m : Shifts(more)[n] = Shifts(list)[n]
  <2>1. SameShifts(more, list)
    BY ShiftsMore
  <2> QED
    BY <2>1 DEF SameShifts
<1>2. \A n \in 1 .. m : F(n) = G(n)
  <2> SUFFICES ASSUME NEW n \in 1 .. m PROVE F(n) = G(n)
    OBVIOUS
  <2>1. n - 1 \in 0 .. m
    BY <1>1
  <2>2. Place(list, n) = Place(more, n)
    BY <1>1, <1>7, <2>1 DEF Place
  <2> QED
    BY <1>1, <2>2
<1>3. InsertedBy(list, m) = InsertedBy(more, m)
  <2> HIDE DEF F, G, m
  <2>1. UNION {F(n) : n \in 1 .. m} = UNION {G(n) : n \in 1 .. m}
    BY <1>2
  <2> QED
    BY <2>1 DEF InsertedBy, F, G
<1>4. InsertedBy(more, m + 1)
        = InsertedBy(more, m) \cup From(Place(more, m + 1), Mergeables(more[m + 1].ops))
  BY <1>1, InsertedNext
<1>5. (m + 1) - 1 = m /\ m \in 0 .. m
  BY <1>1
<1>6. Place(more, m + 1) = ins.index + Shifts(list)[m]
  BY <1>1, <1>5, <1>7 DEF Place
<1> QED
  BY <1>1, <1>3, <1>4, <1>6

(* The files and patches that the merger is given. *)
LEMMA ChainFacts ==
    ASSUME NEW c \in Chains, NEW l \in 0 .. Len(c.patches) - 1
    PROVE  /\ Len(c.files) \in Nat /\ Len(c.files) = Len(c.patches) + 1
           /\ Len(c.patches) \in Nat /\ Len(c.patches) > 0
           /\ c.files[l + 1] \in Seq(Byte) /\ c.files[l + 2] \in Seq(Byte)
           /\ c.files[Len(c.files)] \in Seq(Byte)
           /\ c.patches[l + 1] \in Seq(SparseOp)
           /\ Row(c.patches[l + 1], 0, Len(c.files[l + 2]))
           /\ AllGood(c.patches[l + 1], c.files[l + 1], c.files[l + 2])
<1> DEFINE files == c.files
           patches == c.patches
           p == patches[l + 1]
           src == files[l + 1]
           out == files[l + 2]
<1>1. /\ files \in Seq(Seq(Byte))
      /\ patches \in Seq(Seq(SparseOp)) /\ patches # <<>>
      /\ Len(files) = Len(patches) + 1
      /\ \A k \in 1 .. Len(patches) : IsPatch(patches[k], files[k], files[k + 1])
  BY MergerAssumption DEF MergerAssumption
<1> HIDE DEF files, patches
<1>2. /\ Len(patches) \in Nat /\ Len(patches) > 0 /\ Len(files) \in Nat
      /\ l \in 0 .. Len(patches) - 1
  BY <1>1 DEF patches
<1>3. l + 1 \in 1 .. Len(patches) /\ l + 1 \in 1 .. Len(files) /\ l + 2 \in 1 .. Len(files)
        /\ Len(files) \in 1 .. Len(files) /\ (l + 1) + 1 = l + 2
  <2>1. Len(files) = Len(patches) + 1
    BY <1>1
  <2> QED
    BY <2>1, <1>2
<1>4. src \in Seq(Byte) /\ out \in Seq(Byte) /\ files[Len(files)] \in Seq(Byte)
  BY <1>1, <1>3
<1>5. IsPatch(p, src, out)
  BY <1>1, <1>3
<1> HIDE DEF p, src, out
<1>6. p \in Seq(SparseOp) /\ Row(p, 0, Len(out))
  BY <1>5 DEF IsPatch, InARow
<1>7. AllGood(p, src, out)
  <2> SUFFICES ASSUME NEW k \in 1 .. Len(p) PROVE Good(p[k], src, out)
    BY DEF AllGood
  <2>1. p[k] \in SparseOp
    BY <1>6
  <2> QED
    BY <1>5, <2>1 DEF IsPatch, InARow, Good
<1> QED
  BY <1>1, <1>2, <1>4, <1>6, <1>7 DEF files, patches, p, src, out

-----------------------------------------------------------------------------
(* The invariant. *)
ExtractInv ==
    /\ output = <<>>
    /\ Row(extracted, 0, o_pos) /\ Row(input, o_pos, Len(Mid))
    /\ AllGood(extracted, Src, Mid) /\ AllGood(input, Src, Mid)
    /\ stats.copy_bytes > 0 <=> \E k \in 1 .. Len(extracted) : is_copy(extracted[k].op)

DerefPlace == IF extracted = <<>> THEN Len(Mid) ELSE extracted[1].at
DerefInv ==
    /\ Building(output, o_pos, pending, DerefPlace, Src, Mid)
    /\ Row(extracted, DerefPlace, Len(Mid)) /\ AllGood(extracted, Src, Mid)

(* The operations that take the place of a copy make what it reads. *)
InsertFor(ins, i) ==
    LET copy == terminal_patch[i].op
    IN /\ ins.index = i /\ ins.ops # <<>>
       /\ Row(ins.ops, copy.addr, copy.addr + copy.len)
       /\ AllFlat(ins.ops, Src, Mid)

(* The first of the indices are resolved, and the rest is to be. *)
ResolvedInv ==
    /\ Len(inserts) + Len(unresolved) = Len(terminal_copy_indices)
    /\ \A k \in 1 .. Len(unresolved) : unresolved[k] = terminal_copy_indices[Len(inserts) + k]
    /\ \A n \in 1 .. Len(inserts) : InsertFor(inserts[n], terminal_copy_indices[n])
    /\ shift = Shifts(inserts)[Len(inserts)]
    /\ Lists(new_indices, InsertedBy(inserts, Len(inserts)))
    /\ \A x \in InsertedBy(inserts, Len(inserts)) :
          inserts # <<>> /\ x <= terminal_copy_indices[Len(inserts)] + shift

(* What is merged so far makes the last file from src, and its copies are known. *)
TerminalInv(src) ==
    /\ Whole(terminal_patch, src, Final)
    /\ Lists(terminal_copy_indices, Mergeables(terminal_patch))

(* The first m inserts are in their places. *)
ExpandPlace ==
    IF cur_idx <= Len(terminal_patch) THEN terminal_patch[cur_idx].at ELSE Len(Final)
Placed(m) ==
    /\ \A n \in 1 .. Len(inserts) : inserts[n].index < cur_idx <=> n <= m
    /\ Len(output) + Len(pending) = cur_idx - 1 + Shifts(inserts)[m]
    /\ Copies(output, pending) = InsertedBy(inserts, m)
ExpandInv ==
    /\ unresolved = <<>> /\ cur_idx <= Len(terminal_patch) + 1
    /\ Building(output, o_pos, pending, ExpandPlace, Src, Final)
    /\ \E m \in 0 .. Len(inserts) : Placed(m)

Modes ==
    /\ pending # <<>> => phase \in {"deref", "expand"}
    /\ phase \in {"resolve", "expand"} => ~ terminal
    /\ terminal => left + 2 = Len(chain.files) /\ unresolved = <<>>
    /\ terminal /\ phase \in {"extract", "deref"} => terminal_copy_indices = <<>>
Reading ==
    /\ phase = "extract" => ExtractInv
    /\ phase = "deref" => DerefInv
    /\ phase = "resolve" => Whole(output, Src, Mid)
    /\ phase = "expand" => ExpandInv
Merging ==
    ~ terminal /\ phase \notin {"merger", "summary"} => TerminalInv(Mid) /\ ResolvedInv
Merged ==
    /\ phase = "merger" => TerminalInv(Src) /\ unresolved = <<>>
    /\ phase = "summary" => Whole(terminal_patch, Src, Final)
MergerInv == chain \in Chains /\ MergerTypeOK /\ Modes /\ Reading /\ Merging /\ Merged

-----------------------------------------------------------------------------
(* What the invariant says at once. *)
LEMMA Files ==
    ASSUME MergerInv
    PROVE  /\ left \in 0 .. Len(chain.patches) - 1 /\ Len(chain.patches) \in Nat
           /\ Len(chain.files) = Len(chain.patches) + 1
           /\ Src \in Seq(Byte) /\ Mid \in Seq(Byte) /\ Final \in Seq(Byte)
           /\ Len(Src) \in Nat /\ Len(Mid) \in Nat /\ Len(Final) \in Nat
           /\ chain.patches[left + 1] \in Seq(SparseOp)
           /\ Row(chain.patches[left + 1], 0, Len(Mid))
           /\ AllGood(chain.patches[left + 1], Src, Mid)
           /\ terminal => Mid = Final
<1>1. chain \in Chains /\ left \in 0 .. Len(chain.patches) - 1
  BY DEF MergerInv, MergerTypeOK
<1>2. /\ Len(chain.files) = Len(chain.patches) + 1 /\ Len(chain.patches) \in Nat
      /\ Src \in Seq(Byte) /\ Mid \in Seq(Byte) /\ Final \in Seq(Byte)
      /\ chain.patches[left + 1] \in Seq(SparseOp)
      /\ Row(chain.patches[left + 1], 0, Len(Mid))
      /\ AllGood(chain.patches[left + 1], Src, Mid)
  BY <1>1, ChainFacts DEF Src, Mid, Final
<1>3. Len(Src) \in Nat /\ Len(Mid) \in Nat /\ Len(Final) \in Nat
  BY <1>2
<1>4. terminal => Mid = Final
  BY DEF MergerInv, Modes, Mid, Final
<1> QED
  BY <1>1, <1>2, <1>3, <1>4

LEMMA SameFiles ==
    ASSUME UNCHANGED <<chain, left>>
    PROVE  Src' = Src /\ Mid' = Mid /\ Final' = Final
BY DEF Src, Mid, Final

LEMMA MergingStays ==
    ASSUME UNCHANGED <<chain, left, merger, merging>>
    PROVE  /\ TerminalInv(Mid)' <=> TerminalInv(Mid)
           /\ ResolvedInv' <=> ResolvedInv
<1>1. Src' = Src /\ Mid' = Mid /\ Final' = Final
  BY SameFiles
<1>2. TerminalInv(Mid)' <=> TerminalInv(Mid)
  BY <1>1 DEF TerminalInv, merger
<1>3. ResolvedInv' <=> ResolvedInv
  BY <1>1 DEF ResolvedInv, InsertFor, merger, merging
<1> QED
  BY <1>2, <1>3

LEMMA AllGoodAppend ==
    ASSUME NEW list \in Seq(SparseOp), NEW s, NEW src, NEW out,
           AllGood(list, src, out), Good(s, src, out)
    PROVE  AllGood(Append(list, s), src, out)
<1>1. /\ Len(Append(list, s)) = Len(list) + 1 /\ Len(list) \in Nat
      /\ Append(list, s)[Len(list) + 1] = s
      /\ \A k \in 1 .. Len(list) : Append(list, s)[k] = list[k]
  BY DEF Good
<1>2. \A k \in 1 .. Len(list) : Good(list[k], src, out)
  BY DEF AllGood
<1> SUFFICES ASSUME NEW k \in 1 .. Len(Append(list, s))
             PROVE  Good(Append(list, s)[k], src, out)
  BY DEF AllGood
<1> QED
  BY <1>1, <1>2

LEMMA AllGoodTail ==
    ASSUME NEW list \in Seq(SparseOp), list # <<>>, NEW src, NEW out, AllGood(list, src, out)
    PROVE  Good(Head(list), src, out) /\ AllGood(Tail(list), src, out)
<1>1. /\ Len(list) \in Nat /\ Len(list) > 0 /\ Len(Tail(list)) = Len(list) - 1
      /\ Head(list) = list[1]
  OBVIOUS
<1>2. \A k \in 1 .. Len(list) - 1 : Tail(list)[k] = list[k + 1]
  OBVIOUS
<1>3. \A k \in 1 .. Len(list) : Good(list[k], src, out)
  BY DEF AllGood
<1>4. 1 \in 1 .. Len(list) /\ \A k \in 1 .. Len(list) - 1 : k + 1 \in 1 .. Len(list)
  BY <1>1
<1> QED
  BY <1>1, <1>2, <1>3, <1>4 DEF AllGood

LEMMA InitInv ==
    ASSUME MergerInit
    PROVE  MergerInv
<1> DEFINE n == Len(chain.patches)
<1>1. chain \in Chains
  BY DEF MergerInit
<1>2. chain.patches \in Seq(Seq(SparseOp)) /\ chain.patches # <<>> /\ n \in Nat
        /\ Len(chain.files) = n + 1
  BY <1>1, MergerAssumption DEF MergerAssumption
<1>3. n > 0 /\ n \in 1 .. n
  BY <1>2
<1>4. left = n - 1 /\ left \in 0 .. n - 1 /\ left + 1 = n /\ left + 2 = Len(chain.files)
  BY <1>2, <1>3 DEF MergerInit
<1>5. /\ input \in Seq(SparseOp) /\ Row(input, 0, Len(Mid)) /\ AllGood(input, Src, Mid)
  <2>1. input = chain.patches[left + 1]
    BY <1>4 DEF MergerInit
  <2> QED
    BY <1>1, <1>4, <2>1, ChainFacts DEF Src, Mid
<1>6. <<>> \in Seq(SparseOp) /\ <<>> \in Seq(1 .. Len(<<>>)) /\ <<>> \in Seq(Inserts)
        /\ <<>> \in Seq(Nat) /\ Len(<<>>) = 0
  OBVIOUS
<1>7. MergerTypeOK
  BY <1>4, <1>5, <1>6 DEF MergerTypeOK, MergerInit, NoStats
<1>8. ExtractInv
  <2>1. Row(extracted, 0, o_pos) /\ AllGood(extracted, Src, Mid)
    BY <1>6 DEF MergerInit, Row, AllGood
  <2>2. ~ (stats.copy_bytes > 0) /\ Len(extracted) = 0
    BY <1>6 DEF MergerInit, NoStats
  <2>3. o_pos = 0 /\ output = <<>>
    BY DEF MergerInit
  <2> QED
    BY <1>5, <2>1, <2>2, <2>3 DEF ExtractInv
<1>9. Modes
  BY <1>4 DEF Modes, MergerInit
<1>10. Reading /\ Merging /\ Merged
  BY <1>8 DEF Reading, Merging, Merged, MergerInit
<1> QED
  BY <1>1, <1>7, <1>9, <1>10 DEF MergerInv

LEMMA ExtractOpInv ==
    ASSUME MergerInv, ExtractOp
    PROVE  MergerInv'
<1> DEFINE s == Head(input)
           list == extracted
           rest == Tail(input)
<1>1. /\ phase = "extract" /\ input # <<>> /\ pending = <<>>
      /\ list \in Seq(SparseOp) /\ input \in Seq(SparseOp)
      /\ o_pos \in Nat /\ stats \in [copy_bytes : Nat, output_size : Nat]
  BY DEF MergerInv, MergerTypeOK, ExtractOp, Modes
<1>2. /\ output = <<>> /\ Row(list, 0, o_pos) /\ Row(input, o_pos, Len(Mid))
      /\ AllGood(list, Src, Mid) /\ AllGood(input, Src, Mid)
      /\ stats.copy_bytes > 0 <=> \E k \in 1 .. Len(list) : is_copy(list[k].op)
  BY <1>1 DEF MergerInv, Reading, ExtractInv
<1>3. /\ s \in SparseOp /\ s.at = o_pos /\ rest \in Seq(SparseOp)
      /\ Row(rest, EndOf(s), Len(Mid))
  BY <1>1, <1>2, RowTail
<1>4. Good(s, Src, Mid) /\ AllGood(rest, Src, Mid)
  BY <1>1, <1>2, AllGoodTail
<1> HIDE DEF s, list, rest
<1>5. s = [at |-> o_pos, op |-> s.op]
  BY <1>3, Sizes
<1>6. /\ extracted' = Append(list, s) /\ o_pos' = o_pos + oal(s.op) /\ stats' = Count(s.op)
      /\ input' = rest
      /\ UNCHANGED <<chain, left, terminal, pending, output, merger, merging, cur_idx, phase>>
  BY <1>5 DEF ExtractOp, s, list, rest
<1>7. oal(s.op) = SizeOf(s) /\ SizeOf(s) \in Nat /\ SizeOf(s) > 0 /\ EndOf(s) = s.at + SizeOf(s)
        /\ EndOf(s) \in Nat
  BY <1>4, GoodFacts
<1>8. o_pos' = EndOf(s)
  BY <1>3, <1>6, <1>7
<1>9. Row(extracted', 0, o_pos') /\ extracted' \in Seq(SparseOp)
  BY <1>1, <1>2, <1>3, <1>6, <1>8, RowAppend
<1>10. AllGood(extracted', Src, Mid)
  BY <1>1, <1>2, <1>4, <1>6, AllGoodAppend
<1>11. Src' = Src /\ Mid' = Mid /\ Final' = Final
  BY <1>6, SameFiles
<1>12. /\ stats' \in [copy_bytes : Nat, output_size : Nat]
       /\ stats'.copy_bytes > 0 <=> stats.copy_bytes > 0 \/ is_copy(s.op)
  <2> DEFINE n == oal(s.op)
             b == stats.copy_bytes
             o == stats.output_size
  <2>1. n \in Nat /\ n > 0 /\ b \in Nat /\ o \in Nat
    BY <1>1, <1>7
  <2>2. CASE is_copy(s.op)
    <3>1. stats' = [copy_bytes |-> b + 2 * n, output_size |-> o + 2 * n]
      BY <1>6, <2>2 DEF Count
    <3> HIDE DEF n, b, o
    <3>2. b + 2 * n \in Nat /\ o + 2 * n \in Nat /\ b + 2 * n > 0
      BY <2>1
    <3> QED
      BY <2>2, <3>1, <3>2
  <2>3. CASE ~ is_copy(s.op)
    <3>1. stats' = [copy_bytes |-> b + 0, output_size |-> o + 1 * n]
      BY <1>6, <2>3 DEF Count
    <3>2. stats'.copy_bytes = b + 0 /\ b + 0 = b
      BY <2>1, <3>1
    <3> HIDE DEF n, o
    <3>3. b + 0 \in Nat /\ o + 1 * n \in Nat
      BY <2>1
    <3> QED
      BY <2>3, <3>1, <3>2, <3>3 DEF b
  <2> QED
    BY <2>2, <2>3
<1>13. (\E k \in 1 .. Len(extracted') : is_copy(extracted'[k].op))
         <=> (\E k \in 1 .. Len(list) : is_copy(list[k].op)) \/ is_copy(s.op)
  <2>1. /\ Len(extracted') = Len(list) + 1 /\ Len(list) \in Nat
        /\ extracted'[Len(list) + 1] = s
        /\ \A k \in 1 .. Len(list) : extracted'[k] = list[k]
    BY <1>1, <1>3, <1>6
  <2>2. 1 .. Len(list) + 1 = (1 .. Len(list)) \cup {Len(list) + 1}
    BY <2>1
  <2> QED
    BY <2>1, <2>2
<1>14. ExtractInv'
  BY <1>2, <1>3, <1>4, <1>6, <1>8, <1>9, <1>10, <1>11, <1>12, <1>13 DEF ExtractInv
<1>15. MergerTypeOK'
  BY <1>3, <1>6, <1>7, <1>8, <1>9, <1>12
  DEF MergerInv, MergerTypeOK, merger, merging
<1>16. Modes'
  BY <1>1, <1>6 DEF MergerInv, Modes, merger, merging
<1>17. Reading' /\ Merged'
  BY <1>1, <1>6, <1>14 DEF Reading, Merged
<1>18. Merging'
  BY <1>1, <1>6, MergingStays DEF MergerInv, Merging
<1> QED
  BY <1>6, <1>15, <1>16, <1>17, <1>18 DEF MergerInv

LEMMA AllFlatWithout ==
    ASSUME NEW list, NEW src, NEW out, AllGood(list, src, out),
           \A k \in 1 .. Len(list) : ~ is_copy(list[k].op)
    PROVE  AllFlat(list, src, out)
BY DEF AllGood, AllFlat, Flat, is_copy_from

LEMMA ExtractedInv ==
    ASSUME MergerInv, Extracted
    PROVE  MergerInv'
<1>1. /\ phase = "extract" /\ input = <<>> /\ pending = <<>>
      /\ extracted \in Seq(SparseOp) /\ o_pos \in Nat
      /\ chain' = chain /\ left' = left /\ terminal' = terminal /\ input' = input
      /\ stats' = stats /\ pending' = pending
      /\ terminal_copy_indices' = terminal_copy_indices /\ UNCHANGED merging
      /\ cur_idx' = cur_idx
  BY DEF MergerInv, MergerTypeOK, Extracted, Modes
<1>2. /\ output = <<>> /\ Row(extracted, 0, o_pos) /\ Row(input, o_pos, Len(Mid))
      /\ AllGood(extracted, Src, Mid)
      /\ stats.copy_bytes > 0 <=> \E k \in 1 .. Len(extracted) : is_copy(extracted[k].op)
  BY <1>1 DEF MergerInv, Reading, ExtractInv
<1>3. Row(extracted, 0, Len(Mid))
  BY <1>1, <1>2 DEF Row
<1>4. Src' = Src /\ Mid' = Mid /\ Final' = Final
  BY <1>1, SameFiles
<1>5. MergerTypeOK /\ Modes /\ Merging /\ chain \in Chains
  BY DEF MergerInv
<1>6. CASE stats.copy_bytes > 0
  <2>1. phase' = "deref" /\ o_pos' = 0 /\ UNCHANGED <<extracted, output, terminal_patch>>
    BY <1>6 DEF Extracted
  <2>2. MergerTypeOK'
    BY <1>1, <1>5, <2>1 DEF MergerTypeOK, merging
  <2>3. Modes'
    BY <1>1, <1>5, <2>1 DEF Modes, merging
  <2>4. DerefPlace = 0 /\ DerefPlace' = DerefPlace
    <3>1. 0 = IF extracted = <<>> THEN Len(Mid) ELSE extracted[1].at
      BY <1>1, <1>3, RowFirst
    <3> QED
      BY <1>4, <2>1, <3>1 DEF DerefPlace
  <2>5. Building(output', o_pos', pending', DerefPlace', Src', Mid')
    <3>1. Len(<<>>) = 0 /\ 0 - 0 = 0 /\ 0 \in Int
      OBVIOUS
    <3>2. Row(<<>>, 0, 0)
      BY <3>1 DEF Row
    <3>3. Building(<<>>, 0, <<>>, 0, Src, Mid)
      BY <3>1, <3>2 DEF Building, AllFlat, AllMoved
    <3> QED
      BY <1>1, <1>2, <1>4, <2>1, <2>4, <3>3
  <2>6. DerefInv'
    BY <1>2, <1>3, <1>4, <2>1, <2>4, <2>5 DEF DerefInv
  <2>7. Reading' /\ Merged'
    BY <2>1, <2>6 DEF Reading, Merged
  <2>8. Merging'
    <3>1. UNCHANGED <<chain, left, merger, merging>>
      BY <1>1, <2>1 DEF merger
    <3> QED
      BY <1>1, <1>5, <2>1, <3>1, MergingStays DEF Merging
  <2> QED
    BY <1>1, <1>5, <2>2, <2>3, <2>7, <2>8 DEF MergerInv
<1>7. CASE ~ (stats.copy_bytes > 0)
  <2>1. /\ phase' = IF terminal THEN "summary" ELSE "resolve"
        /\ terminal_patch' = IF terminal THEN extracted ELSE terminal_patch
        /\ output' = IF terminal THEN output ELSE extracted
        /\ extracted' = <<>> /\ o_pos' = o_pos
    BY <1>7 DEF Extracted
  <2>2. AllFlat(extracted, Src, Mid)
    BY <1>2, <1>7, AllFlatWithout
  <2>3. Whole(extracted, Src, Mid)
    BY <1>3, <2>2 DEF Whole
  <2>4. <<>> \in Seq(SparseOp)
    OBVIOUS
  <2>5. CASE terminal
    <3>1. /\ phase' = "summary" /\ terminal_patch' = extracted /\ output' = output
          /\ terminal_copy_indices = <<>> /\ unresolved = <<>>
          /\ terminal_copy_indices' = <<>> /\ unresolved' = <<>>
      BY <1>1, <1>5, <2>1, <2>5 DEF Modes, merging
    <3>2. <<>> \in Seq(1 .. Len(terminal_patch'))
      OBVIOUS
    <3>3. MergerTypeOK'
      BY <1>1, <1>5, <2>1, <2>4, <3>1, <3>2 DEF MergerTypeOK, merging
    <3>4. Modes'
      BY <1>1, <1>5, <3>1 DEF Modes
    <3>5. Mid = Final
      BY <2>5, Files
    <3>6. Reading' /\ Merging' /\ Merged'
      BY <1>4, <2>3, <3>1, <3>5 DEF Reading, Merging, Merged
    <3> QED
      BY <1>1, <1>5, <3>3, <3>4, <3>6 DEF MergerInv
  <2>6. CASE ~ terminal
    <3>1. phase' = "resolve" /\ terminal_patch' = terminal_patch /\ output' = extracted
      BY <2>1, <2>6
    <3>2. MergerTypeOK'
      BY <1>1, <1>5, <2>1, <2>4, <3>1 DEF MergerTypeOK, merging
    <3>3. Modes'
      BY <1>1, <1>5, <2>6, <3>1 DEF Modes, merging
    <3>4. Reading' /\ Merged'
      BY <1>4, <2>3, <3>1 DEF Reading, Merged
    <3>5. UNCHANGED <<chain, left, merger, merging>>
      BY <1>1, <3>1 DEF merger
    <3>6. Merging'
      BY <1>1, <1>5, <2>6, <3>1, <3>5, MergingStays DEF Merging
    <3> QED
      BY <1>1, <1>5, <3>2, <3>3, <3>4, <3>6 DEF MergerInv
  <2> QED
    BY <2>5, <2>6
<1> QED
  BY <1>6, <1>7

(* The operations of a patch that a copy from the output stands for are there. *)
LEMMA DerefFacts ==
    ASSUME MergerInv, phase = "deref", pending = <<>>, extracted # <<>>,
           NEW s, s = Head(extracted)
    PROVE  /\ s \in SparseOp /\ s.at = o_pos /\ Good(s, Src, Mid)
           /\ Row(output, 0, o_pos) /\ AllFlat(output, Src, Mid)
           /\ extracted \in Seq(SparseOp) /\ output \in Seq(SparseOp) /\ o_pos \in Nat
           /\ Tail(extracted) \in Seq(SparseOp) /\ Row(Tail(extracted), EndOf(s), Len(Mid))
           /\ AllGood(Tail(extracted), Src, Mid)
           /\ is_copy_from(s.op, "Output") =>
                /\ s.op.addr \in Nat /\ s.op.len \in Nat /\ s.op.len > 0
                /\ Covered(output, s.op.addr, s.op.len)
                /\ SizeOf(s) = s.op.len /\ s.op.addr + s.op.len <= o_pos
                /\ SameBytes(Mid, s.op.addr, Mid, o_pos, s.op.len)
<1>1. extracted \in Seq(SparseOp) /\ output \in Seq(SparseOp) /\ o_pos \in Nat
  BY DEF MergerInv, MergerTypeOK
<1>2. /\ Building(output, o_pos, pending, DerefPlace, Src, Mid)
      /\ Row(extracted, DerefPlace, Len(Mid)) /\ AllGood(extracted, Src, Mid)
  BY DEF MergerInv, Reading, DerefInv
<1>3. /\ s \in SparseOp /\ s.at = DerefPlace /\ Tail(extracted) \in Seq(SparseOp)
      /\ Row(Tail(extracted), EndOf(s), Len(Mid))
  BY <1>1, <1>2, RowTail
<1>4. Good(s, Src, Mid) /\ AllGood(Tail(extracted), Src, Mid)
  BY <1>1, <1>2, AllGoodTail
<1>5. s.at \in Nat /\ s.op \in Op
  BY <1>4, GoodFacts
<1>6. o_pos = DerefPlace /\ Row(output, 0, o_pos) /\ AllFlat(output, Src, Mid)
  BY <1>1, <1>2, <1>3, <1>5, BuildingDone
<1>7. ASSUME is_copy_from(s.op, "Output")
      PROVE  /\ s.op.addr \in Nat /\ s.op.len \in Nat /\ s.op.len > 0
             /\ Covered(output, s.op.addr, s.op.len)
             /\ SizeOf(s) = s.op.len /\ s.op.addr + s.op.len <= o_pos
             /\ SameBytes(Mid, s.op.addr, Mid, o_pos, s.op.len)
  <2>1. is_copy(s.op) /\ s.op.src = "Output"
    BY <1>7 DEF is_copy_from
  <2>2. ~ is_add(s.op) /\ ~ is_run(s.op) /\ s.op.addr \in Nat /\ s.op.len \in 0 .. MAX_INST_SIZE
    BY <1>5, <2>1, Kinds
  <2>3. SizeOf(s) = s.op.len /\ s.op.len \in Nat /\ s.op.len > 0
    BY <1>4, <2>2, GoodFacts DEF SizeOf
  <2>4. s.op.addr + s.op.len <= o_pos
    BY <1>3, <1>4, <1>6, <1>7 DEF Good, Yields
  <2>5. \A j \in 1 .. SizeOf(s) : Mid[s.op.addr + j] = Mid[s.at + j]
    BY <1>4, <2>1, <2>2 DEF Good, Yields, CopiedFrom
  <2>6. Covered(output, s.op.addr, s.op.len)
    BY <1>1, <1>6, <2>2, <2>3, <2>4, CoveredIn
  <2> QED
    BY <1>3, <1>6, <2>2, <2>3, <2>4, <2>5, <2>6 DEF SameBytes
<1> QED
  BY <1>1, <1>3, <1>4, <1>6, <1>7

LEMMA DerefOpInv ==
    ASSUME MergerInv, DerefOp
    PROVE  MergerInv'
<1> DEFINE s == Head(extracted)
           rest == Tail(extracted)
           slice == get_exact_slice(output, s.op.addr, s.op.len)
<1>1. /\ phase = "deref" /\ pending = <<>> /\ extracted # <<>>
      /\ pending' = IF is_copy_from(s.op, "Output") THEN slice ELSE <<s>>
      /\ extracted' = rest
      /\ UNCHANGED <<chain, left, terminal, input, stats, output, o_pos, merger, merging,
                     cur_idx, phase>>
  BY DEF DerefOp
<1>2. MergerTypeOK /\ Modes /\ Merging /\ chain \in Chains
  BY DEF MergerInv
<1>3. /\ s \in SparseOp /\ s.at = o_pos /\ Good(s, Src, Mid)
      /\ Row(output, 0, o_pos) /\ AllFlat(output, Src, Mid)
      /\ output \in Seq(SparseOp) /\ o_pos \in Nat
      /\ rest \in Seq(SparseOp) /\ Row(rest, EndOf(s), Len(Mid)) /\ AllGood(rest, Src, Mid)
      /\ is_copy_from(s.op, "Output") =>
           /\ s.op.addr \in Nat /\ s.op.len \in Nat /\ s.op.len > 0
           /\ Covered(output, s.op.addr, s.op.len)
           /\ SizeOf(s) = s.op.len /\ s.op.addr + s.op.len <= o_pos
  BY <1>1, DerefFacts
<1>4. is_copy_from(s.op, "Output") => SameBytes(Mid, s.op.addr, Mid, o_pos, s.op.len)
  BY <1>1, DerefFacts
<1>5. Src' = Src /\ Mid' = Mid /\ Final' = Final
  BY <1>1, SameFiles
<1>6. Src \in Seq(Byte) /\ Mid \in Seq(Byte) /\ Len(Mid) \in Nat
  BY Files
<1>7. /\ EndOf(s) \in Nat /\ EndOf(s) = o_pos + SizeOf(s) /\ SizeOf(s) \in Nat
      /\ EndOf(s) <= Len(Mid)
  BY <1>3, GoodFacts
<1> HIDE DEF s, rest
<1>8. DerefPlace' = EndOf(s)
  <2>1. EndOf(s) = IF rest = <<>> THEN Len(Mid) ELSE rest[1].at
    BY <1>3, RowFirst
  <2> QED
    BY <1>1, <1>5, <2>1 DEF DerefPlace
<1>9. /\ pending' \in Seq(SparseOp)
      /\ Building(output, o_pos, pending', EndOf(s), Src, Mid)
  <2>1. CASE is_copy_from(s.op, "Output")
    <3> DEFINE addr == s.op.addr
               len == s.op.len
    <3>1. /\ addr \in Nat /\ len \in Nat /\ len > 0 /\ Covered(output, addr, len)
          /\ slice = get_exact_slice(output, addr, len) /\ pending' = slice
          /\ EndOf(s) = o_pos + len
      BY <1>1, <1>3, <1>7, <2>1
    <3>2. SameBytes(Mid, addr, Mid, o_pos, len)
      BY <1>4, <2>1
    <3> HIDE DEF addr, len, slice
    <3>3. /\ slice \in Seq(SparseOp) /\ Row(slice, addr, addr + len)
          /\ AllFlat(slice, Src, Mid)
      BY <1>3, <1>6, <3>1, SliceFlat
    <3>4. o_pos + len <= Len(Mid)
      BY <1>7, <3>1
    <3>5. AllMoved(slice, o_pos - addr, Src, Mid)
      BY <1>3, <1>6, <3>1, <3>2, <3>3, <3>4, SliceMoves
    <3>6. o_pos - addr \in Int /\ o_pos - (o_pos - addr) = addr
            /\ EndOf(s) - (o_pos - addr) = addr + len
      BY <1>3, <3>1
    <3>7. Row(slice, o_pos - (o_pos - addr), EndOf(s) - (o_pos - addr))
      BY <3>3, <3>6
    <3>8. Building(output, o_pos, slice, EndOf(s), Src, Mid)
      BY <1>3, <3>5, <3>6, <3>7 DEF Building
    <3> QED
      BY <3>1, <3>3, <3>8
  <2>2. CASE ~ is_copy_from(s.op, "Output")
    <3>1. pending' = <<s>> /\ Flat(s, Src, Mid)
      BY <1>1, <1>3, <2>2 DEF Flat
    <3>2. /\ Row(<<s>>, o_pos, EndOf(s)) /\ <<s>> \in Seq(SparseOp) /\ Len(<<s>>) = 1
          /\ <<s>>[1] = s
      BY <1>3, RowSingle
    <3>3. Moved(s, 0) = s
      BY <1>3, MovedNowhere
    <3>4. AllMoved(<<s>>, 0, Src, Mid)
      <4>1. \A k \in 1 .. Len(<<s>>) : k = 1
        BY <3>2
      <4> QED
        BY <3>1, <3>2, <3>3, <4>1 DEF AllMoved
    <3>5. 0 \in Int /\ o_pos - 0 = o_pos /\ EndOf(s) - 0 = EndOf(s)
      BY <1>3, <1>7
    <3>6. Building(output, o_pos, <<s>>, EndOf(s), Src, Mid)
      BY <1>3, <3>2, <3>4, <3>5 DEF Building
    <3> QED
      BY <3>1, <3>2, <3>6
  <2> QED
    BY <2>1, <2>2
<1>10. DerefInv'
  BY <1>1, <1>3, <1>5, <1>8, <1>9 DEF DerefInv
<1>11. MergerTypeOK'
  BY <1>1, <1>2, <1>3, <1>9 DEF MergerTypeOK, merger, merging
<1>12. Modes'
  BY <1>1, <1>2 DEF Modes, merger, merging
<1>13. Reading' /\ Merged'
  BY <1>1, <1>10 DEF Reading, Merged
<1>14. Merging'
  BY <1>1, <1>2, MergingStays DEF Merging
<1> QED
  BY <1>1, <1>2, <1>11, <1>12, <1>13, <1>14 DEF MergerInv

LEMMA PushOpInv ==
    ASSUME MergerInv, PushOp
    PROVE  MergerInv'
<1> DEFINE s == [Head(pending) EXCEPT !.at = o_pos]
<1>1. /\ pending # <<>> /\ output' = Append(output, s) /\ pending' = Tail(pending)
      /\ o_pos' = o_pos + oal(Head(pending).op)
      /\ UNCHANGED <<chain, left, terminal, reading, merger, merging, cur_idx, phase>>
  BY DEF PushOp
<1>2. MergerTypeOK /\ Modes /\ Reading /\ Merging /\ chain \in Chains
  BY DEF MergerInv
<1>3. /\ pending \in Seq(SparseOp) /\ output \in Seq(SparseOp) /\ o_pos \in Nat
      /\ phase \in {"deref", "expand"}
  BY <1>1, <1>2 DEF MergerTypeOK, Modes
<1>4. Src' = Src /\ Mid' = Mid /\ Final' = Final
  BY <1>1, SameFiles
<1> HIDE DEF s
<1>5. ASSUME NEW to, NEW src, NEW out, Building(output, o_pos, pending, to, src, out)
      PROVE  /\ output' \in Seq(SparseOp) /\ pending' \in Seq(SparseOp) /\ o_pos' \in Nat
             /\ s \in SparseOp /\ s.op = Head(pending).op
             /\ Building(output', o_pos', pending', to, src, out)
  <2>1. /\ s \in SparseOp /\ Append(output, s) \in Seq(SparseOp)
        /\ Tail(pending) \in Seq(SparseOp)
        /\ s.op = Head(pending).op /\ o_pos + oal(s.op) \in Nat
        /\ Building(Append(output, s), o_pos + oal(s.op), Tail(pending), to, src, out)
    BY <1>1, <1>3, <1>5, BuildingPush DEF s
  <2> QED
    BY <1>1, <2>1
<1>6. Modes'
  BY <1>1, <1>2, <1>3 DEF Modes, merger, merging
<1>7. Merging'
  BY <1>1, <1>2, <1>3, MergingStays DEF Merging
<1>8. CASE phase = "deref"
  <2>1. /\ Building(output, o_pos, pending, DerefPlace, Src, Mid)
        /\ Row(extracted, DerefPlace, Len(Mid)) /\ AllGood(extracted, Src, Mid)
    BY <1>2, <1>8 DEF Reading, DerefInv
  <2>2. DerefPlace' = DerefPlace /\ extracted' = extracted
    BY <1>1, <1>4 DEF DerefPlace, reading
  <2>3. /\ output' \in Seq(SparseOp) /\ pending' \in Seq(SparseOp) /\ o_pos' \in Nat
        /\ Building(output', o_pos', pending', DerefPlace, Src, Mid)
    BY <1>5, <2>1
  <2>4. DerefInv'
    BY <1>4, <2>1, <2>2, <2>3 DEF DerefInv
  <2>5. Reading' /\ Merged'
    BY <1>1, <1>8, <2>4 DEF Reading, Merged
  <2>6. MergerTypeOK'
    BY <1>1, <1>2, <2>3 DEF MergerTypeOK, reading, merger, merging
  <2> QED
    BY <1>1, <1>2, <1>6, <1>7, <2>5, <2>6 DEF MergerInv
<1>9. CASE phase = "expand"
  <2>1. /\ unresolved = <<>> /\ cur_idx <= Len(terminal_patch) + 1
        /\ Building(output, o_pos, pending, ExpandPlace, Src, Final)
    BY <1>2, <1>9 DEF Reading, ExpandInv
  <2>2. PICK m \in 0 .. Len(inserts) : Placed(m)
    BY <1>2, <1>9 DEF Reading, ExpandInv
  <2>3. /\ ExpandPlace' = ExpandPlace /\ unresolved' = unresolved /\ cur_idx' = cur_idx
        /\ terminal_patch' = terminal_patch /\ inserts' = inserts
    BY <1>1, <1>4 DEF ExpandPlace, merger, merging
  <2>4. /\ output' \in Seq(SparseOp) /\ pending' \in Seq(SparseOp) /\ o_pos' \in Nat
        /\ s \in SparseOp /\ s.op = Head(pending).op
        /\ Building(output', o_pos', pending', ExpandPlace, Src, Final)
    BY <1>5, <2>1
  <2>5. /\ Len(output') + Len(pending') = Len(output) + Len(pending)
        /\ Copies(output', pending') = Copies(output, pending)
    BY <1>1, <1>3, <2>4, CopiesPush
  <2>6. Placed(m)'
    BY <2>2, <2>3, <2>5 DEF Placed
  <2>7. ExpandInv'
    BY <1>4, <2>1, <2>3, <2>4, <2>6 DEF ExpandInv
  <2>8. Reading' /\ Merged'
    BY <1>1, <1>9, <2>7 DEF Reading, Merged
  <2>9. MergerTypeOK'
    BY <1>1, <1>2, <2>4 DEF MergerTypeOK, reading, merger, merging
  <2> QED
    BY <1>1, <1>2, <1>6, <1>7, <2>8, <2>9 DEF MergerInv
<1> QED
  BY <1>3, <1>8, <1>9

LEMMA FromOne ==
    ASSUME NEW list \in Seq(SparseOp)
    PROVE  From(1, Mergeables(list)) = Mergeables(list) /\ Mergeables(list) \subseteq 1 .. Len(list)
<1>1. \A k \in Mergeables(list) : 1 + k - 1 = k
  BY DEF Mergeables
<1> QED
  BY <1>1 DEF From, Mergeables

LEMMA DereferencedInv ==
    ASSUME MergerInv, Dereferenced
    PROVE  MergerInv'
<1>1. /\ phase = "deref" /\ pending = <<>> /\ extracted = <<>>
      /\ UNCHANGED <<chain, left, terminal, reading, pending, output, o_pos, merging, cur_idx>>
  BY DEF Dereferenced
<1>2. MergerTypeOK /\ Modes /\ Reading /\ Merging /\ chain \in Chains
  BY DEF MergerInv
<1>3. Src' = Src /\ Mid' = Mid /\ Final' = Final
  BY <1>1, SameFiles
<1>4. output \in Seq(SparseOp) /\ o_pos \in Nat /\ Len(Mid) \in Nat
  BY <1>2, Files DEF MergerTypeOK
<1>5. Whole(output, Src, Mid)
  <2>1. Building(output, o_pos, <<>>, Len(Mid), Src, Mid)
    BY <1>1, <1>2 DEF Reading, DerefInv, DerefPlace
  <2>2. Row(output, 0, Len(Mid)) /\ AllFlat(output, Src, Mid)
    BY <1>4, <2>1, BuildingDone
  <2> QED
    BY <2>2 DEF Whole
<1>6. CASE terminal
  <2>1. /\ terminal_patch' = output /\ phase' = "merger"
        /\ terminal_copy_indices' = find_mergeable_copies(output, 1)
    BY <1>6 DEF Dereferenced
  <2>2. unresolved = <<>> /\ Mid = Final
    BY <1>2, <1>6, Files DEF Modes
  <2>3. /\ terminal_copy_indices' \in Seq(Nat)
        /\ Lists(terminal_copy_indices', From(1, Mergeables(output)))
    <3>1. 1 \in Nat \ {0}
      OBVIOUS
    <3> QED
      BY <1>4, <2>1, <3>1, FindMergeable
  <2>4. Lists(terminal_copy_indices', Mergeables(output)) /\ Mergeables(output) \subseteq 1 .. Len(output)
    BY <1>4, <2>3, FromOne
  <2>5. terminal_copy_indices' \in Seq(1 .. Len(output))
    BY <2>3, <2>4, ListsWithin
  <2>6. <<>> \in Seq(1 .. Len(terminal_patch'))
    OBVIOUS
  <2>7. MergerTypeOK'
    BY <1>1, <1>2, <1>4, <2>1, <2>2, <2>5, <2>6 DEF MergerTypeOK, reading, merging
  <2>8. Modes'
    BY <1>1, <1>2, <2>1 DEF Modes, merging
  <2>9. TerminalInv(Src)'
    BY <1>3, <1>5, <2>1, <2>2, <2>4 DEF TerminalInv
  <2>10. Reading' /\ Merging' /\ Merged'
    BY <1>1, <2>1, <2>2, <2>9 DEF Reading, Merging, Merged, merging
  <2> QED
    BY <1>1, <1>2, <2>7, <2>8, <2>10 DEF MergerInv
<1>7. CASE ~ terminal
  <2>1. phase' = "resolve" /\ UNCHANGED merger
    BY <1>7 DEF Dereferenced
  <2>2. MergerTypeOK'
    BY <1>1, <1>2, <2>1 DEF MergerTypeOK, reading, merger, merging
  <2>3. Modes'
    BY <1>1, <1>2, <1>7, <2>1 DEF Modes, merging
  <2>4. Reading' /\ Merged'
    BY <1>1, <1>3, <1>5, <2>1 DEF Reading, Merged
  <2>5. Merging'
    BY <1>1, <1>2, <1>7, <2>1, MergingStays DEF Merging
  <2> QED
    BY <1>1, <1>2, <2>2, <2>3, <2>4, <2>5 DEF MergerInv
<1> QED
  BY <1>6, <1>7

LEMMA NothingShifted ==
    Shifts(<<>>)[0] = 0 /\ InsertedBy(<<>>, 0) = {} /\ Lists(<<>>, {}) /\ Len(<<>>) = 0
<1>1. <<>> \in Seq(Inserts) /\ Len(<<>>) = 0
  OBVIOUS
<1>2. Full(<<>>)
  BY <1>1 DEF Full
<1>3. Shifts(<<>>)[0] = 0
  BY <1>1, <1>2, ShiftsIs
<1>4. Lists(<<>>, {})
  BY <1>1 DEF Lists
<1> QED
  BY <1>1, <1>3, <1>4, InsertedNone

LEMMA MergeInv ==
    ASSUME MergerInv, Merge
    PROVE  MergerInv'
<1>1. /\ phase = "merger" /\ left > 0 /\ left' = left - 1 /\ terminal' = FALSE
      /\ input' = chain.patches[left] /\ stats' = NoStats /\ extracted' = <<>>
      /\ output' = <<>> /\ o_pos' = 0 /\ unresolved' = terminal_copy_indices
      /\ inserts' = <<>> /\ shift' = 0 /\ new_indices' = <<>>
      /\ phase' = "extract"
      /\ UNCHANGED <<chain, pending, merger, cur_idx>>
  BY DEF Merge
<1>2. MergerTypeOK /\ Modes /\ Merged /\ chain \in Chains
  BY DEF MergerInv
<1>3. left \in 0 .. Len(chain.patches) - 1 /\ Len(chain.patches) \in Nat
  BY Files
<1>4. left' \in 0 .. Len(chain.patches) - 1 /\ left' + 1 = left /\ left' + 2 = left + 1
  BY <1>1, <1>3
<1>5. Mid' = Src /\ Final' = Final
  BY <1>1, <1>4 DEF Src, Mid, Final
<1>6. /\ input' \in Seq(SparseOp) /\ Row(input', 0, Len(Mid')) /\ AllGood(input', Src', Mid')
  <2> DEFINE l == left'
  <2>1. l \in 0 .. Len(chain.patches) - 1 /\ input' = chain.patches[l + 1]
          /\ Src' = chain.files[l + 1] /\ Mid' = chain.files[l + 2]
    BY <1>1, <1>4 DEF Src, Mid
  <2> HIDE DEF l
  <2> QED
    BY <1>2, <2>1, ChainFacts
<1>7. pending = <<>>
  BY <1>1, <1>2 DEF Modes
<1>8. /\ terminal_patch' = terminal_patch /\ terminal_copy_indices' = terminal_copy_indices
      /\ chain' = chain /\ cur_idx' = cur_idx /\ pending' = <<>>
  BY <1>1, <1>7 DEF merger
<1>9. <<>> \in Seq(SparseOp) /\ <<>> \in Seq(Inserts) /\ <<>> \in Seq(Nat) /\ Len(<<>>) = 0
        /\ 0 \in Nat /\ NoStats \in [copy_bytes : Nat, output_size : Nat]
        /\ NoStats.copy_bytes = 0
  BY DEF NoStats
<1>10. MergerTypeOK'
  BY <1>1, <1>2, <1>4, <1>6, <1>8, <1>9 DEF MergerTypeOK
<1>11. Modes'
  BY <1>1, <1>8 DEF Modes
<1>12. ExtractInv'
  <2>1. Row(<<>>, 0, 0) /\ AllGood(<<>>, Src', Mid')
    BY <1>9 DEF Row, AllGood
  <2>2. ~ (stats'.copy_bytes > 0) /\ Len(extracted') = 0
    BY <1>1, <1>9
  <2> QED
    BY <1>1, <1>6, <2>1, <2>2 DEF ExtractInv
<1>13. TerminalInv(Mid)'
  <2>1. TerminalInv(Src)
    BY <1>1, <1>2 DEF Merged
  <2> QED
    BY <1>5, <1>8, <2>1 DEF TerminalInv
<1>14. ResolvedInv'
  <2>1. Len(terminal_copy_indices) \in Nat
    BY <1>2 DEF MergerTypeOK
  <2>2. /\ Len(inserts') = 0 /\ shift' = Shifts(inserts')[Len(inserts')]
        /\ InsertedBy(inserts', Len(inserts')) = {}
        /\ Lists(new_indices', InsertedBy(inserts', Len(inserts')))
    BY <1>1, NothingShifted
  <2>3. /\ Len(inserts') + Len(unresolved') = Len(terminal_copy_indices')
        /\ \A k \in 1 .. Len(unresolved') :
              unresolved'[k] = terminal_copy_indices'[Len(inserts') + k]
    BY <1>1, <1>8, <2>1, <2>2
  <2> QED
    BY <2>2, <2>3 DEF ResolvedInv
<1>15. Reading' /\ Merging' /\ Merged'
  BY <1>1, <1>12, <1>13, <1>14 DEF Reading, Merging, Merged
<1> QED
  BY <1>2, <1>8, <1>10, <1>11, <1>15 DEF MergerInv

(* A copy to resolve reads what the list of the patch at hand makes. *)
LEMMA MergeableFacts ==
    ASSUME MergerInv, TerminalInv(Mid), NEW i \in Mergeables(terminal_patch),
           NEW s, s = terminal_patch[i]
    PROVE  /\ i \in 1 .. Len(terminal_patch) /\ is_mergeable(s) /\ Flat(s, Mid, Final)
           /\ s.op.addr \in Nat /\ s.op.len \in Nat /\ s.op.len > 0 /\ s.at \in Nat
           /\ s.op.addr + s.op.len <= Len(Mid) /\ s.at + s.op.len <= Len(Final)
           /\ EndOf(s) = s.at + s.op.len
           /\ SameBytes(Mid, s.op.addr, Final, s.at, s.op.len)
<1>1. i \in 1 .. Len(terminal_patch) /\ is_mergeable(s)
  BY DEF Mergeables
<1>2. Flat(s, Mid, Final)
  BY <1>1 DEF TerminalInv, Whole, AllFlat
<1>3. Good(s, Mid, Final) /\ is_copy(s.op) /\ s.op.src = "Dict"
  BY <1>1, <1>2 DEF Flat, is_mergeable, is_copy_from
<1>4. /\ s.at \in Nat /\ s.op \in Op /\ SizeOf(s) > 0 /\ SizeOf(s) \in Nat
      /\ EndOf(s) = s.at + SizeOf(s) /\ EndOf(s) <= Len(Final)
  BY <1>3, GoodFacts
<1>5. ~ is_add(s.op) /\ ~ is_run(s.op) /\ s.op.addr \in Nat
  BY <1>3, <1>4, Kinds
<1>6. SizeOf(s) = s.op.len
  BY <1>5 DEF SizeOf
<1>7. s.op.addr + s.op.len <= Len(Mid)
  BY <1>3 DEF Good, Yields, CopiedFrom
<1>8. \A j \in 1 .. SizeOf(s) : Mid[s.op.addr + j] = Final[s.at + j]
  BY <1>3, <1>5 DEF Good, Yields, CopiedFrom
<1>9. SameBytes(Mid, s.op.addr, Final, s.at, s.op.len)
  BY <1>6, <1>8 DEF SameBytes
<1> QED
  BY <1>1, <1>2, <1>4, <1>5, <1>6, <1>7, <1>9

LEMMA ResolveFacts ==
    ASSUME MergerInv, phase = "resolve", unresolved # <<>>,
           NEW i, i = Head(unresolved), NEW s, s = terminal_patch[i]
    PROVE  /\ TerminalInv(Mid) /\ ResolvedInv
           /\ Len(inserts) + 1 \in 1 .. Len(terminal_copy_indices)
           /\ i = terminal_copy_indices[Len(inserts) + 1]
           /\ i \in 1 .. Len(terminal_patch) /\ is_mergeable(s)
           /\ s.op.addr \in Nat /\ s.op.len \in Nat /\ s.op.len > 0
           /\ Covered(output, s.op.addr, s.op.len)
           /\ Row(output, 0, Len(Mid)) /\ AllFlat(output, Src, Mid)
<1>1. MergerTypeOK /\ Modes /\ Reading /\ Merging
  BY DEF MergerInv
<1>2. TerminalInv(Mid) /\ ResolvedInv
  BY <1>1 DEF Modes, Merging
<1>3. /\ unresolved \in Seq(1 .. Len(terminal_patch)) /\ inserts \in Seq(Inserts)
      /\ terminal_copy_indices \in Seq(1 .. Len(terminal_patch)) /\ output \in Seq(SparseOp)
  BY <1>1 DEF MergerTypeOK
<1>4. /\ Len(unresolved) \in Nat /\ Len(unresolved) > 0 /\ Len(inserts) \in Nat
      /\ Len(terminal_copy_indices) \in Nat /\ i = unresolved[1]
  BY <1>3
<1>5. /\ Len(inserts) + Len(unresolved) = Len(terminal_copy_indices)
      /\ \A k \in 1 .. Len(unresolved) : unresolved[k] = terminal_copy_indices[Len(inserts) + k]
  BY <1>2 DEF ResolvedInv
<1>6. Len(inserts) + 1 \in 1 .. Len(terminal_copy_indices) /\ 1 \in 1 .. Len(unresolved)
  BY <1>4, <1>5
<1>7. i = terminal_copy_indices[Len(inserts) + 1]
  BY <1>4, <1>5, <1>6
<1>8. i \in Mergeables(terminal_patch)
  BY <1>2, <1>6, <1>7 DEF TerminalInv, Lists
<1>9. Row(output, 0, Len(Mid)) /\ AllFlat(output, Src, Mid)
  BY <1>1 DEF Reading, Whole
<1>10. /\ i \in 1 .. Len(terminal_patch) /\ is_mergeable(s)
       /\ s.op.addr \in Nat /\ s.op.len \in Nat /\ s.op.len > 0
       /\ s.op.addr + s.op.len <= Len(Mid)
  BY <1>2, <1>8, MergeableFacts
<1>11. Covered(output, s.op.addr, s.op.len)
  <2>1. Len(Mid) \in Nat
    BY Files
  <2> QED
    BY <1>3, <1>9, <1>10, <2>1, CoveredIn
<1> QED
  BY <1>2, <1>6, <1>7, <1>9, <1>10, <1>11

LEMMA ResolveCopyInv ==
    ASSUME MergerInv, ResolveCopy
    PROVE  MergerInv'
<1> DEFINE i == Head(unresolved)
           s == terminal_patch[i]
           resolved == get_exact_slice(output, s.op.addr, s.op.len)
           ins == [index |-> i, ops |-> resolved]
           found == find_mergeable_copies(resolved, i + shift)
           m == Len(inserts)
           tci == terminal_copy_indices
           more == inserts'
           old == InsertedBy(inserts, m)
           new == From(i + shift, Mergeables(resolved))
<1>1. /\ phase = "resolve" /\ unresolved # <<>>
      /\ new_indices' = new_indices \o found
      /\ shift' = shift + Len(resolved) - 1
      /\ more = Append(inserts, ins)
      /\ unresolved' = Tail(unresolved)
      /\ UNCHANGED <<chain, left, terminal, reading, pending, output, o_pos, merger,
                     cur_idx, phase>>
  BY DEF ResolveCopy
<1>2. MergerTypeOK /\ Modes /\ Reading /\ chain \in Chains
  BY DEF MergerInv
<1>3. /\ TerminalInv(Mid) /\ ResolvedInv
      /\ m + 1 \in 1 .. Len(tci) /\ i = tci[m + 1]
      /\ i \in 1 .. Len(terminal_patch) /\ is_mergeable(s)
      /\ s.op.addr \in Nat /\ s.op.len \in Nat /\ s.op.len > 0
      /\ Covered(output, s.op.addr, s.op.len)
      /\ Row(output, 0, Len(Mid)) /\ AllFlat(output, Src, Mid)
  BY <1>1, ResolveFacts
<1>4. Src' = Src /\ Mid' = Mid /\ Final' = Final
  BY <1>1, SameFiles
<1>5. /\ inserts \in Seq(Inserts) /\ unresolved \in Seq(1 .. Len(terminal_patch))
      /\ tci \in Seq(1 .. Len(terminal_patch)) /\ output \in Seq(SparseOp)
      /\ shift \in Nat /\ new_indices \in Seq(Nat)
      /\ terminal_patch \in Seq(SparseOp)
  BY <1>2 DEF MergerTypeOK
<1>6. Src \in Seq(Byte) /\ Mid \in Seq(Byte)
  BY Files
<1>7. /\ resolved \in Seq(SparseOp) /\ resolved # <<>>
      /\ Row(resolved, s.op.addr, s.op.addr + s.op.len) /\ AllFlat(resolved, Src, Mid)
  <2> DEFINE addr == s.op.addr
             len == s.op.len
             r == resolved
  <2>1. addr \in Nat /\ len \in Nat /\ len > 0 /\ Covered(output, addr, len)
          /\ r = get_exact_slice(output, addr, len)
    BY <1>3
  <2> HIDE DEF addr, len, r, s
  <2>2. r \in Seq(SparseOp) /\ r # <<>> /\ Row(r, addr, addr + len) /\ AllFlat(r, Src, Mid)
    BY <1>3, <1>5, <1>6, <2>1, SliceFlat
  <2> QED
    BY <2>2 DEF addr, len, r
<1>8. s = terminal_patch[i] /\ ins.index = i /\ ins.ops = resolved
  OBVIOUS
<1> HIDE DEF i, s, resolved
<1>9. ins \in Inserts
  BY <1>3, <1>7 DEF Inserts
<1>10. Full(inserts)
  BY <1>3 DEF Full, ResolvedInv, InsertFor
<1> HIDE DEF ins, found, more
<1>11. /\ more \in Seq(Inserts) /\ Len(more) = m + 1 /\ more[m + 1] = ins
       /\ SameShifts(more, inserts)
       /\ Shifts(more)[m + 1] = Shifts(inserts)[m] + (Len(resolved) - 1)
  <2>1. inserts \in Seq(Inserts) /\ Full(inserts) /\ ins \in Inserts /\ ins.ops # <<>>
          /\ more = Append(inserts, ins)
    BY <1>1, <1>5, <1>7, <1>8, <1>9, <1>10
  <2>2. /\ more \in Seq(Inserts) /\ Len(more) = Len(inserts) + 1
        /\ more[Len(more)] = ins /\ SameShifts(more, inserts)
        /\ Shifts(more)[Len(more)] = Shifts(inserts)[Len(inserts)] + (Len(ins.ops) - 1)
    BY <2>1, ShiftsMore
  <2> QED
    BY <1>8, <2>2
<1>29. Len(resolved) \in Nat /\ Len(resolved) > 0
  BY <1>7
<1>30. m \in Nat
  BY <1>5
<1>31. shift = Shifts(inserts)[m]
  BY <1>3 DEF ResolvedInv
<1>12. shift = Shifts(inserts)[m] /\ m \in Nat /\ Len(resolved) \in Nat /\ Len(resolved) > 0
  BY <1>29, <1>30, <1>31
<1>13. InsertedBy(more, m + 1) = old \cup new
  <2>1. InsertedBy(more, Len(more))
          = old \cup From(ins.index + Shifts(inserts)[m], Mergeables(ins.ops))
    BY <1>1, <1>5, <1>7, <1>8, <1>9, <1>10, InsertedMore
  <2> QED
    BY <2>1, <1>8, <1>11, <1>12
<1>14. i + shift \in Nat \ {0} /\ i \in Nat /\ shift \in Nat
  <2>1. Len(terminal_patch) \in Nat
    BY <1>5
  <2>2. i \in 1 .. Len(terminal_patch)
    BY <1>3
  <2>3. i \in Nat /\ i > 0
    BY <2>1, <2>2
  <2> QED
    BY <1>5, <2>3
<1>32. shift' = shift + Len(resolved) - 1 /\ shift' \in Nat /\ shift <= shift'
  BY <1>1, <1>14, <1>29
<1>15. found \in Seq(Nat) /\ Lists(found, new)
  BY <1>7, <1>14, FindMergeable DEF found
<1>16. Lists(new_indices, old) /\ \A x \in old : inserts # <<>> /\ x <= tci[m] + shift
  BY <1>3 DEF ResolvedInv
<1>17. \A y \in new : y \in Nat /\ i + shift <= y /\ y <= i + shift'
  <2> SUFFICES ASSUME NEW k \in Mergeables(resolved)
               PROVE  /\ i + shift + k - 1 \in Nat /\ i + shift <= i + shift + k - 1
                      /\ i + shift + k - 1 <= i + shift'
    BY DEF From
  <2>1. k \in 1 .. Len(resolved)
    BY DEF Mergeables
  <2> QED
    BY <1>14, <1>29, <1>32, <2>1
<1>18. ASSUME NEW x \in old PROVE x \in Nat /\ x < i + shift
  <2>1. m > 0
    BY <1>5, <1>16
  <2>2. m \in 1 .. Len(tci) /\ m + 1 \in 1 .. Len(tci) /\ m < m + 1
    BY <1>3, <1>12, <2>1
  <2>3. tci[m] < i /\ tci[m] \in Nat
    <3>1. tci[m] < tci[m + 1]
      BY <1>3, <2>2 DEF TerminalInv, Lists
    <3>2. tci[m] \in 1 .. Len(terminal_patch) /\ Len(terminal_patch) \in Nat
      BY <1>5, <2>2
    <3> QED
      BY <1>3, <3>1, <3>2
  <2>4. x \in Nat
    <3>1. PICK k \in 1 .. Len(new_indices) : new_indices[k] = x
      BY <1>16 DEF Lists
    <3> QED
      BY <1>5, <3>1
  <2>5. x <= tci[m] + shift
    BY <1>16
  <2> HIDE DEF tci, m
  <2> QED
    BY <1>5, <1>14, <2>3, <2>4, <2>5
<1> HIDE DEF old, new
<1>19. new_indices' \in Seq(Nat) /\ Lists(new_indices', InsertedBy(more, m + 1))
  <2>1. \A x \in old, y \in new : x < y
    <3> SUFFICES ASSUME NEW x \in old, NEW y \in new PROVE x < y
      OBVIOUS
    <3>1. x \in Nat /\ x < i + shift /\ y \in Nat /\ i + shift <= y /\ i + shift \in Nat
      BY <1>14, <1>17, <1>18
    <3> QED
      BY <3>1
  <2>2. new_indices \o found \in Seq(Nat) /\ Lists(new_indices \o found, old \cup new)
    BY <1>5, <1>15, <1>16, <2>1, ListsJoin
  <2> QED
    BY <1>1, <1>13, <2>2
<1>20. shift' = Shifts(more)[m + 1] /\ shift' \in Nat
  BY <1>11, <1>14, <1>29, <1>31, <1>32
<1>21. \A x \in InsertedBy(more, m + 1) : x <= tci[m + 1] + shift'
  <2> SUFFICES ASSUME NEW x \in old \cup new PROVE x <= i + shift'
    BY <1>3, <1>13
  <2>1. CASE x \in new
    BY <1>17, <2>1
  <2>2. CASE x \in old
    <3>1. x \in Nat /\ x < i + shift /\ shift <= shift'
      BY <1>18, <1>32, <2>2
    <3> QED
      BY <1>14, <1>32, <3>1
  <2> QED
    BY <2>1, <2>2
<1>22. /\ Len(inserts') + Len(unresolved') = Len(terminal_copy_indices')
       /\ \A k \in 1 .. Len(unresolved') :
             unresolved'[k] = terminal_copy_indices'[Len(inserts') + k]
       /\ unresolved' \in Seq(1 .. Len(terminal_patch))
  <2>1. /\ Len(unresolved) \in Nat /\ Len(unresolved) > 0 /\ Len(unresolved') = Len(unresolved) - 1
        /\ unresolved' \in Seq(1 .. Len(terminal_patch))
    BY <1>1, <1>5
  <2>2. \A k \in 1 .. Len(unresolved) - 1 : unresolved'[k] = unresolved[k + 1]
    BY <1>1, <1>5
  <2>3. /\ m + Len(unresolved) = Len(tci)
        /\ \A k \in 1 .. Len(unresolved) : unresolved[k] = tci[m + k]
    BY <1>3 DEF ResolvedInv
  <2>4. tci' = tci /\ Len(inserts') = m + 1
    BY <1>1, <1>11 DEF more, merger
  <2>5. \A k \in 1 .. Len(unresolved) - 1 : k + 1 \in 1 .. Len(unresolved) /\ m + (k + 1) = (m + 1) + k
    BY <1>12, <2>1
  <2>6. \A k \in 1 .. Len(unresolved) - 1 : unresolved'[k] = tci[(m + 1) + k]
    BY <2>2, <2>3, <2>5
  <2>7. (m + 1) + (Len(unresolved) - 1) = Len(tci)
    BY <1>12, <2>1, <2>3
  <2> QED
    BY <2>1, <2>4, <2>6, <2>7
<1>23. \A n \in 1 .. Len(inserts') : InsertFor(inserts[n], terminal_copy_indices[n])'
  <2> SUFFICES ASSUME NEW n \in 1 .. m + 1
               PROVE  InsertFor(inserts[n], terminal_copy_indices[n])'
    BY <1>11 DEF more
  <2>1. terminal_copy_indices' = tci /\ terminal_patch' = terminal_patch /\ inserts' = more
    BY <1>1 DEF merger, more
  <2>2. CASE n \in 1 .. m
    <3>1. more[n] = inserts[n]
      BY <1>11, <2>2 DEF SameShifts
    <3>2. InsertFor(inserts[n], tci[n])
      BY <1>3, <2>2 DEF ResolvedInv
    <3> QED
      BY <1>4, <2>1, <3>1, <3>2 DEF InsertFor
  <2>3. CASE n = m + 1
    <3>1. more[n] = ins /\ tci[n] = i
      BY <1>3, <1>11, <2>3
    <3>2. InsertFor(ins, i)
      BY <1>7, <1>8 DEF InsertFor
    <3> QED
      BY <1>4, <2>1, <3>1, <3>2 DEF InsertFor
  <2> QED
    BY <1>12, <2>2, <2>3
<1>24. ResolvedInv'
  <2>1. Len(inserts') = m + 1 /\ inserts' # <<>> /\ terminal_copy_indices' = tci
    BY <1>1, <1>11, <1>12 DEF more, merger
  <2> QED
    BY <1>19, <1>20, <1>21, <1>22, <1>23, <2>1 DEF ResolvedInv, more
<1>25. TerminalInv(Mid)'
  BY <1>1, <1>3, <1>4 DEF TerminalInv, merger
<1>26. MergerTypeOK'
  BY <1>1, <1>2, <1>11, <1>19, <1>20, <1>22 DEF MergerTypeOK, reading, merger, more
<1>27. Modes'
  BY <1>1, <1>2 DEF Modes, merger
<1>28. Reading' /\ Merged' /\ Merging'
  BY <1>1, <1>2, <1>4, <1>24, <1>25 DEF Reading, Merged, Merging
<1> QED
  BY <1>1, <1>2, <1>26, <1>27, <1>28 DEF MergerInv

LEMMA BuildingNothing ==
    ASSUME NEW src, NEW out
    PROVE  Building(<<>>, 0, <<>>, 0, src, out)
<1>1. Len(<<>>) = 0 /\ 0 - 0 = 0 /\ 0 \in Int
  OBVIOUS
<1>2. Row(<<>>, 0, 0)
  BY <1>1 DEF Row
<1> QED
  BY <1>1, <1>2 DEF Building, AllFlat, AllMoved

(* Once all are resolved, the inserts have the indices of the copies. *)
LEMMA AllResolved ==
    ASSUME MergerInv, phase \in {"resolve", "expand"}, unresolved = <<>>
    PROVE  /\ TerminalInv(Mid) /\ ResolvedInv /\ ~ terminal
           /\ inserts \in Seq(Inserts) /\ Full(inserts) /\ Len(inserts) \in Nat
           /\ Len(inserts) = Len(terminal_copy_indices)
           /\ \A n \in 1 .. Len(inserts) :
                 /\ inserts[n].index = terminal_copy_indices[n]
                 /\ inserts[n].index \in Mergeables(terminal_patch)
                 /\ inserts[n].index \in 1 .. Len(terminal_patch)
<1>1. MergerTypeOK /\ Modes /\ Merging
  BY DEF MergerInv
<1>2. TerminalInv(Mid) /\ ResolvedInv /\ ~ terminal
  BY <1>1 DEF Modes, Merging
<1>3. inserts \in Seq(Inserts) /\ Len(inserts) \in Nat /\ Len(unresolved) = 0
        /\ Len(terminal_copy_indices) \in Nat
  BY <1>1 DEF MergerTypeOK
<1>4. Full(inserts)
  BY <1>2 DEF Full, ResolvedInv, InsertFor
<1>5. Len(inserts) = Len(terminal_copy_indices)
  BY <1>2, <1>3 DEF ResolvedInv
<1>6. ASSUME NEW n \in 1 .. Len(inserts)
      PROVE  /\ inserts[n].index = terminal_copy_indices[n]
             /\ inserts[n].index \in Mergeables(terminal_patch)
             /\ inserts[n].index \in 1 .. Len(terminal_patch)
  <2>1. inserts[n].index = terminal_copy_indices[n]
    BY <1>2 DEF ResolvedInv, InsertFor
  <2>2. terminal_copy_indices[n] \in Mergeables(terminal_patch)
    BY <1>2, <1>5 DEF TerminalInv, Lists
  <2> QED
    BY <2>1, <2>2 DEF Mergeables
<1> QED
  BY <1>2, <1>3, <1>4, <1>5, <1>6

LEMMA ResolvedStepInv ==
    ASSUME MergerInv, Resolved
    PROVE  MergerInv'
<1>1. /\ phase = "resolve" /\ unresolved = <<>> /\ output' = <<>> /\ o_pos' = 0
      /\ cur_idx' = 1 /\ phase' = "expand"
      /\ UNCHANGED <<chain, left, terminal, reading, pending, merger, merging>>
  BY DEF Resolved
<1>2. MergerTypeOK /\ Modes /\ Merging /\ chain \in Chains
  BY DEF MergerInv
<1>3. /\ TerminalInv(Mid) /\ ResolvedInv /\ ~ terminal
      /\ inserts \in Seq(Inserts) /\ Full(inserts) /\ Len(inserts) \in Nat
  BY <1>1, AllResolved
<1>4. \A n \in 1 .. Len(inserts) : inserts[n].index \in 1 .. Len(terminal_patch)
  BY <1>1, AllResolved
<1>5. Src' = Src /\ Mid' = Mid /\ Final' = Final
  BY <1>1, SameFiles
<1>6. /\ pending' = <<>> /\ unresolved' = <<>> /\ terminal_patch' = terminal_patch
      /\ inserts' = inserts
  BY <1>1, <1>2 DEF Modes, merger, merging
<1>7. terminal_patch \in Seq(SparseOp) /\ Len(terminal_patch) \in Nat
  BY <1>2 DEF MergerTypeOK
<1>8. ExpandPlace' = 0
  <2>1. Row(terminal_patch, 0, Len(Final))
    BY <1>3 DEF TerminalInv, Whole
  <2>2. 0 = IF terminal_patch = <<>> THEN Len(Final) ELSE terminal_patch[1].at
    BY <1>7, <2>1, RowFirst
  <2>3. terminal_patch = <<>> <=> ~ (1 <= Len(terminal_patch))
    BY <1>7
  <2> QED
    BY <1>1, <1>5, <1>6, <2>2, <2>3 DEF ExpandPlace
<1>9. Placed(0)'
  <2>1. \A n \in 1 .. Len(inserts) : ~ (inserts[n].index < 1) /\ ~ (n <= 0)
    BY <1>3, <1>4, <1>7
  <2>2. Shifts(inserts)[0] = 0
    BY <1>3, ShiftsIs
  <2>3. Len(<<>>) = 0 /\ <<>> \in Seq(SparseOp) /\ 0 + 0 = 1 - 1 + 0
    OBVIOUS
  <2>4. Copies(<<>>, <<>>) = {}
    BY <2>3 DEF Copies
  <2>5. InsertedBy(inserts, 0) = {}
    BY InsertedNone
  <2>6. \A n \in 1 .. Len(inserts') : inserts'[n].index < cur_idx' <=> n <= 0
    BY <1>1, <1>6, <2>1
  <2>7. Len(output') + Len(pending') = cur_idx' - 1 + Shifts(inserts')[0]
    BY <1>1, <1>6, <2>2, <2>3
  <2>8. Copies(output', pending') = InsertedBy(inserts', 0)
    BY <1>1, <1>6, <2>4, <2>5
  <2> QED
    BY <2>6, <2>7, <2>8 DEF Placed
<1>10. ExpandInv'
  <2>1. Building(output', o_pos', pending', ExpandPlace', Src', Final')
    BY <1>1, <1>6, <1>8, BuildingNothing
  <2>2. cur_idx' <= Len(terminal_patch') + 1
    BY <1>1, <1>6, <1>7
  <2>3. 0 \in 0 .. Len(inserts')
    BY <1>3, <1>6
  <2> QED
    BY <1>6, <1>9, <2>1, <2>2, <2>3 DEF ExpandInv
<1>11. MergerTypeOK'
  <2>1. <<>> \in Seq(SparseOp) /\ 0 \in Nat /\ 1 \in Nat \ {0}
    OBVIOUS
  <2> QED
    BY <1>1, <1>2, <2>1 DEF MergerTypeOK, reading, merger, merging
<1>12. Modes'
  BY <1>1, <1>2, <1>3, <1>6 DEF Modes
<1>13. Reading' /\ Merged'
  BY <1>1, <1>10 DEF Reading, Merged
<1>14. Merging'
  BY <1>1, <1>3, MergingStays DEF Merging
<1> QED
  BY <1>1, <1>2, <1>11, <1>12, <1>13, <1>14 DEF MergerInv

(* The next operation of the list to expand. *)
LEMMA ExpandFacts ==
    ASSUME MergerInv, phase = "expand", pending = <<>>, cur_idx <= Len(terminal_patch),
           NEW s, s = terminal_patch[cur_idx]
    PROVE  /\ cur_idx \in 1 .. Len(terminal_patch) /\ Len(terminal_patch) \in Nat
           /\ s \in SparseOp /\ Flat(s, Mid, Final) /\ s.at = o_pos /\ o_pos \in Nat
           /\ EndOf(s) \in Nat /\ EndOf(s) = o_pos + SizeOf(s) /\ SizeOf(s) \in Nat
           /\ EndOf(s) <= Len(Final)
           /\ output \in Seq(SparseOp) /\ Row(output, 0, o_pos) /\ AllFlat(output, Src, Final)
           /\ EndOf(s) = IF cur_idx + 1 <= Len(terminal_patch)
                         THEN terminal_patch[cur_idx + 1].at ELSE Len(Final)
<1>1. MergerTypeOK /\ ExpandInv
  BY DEF MergerInv, Reading
<1>2. /\ terminal_patch \in Seq(SparseOp) /\ cur_idx \in Nat \ {0} /\ o_pos \in Nat
      /\ output \in Seq(SparseOp)
  BY <1>1 DEF MergerTypeOK
<1>3. Len(terminal_patch) \in Nat /\ cur_idx \in 1 .. Len(terminal_patch) /\ terminal_patch # <<>>
  BY <1>2
<1>4. Row(terminal_patch, 0, Len(Final)) /\ AllFlat(terminal_patch, Mid, Final)
  BY <1>1, AllResolved DEF ExpandInv, TerminalInv, Whole
<1>5. Flat(s, Mid, Final)
  BY <1>3, <1>4 DEF AllFlat
<1>6. /\ s \in SparseOp /\ s.at \in Nat /\ SizeOf(s) \in Nat /\ EndOf(s) = s.at + SizeOf(s)
      /\ EndOf(s) \in Nat /\ EndOf(s) <= Len(Final)
  BY <1>5, GoodFacts DEF Flat
<1>7. s.at = o_pos /\ Row(output, 0, o_pos) /\ AllFlat(output, Src, Final)
  <2>1. Building(output, o_pos, <<>>, s.at, Src, Final)
    BY <1>1 DEF ExpandInv, ExpandPlace
  <2> QED
    BY <1>2, <1>6, <2>1, BuildingDone
<1>8. EndOf(s) = IF cur_idx + 1 <= Len(terminal_patch)
                 THEN terminal_patch[cur_idx + 1].at ELSE Len(Final)
  <2>1. CASE cur_idx + 1 <= Len(terminal_patch)
    <3>1. cur_idx + 1 \in 1 .. Len(terminal_patch) /\ cur_idx + 1 # 1 /\ (cur_idx + 1) - 1 = cur_idx
      BY <1>2, <1>3, <2>1
    <3>2. terminal_patch[cur_idx + 1].at = EndOf(terminal_patch[(cur_idx + 1) - 1])
      BY <1>4, <3>1 DEF Row
    <3> QED
      BY <2>1, <3>1, <3>2
  <2>2. CASE ~ (cur_idx + 1 <= Len(terminal_patch))
    <3>1. cur_idx = Len(terminal_patch)
      BY <1>2, <1>3, <2>2
    <3> QED
      BY <1>3, <1>4, <2>2, <3>1 DEF Row
  <2> QED
    BY <2>1, <2>2
<1> QED
  BY <1>2, <1>3, <1>5, <1>6, <1>7, <1>8

(* An operation that has no insert is no copy, and stays. *)
LEMMA ExpandStays ==
    ASSUME MergerInv, ExpandOp, NEW s, s = terminal_patch[cur_idx],
           NEW m \in 0 .. Len(inserts), Placed(m),
           \A n \in 1 .. Len(inserts) : inserts[n].index # cur_idx
    PROVE  /\ pending' = <<s>> /\ pending' \in Seq(SparseOp)
           /\ Building(output, o_pos, pending', EndOf(s), Src, Final)
           /\ \A n \in 1 .. Len(inserts) : inserts[n].index < cur_idx + 1 <=> n <= m
           /\ Len(output) + Len(pending') = (cur_idx + 1) - 1 + Shifts(inserts)[m]
           /\ Copies(output, pending') = InsertedBy(inserts, m)
<1>1. phase = "expand" /\ pending = <<>> /\ cur_idx <= Len(terminal_patch)
  BY DEF ExpandOp
<1>2. /\ cur_idx \in 1 .. Len(terminal_patch) /\ Len(terminal_patch) \in Nat
      /\ s \in SparseOp /\ Flat(s, Mid, Final) /\ s.at = o_pos /\ o_pos \in Nat
      /\ EndOf(s) \in Nat
      /\ output \in Seq(SparseOp) /\ Row(output, 0, o_pos) /\ AllFlat(output, Src, Final)
  BY <1>1, ExpandFacts
<1>3. unresolved = <<>>
  BY <1>1 DEF MergerInv, Reading, ExpandInv
<1>4. /\ TerminalInv(Mid) /\ inserts \in Seq(Inserts) /\ Full(inserts) /\ Len(inserts) \in Nat
      /\ Len(inserts) = Len(terminal_copy_indices)
  BY <1>1, <1>3, AllResolved
<1>5. \A n \in 1 .. Len(inserts) : /\ inserts[n].index = terminal_copy_indices[n]
                                   /\ inserts[n].index \in 1 .. Len(terminal_patch)
  BY <1>1, <1>3, AllResolved
<1>6. pending' = <<s>>
  <2>1. {k \in 1 .. Len(inserts) : inserts[k].index = cur_idx} = {}
    OBVIOUS
  <2> QED
    BY <2>1 DEF ExpandOp
<1>7. ~ is_mergeable(s)
  <2> SUFFICES ASSUME is_mergeable(s) PROVE FALSE
    OBVIOUS
  <2>1. cur_idx \in Mergeables(terminal_patch)
    BY <1>2 DEF Mergeables
  <2>2. PICK k \in 1 .. Len(terminal_copy_indices) : terminal_copy_indices[k] = cur_idx
    BY <1>4, <2>1 DEF TerminalInv, Lists
  <2> QED
    BY <1>4, <1>5, <2>2
<1>8. ~ is_copy(s.op)
  <2>1. s.op \in Op
    BY <1>2, Sizes
  <2> QED
    BY <1>2, <1>7, <2>1, Kinds DEF Flat, is_mergeable, is_copy_from, CopySrc
<1>9. Flat(s, Src, Final)
  BY <1>2, <1>8, FlatAnySrc
<1>10. /\ Row(<<s>>, o_pos, EndOf(s)) /\ <<s>> \in Seq(SparseOp) /\ Len(<<s>>) = 1
       /\ <<s>>[1] = s
  BY <1>2, RowSingle
<1>11. Building(output, o_pos, <<s>>, EndOf(s), Src, Final)
  <2>1. Moved(s, 0) = s
    BY <1>2, MovedNowhere
  <2>2. \A k \in 1 .. Len(<<s>>) : k = 1
    BY <1>10
  <2>3. AllMoved(<<s>>, 0, Src, Final)
    BY <1>9, <1>10, <2>1, <2>2 DEF AllMoved
  <2>4. 0 \in Int /\ o_pos - 0 = o_pos /\ EndOf(s) - 0 = EndOf(s)
    BY <1>2
  <2> QED
    BY <1>2, <1>10, <2>3, <2>4 DEF Building
<1>12. ASSUME NEW n \in 1 .. Len(inserts) PROVE inserts[n].index < cur_idx + 1 <=> n <= m
  <2> DEFINE x == inserts[n].index
  <2>1. x \in Nat /\ x # cur_idx /\ cur_idx \in Nat
    BY <1>2, <1>5
  <2>2. x < cur_idx <=> n <= m
    BY DEF Placed
  <2> HIDE DEF x
  <2>3. x < cur_idx + 1 <=> n <= m
    BY <2>1, <2>2
  <2> QED
    BY <2>3 DEF x
<1>13. Len(output) + Len(<<s>>) = (cur_idx + 1) - 1 + Shifts(inserts)[m]
  <2> DEFINE h == Shifts(inserts)[m]
  <2>1. h \in Nat
    BY <1>4, ShiftsIs
  <2>2. Len(output) \in Nat /\ cur_idx \in Nat /\ Len(<<>>) = 0
    BY <1>2
  <2>3. Len(output) + 0 = cur_idx - 1 + h
    BY <1>1, <2>2 DEF Placed
  <2> HIDE DEF h
  <2>4. Len(output) + 1 = (cur_idx + 1) - 1 + h
    BY <2>1, <2>2, <2>3
  <2> QED
    BY <1>10, <2>4 DEF h
<1>14. Copies(output, <<s>>) = InsertedBy(inserts, m)
  <2>1. Copies(output, <<>>) = InsertedBy(inserts, m)
    BY <1>1 DEF Placed
  <2>2. Mergeables(<<s>>) = {}
    BY <1>7, <1>10 DEF Mergeables
  <2>3. From(Len(output) + 1, {}) = {}
    BY DEF From
  <2>4. /\ Copies(output, <<>>) = Mergeables(output)
        /\ Copies(output, <<s>>) = Mergeables(output) \cup From(Len(output) + 1, Mergeables(<<s>>))
    BY <1>2, <1>10, CopiesStart
  <2> QED
    BY <2>1, <2>2, <2>3, <2>4
<1> QED
  BY <1>6, <1>10, <1>11, <1>12, <1>13, <1>14

(* A copy makes way for the next insert, which makes the same bytes. *)
LEMMA ExpandInserts ==
    ASSUME MergerInv, ExpandOp, NEW s, s = terminal_patch[cur_idx],
           NEW m \in 0 .. Len(inserts), Placed(m),
           NEW n0 \in 1 .. Len(inserts), inserts[n0].index = cur_idx
    PROVE  /\ m + 1 \in 0 .. Len(inserts) /\ pending' \in Seq(SparseOp)
           /\ Building(output, o_pos, pending', EndOf(s), Src, Final)
           /\ \A n \in 1 .. Len(inserts) : inserts[n].index < cur_idx + 1 <=> n <= m + 1
           /\ Len(output) + Len(pending') = (cur_idx + 1) - 1 + Shifts(inserts)[m + 1]
           /\ Copies(output, pending') = InsertedBy(inserts, m + 1)
<1>1. phase = "expand" /\ pending = <<>> /\ cur_idx <= Len(terminal_patch)
  BY DEF ExpandOp
<1>2. /\ cur_idx \in 1 .. Len(terminal_patch) /\ Len(terminal_patch) \in Nat
      /\ s \in SparseOp /\ s.at = o_pos /\ o_pos \in Nat
      /\ EndOf(s) \in Nat
      /\ output \in Seq(SparseOp) /\ Row(output, 0, o_pos) /\ AllFlat(output, Src, Final)
  BY <1>1, ExpandFacts
<1>3. unresolved = <<>>
  BY <1>1 DEF MergerInv, Reading, ExpandInv
<1>4. /\ TerminalInv(Mid) /\ ResolvedInv
      /\ inserts \in Seq(Inserts) /\ Full(inserts) /\ Len(inserts) \in Nat
      /\ Len(inserts) = Len(terminal_copy_indices)
  BY <1>1, <1>3, AllResolved
<1>5. \A n \in 1 .. Len(inserts) : /\ inserts[n].index = terminal_copy_indices[n]
                                   /\ inserts[n].index \in Mergeables(terminal_patch)
                                   /\ inserts[n].index \in 1 .. Len(terminal_patch)
  BY <1>1, <1>3, AllResolved
<1>6. \A j, k \in 1 .. Len(inserts) : j < k => inserts[j].index < inserts[k].index
  <2>1. \A j, k \in 1 .. Len(inserts) :
           j < k => terminal_copy_indices[j] < terminal_copy_indices[k]
    BY <1>4 DEF TerminalInv, Lists
  <2> QED
    BY <1>5, <2>1
<1>7. \A n \in 1 .. Len(inserts) : inserts[n].index < cur_idx <=> n <= m
  BY DEF Placed
<1>8. n0 = m + 1
  <2>1. ~ (n0 <= m)
    BY <1>2, <1>7
  <2>2. CASE n0 > m + 1
    <3>1. m + 1 \in 1 .. Len(inserts) /\ ~ (m + 1 <= m)
      BY <1>4, <2>2
    <3>2. inserts[m + 1].index < cur_idx
      BY <1>6, <2>2, <3>1
    <3> QED
      BY <1>7, <3>1, <3>2
  <2> QED
    BY <1>4, <2>1, <2>2
<1>9. \A k \in 1 .. Len(inserts) : inserts[k].index = cur_idx => k = n0
  <2> SUFFICES ASSUME NEW k \in 1 .. Len(inserts), inserts[k].index = cur_idx, k # n0
               PROVE  FALSE
    OBVIOUS
  <2>1. k < n0 \/ n0 < k
    BY <1>4
  <2>2. cur_idx < cur_idx
    BY <1>6, <2>1
  <2>3. cur_idx \in Nat
    BY <1>2
  <2> QED
    BY <2>2, <2>3
<1> DEFINE found == {k \in 1 .. Len(inserts) : inserts[k].index = cur_idx}
           ops == inserts[n0].ops
           copy == s.op
<1>10. pending' = ops
  <2>1. found = {n0}
    BY <1>9
  <2>2. (CHOOSE k \in found : TRUE) = n0
    BY <2>1
  <2>3. found # {}
    BY <2>1
  <2>4. pending' = IF found = {} THEN <<terminal_patch[cur_idx]>>
                   ELSE inserts[CHOOSE k \in found : TRUE].ops
    BY DEF ExpandOp
  <2> HIDE DEF found
  <2> QED
    BY <2>2, <2>3, <2>4
<1>11. /\ ops \in Seq(SparseOp) /\ ops # <<>>
       /\ Row(ops, copy.addr, copy.addr + copy.len) /\ AllFlat(ops, Src, Mid)
  <2>1. inserts[n0] \in Inserts
    BY <1>4
  <2>2. ops \in Seq(SparseOp)
    BY <2>1, InsertFacts
  <2>3. InsertFor(inserts[n0], terminal_copy_indices[n0]) /\ terminal_copy_indices[n0] = cur_idx
    BY <1>4, <1>5 DEF ResolvedInv
  <2> QED
    BY <2>2, <2>3 DEF InsertFor
<1>12. /\ copy.addr \in Nat /\ copy.len \in Nat
       /\ s.at + copy.len <= Len(Final) /\ EndOf(s) = s.at + copy.len
       /\ SameBytes(Mid, copy.addr, Final, s.at, copy.len)
  <2>1. cur_idx \in Mergeables(terminal_patch)
    BY <1>5
  <2> QED
    BY <1>4, <2>1, MergeableFacts
<1>13. Len(Final) \in Nat
  BY Files
<1> HIDE DEF ops
<1>14. Building(output, o_pos, ops, EndOf(s), Src, Final)
  <2> DEFINE addr == copy.addr
             len == copy.len
  <2>1. /\ addr \in Nat /\ len \in Nat /\ o_pos + len <= Len(Final) /\ EndOf(s) = o_pos + len
        /\ SameBytes(Mid, addr, Final, o_pos, len)
        /\ Row(ops, addr, addr + len)
    BY <1>2, <1>11, <1>12
  <2> HIDE DEF addr, len, copy
  <2>2. AllMoved(ops, o_pos - addr, Src, Final)
    BY <1>2, <1>11, <1>13, <2>1, SliceMoves
  <2>3. o_pos - addr \in Int /\ o_pos - (o_pos - addr) = addr
          /\ EndOf(s) - (o_pos - addr) = addr + len
    BY <1>2, <2>1
  <2>4. Row(ops, o_pos - (o_pos - addr), EndOf(s) - (o_pos - addr))
    BY <2>1, <2>3
  <2> QED
    BY <1>2, <2>2, <2>3, <2>4 DEF Building
<1>15. ASSUME NEW n \in 1 .. Len(inserts) PROVE inserts[n].index < cur_idx + 1 <=> n <= m + 1
  <2> DEFINE x == inserts[n].index
  <2>1. x \in Nat /\ cur_idx \in Nat
    BY <1>2, <1>5
  <2>2. x < cur_idx <=> n <= m
    BY <1>7
  <2>3. x = cur_idx <=> n = m + 1
    BY <1>8, <1>9
  <2> HIDE DEF x
  <2>4. x < cur_idx + 1 <=> n <= m + 1
    BY <1>4, <2>1, <2>2, <2>3
  <2> QED
    BY <2>4 DEF x
<1>16. m \in Nat /\ (m + 1) - 1 = m /\ m + 1 \in 1 .. Len(inserts) /\ m \in 0 .. Len(inserts)
  BY <1>4, <1>8
<1>17. /\ Shifts(inserts)[m] \in Nat /\ Len(ops) \in Nat
       /\ Shifts(inserts)[m + 1] = Shifts(inserts)[m] + (Len(ops) - 1)
  <2>1. Shifts(inserts)[m + 1] = Shifts(inserts)[(m + 1) - 1] + (Len(inserts[m + 1].ops) - 1)
    BY <1>4, <1>16, ShiftsIs
  <2>2. Shifts(inserts) \in [0 .. Len(inserts) -> Nat]
    BY <1>4, ShiftsIs
  <2>3. Len(ops) \in Nat
    BY <1>11
  <2>4. Shifts(inserts)[m] \in Nat
    BY <1>16, <2>2
  <2> QED
    BY <1>8, <1>16, <2>1, <2>3, <2>4 DEF ops
<1>18. Len(output) \in Nat /\ cur_idx \in Nat /\ Len(output) + 0 = cur_idx - 1 + Shifts(inserts)[m]
  <2>1. Len(<<>>) = 0
    OBVIOUS
  <2> QED
    BY <1>1, <1>2, <2>1 DEF Placed
<1>19. /\ Len(output) + Len(ops) = (cur_idx + 1) - 1 + Shifts(inserts)[m + 1]
       /\ Len(output) + 1 = cur_idx + Shifts(inserts)[m]
  <2> DEFINE a == Len(output)
             b == Len(ops)
             c == Shifts(inserts)[m]
             d == Shifts(inserts)[m + 1]
  <2>1. a \in Nat /\ b \in Nat /\ c \in Nat /\ d = c + (b - 1) /\ a + 0 = cur_idx - 1 + c
          /\ cur_idx \in Nat
    BY <1>17, <1>18
  <2> HIDE DEF a, b, c, d
  <2>2. a + b = (cur_idx + 1) - 1 + d /\ a + 1 = cur_idx + c
    BY <2>1
  <2> QED
    BY <2>2 DEF a, b, c, d
<1>20. Copies(output, ops) = InsertedBy(inserts, m + 1)
  <2>1. Copies(output, <<>>) = InsertedBy(inserts, m)
    BY <1>1 DEF Placed
  <2>2. /\ Copies(output, <<>>) = Mergeables(output)
        /\ Copies(output, ops) = Mergeables(output) \cup From(Len(output) + 1, Mergeables(ops))
    BY <1>2, <1>11, CopiesStart
  <2>3. InsertedBy(inserts, m + 1)
          = InsertedBy(inserts, m) \cup From(Place(inserts, m + 1), Mergeables(ops))
    BY <1>8, <1>16, InsertedNext DEF ops
  <2>4. Place(inserts, m + 1) = Len(output) + 1
    BY <1>8, <1>16, <1>19 DEF Place
  <2> QED
    BY <2>1, <2>2, <2>3, <2>4
<1> QED
  BY <1>10, <1>11, <1>14, <1>15, <1>16, <1>19, <1>20

LEMMA ExpandOpInv ==
    ASSUME MergerInv, ExpandOp
    PROVE  MergerInv'
<1> DEFINE s == terminal_patch[cur_idx]
<1>1. /\ phase = "expand" /\ pending = <<>> /\ cur_idx <= Len(terminal_patch)
      /\ cur_idx' = cur_idx + 1
      /\ UNCHANGED <<chain, left, terminal, reading, output, o_pos, merger, merging, phase>>
  BY DEF ExpandOp
<1>2. MergerTypeOK /\ Modes /\ Reading /\ Merging /\ chain \in Chains
  BY DEF MergerInv
<1>3. unresolved = <<>>
  BY <1>1, <1>2 DEF Reading, ExpandInv
<1>4. PICK m \in 0 .. Len(inserts) : Placed(m)
  BY <1>1, <1>2 DEF Reading, ExpandInv
<1>5. /\ cur_idx \in 1 .. Len(terminal_patch) /\ Len(terminal_patch) \in Nat
      /\ EndOf(s) = IF cur_idx + 1 <= Len(terminal_patch)
                    THEN terminal_patch[cur_idx + 1].at ELSE Len(Final)
  BY <1>1, ExpandFacts
<1> HIDE DEF s
<1>6. \E k \in 0 .. Len(inserts) :
         /\ pending' \in Seq(SparseOp)
         /\ Building(output, o_pos, pending', EndOf(s), Src, Final)
         /\ \A n \in 1 .. Len(inserts) : inserts[n].index < cur_idx + 1 <=> n <= k
         /\ Len(output) + Len(pending') = (cur_idx + 1) - 1 + Shifts(inserts)[k]
         /\ Copies(output, pending') = InsertedBy(inserts, k)
  <2>1. CASE \A n \in 1 .. Len(inserts) : inserts[n].index # cur_idx
    BY <1>4, <2>1, ExpandStays DEF s
  <2>2. ASSUME NEW n \in 1 .. Len(inserts), inserts[n].index = cur_idx
        PROVE  /\ m + 1 \in 0 .. Len(inserts) /\ pending' \in Seq(SparseOp)
               /\ Building(output, o_pos, pending', EndOf(s), Src, Final)
               /\ \A j \in 1 .. Len(inserts) : inserts[j].index < cur_idx + 1 <=> j <= m + 1
               /\ Len(output) + Len(pending') = (cur_idx + 1) - 1 + Shifts(inserts)[m + 1]
               /\ Copies(output, pending') = InsertedBy(inserts, m + 1)
    BY <1>4, <2>2, ExpandInserts DEF s
  <2> QED
    BY <2>1, <2>2
<1>7. Src' = Src /\ Mid' = Mid /\ Final' = Final
  BY <1>1, SameFiles
<1>8. /\ terminal_patch' = terminal_patch /\ inserts' = inserts /\ unresolved' = <<>>
      /\ output' = output /\ o_pos' = o_pos
  BY <1>1, <1>3 DEF merger, merging
<1>9. ExpandPlace' = EndOf(s)
  BY <1>1, <1>5, <1>7, <1>8 DEF ExpandPlace
<1>10. PICK k \in 0 .. Len(inserts') : Placed(k)'
  <2>1. PICK k \in 0 .. Len(inserts) :
           /\ \A n \in 1 .. Len(inserts) : inserts[n].index < cur_idx + 1 <=> n <= k
           /\ Len(output) + Len(pending') = (cur_idx + 1) - 1 + Shifts(inserts)[k]
           /\ Copies(output, pending') = InsertedBy(inserts, k)
    BY <1>6
  <2>2. Placed(k)'
    BY <1>1, <1>8, <2>1 DEF Placed
  <2> QED
    BY <1>8, <2>2
<1>11. cur_idx' <= Len(terminal_patch') + 1 /\ cur_idx' \in Nat \ {0}
  BY <1>1, <1>5, <1>8
<1>12. ExpandInv'
  <2>1. Building(output', o_pos', pending', ExpandPlace', Src', Final')
    BY <1>6, <1>7, <1>8, <1>9
  <2> QED
    BY <1>8, <1>10, <1>11, <2>1 DEF ExpandInv
<1>13. MergerTypeOK'
  BY <1>1, <1>2, <1>6, <1>11 DEF MergerTypeOK, reading, merger, merging
<1>14. Modes'
  BY <1>1, <1>2 DEF Modes, merger, merging
<1>15. Reading' /\ Merged'
  BY <1>1, <1>12 DEF Reading, Merged
<1>16. Merging'
  BY <1>1, <1>2, MergingStays DEF Merging
<1> QED
  BY <1>1, <1>2, <1>13, <1>14, <1>15, <1>16 DEF MergerInv

(* At the end of the list all inserts are in their places. *)
LEMMA ExpandedFacts ==
    ASSUME MergerInv, Expanded
    PROVE  /\ Whole(output, Src, Final) /\ Lists(new_indices, Mergeables(output))
           /\ unresolved = <<>> /\ ~ terminal /\ output \in Seq(SparseOp)
           /\ new_indices \in Seq(1 .. Len(output))
<1>1. /\ phase = "expand" /\ pending = <<>> /\ cur_idx > Len(terminal_patch)
  BY DEF Expanded
<1>2. MergerTypeOK /\ ExpandInv
  BY <1>1 DEF MergerInv, Reading
<1>3. /\ output \in Seq(SparseOp) /\ o_pos \in Nat /\ terminal_patch \in Seq(SparseOp)
      /\ Len(terminal_patch) \in Nat /\ cur_idx \in Nat /\ new_indices \in Seq(Nat)
  BY <1>2 DEF MergerTypeOK
<1>4. unresolved = <<>>
  BY <1>2 DEF ExpandInv
<1>5. /\ ResolvedInv /\ ~ terminal /\ Len(inserts) \in Nat
  BY <1>1, <1>4, AllResolved
<1>6. \A n \in 1 .. Len(inserts) : inserts[n].index \in 1 .. Len(terminal_patch)
  BY <1>1, <1>4, AllResolved
<1>7. Len(Final) \in Nat
  BY Files
<1>8. Whole(output, Src, Final)
  <2>1. Building(output, o_pos, <<>>, Len(Final), Src, Final)
    BY <1>1, <1>2, <1>3 DEF ExpandInv, ExpandPlace
  <2> QED
    BY <1>3, <1>7, <2>1, BuildingDone DEF Whole
<1>9. PICK m \in 0 .. Len(inserts) : Placed(m)
  BY <1>2 DEF ExpandInv
<1>10. m = Len(inserts)
  <2> SUFFICES ASSUME m # Len(inserts) PROVE FALSE
    OBVIOUS
  <2>1. Len(inserts) \in 1 .. Len(inserts) /\ ~ (Len(inserts) <= m)
    BY <1>5
  <2> DEFINE x == inserts[Len(inserts)].index
  <2>2. x \in 1 .. Len(terminal_patch)
    BY <1>6, <2>1
  <2>3. ~ (x < cur_idx)
    BY <1>9, <2>1 DEF Placed
  <2> HIDE DEF x
  <2> QED
    BY <1>1, <1>3, <2>2, <2>3
<1>11. Mergeables(output) = InsertedBy(inserts, Len(inserts))
  <2>1. Copies(output, <<>>) = InsertedBy(inserts, m)
    BY <1>1, <1>9 DEF Placed
  <2>2. Copies(output, <<>>) = Mergeables(output)
    <3>1. <<>> \in Seq(SparseOp)
      OBVIOUS
    <3> QED
      BY <1>3, <3>1, CopiesStart
  <2> QED
    BY <1>10, <2>1, <2>2
<1>12. Lists(new_indices, Mergeables(output))
  BY <1>5, <1>11 DEF ResolvedInv
<1>13. new_indices \in Seq(1 .. Len(output))
  <2>1. Mergeables(output) \subseteq 1 .. Len(output)
    BY DEF Mergeables
  <2> QED
    BY <1>3, <1>12, <2>1, ListsWithin
<1> QED
  BY <1>3, <1>4, <1>5, <1>8, <1>12, <1>13

LEMMA ExpandedInv ==
    ASSUME MergerInv, Expanded
    PROVE  MergerInv'
<1>1. /\ phase = "expand" /\ pending = <<>>
      /\ terminal_patch' = output /\ terminal_copy_indices' = new_indices
      /\ phase' = IF new_indices = <<>> THEN "summary" ELSE "merger"
      /\ UNCHANGED <<chain, left, terminal, reading, pending, output, o_pos, merging, cur_idx>>
  BY DEF Expanded
<1>2. MergerTypeOK /\ Modes /\ chain \in Chains
  BY DEF MergerInv
<1>3. /\ Whole(output, Src, Final) /\ Lists(new_indices, Mergeables(output))
      /\ unresolved = <<>> /\ ~ terminal /\ output \in Seq(SparseOp)
      /\ new_indices \in Seq(1 .. Len(output))
  BY ExpandedFacts
<1>4. Src' = Src /\ Mid' = Mid /\ Final' = Final
  BY <1>1, SameFiles
<1>5. MergerTypeOK'
  <2>1. <<>> \in Seq(1 .. Len(output))
    OBVIOUS
  <2> QED
    BY <1>1, <1>2, <1>3, <2>1 DEF MergerTypeOK, reading, merging
<1>6. Modes'
  BY <1>1, <1>3 DEF Modes
<1>7. TerminalInv(Src)' /\ Whole(terminal_patch, Src, Final)'
  BY <1>1, <1>3, <1>4 DEF TerminalInv
<1>8. Reading' /\ Merging' /\ Merged'
  BY <1>1, <1>3, <1>7 DEF Reading, Merging, Merged, merging
<1> QED
  BY <1>1, <1>2, <1>5, <1>6, <1>8 DEF MergerInv

LEMMA FinishInv ==
    ASSUME MergerInv, FinishMerger
    PROVE  MergerInv'
<1>1. /\ phase = "merger" /\ phase' = "summary"
      /\ UNCHANGED <<chain, left, terminal, reading, pending, output, o_pos, merger,
                     merging, cur_idx>>
  BY DEF FinishMerger
<1>2. MergerTypeOK /\ Modes /\ Merged /\ chain \in Chains
  BY DEF MergerInv
<1>3. Src' = Src /\ Mid' = Mid /\ Final' = Final
  BY <1>1, SameFiles
<1>4. MergerTypeOK'
  BY <1>1, <1>2 DEF MergerTypeOK, reading, merger, merging
<1>5. Modes'
  BY <1>1, <1>2 DEF Modes, merger, merging
<1>6. Whole(terminal_patch, Src, Final)'
  BY <1>1, <1>2, <1>3 DEF Merged, TerminalInv, merger
<1>7. Reading' /\ Merging' /\ Merged'
  BY <1>1, <1>6 DEF Reading, Merging, Merged
<1> QED
  BY <1>1, <1>2, <1>4, <1>5, <1>7 DEF MergerInv

LEMMA StutterInv ==
    ASSUME MergerInv, UNCHANGED mergerVars
    PROVE  MergerInv'
<1>1. MergerTypeOK' /\ Modes' /\ chain' \in Chains
  BY DEF MergerInv, MergerTypeOK, Modes, mergerVars, reading, merger, merging
<1>2. Src' = Src /\ Mid' = Mid /\ Final' = Final
  BY SameFiles DEF mergerVars
<1>3. TerminalInv(Src)' <=> TerminalInv(Src)
  BY <1>2 DEF TerminalInv, mergerVars, merger
<1>4. Merging'
  BY MergingStays DEF MergerInv, Merging, mergerVars
<1>5. Merged'
  BY <1>2, <1>3 DEF MergerInv, Merged, mergerVars, merger, merging
<1>6. ExtractInv' <=> ExtractInv
  BY <1>2 DEF ExtractInv, mergerVars, reading
<1>7. DerefInv' <=> DerefInv
  BY <1>2 DEF DerefInv, DerefPlace, mergerVars, reading
<1>8. ExpandInv' <=> ExpandInv
  BY <1>2 DEF ExpandInv, ExpandPlace, Placed, mergerVars, merger, merging
<1>9. Reading'
  BY <1>2, <1>6, <1>7, <1>8 DEF MergerInv, Reading, mergerVars
<1> QED
  BY <1>1, <1>4, <1>5, <1>9 DEF MergerInv

LEMMA NextInv ==
    ASSUME MergerInv, [MergerNext]_mergerVars
    PROVE  MergerInv'
<1>1. CASE ExtractOp
  BY <1>1, ExtractOpInv
<1>2. CASE Extracted
  BY <1>2, ExtractedInv
<1>3. CASE DerefOp
  BY <1>3, DerefOpInv
<1>4. CASE PushOp
  BY <1>4, PushOpInv
<1>5. CASE Dereferenced
  BY <1>5, DereferencedInv
<1>6. CASE ResolveCopy
  BY <1>6, ResolveCopyInv
<1>7. CASE Resolved
  BY <1>7, ResolvedStepInv
<1>8. CASE ExpandOp
  BY <1>8, ExpandOpInv
<1>9. CASE Expanded
  BY <1>9, ExpandedInv
<1>10. CASE Merge
  BY <1>10, MergeInv
<1>11. CASE FinishMerger
  BY <1>11, FinishInv
<1>12. CASE UNCHANGED mergerVars
  BY <1>12, StutterInv
<1> QED
  BY <1>1, <1>2, <1>3, <1>4, <1>5, <1>6, <1>7, <1>8, <1>9, <1>10, <1>11, <1>12
  DEF MergerNext, MergerWorks

-----------------------------------------------------------------------------
(* The invariant holds in every state that new, merge and finish reach. *)
THEOREM InvHolds == MergerSpec => []MergerInv
<1>1. MergerInit => MergerInv
  BY InitInv
<1>2. MergerInv /\ [MergerNext]_mergerVars => MergerInv'
  BY NextInv
<1> QED
  BY <1>1, <1>2, PTL DEF MergerSpec

(* Every variable keeps its type, and an index is that of an operation. *)
THEOREM TypeCorrect == MergerSpec => []MergerTypeOK
<1>1. MergerInv => MergerTypeOK
  BY DEF MergerInv
<1> QED
  BY <1>1, InvHolds, PTL

LEMMA WholeInARow ==
    ASSUME NEW list, NEW src, NEW out, Whole(list, src, out)
    PROVE  /\ InARow(list, Len(out))
           /\ \A i \in 1 .. Len(list) : Yields(list[i], src, out)
BY DEF Whole, AllFlat, Flat, Good, InARow

(* get_exact_slice finds all that a copy from the output (deref_copy_o) or    *)
(* from the file in between (merge) asks for, whatever the patches, and what *)
(* merge resolves is a copy from the dictionary: nothing unwrapped is None.  *)
THEOREM UnwrapsCorrect == MergerSpec => []UnwrapsSucceed
<1>1. ASSUME MergerInv PROVE UnwrapsSucceed
  <2>1. ASSUME phase = "merger" PROVE InARow(terminal_patch, Len(chain.files[Len(chain.files)]))
    <3>1. Whole(terminal_patch, Src, Final)
      BY <1>1, <2>1 DEF MergerInv, Merged, TerminalInv
    <3> QED
      BY <3>1, WholeInARow DEF Final
  <2>2. ASSUME phase = "deref", pending = <<>>, extracted # <<>>,
               is_copy_from(Head(extracted).op, "Output")
        PROVE  Covered(output, Head(extracted).op.addr, Head(extracted).op.len)
    BY <1>1, <2>2, DerefFacts
  <2>3. ASSUME phase = "resolve", unresolved # <<>>
        PROVE  /\ is_mergeable(terminal_patch[Head(unresolved)])
               /\ Covered(output, terminal_patch[Head(unresolved)].op.addr,
                          terminal_patch[Head(unresolved)].op.len)
    BY <1>1, <2>3, ResolveFacts
  <2> QED
    BY <2>1, <2>2, <2>3 DEF UnwrapsSucceed
<1> QED
  BY <1>1, InvHolds, PTL

(* Between two merges terminal_copy_indices has, in order, the indices of all *)
(* copies of terminal_patch, and none of them is from the output: those that  *)
(* merge reckons with its shift are those that find_mergeable_copies would    *)
(* find in the expanded list.                                                 *)
THEOREM IndicesCorrect == MergerSpec => []CopyIndicesExact
<1>1. ASSUME MergerInv, phase = "merger"
      PROVE  /\ \A k \in 2 .. Len(terminal_copy_indices) :
                   terminal_copy_indices[k - 1] < terminal_copy_indices[k]
             /\ {terminal_copy_indices[k] : k \in 1 .. Len(terminal_copy_indices)}
                  = {i \in 1 .. Len(terminal_patch) : is_copy(terminal_patch[i].op)}
             /\ \A i \in 1 .. Len(terminal_patch) :
                   ~ is_copy_from(terminal_patch[i].op, "Output")
  <2>1. /\ Whole(terminal_patch, Src, Final)
        /\ Lists(terminal_copy_indices, Mergeables(terminal_patch))
    BY <1>1 DEF MergerInv, Merged, TerminalInv
  <2>2. \A k \in 2 .. Len(terminal_copy_indices) :
           terminal_copy_indices[k - 1] < terminal_copy_indices[k]
    <3>1. Len(terminal_copy_indices) \in Nat
      BY <1>1 DEF MergerInv, MergerTypeOK
    <3> SUFFICES ASSUME NEW k \in 2 .. Len(terminal_copy_indices)
                 PROVE  terminal_copy_indices[k - 1] < terminal_copy_indices[k]
      OBVIOUS
    <3>2. /\ k - 1 \in 1 .. Len(terminal_copy_indices) /\ k \in 1 .. Len(terminal_copy_indices)
          /\ k - 1 < k
      BY <3>1
    <3> QED
      BY <2>1, <3>2 DEF Lists
  <2>3. {terminal_copy_indices[k] : k \in 1 .. Len(terminal_copy_indices)}
          = Mergeables(terminal_patch)
    BY <2>1 DEF Lists
  <2>4. \A i \in 1 .. Len(terminal_patch) : Flat(terminal_patch[i], Src, Final)
    BY <2>1 DEF Whole, AllFlat
  <2>5. ASSUME NEW i \in 1 .. Len(terminal_patch)
        PROVE  is_mergeable(terminal_patch[i]) <=> is_copy(terminal_patch[i].op)
    <3> DEFINE s == terminal_patch[i]
    <3>1. Flat(s, Src, Final)
      BY <2>4
    <3> HIDE DEF s
    <3>2. s.op \in Op
      BY <3>1, GoodFacts DEF Flat
    <3>3. is_mergeable(s) <=> is_copy(s.op)
      BY <3>1, <3>2, Kinds DEF Flat, is_mergeable, is_copy_from, CopySrc
    <3> QED
      BY <3>3 DEF s
  <2>6. Mergeables(terminal_patch)
          = {i \in 1 .. Len(terminal_patch) : is_copy(terminal_patch[i].op)}
    BY <2>5 DEF Mergeables
  <2>7. \A i \in 1 .. Len(terminal_patch) : ~ is_copy_from(terminal_patch[i].op, "Output")
    BY <2>4 DEF Flat
  <2> QED
    BY <2>2, <2>3, <2>6, <2>7
<1>2. MergerInv => CopyIndicesExact
  BY <1>1 DEF CopyIndicesExact
<1> QED
  BY <1>2, InvHolds, PTL

(* After any number of merges the operations of the Merger, or the summary,  *)
(* make the last file byte for byte from the file before the earliest patch. *)
THEOREM MeaningCorrect == MergerSpec => []MergedMeaning
<1>1. ASSUME MergerInv, phase \in {"merger", "summary"}
      PROVE  /\ InARow(terminal_patch, Len(Final))
             /\ \A i \in 1 .. Len(terminal_patch) : Yields(terminal_patch[i], Src, Final)
  <2>1. Whole(terminal_patch, Src, Final)
    BY <1>1 DEF MergerInv, Merged, TerminalInv
  <2> QED
    BY <2>1, WholeInARow
<1>2. MergerInv => MergedMeaning
  BY <1>1 DEF MergedMeaning, Src, Final
<1> QED
  BY <1>2, InvHolds, PTL

(* The summary that new or merge returns by itself reads no file: the other  *)
(* steps that end with one are those of the caller.                          *)
THEOREM SummaryCorrect == MergerSpec => EarlySummaryHasNoCopies
<1> DEFINE Step == phase' = "summary" /\ phase # "merger" =>
                     \A i \in 1 .. Len(terminal_patch') : ~ is_copy(terminal_patch'[i].op)
<1>1. ASSUME MergerInv, MergerNext PROVE Step
  <2> SUFFICES ASSUME phase' = "summary", phase # "merger"
               PROVE  \A i \in 1 .. Len(terminal_patch') : ~ is_copy(terminal_patch'[i].op)
    OBVIOUS
  <2>1. CASE Extracted
    <3>1. ~ (stats.copy_bytes > 0) /\ terminal_patch' = extracted
      BY <2>1 DEF Extracted
    <3>2. stats.copy_bytes > 0 <=> \E k \in 1 .. Len(extracted) : is_copy(extracted[k].op)
      BY <1>1, <2>1 DEF MergerInv, Reading, ExtractInv, Extracted
    <3> QED
      BY <3>1, <3>2
  <2>2. CASE Expanded
    <3>1. new_indices = <<>> /\ terminal_patch' = output
      BY <2>2 DEF Expanded
    <3>2. Whole(output, Src, Final) /\ Lists(new_indices, Mergeables(output))
      BY <1>1, <2>2, ExpandedFacts
    <3>3. Len(<<>>) = 0
      OBVIOUS
    <3>4. Mergeables(output) = {}
      BY <3>1, <3>2, <3>3 DEF Lists
    <3> SUFFICES ASSUME NEW i \in 1 .. Len(output) PROVE ~ is_copy(output[i].op)
      BY <3>1
    <3> DEFINE s == output[i]
    <3>5. Flat(s, Src, Final) /\ ~ is_mergeable(s)
      BY <3>2, <3>4 DEF Whole, AllFlat, Mergeables
    <3> HIDE DEF s
    <3>6. s.op \in Op
      BY <3>5, GoodFacts DEF Flat
    <3>7. ~ is_copy(s.op)
      BY <3>5, <3>6, Kinds DEF Flat, is_mergeable, is_copy_from, CopySrc
    <3> QED
      BY <3>7 DEF s
  <2>3. CASE ExtractOp
    BY <2>3 DEF ExtractOp
  <2>4. CASE DerefOp
    BY <2>4 DEF DerefOp
  <2>5. CASE PushOp
    BY <1>1, <2>5 DEF PushOp, MergerInv, Modes
  <2>6. CASE Dereferenced
    BY <2>6 DEF Dereferenced
  <2>7. CASE ResolveCopy
    BY <2>7 DEF ResolveCopy
  <2>8. CASE Resolved
    BY <2>8 DEF Resolved
  <2>9. CASE ExpandOp
    BY <2>9 DEF ExpandOp
  <2>10. CASE Merge
    BY <2>10 DEF Merge
  <2>11. CASE FinishMerger
    BY <2>11 DEF FinishMerger
  <2> QED
    BY <1>1, <2>1, <2>2, <2>3, <2>4, <2>5, <2>6, <2>7, <2>8, <2>9, <2>10, <2>11
    DEF MergerNext, MergerWorks
<1>2. MergerInv /\ [MergerNext]_mergerVars => [Step]_mergerVars
  BY <1>1
<1> QED
  BY <1>2, InvHolds, PTL DEF MergerSpec, EarlySummaryHasNoCopies
=============================================================================
