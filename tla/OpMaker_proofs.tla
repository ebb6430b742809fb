--------------------------- MODULE OpMaker_proofs ---------------------------
(* Proofs about translate_inner_ops, for any files and any list of matches  *)
(* that the encoder can pass.                                               *)
EXTENDS OpMaker, SequenceTheorems, TLAPS

(* Every match that is left, shortened and moved as it may be, is true. *)
MatchesTrue == \A k \in 1 .. Len(ops) : TrueMatch(ops[k], src, trgt)

(* While the first pass looks at one and two: what is behind it is apart,   *)
(* what is before it is as the encoder left it, ordered but overlapping.    *)
PassOne ==
    phase = "overlaps" =>
        /\ out_ops = <<>> /\ out_pos = 0 /\ next = 1 /\ request = NoRequest
        /\ one < two
        /\ Len(ops) > 0 => one <= Len(ops) /\ ops[one].length > 0
        /\ \A k \in 1 .. Len(ops) : two <= k => ops[k].length > 0
        /\ two <= Len(ops) => Ordered(ops[one], ops[two])
        /\ \A k \in 1 .. Len(ops) - 1 : two <= k => Ordered(ops[k], ops[k + 1])
        /\ \A k \in 1 .. Len(ops) : one < k /\ k < two => ops[k].length = 0
        /\ \A i, j \in 1 .. Len(ops) :
              i < j /\ j <= one /\ ops[i].length > 0 /\ ops[j].length > 0 => End(i) <= Start(j)

(* Where the output will end once the request is served. *)
RequestEnd ==
    out_pos + request.left + (IF request.kind = "Run" THEN request.copy_bytes ELSE 0)

(* What is requested is true of the target. *)
RequestTrue ==
    /\ request.kind = "Run" => request.left > 0
    /\ request.left > 0 =>
          CASE request.kind = "Add" -> TRUE
            [] request.kind = "Copy" ->
                  /\ request.from = "Dict" =>
                        SameBytes(src, request.addr, trgt, out_pos, request.left)
                  /\ request.from = "Output" =>
                        /\ SameBytes(trgt, request.addr, trgt, out_pos, request.left)
                        /\ request.addr + request.left <= out_pos
            [] request.kind \in {"Run", "RunCopy"} ->
                  /\ request.addr <= out_pos
                  /\ \A p \in 1 .. Len(trgt) :
                        request.addr < p /\ p <= RequestEnd => trgt[p] = request.byte
                  /\ request.kind = "Run" /\ request.copy_bytes > 0 =>
                        out_pos + request.left = request.addr + COPY_LIMIT
                  /\ request.kind = "RunCopy" =>
                        request.max_copy_size > 0 /\ request.addr + request.max_copy_size = out_pos

(* In the second pass no two matches left overlap, and neither the output   *)
(* nor what is requested reaches into one that is still to come.            *)
PassTwo ==
    phase # "overlaps" =>
        /\ \A i, j \in 1 .. Len(ops) :
              i < j /\ ops[i].length > 0 /\ ops[j].length > 0 => End(i) <= Start(j)
        /\ \A k \in 1 .. Len(ops) : next <= k /\ ops[k].length > 0 => RequestEnd <= Start(k)
        /\ RequestEnd <= Len(trgt)
        /\ RequestTrue

OpMakerInv == OpMakerTypeOK /\ MatchesTrue /\ PassOne /\ PassTwo

-----------------------------------------------------------------------------
LEMMA NoRequestType == NoRequest \in Requests
  BY OpMakerAssumption DEF NoRequest, Requests, CopySrc

LEMMA Limits ==
    /\ RUN_LIMIT \in Nat /\ COPY_LIMIT \in Nat \ {0}
    /\ COPY_LIMIT < RUN_LIMIT
  BY LimitsAssumption DEF RUN_LIMIT, COPY_LIMIT

(* The parts of a match that the proofs speak of are numbers. *)
LEMMA MatchFields ==
    ASSUME NEW m \in InnerOp
    PROVE  /\ m.start \in Nat /\ m.length \in Nat /\ m.o_pos \in Nat /\ m.byte \in Byte
           /\ m.kind \in {"MatchSrc", "MatchTrgt", "Run"}
  BY DEF InnerOp

LEMMA InvInit == OpMakerInit => OpMakerInv
<1> SUFFICES ASSUME OpMakerInit PROVE OpMakerInv
  OBVIOUS
<1>1. PICK c \in Cases : src = c.src /\ trgt = c.trgt /\ ops = c.inner
  BY DEF OpMakerInit
<1>2. /\ src \in Seq(Byte) /\ trgt \in Seq(Byte) /\ ops \in Seq(InnerOp)
      /\ \A k \in 1 .. Len(ops) : TrueMatch(ops[k], src, trgt) /\ ops[k].length > 0
      /\ \A k \in 1 .. Len(ops) - 1 : Ordered(ops[k], ops[k + 1])
  BY <1>1, OpMakerAssumption
<1>3. OpMakerTypeOK
  BY <1>2, NoRequestType DEF OpMakerInit, OpMakerTypeOK
<1>4. MatchesTrue
  BY <1>2 DEF MatchesTrue
<1>5. PassOne
  BY <1>2 DEF OpMakerInit, PassOne
<1> QED
  BY <1>3, <1>4, <1>5 DEF OpMakerInv, PassTwo, OpMakerInit

-----------------------------------------------------------------------------
(* A match moved by MovedTo keeps its end, loses its front, and stays true. *)
LEMMA MovedIsTrue ==
    ASSUME NEW m \in InnerOp, NEW s \in Seq(Byte), NEW t \in Seq(Byte), TrueMatch(m, s, t),
           NEW pos \in Nat, m.o_pos <= pos, pos <= m.o_pos + m.length
    PROVE  /\ MovedTo(m, pos) \in InnerOp
           /\ MovedTo(m, pos).o_pos = pos
           /\ MovedTo(m, pos).length = m.length - (pos - m.o_pos)
           /\ TrueMatch(MovedTo(m, pos), s, t)
<1> DEFINE d == pos - m.o_pos
           n == MovedTo(m, pos)
<1>1. d \in Nat /\ d <= m.length
  BY MatchFields
<1>2. /\ n.kind = m.kind /\ n.byte = m.byte /\ n.o_pos = pos /\ n.length = m.length - d
      /\ n.start = IF m.kind = "Run" THEN m.start ELSE m.start + d
  BY DEF MovedTo, InnerOp
<1>8. n \in InnerOp
  <2>1. m.length - d \in Nat /\ m.start + d \in Nat
    BY <1>1, MatchFields
  <2>2. pos \in Nat /\ m.start \in Nat
    BY MatchFields
  <2>3. CASE m.kind = "Run"
    BY <2>1, <2>2, <2>3 DEF MovedTo, InnerOp
  <2>4. CASE m.kind # "Run"
    BY <2>1, <2>2, <2>4 DEF MovedTo, InnerOp
  <2> QED
    BY <2>3, <2>4
<1> HIDE DEF n, d
<1>4. n.o_pos + n.length = m.o_pos + m.length
  BY <1>1, <1>2, MatchFields DEF d
<1>5. \A j \in 1 .. n.length : j + d \in 1 .. m.length /\ n.o_pos + j = m.o_pos + (j + d)
  BY <1>1, <1>2, MatchFields DEF d
<1>6. m.kind = "Run" => TrueMatch(n, s, t)
  BY <1>2, <1>4, <1>5 DEF TrueMatch
<1>7. m.kind # "Run" => TrueMatch(n, s, t)
  <2> SUFFICES ASSUME m.kind # "Run" PROVE TrueMatch(n, s, t)
    OBVIOUS
  <2>1. n.start + n.length = m.start + m.length
    BY <1>1, <1>2, MatchFields
  <2>2. \A j \in 1 .. n.length : n.start + j = m.start + (j + d)
    BY <1>1, <1>2, MatchFields
  <2>3. ASSUME NEW a \in Seq(Byte), SameBytes(a, m.start, t, m.o_pos, m.length)
        PROVE  SameBytes(a, n.start, t, n.o_pos, n.length)
    BY <1>2, <1>4, <1>5, <2>1, <2>2, <2>3 DEF SameBytes
  <2>4. m.start + m.length <= m.o_pos => n.start + n.length <= n.o_pos
    BY <1>1, <1>2, <2>1, MatchFields DEF d
  <2> QED
    BY <1>2, <1>4, <2>3, <2>4 DEF TrueMatch
<1> QED
  BY <1>2, <1>6, <1>7, <1>8 DEF n, d

(* A match with less at its back stays true. *)
LEMMA ShortenedIsTrue ==
    ASSUME NEW m \in InnerOp, NEW s \in Seq(Byte), NEW t \in Seq(Byte), TrueMatch(m, s, t),
           NEW len \in Nat, len <= m.length
    PROVE  /\ [m EXCEPT !.length = len] \in InnerOp
           /\ TrueMatch([m EXCEPT !.length = len], s, t)
<1> DEFINE n == [m EXCEPT !.length = len]
<1>1. /\ n.kind = m.kind /\ n.byte = m.byte /\ n.o_pos = m.o_pos /\ n.length = len
      /\ n.start = m.start
  BY DEF InnerOp
<1>2. n \in InnerOp
  BY DEF InnerOp
<1> HIDE DEF n
<1>3. TrueMatch(n, s, t)
  BY <1>1, MatchFields DEF TrueMatch, SameBytes
<1> QED
  BY <1>2, <1>3 DEF n

-----------------------------------------------------------------------------
(* The first pass. *)

(* What the invariant says of the two matches being compared. *)
LEMMA Neighbours ==
    ASSUME OpMakerInv, Comparing
    PROVE  /\ one \in 1 .. Len(ops) /\ two \in 1 .. Len(ops) /\ one < two
           /\ ops \in Seq(InnerOp) /\ Len(ops) \in Nat
           /\ \A k \in 1 .. Len(ops) : ops[k] \in InnerOp
           /\ ops[one].length > 0 /\ ops[two].length > 0
           /\ Start(one) <= Start(two) /\ End(one) <= End(two)
           /\ \A i \in 1 .. Len(ops) :
                  i < one /\ ops[i].length > 0 => End(i) <= Start(one)
           /\ two < Len(ops) => Ordered(ops[two], ops[two + 1])
  BY DEF OpMakerInv, OpMakerTypeOK, Comparing, PassOne, Ordered, Start, End

(* Removing a match leaves a list of true matches. *)
LEMMA RemovedKeeps ==
    ASSUME OpMakerInv, NEW k \in 1 .. Len(ops)
    PROVE  /\ Removed(k) \in Seq(InnerOp) /\ Len(Removed(k)) = Len(ops)
           /\ Removed(k)[k].length = 0
           /\ \A i \in 1 .. Len(ops) : i # k => Removed(k)[i] = ops[i]
           /\ \A i \in 1 .. Len(ops) : TrueMatch(Removed(k)[i], src, trgt)
<1>1. /\ ops \in Seq(InnerOp) /\ src \in Seq(Byte) /\ trgt \in Seq(Byte)
      /\ ops[k] \in InnerOp /\ TrueMatch(ops[k], src, trgt)
  BY DEF OpMakerInv, OpMakerTypeOK, MatchesTrue
<1> DEFINE n == [ops[k] EXCEPT !.length = 0]
<1>2. n \in InnerOp /\ TrueMatch(n, src, trgt)
  <2>1. 0 \in Nat /\ 0 <= ops[k].length
    BY <1>1, MatchFields
  <2> QED
    BY <1>1, <2>1, ShortenedIsTrue, Zenon
<1>3. n.length = 0
  BY <1>1 DEF InnerOp
<1>4. Removed(k) = [ops EXCEPT ![k] = n]
  BY DEF Removed
<1> HIDE DEF n
<1>5. Removed(k) \in Seq(InnerOp) /\ Len(Removed(k)) = Len(ops)
  BY <1>1, <1>2, <1>4, ExceptSeq
<1>6. /\ Removed(k)[k] = n
      /\ \A i \in 1 .. Len(ops) : i # k => Removed(k)[i] = ops[i]
  BY <1>1, <1>4
<1> QED
  BY <1>2, <1>3, <1>5, <1>6 DEF OpMakerInv, MatchesTrue

(* The first pass goes on to the next pair with the first of two old ones,  *)
(* or with the second: what it must establish of the changed list.          *)
LEMMA NextPairInv ==
    ASSUME OpMakerInv, Comparing, NextPair,
           ops' \in Seq(InnerOp), Len(ops') = Len(ops),
           \A k \in 1 .. Len(ops) : TrueMatch(ops'[k], src, trgt),
           \A k \in 1 .. Len(ops) : k # one /\ k # two => ops'[k] = ops[k],
           one' \in {one, two}, ops'[one'].length > 0,
           one' = one => ops'[two].length = 0,
           two < Len(ops) => Ordered(ops'[one'], ops[two + 1]),
           \A i, j \in 1 .. Len(ops) :
              i < j /\ j <= one' /\ ops'[i].length > 0 /\ ops'[j].length > 0
                 => End(i)' <= Start(j)'
    PROVE  OpMakerInv'
<1>1. OpMakerTypeOK'
  BY Neighbours DEF OpMakerInv, OpMakerTypeOK, NextPair
<1>2. MatchesTrue'
  BY DEF NextPair, MatchesTrue
<1>3. PassOne'
  <2> USE Neighbours DEF NextPair
  <2>1. phase = "overlaps" /\ PassOne
    BY DEF Comparing, OpMakerInv
  <2>2. /\ out_ops' = <<>> /\ out_pos' = 0 /\ next' = 1 /\ request' = NoRequest
        /\ one' < two' /\ one' <= Len(ops') /\ ops'[one'].length > 0
    BY <2>1 DEF PassOne
  <2>3. \A k \in 1 .. Len(ops') : two' <= k => ops'[k] = ops[k] /\ ops'[k].length > 0
    BY <2>1 DEF PassOne
  <2>4. two' <= Len(ops') => Ordered(ops'[one'], ops'[two'])
    BY <2>3
  <2>5. \A k \in 1 .. Len(ops') - 1 : two' <= k => Ordered(ops'[k], ops'[k + 1])
    BY <2>1, <2>3 DEF PassOne
  <2>6. \A k \in 1 .. Len(ops') : one' < k /\ k < two' => ops'[k].length = 0
    BY <2>1 DEF PassOne
  <2> QED
    BY <2>2, <2>3, <2>4, <2>5, <2>6 DEF PassOne
<1>4. PassTwo'
  BY DEF PassTwo, NextPair, Comparing
<1> QED
  BY <1>1, <1>2, <1>3, <1>4 DEF OpMakerInv

LEMMA DisjointInv == ASSUME OpMakerInv, Disjoint PROVE OpMakerInv'
<1>1. Comparing /\ NextPair /\ ops' = ops /\ one' = two /\ End(one) <= Start(two)
  BY DEF Disjoint
<1>2. \A k \in 1 .. Len(ops) : TrueMatch(ops'[k], src, trgt)
  BY <1>1 DEF OpMakerInv, MatchesTrue
<1>3. \A i, j \in 1 .. Len(ops) :
         i < j /\ j <= two /\ ops[i].length > 0 /\ ops[j].length > 0 => End(i) <= Start(j)
  <2> SUFFICES ASSUME NEW i \in 1 .. Len(ops), NEW j \in 1 .. Len(ops), i < j, j <= two,
                      ops[i].length > 0, ops[j].length > 0
               PROVE  End(i) <= Start(j)
    OBVIOUS
  <2>1. PassOne /\ phase = "overlaps" /\ two \in Nat /\ one \in Nat
    BY <1>1 DEF OpMakerInv, OpMakerTypeOK, Comparing
  <2>2. CASE j <= one
    BY <2>1, <2>2 DEF PassOne
  <2>3. CASE j > one
    <3>1. j = two
      BY <2>1, <2>3, MatchFields DEF PassOne
    <3>2. i <= one
      BY <2>1, <3>1, MatchFields DEF PassOne
    <3>3. CASE i = one
      BY <1>1, <3>1, <3>3
    <3>4. CASE i < one
      <4>1. End(i) <= Start(one)
        BY <1>1, <3>4, Neighbours
      <4>2. Start(one) <= Start(two)
        BY <1>1, Neighbours
      <4>3. End(i) \in Int /\ Start(one) \in Int /\ Start(two) \in Int
        BY <1>1, Neighbours, MatchFields DEF Start, End
      <4> QED
        BY <3>1, <4>1, <4>2, <4>3
    <3> QED
      BY <2>1, <3>2, <3>3, <3>4
  <2> QED
    BY <2>1, <2>2, <2>3
<1> QED
  BY <1>1, <1>2, <1>3, Neighbours, NextPairInv DEF Start, End

(* When the first of the two is removed, or when it is cut and the second   *)
(* moved up to its end, the matches up to the second are apart.             *)
LEMMA ApartUpToTwo ==
    ASSUME OpMakerInv, Comparing,
           ops' \in Seq(InnerOp), Len(ops') = Len(ops),
           \A k \in 1 .. Len(ops) : k # one /\ k # two => ops'[k] = ops[k],
           ops'[one].o_pos = ops[one].o_pos, ops[one].o_pos <= ops'[two].o_pos,
           ops'[one].length > 0 => ops[one].o_pos + ops'[one].length <= ops'[two].o_pos,
           one' = two
    PROVE  \A i, j \in 1 .. Len(ops) :
              i < j /\ j <= one' /\ ops'[i].length > 0 /\ ops'[j].length > 0
                 => End(i)' <= Start(j)'
<1> SUFFICES ASSUME NEW i \in 1 .. Len(ops), NEW j \in 1 .. Len(ops), i < j, j <= two,
                    ops'[i].length > 0, ops'[j].length > 0
             PROVE  ops'[i].o_pos + ops'[i].length <= ops'[j].o_pos
  BY DEF Start, End
<1>1. /\ one \in 1 .. Len(ops) /\ two \in 1 .. Len(ops) /\ one < two
      /\ phase = "overlaps" /\ PassOne
  BY Neighbours DEF Comparing, OpMakerInv
<1>2. ops'[one].length > 0 => ops'[one].o_pos + ops'[one].length <= ops'[two].o_pos
  OBVIOUS
<1>3. /\ ops[one].length > 0
      /\ \A k \in 1 .. Len(ops) : one < k /\ k < two => ops'[k].length = 0
      /\ \A k \in 1 .. Len(ops) : k < one => ops'[k] = ops[k]
  BY <1>1 DEF PassOne
<1>4. \A k \in 1 .. Len(ops) : ops[k] \in InnerOp /\ ops'[k] \in InnerOp
  BY Neighbours
<1>5. j <= one \/ j = two
  BY <1>1, <1>3
<1>6. i <= one
  BY <1>1, <1>3, <1>5
<1>7. CASE j <= one
  <2>1. i < one /\ ops'[i] = ops[i] /\ ops'[j].o_pos = ops[j].o_pos /\ ops[j].length > 0
    BY <1>1, <1>2, <1>3, <1>7
  <2>2. End(i) <= Start(j)
    BY <1>1, <1>7, <2>1 DEF PassOne
  <2> QED
    BY <2>1, <2>2 DEF Start, End
<1>8. CASE j = two
  <2>1. CASE i = one
    BY <1>2, <1>8, <2>1
  <2>2. CASE i < one
    <3>1. ops'[i] = ops[i] /\ End(i) <= Start(one)
      BY <1>3, <2>2, Neighbours
    <3>2. ops[i].o_pos + ops[i].length <= ops[one].o_pos
      BY <3>1 DEF Start, End
    <3>3. /\ ops[i].o_pos + ops[i].length \in Nat /\ ops[one].o_pos \in Nat
          /\ ops'[two].o_pos \in Nat
      BY <1>1, <1>4, MatchFields
    <3> QED
      BY <1>2, <1>8, <3>1, <3>2, <3>3
  <2> QED
    BY <1>1, <1>6, <2>1, <2>2
<1> QED
  BY <1>5, <1>7, <1>8

(* The order of the matches is transitive. *)
LEMMA OrderedTransitive ==
    ASSUME NEW l \in InnerOp, NEW m \in InnerOp, NEW n \in InnerOp, Ordered(l, m), Ordered(m, n)
    PROVE  Ordered(l, n)
  BY MatchFields DEF Ordered

(* The first of the two can also stay, when the second is removed. *)
LEMMA RemoveSecondInv ==
    ASSUME OpMakerInv, Comparing, NextPair, ops' = Removed(two), one' = one
    PROVE  OpMakerInv'
<1>1. /\ two \in 1 .. Len(ops) /\ one \in 1 .. Len(ops) /\ one < two
      /\ ops[one].length > 0
  BY Neighbours
<1>2. /\ ops' \in Seq(InnerOp) /\ Len(ops') = Len(ops) /\ ops'[two].length = 0
      /\ \A i \in 1 .. Len(ops) : i # two => ops'[i] = ops[i]
      /\ \A i \in 1 .. Len(ops) : TrueMatch(ops'[i], src, trgt)
  BY <1>1, RemovedKeeps
<1>3. two < Len(ops) => Ordered(ops'[one'], ops[two + 1])
  <2> SUFFICES ASSUME two < Len(ops) PROVE Ordered(ops[one], ops[two + 1])
    BY <1>1, <1>2
  <2>1. Ordered(ops[one], ops[two]) /\ Ordered(ops[two], ops[two + 1])
    BY Neighbours DEF Ordered, Start, End
  <2>2. ops[one] \in InnerOp /\ ops[two] \in InnerOp /\ ops[two + 1] \in InnerOp
    BY <1>1, Neighbours
  <2> QED
    BY <2>1, <2>2, OrderedTransitive
<1>4. \A i, j \in 1 .. Len(ops) :
         i < j /\ j <= one /\ ops'[i].length > 0 /\ ops'[j].length > 0
            => ops'[i].o_pos + ops'[i].length <= ops'[j].o_pos
  <2>1. \A i \in 1 .. Len(ops) : i <= one => ops'[i] = ops[i]
    BY <1>1, <1>2
  <2>2. \A i, j \in 1 .. Len(ops) : i < j /\ j <= one => i <= one
    BY <1>1
  <2> QED
    BY <2>1, <2>2 DEF OpMakerInv, PassOne, Comparing, Start, End
<1> QED
  BY <1>1, <1>2, <1>3, <1>4, NextPairInv DEF Start, End

LEMMA DropRedundantInv == ASSUME OpMakerInv, DropRedundant PROVE OpMakerInv'
  BY RemoveSecondInv DEF DropRedundant

LEMMA KeepLongerInv == ASSUME OpMakerInv, KeepLonger PROVE OpMakerInv'
<1>1. Comparing /\ NextPair
  BY DEF KeepLonger
<1>2. CASE ops' = Removed(two) /\ one' = one
  BY <1>1, <1>2, RemoveSecondInv
<1>3. CASE ops' = Removed(one) /\ one' = two
  <2>1. /\ one \in 1 .. Len(ops) /\ two \in 1 .. Len(ops) /\ one < two
        /\ ops[two].length > 0 /\ Start(one) <= Start(two)
        /\ two < Len(ops) => Ordered(ops[two], ops[two + 1])
        /\ ops[one] \in InnerOp
    BY <1>1, Neighbours
  <2>2. /\ ops' \in Seq(InnerOp) /\ Len(ops') = Len(ops) /\ ops'[one].length = 0
        /\ \A i \in 1 .. Len(ops) : i # one => ops'[i] = ops[i]
        /\ \A i \in 1 .. Len(ops) : TrueMatch(ops'[i], src, trgt)
    BY <1>3, <2>1, RemovedKeeps
  <2>3. ops'[two] = ops[two] /\ ops'[one].o_pos = ops[one].o_pos
    BY <1>3, <2>1, <2>2 DEF Removed, InnerOp
  <2>4. ops[one].o_pos <= ops'[two].o_pos /\ ~ (ops'[one].length > 0)
    BY <2>1, <2>2, <2>3 DEF Start
  <2>5. \A i, j \in 1 .. Len(ops) :
           i < j /\ j <= one' /\ ops'[i].length > 0 /\ ops'[j].length > 0
              => End(i)' <= Start(j)'
    BY <1>1, <1>3, <2>2, <2>3, <2>4, ApartUpToTwo
  <2> QED
    BY <1>1, <1>3, <2>1, <2>2, <2>3, <2>5, NextPairInv
<1> QED
  BY <1>2, <1>3 DEF KeepLonger

(* Half of the overlap lies in both matches. *)
LEMMA MidpointBetween ==
    ASSUME NEW a \in Nat, NEW b \in Nat, a < b
    PROVE  /\ a + (b - a) \div 2 \in Nat
           /\ a <= a + (b - a) \div 2 /\ a + (b - a) \div 2 < b
<1> DEFINE h == (b - a) \div 2
<1>1. h \in Nat /\ h < b - a
  OBVIOUS
<1> HIDE DEF h
<1> QED
  BY <1>1 DEF h

LEMMA MeetMidwayInv == ASSUME OpMakerInv, MeetMidway PROVE OpMakerInv'
<1>1. /\ Comparing /\ NextPair /\ one' = two /\ Overlap /\ ~ Redundant /\ ~ TooClose
      /\ ops' = [ops EXCEPT ![one].length = Midpoint - Start(one),
                            ![two] = MovedTo(@, Midpoint)]
  BY DEF MeetMidway
<1>2. /\ one \in 1 .. Len(ops) /\ two \in 1 .. Len(ops) /\ one < two
      /\ ops \in Seq(InnerOp) /\ ops[one] \in InnerOp /\ ops[two] \in InnerOp
      /\ Start(one) <= Start(two) /\ End(one) <= End(two)
      /\ two < Len(ops) => Ordered(ops[two], ops[two + 1]) /\ ops[two + 1] \in InnerOp
      /\ src \in Seq(Byte) /\ trgt \in Seq(Byte)
  BY <1>1, Neighbours DEF OpMakerInv, OpMakerTypeOK
<1>3. /\ Start(one) \in Nat /\ Start(two) \in Nat /\ End(one) \in Nat /\ End(two) \in Nat
      /\ End(one) = Start(one) + ops[one].length /\ ops[one].length \in Nat
      /\ End(two) = Start(two) + ops[two].length /\ ops[two].length \in Nat
  <2>1. /\ ops[one].o_pos \in Nat /\ ops[one].length \in Nat
        /\ ops[two].o_pos \in Nat /\ ops[two].length \in Nat
    BY <1>2, MatchFields
  <2> QED
    BY <2>1 DEF Start, End
<1>4. Midpoint \in Nat /\ Start(two) <= Midpoint /\ Midpoint < End(one)
  BY <1>1, <1>3, MidpointBetween DEF Overlap, Midpoint
<1>5. Start(one) < Start(two)
  BY <1>1, <1>3, OpMakerAssumption DEF TooClose
<1> DEFINE len == Midpoint - Start(one)
           first == [ops[one] EXCEPT !.length = len]
           second == MovedTo(ops[two], Midpoint)
<1>6. len \in Nat /\ 0 < len /\ len <= ops[one].length
  BY <1>3, <1>4, <1>5
<1>7. /\ TrueMatch(ops[one], src, trgt) /\ TrueMatch(ops[two], src, trgt)
  BY <1>2 DEF OpMakerInv, MatchesTrue
<1>8. /\ first \in InnerOp /\ TrueMatch(first, src, trgt)
      /\ first.length = len /\ first.o_pos = ops[one].o_pos
  <2> HIDE DEF len
  <2>1. first \in InnerOp /\ TrueMatch(first, src, trgt)
    BY <1>2, <1>6, <1>7, ShortenedIsTrue, Zenon
  <2> QED
    BY <1>2, <2>1 DEF InnerOp
<1>9. /\ second \in InnerOp /\ TrueMatch(second, src, trgt)
      /\ second.o_pos = Midpoint /\ second.length = ops[two].length - (Midpoint - Start(two))
  <2>1. ops[two].o_pos <= Midpoint /\ Midpoint <= ops[two].o_pos + ops[two].length
    BY <1>2, <1>3, <1>4 DEF Start
  <2> QED
    BY <1>2, <1>4, <1>7, <2>1, MovedIsTrue DEF Start
<1>10. ops' = [[ops EXCEPT ![one] = first] EXCEPT ![two] = second]
  BY <1>1, <1>2
<1> HIDE DEF first, second, len
<1>11. /\ ops' \in Seq(InnerOp) /\ Len(ops') = Len(ops)
       /\ ops'[one] = first /\ ops'[two] = second
       /\ \A k \in 1 .. Len(ops) : k # one /\ k # two => ops'[k] = ops[k]
  <2>1. /\ [ops EXCEPT ![one] = first] \in Seq(InnerOp)
        /\ Len([ops EXCEPT ![one] = first]) = Len(ops)
    BY <1>2, <1>8, ExceptSeq
  <2>2. ops' \in Seq(InnerOp) /\ Len(ops') = Len(ops)
    BY <1>2, <1>9, <1>10, <2>1, ExceptSeq
  <2> QED
    BY <1>2, <1>10, <2>2
<1>12. second.length > 0 /\ second.o_pos + second.length = End(two)
  <2>1. End(one) <= End(two)
    BY <1>2
  <2>2. second.o_pos = Midpoint /\ second.length = ops[two].length - (Midpoint - Start(two))
    BY <1>9
  <2> QED
    BY <1>3, <1>4, <2>1, <2>2
<1>13. two < Len(ops) => Ordered(second, ops[two + 1])
  <2> SUFFICES ASSUME two < Len(ops) PROVE Ordered(second, ops[two + 1])
    OBVIOUS
  <2>1. Midpoint <= Start(two + 1)
    <3>1. End(one) <= Start(two + 1) /\ Start(two + 1) \in Nat
      <4>1. Start(two + 1) \in Nat
        BY <1>2, MatchFields DEF Start
      <4>2. ~ (End(one) > Start(two + 1))
        BY <1>1 DEF Redundant
      <4> QED
        BY <1>3, <4>1, <4>2
    <3> QED
      BY <1>3, <1>4, <3>1
  <2>2. End(two) <= ops[two + 1].o_pos + ops[two + 1].length
    BY <1>2 DEF Ordered, End
  <2> QED
    BY <1>9, <1>12, <2>1, <2>2 DEF Ordered, Start
<1>14. /\ ops'[one].o_pos = ops[one].o_pos /\ ops[one].o_pos <= ops'[two].o_pos
       /\ ops[one].o_pos + ops'[one].length <= ops'[two].o_pos
  <2>1. ops[one].o_pos = Start(one)
    BY DEF Start
  <2>2. ops'[one].length = Midpoint - Start(one) /\ ops'[one].o_pos = Start(one)
    BY <1>8, <1>11, <2>1 DEF len
  <2>3. ops'[two].o_pos = Midpoint
    BY <1>9, <1>11
  <2> QED
    BY <1>3, <1>4, <1>5, <2>1, <2>2, <2>3
<1>15. \A i, j \in 1 .. Len(ops) :
          i < j /\ j <= one' /\ ops'[i].length > 0 /\ ops'[j].length > 0
             => End(i)' <= Start(j)'
  BY <1>1, <1>11, <1>14, ApartUpToTwo
<1>16. \A k \in 1 .. Len(ops) : TrueMatch(ops'[k], src, trgt)
  BY <1>8, <1>9, <1>11 DEF OpMakerInv, MatchesTrue
<1> QED
  <2>1. one' \in {one, two} /\ ops'[one'].length > 0 /\ one' # one
    BY <1>1, <1>2, <1>11, <1>12
  <2>2. two < Len(ops) => Ordered(ops'[one'], ops[two + 1])
    BY <1>1, <1>11, <1>13
  <2> QED
    BY <1>1, <1>11, <1>15, <1>16, <2>1, <2>2, NextPairInv

LEMMA EndOverlapsInv == ASSUME OpMakerInv, EndOverlaps PROVE OpMakerInv'
<1>1. /\ phase = "overlaps" /\ two > Len(ops) /\ phase' = "convert"
      /\ UNCHANGED <<src, trgt, ops, one, two, next, request, out_ops, out_pos>>
      /\ OpMakerTypeOK /\ PassOne
  BY DEF EndOverlaps, OpMakerInv
<1>2. OpMakerTypeOK' /\ MatchesTrue' /\ PassOne'
  BY <1>1 DEF OpMakerTypeOK, OpMakerInv, MatchesTrue, PassOne
<1>3. \A i, j \in 1 .. Len(ops) :
         i < j /\ ops[i].length > 0 /\ ops[j].length > 0 => End(i) <= Start(j)
  <2> SUFFICES ASSUME NEW i \in 1 .. Len(ops), NEW j \in 1 .. Len(ops),
                      i < j, ops[i].length > 0, ops[j].length > 0
               PROVE  End(i) <= Start(j)
    OBVIOUS
  <2>1. \A k \in 1 .. Len(ops) : one < k => ops[k].length = 0
    BY <1>1 DEF PassOne, OpMakerTypeOK
  <2>2. j <= one
    BY <1>1, <2>1 DEF OpMakerTypeOK
  <2> QED
    BY <1>1, <2>2 DEF PassOne
<1>4. out_pos = 0 /\ request = NoRequest
  BY <1>1 DEF PassOne
<1>5. RequestEnd = 0 /\ RequestTrue
  BY <1>4 DEF RequestEnd, RequestTrue, NoRequest
<1>6. \A k \in 1 .. Len(ops) : 0 <= Start(k)
  BY <1>1, MatchFields DEF OpMakerTypeOK, Start
<1>7. (\A i, j \in 1 .. Len(ops) :
          i < j /\ ops[i].length > 0 /\ ops[j].length > 0 => End(i) <= Start(j))'
  BY <1>1, <1>3 DEF Start, End
<1>8. RequestEnd' = 0 /\ RequestTrue'
  BY <1>1, <1>5 DEF RequestEnd, RequestTrue
<1>9. PassTwo'
  <2>1. 0 <= Len(trgt)
    BY <1>1 DEF OpMakerTypeOK
  <2> QED
    BY <1>1, <1>6, <1>7, <1>8, <2>1 DEF PassTwo, Start
<1> QED
  BY <1>2, <1>9 DEF OpMakerInv

-----------------------------------------------------------------------------
(* The second pass. *)

(* What a step of the second pass, which moves no match, must establish. *)
LEMMA SecondPassInv ==
    ASSUME OpMakerInv, phase # "overlaps", phase' # "overlaps",
           UNCHANGED <<src, trgt, ops, one, two>>,
           OpMakerTypeOK', RequestTrue', RequestEnd' <= Len(trgt),
           \A k \in 1 .. Len(ops) : next' <= k /\ ops[k].length > 0 => RequestEnd' <= Start(k)
    PROVE  OpMakerInv'
<1>1. MatchesTrue' /\ PassOne'
  BY DEF OpMakerInv, MatchesTrue, PassOne
<1>2. (\A i, j \in 1 .. Len(ops) :
          i < j /\ ops[i].length > 0 /\ ops[j].length > 0 => End(i) <= Start(j))'
  BY DEF OpMakerInv, PassTwo, Start, End
<1>3. (\A k \in 1 .. Len(ops) : next <= k /\ ops[k].length > 0 => RequestEnd <= Start(k))'
  BY DEF Start
<1> QED
  BY <1>1, <1>2, <1>3 DEF OpMakerInv, PassTwo

(* The types, without what a step of the second pass does not change. *)
LEMMA SecondPassType ==
    ASSUME OpMakerInv, UNCHANGED <<src, trgt, ops, one, two, phase>>,
           next' \in 1 .. Len(ops) + 1, request' \in Requests, out_ops' \in Seq(Op),
           out_pos' \in 0 .. Len(trgt)
    PROVE  OpMakerTypeOK'
  BY DEF OpMakerInv, OpMakerTypeOK

(* What the second pass knows. *)
LEMMA SecondPassFacts ==
    ASSUME OpMakerInv, phase = "convert"
    PROVE  /\ src \in Seq(Byte) /\ trgt \in Seq(Byte) /\ ops \in Seq(InnerOp)
           /\ out_ops \in Seq(Op) /\ out_pos \in Nat /\ out_pos <= Len(trgt)
           /\ Len(trgt) \in Nat /\ Len(ops) \in Nat
           /\ next \in 1 .. Len(ops) + 1
           /\ request \in Requests /\ RequestTrue /\ RequestEnd <= Len(trgt)
           /\ \A k \in 1 .. Len(ops) :
                 /\ ops[k] \in InnerOp /\ Start(k) \in Nat /\ End(k) \in Nat
                 /\ TrueMatch(ops[k], src, trgt)
                 /\ next <= k /\ ops[k].length > 0 => RequestEnd <= Start(k)
           /\ \A i, j \in 1 .. Len(ops) :
                 i < j /\ ops[i].length > 0 /\ ops[j].length > 0 => End(i) <= Start(j)
<1>1. /\ OpMakerTypeOK /\ MatchesTrue /\ PassTwo
  BY DEF OpMakerInv
<1>2. \A k \in 1 .. Len(ops) : ops[k] \in InnerOp /\ Start(k) \in Nat /\ End(k) \in Nat
  BY <1>1, MatchFields DEF OpMakerTypeOK, Start, End
<1> QED
  BY <1>1, <1>2 DEF OpMakerTypeOK, MatchesTrue, PassTwo

(* The parts of a request. *)
LEMMA RequestFields ==
    ASSUME NEW r \in Requests
    PROVE  /\ r.kind \in {"Add", "Copy", "Run", "RunCopy"} /\ r.from \in CopySrc
           /\ r.addr \in Nat /\ r.byte \in Byte /\ r.left \in Nat
           /\ r.copy_bytes \in Nat /\ r.max_copy_size \in Nat
  BY DEF Requests

(* With nothing left to emit, the request ends where the output does. *)
LEMMA Idle ==
    ASSUME OpMakerInv, Converting
    PROVE  request.kind # "Run" /\ RequestEnd = out_pos
<1>1. request \in Requests /\ RequestTrue /\ request.left = 0 /\ out_pos \in Nat
  BY SecondPassFacts DEF Converting
<1> QED
  BY <1>1, RequestFields DEF RequestTrue, RequestEnd

LEMMA SkipRemovedInv == ASSUME OpMakerInv, SkipRemoved PROVE OpMakerInv'
<1>1. /\ phase = "convert" /\ next <= Len(ops) /\ next' = next + 1
      /\ UNCHANGED <<src, trgt, ops, one, two, request, out_ops, out_pos, phase>>
  BY DEF SkipRemoved, Converting
<1>2. OpMakerTypeOK'
  BY <1>1 DEF OpMakerInv, OpMakerTypeOK
<1>3. RequestEnd' = RequestEnd /\ RequestTrue' = RequestTrue
  BY <1>1 DEF RequestEnd, RequestTrue
<1>4. \A k \in 1 .. Len(ops) : next' <= k => next <= k
  BY <1>1, SecondPassFacts
<1> QED
  BY <1>1, <1>2, <1>3, <1>4, SecondPassFacts, SecondPassInv

LEMMA FinishInv == ASSUME OpMakerInv, Finish PROVE OpMakerInv'
<1>1. /\ phase = "convert" /\ phase' = "done"
      /\ UNCHANGED <<src, trgt, ops, one, two, next, request, out_ops, out_pos>>
  BY DEF Finish, Converting
<1>2. OpMakerTypeOK'
  BY <1>1 DEF OpMakerInv, OpMakerTypeOK
<1>3. RequestEnd' = RequestEnd /\ RequestTrue' = RequestTrue
  BY <1>1 DEF RequestEnd, RequestTrue
<1> QED
  BY <1>1, <1>2, <1>3, SecondPassFacts, SecondPassInv

(* A match to convert lies where the output ends, or after a gap.  It reads *)
(* output that is there, as its target bytes lie after those it reads.      *)
LEMMA NextMatch ==
    ASSUME OpMakerInv, Converting, next <= Len(ops), ops[next].length > 0
    PROVE  /\ next \in 1 .. Len(ops) /\ ops[next] \in InnerOp
           /\ out_pos <= Start(next) /\ End(next) <= Len(trgt)
           /\ Start(next) \in Nat /\ End(next) = Start(next) + ops[next].length
           /\ TrueMatch(ops[next], src, trgt)
           /\ Start(next) = out_pos => ReadsOutput(ops[next])
           /\ \A k \in 1 .. Len(ops) : next < k /\ ops[k].length > 0 => End(next) <= Start(k)
<1>1. /\ next \in 1 .. Len(ops) /\ ops[next] \in InnerOp /\ Start(next) \in Nat
      /\ TrueMatch(ops[next], src, trgt) /\ RequestEnd <= Start(next)
      /\ \A k \in 1 .. Len(ops) : next < k /\ ops[k].length > 0 => End(next) <= Start(k)
  BY SecondPassFacts DEF Converting
<1>2. out_pos <= Start(next)
  BY <1>1, Idle
<1>3. End(next) <= Len(trgt) /\ End(next) = Start(next) + ops[next].length
  BY <1>1 DEF TrueMatch, Start, End
<1>4. Start(next) = out_pos => ReadsOutput(ops[next])
  BY <1>1 DEF TrueMatch, ReadsOutput, Start
<1> QED
  BY <1>1, <1>2, <1>3, <1>4

(* What is requested for a match ends where the match does, and is true.    *)
LEMMA StartOpInv == ASSUME OpMakerInv, StartOp PROVE OpMakerInv'
<1> DEFINE m == ops[next]
           r == RequestFor(m)
<1>1. /\ Converting /\ phase = "convert" /\ next <= Len(ops) /\ m.length > 0
      /\ Start(next) = out_pos /\ ReadsOutput(m)
      /\ request' = r /\ next' = next + 1
      /\ UNCHANGED <<src, trgt, ops, one, two, out_ops, out_pos, phase>>
  BY DEF StartOp, Converting
<1>2. /\ m \in InnerOp /\ TrueMatch(m, src, trgt) /\ m.o_pos = out_pos
      /\ m.length \in Nat /\ m.start \in Nat /\ m.byte \in Byte
      /\ m.kind \in {"MatchSrc", "MatchTrgt", "Run"}
      /\ out_pos \in Nat /\ Len(trgt) \in Nat /\ out_pos + m.length = End(next)
  BY <1>1, NextMatch, SecondPassFacts, MatchFields DEF Start
<1>3. ASSUME r \in Requests, RequestEnd' = End(next), RequestTrue' PROVE OpMakerInv'
  <2>1. /\ next' \in 1 .. Len(ops) + 1 /\ End(next) <= Len(trgt)
        /\ \A k \in 1 .. Len(ops) : next' <= k /\ ops[k].length > 0 => End(next) <= Start(k)
    BY <1>1, NextMatch, SecondPassFacts
  <2>2. OpMakerTypeOK'
    BY <1>1, <1>3, <2>1, SecondPassFacts, SecondPassType
  <2> QED
    BY <1>1, <1>3, <2>1, <2>2, SecondPassInv
<1> HIDE DEF m
<1>4. CASE m.kind = "Run"
  <2> DEFINE now == IF m.length < RUN_LIMIT THEN m.length ELSE COPY_LIMIT
             after == IF m.length < RUN_LIMIT THEN 0 ELSE m.length - COPY_LIMIT
  <2>1. /\ now \in Nat /\ now > 0 /\ after \in Nat /\ now + after = m.length
        /\ after > 0 => now = COPY_LIMIT
    BY <1>1, <1>2, Limits
  <2> HIDE DEF now, after
  <2>2. r = [NoRequest EXCEPT !.kind = "Run", !.byte = m.byte, !.addr = out_pos,
                !.left = now, !.copy_bytes = after]
    BY <1>4 DEF RequestFor, now, after
  <2>3. /\ r \in Requests /\ r.kind = "Run" /\ r.byte = m.byte /\ r.addr = out_pos
        /\ r.left = now /\ r.copy_bytes = after
    BY <1>2, <2>1, <2>2, NoRequestType DEF Requests
  <2>4. RequestEnd' = End(next)
    BY <1>1, <1>2, <2>1, <2>3 DEF RequestEnd
  <2>5. \A p \in 1 .. Len(trgt) : out_pos < p /\ p <= End(next) => trgt[p] = m.byte
    <3> SUFFICES ASSUME NEW p \in 1 .. Len(trgt), out_pos < p, p <= End(next)
                 PROVE  trgt[p] = m.byte
      OBVIOUS
    <3>1. p - out_pos \in 1 .. m.length /\ m.o_pos + (p - out_pos) = p
      BY <1>2
    <3> QED
      BY <1>2, <1>4, <3>1 DEF TrueMatch
  <2>6. RequestTrue'
    BY <1>1, <1>2, <2>1, <2>3, <2>4, <2>5 DEF RequestTrue
  <2> QED
    BY <1>3, <2>3, <2>4, <2>6
<1>5. CASE m.kind # "Run"
  <2>1. r = [NoRequest EXCEPT !.kind = "Copy", !.addr = m.start, !.left = m.length,
                !.from = IF m.kind = "MatchSrc" THEN "Dict" ELSE "Output"]
    BY <1>2, <1>5 DEF RequestFor, NoRequest
  <2>2. /\ r \in Requests /\ r.kind = "Copy" /\ r.addr = m.start /\ r.left = m.length
        /\ r.from = IF m.kind = "MatchSrc" THEN "Dict" ELSE "Output"
    BY <1>2, <2>1, NoRequestType DEF Requests, CopySrc
  <2>3. RequestEnd' = End(next)
    BY <1>1, <1>2, <2>2 DEF RequestEnd
  <2>4. /\ m.kind = "MatchSrc" => SameBytes(src, m.start, trgt, out_pos, m.length)
        /\ m.kind = "MatchTrgt" => /\ SameBytes(trgt, m.start, trgt, out_pos, m.length)
                                   /\ m.start + m.length <= out_pos
    BY <1>2 DEF TrueMatch
  <2>5. RequestTrue'
    BY <1>1, <1>2, <1>5, <2>2, <2>4 DEF RequestTrue
  <2> QED
    BY <1>3, <2>2, <2>3, <2>5
<1> QED
  BY <1>4, <1>5

-----------------------------------------------------------------------------
(* The operations made. *)

(* What a step that makes an operation must establish for StepRebuilds.     *)
LEMMA PushRebuilds ==
    ASSUME OpMakerInv, phase = "convert", phase' = phase, NEW op \in Op, NEW size \in Nat,
           Push(op, size), oal(op) = size, Rebuilds(op, out_pos)
    PROVE  StepRebuilds /\ out_ops' \in Seq(Op) /\ out_pos' = out_pos + size
<1>1. out_ops' = Append(out_ops, op) /\ out_pos' = out_pos + size /\ out_ops \in Seq(Op)
  BY SecondPassFacts DEF Push
<1>2. out_ops' \in Seq(Op) /\ out_ops'[Len(out_ops')] = op
  BY <1>1
<1> QED
  BY <1>1, <1>2 DEF StepRebuilds

(* make_add_ops either puts out one byte, or requests the bytes up to pos.  *)
LEMMA AddUpToInv ==
    ASSUME OpMakerInv, Converting, NEW pos \in Nat, AddUpTo(pos),
           out_pos < pos, pos <= Len(trgt),
           \A k \in 1 .. Len(ops) : next <= k /\ ops[k].length > 0 => pos <= Start(k)
    PROVE  OpMakerInv' /\ StepRebuilds
<1>1. /\ phase = "convert" /\ phase' = phase /\ next' = next /\ request.left = 0
      /\ UNCHANGED <<src, trgt, ops, one, two, next, phase>>
  BY DEF AddUpTo, Converting
<1>2. /\ out_pos \in Nat /\ trgt \in Seq(Byte) /\ request \in Requests
      /\ next \in 1 .. Len(ops) + 1 /\ out_ops \in Seq(Op)
      /\ request.kind # "Run" /\ Len(trgt) \in Nat
  BY <1>1, SecondPassFacts, Idle
<1>3. ASSUME request' \in Requests, out_ops' \in Seq(Op), out_pos' \in 0 .. Len(trgt),
             RequestEnd' = pos, RequestTrue'
      PROVE  OpMakerInv'
  <2>1. OpMakerTypeOK'
    BY <1>1, <1>2, <1>3, SecondPassType
  <2> QED
    BY <1>1, <1>3, <2>1, SecondPassInv
<1>4. CASE pos = out_pos + 1
  <2> DEFINE op == Run(trgt[pos], 1)
  <2>1. op \in Op /\ oal(op) = 1 /\ Rebuilds(op, out_pos)
    <3>1. op.op = "Run" /\ op.byte = trgt[pos] /\ op.len = 1
      BY DEF Run
    <3>2. op \in RunOps
      BY <1>2, LimitsAssumption DEF RunOps, Run
    <3>3. Rebuilds(op, out_pos)
      BY <1>2, <1>4, <3>1, LimitsAssumption DEF Rebuilds, is_add, is_run, is_copy, is_copy_from
    <3> QED
      BY <3>1, <3>2, <3>3 DEF Op, oal, is_add
  <2>2. Push(op, 1) /\ request' = request
    BY <1>4 DEF AddUpTo
  <2> HIDE DEF op
  <2>3. StepRebuilds /\ out_ops' \in Seq(Op) /\ out_pos' = out_pos + 1
    BY <1>1, <2>1, <2>2, PushRebuilds
  <2>4. RequestEnd' = pos /\ RequestTrue'
    <3>1. request'.left = 0 /\ request'.kind # "Run"
      BY <1>1, <1>2, <2>2
    <3> QED
      BY <1>2, <1>4, <2>3, <3>1 DEF RequestEnd, RequestTrue
  <2> QED
    BY <1>2, <1>3, <1>4, <2>2, <2>3, <2>4
<1>5. CASE pos # out_pos + 1
  <2>1. /\ request' = [NoRequest EXCEPT !.left = pos - out_pos]
        /\ out_ops' = out_ops /\ out_pos' = out_pos
    BY <1>5 DEF AddUpTo
  <2>2. pos - out_pos \in Nat
    BY <1>2
  <2>3. request' \in Requests /\ request'.kind = "Add" /\ request'.left = pos - out_pos
    <3>1. request'.kind = "Add" /\ request'.left = pos - out_pos
      BY <2>1 DEF NoRequest
    <3> QED
      BY <2>1, <2>2, <3>1, NoRequestType DEF Requests
  <2>4. RequestEnd' = pos
    BY <1>2, <2>1, <2>3 DEF RequestEnd
  <2>5. RequestTrue'
    BY <2>3 DEF RequestTrue
  <2>6. StepRebuilds
    BY <1>1, <2>1 DEF StepRebuilds
  <2> QED
    BY <1>2, <1>3, <2>1, <2>3, <2>4, <2>5, <2>6
<1> QED
  BY <1>4, <1>5

LEMMA FillGapInv == ASSUME OpMakerInv, FillGap PROVE OpMakerInv' /\ StepRebuilds
<1>1. /\ Converting /\ next <= Len(ops) /\ ops[next].length > 0
      /\ Start(next) > out_pos /\ AddUpTo(Start(next)) /\ phase = "convert"
  BY DEF FillGap, Converting
<1>2. /\ next \in 1 .. Len(ops) /\ Start(next) \in Nat /\ out_pos \in Nat
      /\ End(next) <= Len(trgt) /\ End(next) = Start(next) + ops[next].length
      /\ ops[next].length \in Nat /\ Len(trgt) \in Nat
      /\ \A k \in 1 .. Len(ops) : next < k /\ ops[k].length > 0 => End(next) <= Start(k)
      /\ \A k \in 1 .. Len(ops) : Start(k) \in Nat
  BY <1>1, NextMatch, SecondPassFacts, MatchFields
<1>3. \A k \in 1 .. Len(ops) : next <= k /\ ops[k].length > 0 => Start(next) <= Start(k)
  <2> SUFFICES ASSUME NEW k \in 1 .. Len(ops), next < k, ops[k].length > 0
               PROVE  Start(next) <= Start(k)
    BY <1>2
  <2> QED
    BY <1>2
<1>4. out_pos < Start(next) /\ Start(next) <= Len(trgt)
  BY <1>1, <1>2
<1> QED
  BY <1>1, <1>2, <1>3, <1>4, AddUpToInv

LEMMA FillTailInv == ASSUME OpMakerInv, FillTail PROVE OpMakerInv' /\ StepRebuilds
<1>1. /\ Converting /\ next > Len(ops) /\ out_pos < Len(trgt) /\ AddUpTo(Len(trgt))
      /\ phase = "convert"
  BY DEF FillTail, Converting
<1>2. next \in Nat /\ Len(ops) \in Nat /\ Len(trgt) \in Nat
  BY <1>1, SecondPassFacts
<1> QED
  BY <1>1, <1>2, AddUpToInv

(* The start of two strings of the same bytes, and what comes after it.     *)
LEMMA SameBytesSplit ==
    ASSUME NEW s \in Seq(Byte), NEW t \in Seq(Byte), NEW from \in Nat, NEW at \in Nat,
           NEW length \in Nat, NEW size \in Nat, size <= length,
           SameBytes(s, from, t, at, length)
    PROVE  /\ SameBytes(s, from, t, at, size)
           /\ SameBytes(s, from + size, t, at + size, length - size)
<1>1. SameBytes(s, from, t, at, size)
  <2>1. from + size <= Len(s) /\ at + size <= Len(t)
    <3>1. from + length <= Len(s) /\ at + length <= Len(t)
      BY DEF SameBytes
    <3>2. Len(s) \in Nat /\ Len(t) \in Nat
      OBVIOUS
    <3> QED
      BY <3>1, <3>2
  <2>2. \A j \in 1 .. size : j \in 1 .. length
    OBVIOUS
  <2> QED
    BY <2>1, <2>2 DEF SameBytes
<1>2. ASSUME NEW j \in 1 .. length - size
      PROVE  s[from + size + j] = t[at + size + j]
  <2>1. /\ j + size \in 1 .. length
        /\ from + size + j = from + (j + size) /\ at + size + j = at + (j + size)
    OBVIOUS
  <2> QED
    BY <2>1 DEF SameBytes
<1>3. /\ from + size + (length - size) <= Len(s)
      /\ at + size + (length - size) <= Len(t)
  BY DEF SameBytes
<1> QED
  BY <1>1, <1>2, <1>3 DEF SameBytes

(* What a step of the make functions must establish.                        *)
LEMMA EmitInv ==
    ASSUME OpMakerInv, phase = "convert", request.left > 0,
           UNCHANGED <<src, trgt, ops, one, two, next, phase>>,
           NEW op \in Op, NEW size \in Nat, Push(op, size), size <= request.left,
           oal(op) = size, Rebuilds(op, out_pos),
           request' \in Requests, RequestEnd' = RequestEnd, RequestTrue'
    PROVE  OpMakerInv' /\ StepRebuilds
<1>1. StepRebuilds /\ out_ops' \in Seq(Op) /\ out_pos' = out_pos + size
  BY PushRebuilds
<1>2. out_pos + request.left <= RequestEnd
  BY SecondPassFacts, RequestFields DEF RequestEnd
<1>3. out_pos' \in 0 .. Len(trgt)
  <2>1. /\ out_pos \in Nat /\ Len(trgt) \in Nat /\ request.left \in Nat
        /\ out_pos + request.left <= Len(trgt)
    BY <1>2, SecondPassFacts, RequestFields DEF RequestEnd
  <2> QED
    BY <1>1, <2>1
<1>4. OpMakerTypeOK'
  BY <1>1, <1>3, SecondPassFacts, SecondPassType
<1> QED
  BY <1>1, <1>4, SecondPassFacts, SecondPassInv

(* A remainder of a number that is already small enough is that number.     *)
LEMMA SmallRemainder == ASSUME NEW n \in Nat, NEW m \in Nat, n < m PROVE n % m = n
  OBVIOUS

(* The smaller of two numbers. *)
LEMMA SmallerOfTwo ==
    ASSUME NEW m \in Nat, NEW n \in Nat
    PROVE  /\ Smaller(m, n) \in Nat /\ Smaller(m, n) <= m /\ Smaller(m, n) <= n
           /\ m > 0 /\ n > 0 => Smaller(m, n) > 0
  BY DEF Smaller

(* What the make functions start from.                                      *)
LEMMA Requested ==
    ASSUME OpMakerInv, NEW kind, Emitting(kind)
    PROVE  /\ phase = "convert" /\ request.left > 0 /\ request.kind = kind
           /\ UNCHANGED <<src, trgt, ops, one, two, next, phase>>
           /\ src \in Seq(Byte) /\ trgt \in Seq(Byte) /\ request \in Requests /\ RequestTrue
           /\ out_pos \in Nat /\ Len(trgt) \in Nat /\ RequestEnd \in Nat
           /\ RequestEnd <= Len(trgt) /\ out_pos + request.left <= RequestEnd
           /\ request.addr \in Nat /\ request.left \in Nat /\ request.copy_bytes \in Nat
           /\ request.max_copy_size \in Nat /\ request.byte \in Byte /\ request.from \in CopySrc
           /\ request.left > 0
           /\ MAX_INST_SIZE \in Nat /\ MAX_INST_SIZE > 0 /\ MAX_RUN_LEN \in Nat /\ MAX_RUN_LEN > 0
<1>1. /\ phase = "convert" /\ request.left > 0 /\ request.kind = kind
      /\ UNCHANGED <<src, trgt, ops, one, two, next, phase>>
  BY DEF Emitting
<1>2. /\ MAX_INST_SIZE \in Nat /\ MAX_INST_SIZE > 0 /\ MAX_RUN_LEN \in Nat /\ MAX_RUN_LEN > 0
  BY LimitsAssumption
<1>3. RequestEnd \in Nat /\ out_pos + request.left <= RequestEnd
  BY <1>1, SecondPassFacts, RequestFields DEF RequestEnd
<1> QED
  BY <1>1, <1>2, <1>3, SecondPassFacts, RequestFields

(* A slice within a string has the length asked for and its bytes.          *)
LEMMA SliceOf ==
    ASSUME NEW t \in Seq(Byte), NEW at \in Nat, NEW size \in Nat, size > 0, at + size <= Len(t)
    PROVE  /\ SubSeq(t, at + 1, at + size) \in Seq(Byte)
           /\ Len(SubSeq(t, at + 1, at + size)) = size
           /\ \A j \in 1 .. size : SubSeq(t, at + 1, at + size)[j] = t[at + j]
<1>1. /\ at + 1 \in Int /\ at + size \in Int
      /\ (at + size) - (at + 1) + 1 = size /\ at + 1 <= at + size
      /\ \A j \in 1 .. size : (at + 1) + j - 1 = at + j
  OBVIOUS
<1>2. \A i \in at + 1 .. at + size : t[i] \in Byte
  OBVIOUS
<1> DEFINE u == SubSeq(t, at + 1, at + size)
<1>3. /\ u \in Seq(Byte)
      /\ Len(u) = IF at + 1 <= at + size THEN (at + size) - (at + 1) + 1 ELSE 0
      /\ \A j \in 1 .. (at + size) - (at + 1) + 1 : u[j] = t[(at + 1) + j - 1]
  BY <1>1, <1>2, SubSeqProperties
<1> HIDE DEF u
<1>4. Len(u) = size /\ \A j \in 1 .. size : u[j] = t[at + j]
  BY <1>1, <1>3
<1> QED
  BY <1>3, <1>4 DEF u

LEMMA EmitAddInv == ASSUME OpMakerInv, EmitAdd PROVE OpMakerInv' /\ StepRebuilds
<1> DEFINE size == Smaller(request.left, MAX_INST_SIZE)
           bytes == SubSeq(trgt, out_pos + 1, out_pos + size)
           op == Add(bytes)
<1>1. Emitting("Add") /\ Push(op, size) /\ request' = [request EXCEPT !.left = @ - size]
  BY DEF EmitAdd
<1>2. /\ size \in Nat /\ size > 0 /\ size <= request.left /\ size <= MAX_INST_SIZE
      /\ out_pos + size <= Len(trgt)
  BY <1>1, Requested, SmallerOfTwo
<1> HIDE DEF size
<1>3. /\ bytes \in Seq(Byte) /\ Len(bytes) = size
      /\ \A j \in 1 .. size : bytes[j] = trgt[out_pos + j]
  <2>1. trgt \in Seq(Byte) /\ out_pos \in Nat
    BY <1>1, Requested
  <2> QED
    BY <1>2, <2>1, SliceOf
<1>4. op.op = "Add" /\ op.bytes = bytes
  BY DEF Add
<1>5. op \in Op /\ oal(op) = size /\ Rebuilds(op, out_pos)
  <2>1. op \in Op
    BY <1>3 DEF Op, AddOps, Add
  <2>2. size % (MAX_INST_SIZE + 1) = size
    <3>1. MAX_INST_SIZE + 1 \in Nat /\ size < MAX_INST_SIZE + 1
      BY <1>1, <1>2, Requested
    <3> QED
      BY <1>2, <3>1, SmallRemainder
  <2>3. oal(op) = size
    BY <1>3, <1>4, <2>2 DEF oal, is_add
  <2>4. SameBytes(bytes, 0, trgt, out_pos, size)
    BY <1>2, <1>3 DEF SameBytes
  <2>5. Rebuilds(op, out_pos)
    <3> HIDE DEF op, bytes
    <3>1. size \in 1 .. MAX_INST_SIZE
      BY <1>1, <1>2, Requested
    <3> QED
      BY <1>3, <1>4, <2>4, <3>1 DEF Rebuilds, is_add, is_run, is_copy, is_copy_from
  <2> QED
    BY <2>1, <2>3, <2>5
<1> HIDE DEF op, bytes
<1>6. /\ request' \in Requests /\ request'.kind = "Add" /\ request'.left = request.left - size
  <2>1. request.left - size \in Nat
    BY <1>1, <1>2, Requested
  <2> QED
    BY <1>1, <2>1, Requested DEF Requests
<1>7. out_pos' = out_pos + size
  BY <1>1 DEF Push
<1>8. RequestEnd' = RequestEnd /\ RequestTrue'
  <2>1. RequestEnd' = RequestEnd
    BY <1>1, <1>2, <1>6, <1>7, Requested DEF RequestEnd
  <2>2. RequestTrue'
    BY <1>6 DEF RequestTrue
  <2> QED
    BY <2>1, <2>2
<1> QED
  BY <1>1, <1>2, <1>5, <1>6, <1>8, Requested, EmitInv

LEMMA EmitCopyInv == ASSUME OpMakerInv, EmitCopy PROVE OpMakerInv' /\ StepRebuilds
<1> DEFINE size == Smaller(MAX_INST_SIZE, request.left)
           op == Copy(request.from, request.addr, size)
           s == IF request.from = "Dict" THEN src ELSE trgt
<1>1. /\ Emitting("Copy") /\ Push(op, size)
      /\ request' = [request EXCEPT !.addr = @ + size, !.left = @ - size]
  BY DEF EmitCopy
<1>2. /\ size \in Nat /\ size > 0 /\ size <= request.left /\ size <= MAX_INST_SIZE
      /\ out_pos + size <= Len(trgt)
  BY <1>1, Requested, SmallerOfTwo
<1> HIDE DEF size
<1>3. /\ s \in Seq(Byte) /\ SameBytes(s, request.addr, trgt, out_pos, request.left)
      /\ request.from = "Output" => request.addr + request.left <= out_pos
  <2>1. /\ request.left > 0 /\ request.kind = "Copy" /\ RequestTrue
        /\ request.from = "Dict" \/ request.from = "Output"
        /\ src \in Seq(Byte) /\ trgt \in Seq(Byte)
    BY <1>1, Requested DEF CopySrc
  <2> QED
    BY <2>1 DEF RequestTrue
<1>4. /\ SameBytes(s, request.addr, trgt, out_pos, size)
      /\ SameBytes(s, request.addr + size, trgt, out_pos + size, request.left - size)
  <2> HIDE DEF s
  <2> QED
    BY <1>1, <1>2, <1>3, Requested, SameBytesSplit
<1>5. op \in Op /\ oal(op) = size /\ Rebuilds(op, out_pos)
  <2>1. op.op = "Copy" /\ op.src = request.from /\ op.addr = request.addr /\ op.len = size
    BY DEF Copy
  <2>2. op \in Op
    BY <1>1, <1>2, Requested DEF Op, CopyOps, Copy
  <2>3. oal(op) = size
    BY <2>1 DEF oal, is_add
  <2>4. CopiedFrom(op, src, trgt) = s
    BY <2>1 DEF CopiedFrom
  <2>5. request.from = "Output" => request.addr + size <= out_pos
    BY <1>1, <1>2, <1>3, Requested
  <2>6. Rebuilds(op, out_pos)
    <3> HIDE DEF op, s
    <3> QED
      BY <1>1, <1>2, <1>4, <2>1, <2>4, <2>5, Requested
         DEF Rebuilds, is_add, is_run, is_copy, is_copy_from
  <2> QED
    BY <2>2, <2>3, <2>6
<1> HIDE DEF op
<1>6. /\ request' \in Requests /\ request'.kind = "Copy" /\ request'.left = request.left - size
      /\ request'.addr = request.addr + size /\ request'.from = request.from
  <2>1. request.left - size \in Nat /\ request.addr + size \in Nat
    BY <1>1, <1>2, Requested
  <2> QED
    BY <1>1, <2>1, Requested DEF Requests
<1>7. out_pos' = out_pos + size
  BY <1>1 DEF Push
<1>8. RequestEnd' = RequestEnd
  BY <1>1, <1>2, <1>6, <1>7, Requested DEF RequestEnd
<1>9. RequestTrue'
  <2>1. request.addr + size + (request.left - size) <= out_pos + size \/ request.from # "Output"
    BY <1>1, <1>2, <1>3, Requested
  <2> QED
    BY <1>1, <1>4, <1>6, <1>7, <2>1, Requested DEF RequestTrue
<1> QED
  BY <1>1, <1>2, <1>5, <1>6, <1>8, <1>9, Requested, EmitInv

(* While a run is made, and while it is copied, the target between where    *)
(* it started and where the request ends is its byte.                       *)
LEMMA RunBytes ==
    ASSUME OpMakerInv, NEW kind \in {"Run", "RunCopy"}, Emitting(kind)
    PROVE  /\ request.addr <= out_pos
           /\ \A p \in 1 .. Len(trgt) :
                 request.addr < p /\ p <= RequestEnd => trgt[p] = request.byte
           /\ request.kind = "Run" /\ request.copy_bytes > 0 =>
                 out_pos + request.left = request.addr + COPY_LIMIT
           /\ request.kind = "RunCopy" =>
                 request.max_copy_size > 0 /\ request.addr + request.max_copy_size = out_pos
<1>1. RequestTrue /\ request.left > 0 /\ request.kind \in {"Run", "RunCopy"}
  BY Requested
<1> QED
  BY <1>1 DEF RequestTrue

LEMMA EmitRunInv == ASSUME OpMakerInv, EmitRun PROVE OpMakerInv' /\ StepRebuilds
<1> DEFINE size == Smaller(MAX_RUN_LEN, request.left)
           op == Run(request.byte, size)
           more == [request EXCEPT !.left = @ - size]
           last == [request EXCEPT !.kind = "RunCopy", !.left = request.copy_bytes,
                       !.max_copy_size = COPY_LIMIT]
<1>1. /\ Emitting("Run") /\ Push(op, size)
      /\ request' = IF request.left > size THEN more ELSE last
  BY DEF EmitRun
<1>2. /\ size \in Nat /\ size > 0 /\ size <= request.left /\ size <= MAX_RUN_LEN
      /\ out_pos + size <= RequestEnd /\ RequestEnd <= Len(trgt)
      /\ RequestEnd = out_pos + request.left + request.copy_bytes
  BY <1>1, Requested, SmallerOfTwo DEF RequestEnd
<1> HIDE DEF size
<1>3. op \in Op /\ oal(op) = size /\ Rebuilds(op, out_pos)
  <2>1. op.op = "Run" /\ op.byte = request.byte /\ op.len = size
    BY DEF Run
  <2>2. op \in Op
    BY <1>1, <1>2, Requested DEF Op, RunOps, Run
  <2>3. oal(op) = size
    BY <2>1 DEF oal, is_add
  <2>4. \A j \in 1 .. size : trgt[out_pos + j] = request.byte
    <3> SUFFICES ASSUME NEW j \in 1 .. size PROVE trgt[out_pos + j] = request.byte
      OBVIOUS
    <3>1. /\ out_pos + j \in 1 .. Len(trgt) /\ request.addr < out_pos + j
          /\ out_pos + j <= RequestEnd
      BY <1>1, <1>2, Requested, RunBytes
    <3> QED
      BY <1>1, <3>1, RunBytes
  <2>5. size \in 1 .. MAX_RUN_LEN /\ out_pos + size <= Len(trgt)
    BY <1>1, <1>2, Requested
  <2>6. Rebuilds(op, out_pos)
    <3> HIDE DEF op
    <3> QED
      BY <2>1, <2>4, <2>5 DEF Rebuilds, is_add, is_run, is_copy, is_copy_from
  <2> QED
    BY <2>2, <2>3, <2>6
<1> HIDE DEF op
<1>4. out_pos' = out_pos + size
  BY <1>1 DEF Push
<1>5. ASSUME request' \in Requests, RequestEnd' = RequestEnd, RequestTrue'
      PROVE  OpMakerInv' /\ StepRebuilds
  BY <1>1, <1>2, <1>3, <1>5, Requested, EmitInv
<1>6. CASE request.left > size
  <2>1. request' = more
    BY <1>1, <1>6
  <2>2. request.left - size \in Nat /\ request.left - size > 0
    BY <1>1, <1>2, <1>6, Requested
  <2>3. /\ request' \in Requests /\ request'.kind = "Run" /\ request'.left = request.left - size
        /\ request'.addr = request.addr /\ request'.byte = request.byte
        /\ request'.copy_bytes = request.copy_bytes
    BY <1>1, <2>1, <2>2, Requested DEF Requests
  <2>4. RequestEnd' = RequestEnd
    BY <1>1, <1>2, <1>4, <2>3, Requested DEF RequestEnd
  <2>5. request'.addr <= out_pos'
    BY <1>1, <1>2, <1>4, <2>3, Requested, RunBytes
  <2>6. request'.copy_bytes > 0 => out_pos' + request'.left = request'.addr + COPY_LIMIT
    BY <1>1, <1>2, <1>4, <2>3, Requested, RunBytes
  <2>7. \A p \in 1 .. Len(trgt') :
           request'.addr < p /\ p <= RequestEnd' => trgt'[p] = request'.byte
    BY <1>1, <2>3, <2>4, Requested, RunBytes
  <2>8. RequestTrue'
    BY <2>2, <2>3, <2>5, <2>6, <2>7 DEF RequestTrue
  <2> QED
    BY <1>5, <2>3, <2>4, <2>8
<1>7. CASE request.left <= size
  <2>1. request' = last /\ request.left = size
    BY <1>1, <1>2, <1>7, Requested
  <2>2. /\ request' \in Requests /\ request'.kind = "RunCopy"
        /\ request'.left = request.copy_bytes /\ request'.max_copy_size = COPY_LIMIT
        /\ request'.addr = request.addr /\ request'.byte = request.byte
    BY <1>1, <2>1, Requested, Limits DEF Requests
  <2>3. RequestEnd' = RequestEnd
    BY <1>1, <1>2, <1>4, <2>1, <2>2, Requested DEF RequestEnd
  <2>4. request'.addr <= out_pos'
    BY <1>1, <1>2, <1>4, <2>2, Requested, RunBytes
  <2>5. request'.left > 0 => request'.addr + request'.max_copy_size = out_pos'
    BY <1>1, <1>4, <2>1, <2>2, Requested, RunBytes
  <2>6. \A p \in 1 .. Len(trgt') :
           request'.addr < p /\ p <= RequestEnd' => trgt'[p] = request'.byte
    BY <1>1, <2>2, <2>3, Requested, RunBytes
  <2>7. request'.max_copy_size > 0
    BY <2>2, Limits
  <2>8. RequestTrue'
    BY <2>2, <2>4, <2>5, <2>6, <2>7 DEF RequestTrue
  <2> QED
    BY <1>5, <2>2, <2>3, <2>8
<1> QED
  BY <1>1, <1>2, <1>6, <1>7, Requested

LEMMA EmitRunCopyInv == ASSUME OpMakerInv, EmitRunCopy PROVE OpMakerInv' /\ StepRebuilds
<1> DEFINE size == Smaller(Smaller(request.max_copy_size, request.left), MAX_INST_SIZE)
           op == Copy("Output", request.addr, size)
<1>1. /\ Emitting("RunCopy") /\ Push(op, size)
      /\ request' = [request EXCEPT !.left = @ - size, !.max_copy_size = @ + size]
  BY DEF EmitRunCopy
<1>2. /\ request.addr <= out_pos /\ request.max_copy_size > 0
      /\ request.addr + request.max_copy_size = out_pos
      /\ request.max_copy_size \in Nat /\ request.left \in Nat /\ request.left > 0
      /\ MAX_INST_SIZE \in Nat /\ MAX_INST_SIZE > 0
  BY <1>1, Requested, RunBytes
<1>3. /\ size \in Nat /\ size > 0 /\ size <= request.left /\ size <= MAX_INST_SIZE
      /\ size <= request.max_copy_size
  <2> DEFINE least == Smaller(request.max_copy_size, request.left)
  <2>1. least \in Nat /\ least > 0 /\ least <= request.max_copy_size /\ least <= request.left
    BY <1>2, SmallerOfTwo
  <2> HIDE DEF least
  <2>2. /\ Smaller(least, MAX_INST_SIZE) \in Nat /\ Smaller(least, MAX_INST_SIZE) > 0
        /\ Smaller(least, MAX_INST_SIZE) <= least
        /\ Smaller(least, MAX_INST_SIZE) <= MAX_INST_SIZE
    BY <1>2, <2>1, SmallerOfTwo
  <2>3. size = Smaller(least, MAX_INST_SIZE)
    BY DEF least
  <2> QED
    BY <1>2, <2>1, <2>2, <2>3
<1> HIDE DEF size
<1>4. /\ RequestEnd = out_pos + request.left /\ RequestEnd <= Len(trgt)
      /\ out_pos \in Nat /\ Len(trgt) \in Nat /\ request.addr \in Nat
      /\ trgt \in Seq(Byte)
  BY <1>1, Requested DEF RequestEnd
<1>5. op \in Op /\ oal(op) = size /\ Rebuilds(op, out_pos)
  <2>1. op.op = "Copy" /\ op.src = "Output" /\ op.addr = request.addr /\ op.len = size
    BY DEF Copy
  <2>2. op \in Op
    BY <1>2, <1>3, <1>4 DEF Op, CopyOps, Copy, CopySrc
  <2>3. oal(op) = size
    BY <2>1 DEF oal, is_add
  <2>4. SameBytes(trgt, request.addr, trgt, out_pos, size)
    <3>1. request.addr + size <= Len(trgt) /\ out_pos + size <= Len(trgt)
      BY <1>2, <1>3, <1>4
    <3>2. ASSUME NEW j \in 1 .. size
          PROVE  trgt[request.addr + j] = request.byte /\ trgt[out_pos + j] = request.byte
      <4>1. /\ request.addr + j \in Nat /\ request.addr < request.addr + j
            /\ request.addr + j <= RequestEnd
        BY <1>2, <1>3, <1>4
      <4>2. out_pos + j \in Nat /\ request.addr < out_pos + j /\ out_pos + j <= RequestEnd
        BY <1>2, <1>3, <1>4
      <4>3. request.addr + j \in 1 .. Len(trgt) /\ out_pos + j \in 1 .. Len(trgt)
        BY <1>4, <4>1, <4>2
      <4> QED
        BY <1>1, <4>1, <4>2, <4>3, RunBytes
    <3> QED
      BY <3>1, <3>2 DEF SameBytes
  <2>5. size \in 1 .. MAX_INST_SIZE /\ request.addr + size <= out_pos
    BY <1>2, <1>3, <1>4
  <2>6. CopiedFrom(op, src, trgt) = trgt
    BY <2>1 DEF CopiedFrom
  <2>7. Rebuilds(op, out_pos)
    <3> HIDE DEF op
    <3> QED
      BY <2>1, <2>4, <2>5, <2>6 DEF Rebuilds, is_add, is_run, is_copy, is_copy_from
  <2> QED
    BY <2>2, <2>3, <2>7
<1> HIDE DEF op
<1>6. out_pos' = out_pos + size
  BY <1>1 DEF Push
<1>7. /\ request' \in Requests /\ request'.kind = "RunCopy" /\ request'.left = request.left - size
      /\ request'.addr = request.addr /\ request'.byte = request.byte
      /\ request'.max_copy_size = request.max_copy_size + size
  <2>1. request.left - size \in Nat /\ request.max_copy_size + size \in Nat
    BY <1>2, <1>3
  <2> QED
    BY <1>1, <2>1, Requested DEF Requests
<1>8. RequestEnd' = RequestEnd
  BY <1>2, <1>3, <1>4, <1>6, <1>7 DEF RequestEnd
<1>9. RequestTrue'
  <2>1. /\ request'.addr <= out_pos' /\ request'.max_copy_size > 0
        /\ request'.addr + request'.max_copy_size = out_pos'
    BY <1>2, <1>3, <1>4, <1>6, <1>7
  <2>2. \A p \in 1 .. Len(trgt') :
           request'.addr < p /\ p <= RequestEnd' => trgt'[p] = request'.byte
    BY <1>1, <1>7, <1>8, Requested, RunBytes
  <2> QED
    BY <1>7, <2>1, <2>2 DEF RequestTrue
<1> QED
  BY <1>1, <1>3, <1>5, <1>7, <1>8, <1>9, Requested, EmitInv

-----------------------------------------------------------------------------
(* A step of the first pass, or one that only skips a match, makes none.    *)
LEMMA QuietStep == ASSUME out_ops' = out_ops, phase' # "done" PROVE StepRebuilds
  BY DEF StepRebuilds

(* The output ends with the target when the second pass does.               *)
LEMMA FinishRebuilds == ASSUME OpMakerInv, Finish PROVE StepRebuilds
<1>1. /\ phase = "convert" /\ out_pos >= Len(trgt)
      /\ UNCHANGED <<src, trgt, ops, one, two, next, request, out_ops, out_pos>>
  BY DEF Finish, Converting
<1>2. out_pos \in Nat /\ Len(trgt) \in Nat /\ out_pos <= Len(trgt)
  BY <1>1, SecondPassFacts
<1> QED
  BY <1>1, <1>2 DEF StepRebuilds

(* Every step keeps the invariant, and what it makes rebuilds the target.   *)
LEMMA InvNext == ASSUME OpMakerInv, OpMakerNext PROVE OpMakerInv' /\ StepRebuilds
<1>1. CASE Disjoint
  BY <1>1, DisjointInv, QuietStep DEF Disjoint, NextPair, Comparing
<1>2. CASE DropRedundant
  BY <1>2, DropRedundantInv, QuietStep DEF DropRedundant, NextPair, Comparing
<1>3. CASE KeepLonger
  BY <1>3, KeepLongerInv, QuietStep DEF KeepLonger, NextPair, Comparing
<1>4. CASE MeetMidway
  BY <1>4, MeetMidwayInv, QuietStep DEF MeetMidway, NextPair, Comparing
<1>5. CASE EndOverlaps
  BY <1>5, EndOverlapsInv, QuietStep DEF EndOverlaps
<1>6. CASE SkipRemoved
  BY <1>6, SkipRemovedInv, QuietStep DEF SkipRemoved, Converting
<1>7. CASE StartOp
  BY <1>7, StartOpInv, QuietStep DEF StartOp, Converting
<1>8. CASE Finish
  BY <1>8, FinishInv, FinishRebuilds
<1> QED
  BY <1>1, <1>2, <1>3, <1>4, <1>5, <1>6, <1>7, <1>8, FillGapInv, FillTailInv,
     EmitAddInv, EmitCopyInv, EmitRunInv, EmitRunCopyInv
  DEF OpMakerNext

LEMMA InvStutter == ASSUME OpMakerInv, UNCHANGED opMakerVars PROVE OpMakerInv'
  BY DEF opMakerVars, OpMakerInv, OpMakerTypeOK, MatchesTrue, PassOne, PassTwo,
         RequestEnd, RequestTrue, Start, End

(* From any files and any matches the encoder can pass, the invariant holds *)
(* throughout translate_inner_ops.                                          *)
THEOREM InvCorrect == OpMakerSpec => []OpMakerInv
<1>1. OpMakerInv /\ [OpMakerNext]_opMakerVars => OpMakerInv'
  BY InvNext, InvStutter
<1> QED
  BY <1>1, InvInit, PTL DEF OpMakerSpec

(* Every variable of translate_inner_ops keeps its type: no length or start *)
(* becomes negative, and the output never passes the target.                *)
THEOREM TypeCorrect == OpMakerSpec => []OpMakerTypeOK
<1>1. OpMakerInv => OpMakerTypeOK
  BY DEF OpMakerInv
<1> QED
  BY <1>1, InvCorrect, PTL

(* No assertion of translate_inner_ops fails, whatever overlaps the matches *)
(* had: those compared are sorted, and those converted are apart.           *)
THEOREM AssertionsCorrect == OpMakerSpec => []AssertionsHold
<1>1. ASSUME OpMakerInv PROVE AssertionsHold
  <2>1. Comparing => Start(one) <= Start(two) /\ End(two) >= End(one)
    <3> SUFFICES ASSUME Comparing PROVE Start(one) <= Start(two) /\ End(two) >= End(one)
      OBVIOUS
    <3> QED
      BY <1>1, Neighbours, MatchFields DEF Start, End
  <2>2. Converting /\ next <= Len(ops) /\ ops[next].length > 0 =>
          /\ Start(next) >= out_pos
          /\ Start(next) = out_pos => ReadsOutput(ops[next])
    <3> SUFFICES ASSUME Converting, next <= Len(ops), ops[next].length > 0
                 PROVE  /\ Start(next) >= out_pos
                        /\ Start(next) = out_pos => ReadsOutput(ops[next])
      OBVIOUS
    <3>1. out_pos \in Nat
      BY <1>1, SecondPassFacts DEF Converting
    <3> QED
      BY <1>1, <3>1, NextMatch
  <2> QED
    BY <2>1, <2>2 DEF AssertionsHold
<1> QED
  BY <1>1, InvCorrect, PTL

(* Every operation translate_inner_ops makes rebuilds the target where the  *)
(* one before ended, and a finished list rebuilds all of it.                *)
THEOREM RebuildCorrect == OpMakerSpec => OpsRebuildTarget
<1>1. OpMakerInv /\ [OpMakerNext]_opMakerVars => [StepRebuilds]_opMakerVars
  BY InvNext
<1> QED
  BY <1>1, InvCorrect, PTL DEF OpMakerSpec, OpsRebuildTarget
=============================================================================
