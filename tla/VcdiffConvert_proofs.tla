------------------------ MODULE VcdiffConvert_proofs ------------------------
(***************************************************************************)
(* The conversion of any valid VCDIFF file makes its target file, and only *)
(* a copy that repeats too many bytes makes it fail.                       *)
(***************************************************************************)
EXTENDS VcdiffConvert, Lemmas, SequenceTheorems, TLAPS

(* Where the next instruction begins. *)
InstPlace ==
    IF win > Len(file.windows) THEN Len(file.out)
    ELSE IF next = 0 THEN file.windows[win].from
    ELSE IF next <= Len(file.windows[win].insts) THEN file.windows[win].insts[next].at
    ELSE EndOfWindow(file.windows[win])

(* The place in the file and what is remembered of its window. *)
InPlace ==
    /\ cur_o_pos = InstPlace
    /\ win <= Len(file.windows) /\ next > 0 =>
          ssp = file.windows[win].ssp /\ vcd_trgt = file.windows[win].target
    /\ next = 0 => ~ vcd_trgt
    /\ win > Len(file.windows) => next = 0

(* Of an instruction under way some bytes are left; and if it repeats, the  *)
(* bytes next to be made are those that repeat, from their first on.        *)
PartConverted ==
    processed > 0 =>
        /\ win <= Len(file.windows) /\ next \in 1 .. Len(file.windows[win].insts)
        /\ processed < InstSize(TheInst)
        /\ TheInst.op = "Copy" /\ TheInst.type = "Q" =>
              \A j \in 1 .. Period(TheInst) :
                  processed + j <= TheInst.len =>
                      file.out[TheInst.at - Period(TheInst) + j]
                          = file.out[TheInst.at + processed + j]

LongPeriod ==
    \E w \in 1 .. Len(file.windows) : \E n \in 1 .. Len(file.windows[w].insts) :
        LET inst == file.windows[w].insts[n]
        IN inst.op = "Copy" /\ inst.type = "Q" /\ Period(inst) > MAX_INST_SIZE

(* The open section adds up unless a length wrapped, and then stays short. *)
AddsUp ==
    /\ total_content_len <= cur_win_size
    /\ ~ LongPeriod => total_content_len = cur_win_size /\ cur_win_size <= MAX_WIN_SIZE

(* The open section follows the written ones. *)
Follows ==
    Running /\ total_content_len = cur_win_size =>
        WrittenUpTo(Len(sections)) = cur_o_pos + processed - cur_win_size

ConvertInv ==
    /\ file \in Files
    /\ ConvertTypeOK /\ InPlace /\ PartConverted /\ AddsUp /\ Follows
    /\ ConvertedMeaning /\ FailsOnlyOnLongPeriods

-----------------------------------------------------------------------------
LEMMA Limits ==
    /\ MAX_RUN_LEN \in Nat /\ MAX_RUN_LEN > 0
    /\ MAX_INST_SIZE \in Nat /\ MAX_RUN_LEN < MAX_INST_SIZE
    /\ MAX_WIN_SIZE \in Nat /\ MAX_INST_SIZE <= MAX_WIN_SIZE
BY LimitsAssumption, ConvertAssumption DEF LimitsAssumption, ConvertAssumption

LEMMA FileFacts ==
    ASSUME file \in Files
    PROVE  /\ file.src \in Seq(Byte) /\ file.out \in Seq(Byte) /\ Len(file.out) \in Nat
           /\ file.windows \in Seq(Window) /\ Len(file.windows) \in Nat
           /\ \A w \in 1 .. Len(file.windows) :
                 /\ file.windows[w] \in Window
                 /\ file.windows[w].from = IF w = 1 THEN 0 ELSE EndOfWindow(file.windows[w - 1])
                 /\ IsWindow(file, file.windows[w])
           /\ Len(file.out) = IF file.windows = <<>> THEN 0
                              ELSE EndOfWindow(file.windows[Len(file.windows)])
<1>1. file.src \in Seq(Byte) /\ file.out \in Seq(Byte) /\ file.windows \in Seq(Window)
  BY ConvertAssumption DEF ConvertAssumption
<1>2. \A w \in 1 .. Len(file.windows) :
          /\ file.windows[w].from = IF w = 1 THEN 0 ELSE EndOfWindow(file.windows[w - 1])
          /\ IsWindow(file, file.windows[w])
  BY ConvertAssumption DEF ConvertAssumption
<1>3. Len(file.out) = IF file.windows = <<>> THEN 0
                      ELSE EndOfWindow(file.windows[Len(file.windows)])
  BY ConvertAssumption DEF ConvertAssumption
<1>4. \A w \in 1 .. Len(file.windows) : file.windows[w] \in Window
  BY <1>1
<1>5. Len(file.out) \in Nat /\ Len(file.windows) \in Nat
  BY <1>1
<1> QED
  BY <1>1, <1>2, <1>3, <1>4, <1>5

LEMMA WindowFacts ==
    ASSUME file \in Files, NEW k \in 1 .. Len(file.windows), NEW w, w = file.windows[k]
    PROVE  /\ w.ssp \in Seq(Nat) /\ w.size \in Nat /\ w.target \in BOOLEAN /\ w.from \in Nat
           /\ w.insts \in Seq(Inst) /\ Len(w.insts) \in Nat
           /\ \A n \in 1 .. Len(w.insts) : w.insts[n] \in Inst
<1>1. w \in Window
  BY FileFacts
<1>2. w.ssp \in Seq(Nat) /\ w.size \in Nat /\ w.target \in BOOLEAN /\ w.from \in Nat
        /\ w.insts \in Seq(Inst)
  BY <1>1 DEF Window
<1> QED
  BY <1>2

LEMMA InstKinds ==
    ASSUME NEW inst \in Inst
    PROVE  /\ inst.at \in Nat /\ InstSize(inst) \in Nat
           /\ inst.op \in {"Add", "Run", "Copy"}
           /\ inst.op = "Add" => inst.bytes \in Seq(Byte) /\ InstSize(inst) = Len(inst.bytes)
           /\ inst.op = "Run" => inst.byte \in Byte /\ InstSize(inst) = inst.len
           /\ inst.op = "Copy" =>
                 /\ inst.type \in {"S", "T", "Q"} /\ InstSize(inst) = inst.len
                 /\ inst.len \in Nat /\ inst.u_pos \in Nat /\ inst.u_start \in Nat
<1>1. CASE inst.op = "Add"
  BY <1>1 DEF Inst, InstSize
<1>2. CASE inst.op = "Run"
  BY <1>2 DEF Inst, InstSize
<1>3. CASE inst.op = "Copy"
  BY <1>3 DEF Inst, InstSize
<1> QED
  BY <1>1, <1>2, <1>3 DEF Inst

(* The instruction that is at hand. *)
LEMMA AtHand ==
    ASSUME ConvertInv, HasInst, NEW w, w = file.windows[win], NEW inst, inst = TheInst
    PROVE  /\ file \in Files /\ win \in 1 .. Len(file.windows) /\ next \in 1 .. Len(w.insts)
           /\ inst = w.insts[next] /\ inst \in Inst /\ IsInst(file, w, inst)
           /\ IsWindow(file, w) /\ cur_o_pos = inst.at
           /\ ssp = w.ssp /\ vcd_trgt = w.target /\ Running
           /\ processed \in Nat /\ processed < InstSize(inst)
<1>1. file \in Files /\ win \in 1 .. Len(file.windows) /\ next \in 1 .. Len(w.insts) /\ Running
        /\ inst = w.insts[next] /\ processed \in Nat
  BY DEF ConvertInv, ConvertTypeOK, HasInst, InWindow, TheInst
<1>2. IsWindow(file, w)
  BY <1>1, FileFacts
<1>3. inst \in Inst /\ Len(w.insts) \in Nat /\ Len(file.windows) \in Nat
  BY <1>1, WindowFacts, FileFacts
<1>4. IsInst(file, w, inst)
  BY <1>1, <1>2 DEF IsWindow
<1>5. ~ (win > Len(file.windows)) /\ next # 0 /\ next > 0 /\ next <= Len(w.insts)
  BY <1>1, <1>3
<1>6. cur_o_pos = inst.at /\ ssp = w.ssp /\ vcd_trgt = w.target
  BY <1>1, <1>5 DEF ConvertInv, InPlace, InstPlace
<1>7. InstSize(inst) > 0 /\ InstSize(inst) \in Nat
  BY <1>3, <1>4, InstKinds DEF IsInst
<1>8. processed < InstSize(inst)
  BY <1>1, <1>7 DEF ConvertInv, PartConverted
<1> QED
  BY <1>1, <1>2, <1>3, <1>4, <1>6, <1>8

LEMMA PieceFacts ==
    ASSUME ConvertInv, HasInst
    PROVE  /\ PieceLimit(TheInst) \in Nat /\ PieceLimit(TheInst) > 0
           /\ Piece \in Nat /\ Piece > 0 /\ Piece <= PieceLimit(TheInst)
           /\ processed + Piece <= InstSize(TheInst)
           /\ Piece < PieceLimit(TheInst) => processed + Piece = InstSize(TheInst)
<1> DEFINE w == file.windows[win]
           inst == TheInst
           size == InstSize(TheInst)
           limit == PieceLimit(TheInst)
<1>1. inst \in Inst /\ IsInst(file, w, inst) /\ processed \in Nat /\ processed < size
  BY AtHand
<1>2. size \in Nat
  BY <1>1, InstKinds
<1>3. limit \in Nat /\ limit > 0
  <2>1. CASE inst.op = "Copy" /\ inst.type = "Q"
    <3>1. inst.u_pos < inst.u_start /\ inst.u_pos \in Nat /\ inst.u_start \in Nat
      BY <1>1, <2>1, InstKinds DEF IsInst, CopyTypeOK
    <3>2. limit = inst.u_start - inst.u_pos
      BY <2>1 DEF PieceLimit, Period
    <3> QED
      BY <3>1, <3>2
  <2>2. CASE ~ (inst.op = "Copy" /\ inst.type = "Q")
    BY <2>2, Limits DEF PieceLimit
  <2> QED
    BY <2>1, <2>2
<1>4. Piece = Smaller(size - processed, limit)
  BY DEF Piece
<1> HIDE DEF size, limit
<1> QED
  BY <1>1, <1>2, <1>3, <1>4 DEF Smaller, size, limit

(* A piece longer than a u16 holds is of a period as long. *)
LEMMA LongPieces ==
    ASSUME ConvertInv, HasInst, Piece > MAX_INST_SIZE
    PROVE  LongPeriod
<1> DEFINE w == file.windows[win]
           inst == TheInst
<1>1. win \in 1 .. Len(file.windows) /\ next \in 1 .. Len(w.insts) /\ inst = w.insts[next]
  BY AtHand
<1>2. Piece <= PieceLimit(inst) /\ Piece \in Nat /\ PieceLimit(inst) \in Nat
  BY PieceFacts
<1>3. PieceLimit(inst) > MAX_INST_SIZE
  BY <1>2, Limits
<1>4. inst.op = "Copy" /\ inst.type = "Q" /\ PieceLimit(inst) = Period(inst)
  BY <1>3, Limits DEF PieceLimit
<1> QED
  BY <1>1, <1>3, <1>4 DEF LongPeriod

(* Where the instruction after the one at hand begins. *)
LEMMA NextPlace ==
    ASSUME ConvertInv, HasInst, NEW w, w = file.windows[win]
    PROVE  TheInst.at + InstSize(TheInst)
              = IF next + 1 <= Len(w.insts) THEN w.insts[next + 1].at ELSE EndOfWindow(w)
<1>1. win \in 1 .. Len(file.windows) /\ next \in 1 .. Len(w.insts) /\ IsWindow(file, w)
        /\ TheInst = w.insts[next] /\ file \in Files
  BY AtHand
<1>2. Len(w.insts) \in Nat
  BY <1>1, WindowFacts
<1>3. CASE next + 1 <= Len(w.insts)
  <2>1. next + 1 \in 1 .. Len(w.insts) /\ next + 1 # 1 /\ next + 1 - 1 = next
    BY <1>1, <1>2, <1>3
  <2> QED
    BY <1>1, <1>3, <2>1 DEF IsWindow
<1>4. CASE ~ (next + 1 <= Len(w.insts))
  <2>1. next = Len(w.insts) /\ w.insts # <<>>
    BY <1>1, <1>2, <1>4
  <2> QED
    BY <1>1, <1>4, <2>1 DEF EndOfWindow
<1> QED
  BY <1>3, <1>4

(* A copy of type Q makes again the bytes one period before. *)
LEMMA Repeats ==
    ASSUME ConvertInv, HasInst, NEW inst, inst = TheInst, inst.op = "Copy", inst.type = "Q",
           NEW P, P = Period(inst)
    PROVE  /\ P \in Nat /\ P > 0 /\ P <= inst.at /\ inst.len \in Nat /\ inst.at \in Nat
           /\ \A j \in 1 .. inst.len : file.out[inst.at - P + j] = file.out[inst.at + j]
           /\ \A j \in 1 .. P :
                 processed + j <= inst.len =>
                     file.out[inst.at - P + j] = file.out[inst.at + processed + j]
<1> DEFINE w == file.windows[win]
<1>1. inst \in Inst /\ IsInst(file, w, inst) /\ processed \in Nat /\ file \in Files
        /\ win \in 1 .. Len(file.windows)
  BY AtHand
<1>2. inst.at \in Nat /\ inst.len \in Nat /\ inst.u_pos \in Nat /\ inst.u_start \in Nat
        /\ InstSize(inst) = inst.len /\ w.size \in Nat /\ w.from \in Nat
  BY <1>1, InstKinds, WindowFacts
<1>3. inst.at >= w.from /\ inst.u_start = w.size + inst.at - w.from
        /\ w.size <= inst.u_pos /\ inst.u_pos < inst.u_start
  BY <1>1 DEF IsInst, CopyTypeOK
<1>4. P = inst.u_start - inst.u_pos
  BY DEF Period
<1>5. \A j \in 1 .. inst.len : InU(file, w, inst.u_pos + j) = file.out[inst.at + j]
  BY <1>1, <1>2 DEF IsInst
<1> HIDE DEF w
<1>6. P \in Nat /\ P > 0 /\ P <= inst.at
  BY <1>2, <1>3, <1>4
<1>7. ASSUME NEW j \in 1 .. inst.len
      PROVE  file.out[inst.at - P + j] = file.out[inst.at + j]
  <2>1. ~ (inst.u_pos + j <= w.size)
    BY <1>2, <1>3
  <2>2. InU(file, w, inst.u_pos + j) = file.out[w.from + (inst.u_pos + j) - w.size]
    BY <2>1 DEF InU
  <2>3. w.from + (inst.u_pos + j) - w.size = inst.at - P + j
    BY <1>2, <1>3, <1>4
  <2> QED
    BY <1>5, <2>2, <2>3
<1>8. ASSUME NEW j \in 1 .. P, processed + j <= inst.len
      PROVE  file.out[inst.at - P + j] = file.out[inst.at + processed + j]
  <2>1. CASE processed = 0
    <3>1. j \in 1 .. inst.len /\ inst.at + 0 + j = inst.at + j
      BY <1>2, <1>6, <1>8, <2>1
    <3> QED
      BY <2>1, <3>1, <1>7
  <2>2. CASE processed > 0
    BY <2>2, <1>8 DEF ConvertInv, PartConverted
  <2> QED
    BY <2>1, <2>2, <1>1
<1> QED
  BY <1>2, <1>6, <1>7, <1>8

-----------------------------------------------------------------------------
(* The operation that a piece becomes: of the piece's length unless that    *)
(* wrapped, and then making its bytes.                                      *)
FitsPiece(s) ==
    /\ s \in SparseOp /\ s.at = cur_o_pos + processed
    /\ oal(s.op) \in Nat /\ oal(s.op) <= Piece
    /\ IF Piece > MAX_INST_SIZE THEN oal(s.op) # Piece
       ELSE oal(s.op) = Piece /\ SizeOf(s) = Piece /\ Yields(s, file.src, file.out)

LEMMA PushInPlace ==
    ASSUME ConvertInv, HasInst, NEW op, PushPiece(op)
    PROVE  /\ InPlace' /\ PartConverted'
           /\ cur_o_pos' + processed' = cur_o_pos + processed + Piece
           /\ next' \in 1 .. Len(file.windows[win].insts) + 1
           /\ processed' \in Nat /\ cur_o_pos' \in Nat
<1> DEFINE w == file.windows[win]
           inst == TheInst
           size == InstSize(TheInst)
           last == processed + Piece = size
<1>1. UNCHANGED <<file, win, ssp, vcd_trgt, result>>
        /\ processed' = (IF last THEN 0 ELSE processed + Piece)
        /\ cur_o_pos' = (IF last THEN cur_o_pos + size ELSE cur_o_pos)
        /\ next' = (IF last THEN next + 1 ELSE next)
  BY DEF PushPiece
<1>2. /\ file \in Files /\ win \in 1 .. Len(file.windows) /\ next \in 1 .. Len(w.insts)
      /\ inst = w.insts[next] /\ inst \in Inst /\ cur_o_pos = inst.at
      /\ ssp = w.ssp /\ vcd_trgt = w.target /\ processed \in Nat /\ processed < size
  BY AtHand
<1>3. /\ size \in Nat /\ inst.at \in Nat /\ Len(w.insts) \in Nat /\ Len(file.windows) \in Nat
      /\ Piece \in Nat /\ Piece > 0 /\ processed + Piece <= size
  BY <1>2, InstKinds, WindowFacts, FileFacts, PieceFacts
<1>4. inst.at + size = IF next + 1 <= Len(w.insts) THEN w.insts[next + 1].at ELSE EndOfWindow(w)
  BY NextPlace
<1>5. processed' \in Nat /\ cur_o_pos' \in Nat /\ next' \in 1 .. Len(w.insts) + 1
        /\ cur_o_pos' + processed' = cur_o_pos + processed + Piece
  <2> DEFINE n == Len(w.insts)
  <2>1. next \in 1 .. n /\ n \in Nat /\ cur_o_pos \in Nat /\ processed \in Nat
    BY <1>2, <1>3
  <2>2. size \in Nat /\ Piece \in Nat
    BY <1>3
  <2> HIDE DEF w, inst, size, n
  <2>3. CASE last
    <3>1. processed' = 0 /\ cur_o_pos' = cur_o_pos + size /\ next' = next + 1
      BY <1>1, <2>3
    <3> QED
      BY <2>1, <2>2, <2>3, <3>1 DEF n
  <2>4. CASE ~ last
    <3>1. processed' = processed + Piece /\ cur_o_pos' = cur_o_pos /\ next' = next
      BY <1>1, <2>4
    <3> QED
      BY <2>1, <2>2, <3>1 DEF n
  <2> QED
    BY <2>3, <2>4
<1>6. InPlace'
  <2>1. ~ (win > Len(file.windows)) /\ next' # 0 /\ next' > 0
    <3> DEFINE n == Len(w.insts)
               m == Len(file.windows)
    <3>1. win \in 1 .. m /\ m \in Nat /\ n \in Nat /\ next' \in 1 .. n + 1
      BY <1>2, <1>3, <1>5
    <3> HIDE DEF n, m
    <3>2. ~ (win > m) /\ next' # 0 /\ next' > 0
      BY <3>1
    <3> QED
      BY <3>2 DEF m
  <2>2. cur_o_pos' = InstPlace'
    <3>1. CASE last
      <4>1. next' = next + 1 /\ cur_o_pos' = inst.at + size
        BY <1>1, <1>2, <3>1
      <4> QED
        BY <4>1, <2>1, <1>1, <1>4 DEF InstPlace
    <3>2. CASE ~ last
      <4>1. next' = next /\ cur_o_pos' = inst.at /\ next <= Len(w.insts)
        BY <1>1, <1>2, <1>3, <3>2
      <4> QED
        BY <4>1, <2>1, <1>1, <1>2 DEF InstPlace
    <3> QED
      BY <3>1, <3>2
  <2> QED
    BY <2>1, <2>2, <1>1, <1>2 DEF InPlace
<1>7. PartConverted'
  <2> SUFFICES ASSUME ~ last PROVE PartConverted'
    BY <1>1 DEF PartConverted
  <2>1. processed' = processed + Piece /\ next' = next /\ TheInst' = inst
    BY <1>1 DEF TheInst
  <2>2. processed + Piece < size /\ win <= Len(file.windows)
    BY <1>2, <1>3
  <2>3. ASSUME inst.op = "Copy", inst.type = "Q", NEW j \in 1 .. Period(inst),
               processed + Piece + j <= inst.len
        PROVE  file.out[inst.at - Period(inst) + j] = file.out[inst.at + (processed + Piece) + j]
    <3> DEFINE P == Period(inst)
    <3>1. /\ P \in Nat /\ P > 0 /\ P <= inst.at /\ inst.len \in Nat /\ inst.at \in Nat
          /\ \A k \in 1 .. inst.len : file.out[inst.at - P + k] = file.out[inst.at + k]
          /\ \A k \in 1 .. P :
                processed + k <= inst.len =>
                    file.out[inst.at - P + k] = file.out[inst.at + processed + k]
      BY <2>3, Repeats
    <3>2. Piece = P
      <4>1. PieceLimit(inst) = P
        BY <2>3 DEF PieceLimit
      <4>2. Piece <= PieceLimit(inst) /\ (Piece < PieceLimit(inst) => processed + Piece = size)
        BY PieceFacts
      <4> HIDE DEF P, inst, size
      <4> QED
        BY <4>1, <4>2, <3>1, <2>2, <1>3
    <3> HIDE DEF P, inst, size
    <3>3. /\ processed + j <= inst.len /\ processed + P + j \in 1 .. inst.len /\ j \in 1 .. P
          /\ inst.at - P + (processed + P + j) = inst.at + processed + j
          /\ inst.at + (processed + P + j) = inst.at + (processed + P) + j
      <4> DEFINE len == inst.len
                 at == inst.at
      <4>1. j \in 1 .. P /\ processed + P + j <= len
        BY <2>3, <3>2 DEF P
      <4>2. P \in Nat /\ P > 0 /\ len \in Nat /\ at \in Nat /\ processed \in Nat
        BY <3>1, <1>2
      <4> HIDE DEF len, at
      <4>3. /\ processed + j <= len /\ processed + P + j \in 1 .. len
            /\ at - P + (processed + P + j) = at + processed + j
            /\ at + (processed + P + j) = at + (processed + P) + j
        BY <4>1, <4>2
      <4> QED
        BY <4>1, <4>3 DEF len, at
    <3>4. file.out[inst.at + processed + j] = file.out[inst.at + (processed + P) + j]
      BY <3>1, <3>3
    <3>5. file.out[inst.at - P + j] = file.out[inst.at + processed + j]
      BY <3>1, <3>3
    <3> QED
      BY <3>2, <3>4, <3>5 DEF P
  <2>4. inst.op = "Copy" => size = inst.len
    BY <1>2, InstKinds
  <2> HIDE DEF inst, size, w
  <2> QED
    BY <2>1, <2>2, <2>3, <2>4, <1>1, <1>2 DEF PartConverted, size, w, inst
<1> QED
  BY <1>5, <1>6, <1>7

LEMMA AppendAt ==
    ASSUME NEW S, NEW list \in Seq(S), NEW e \in S
    PROVE  /\ Append(list, e) \in Seq(S) /\ Len(Append(list, e)) = Len(list) + 1
           /\ Len(list) \in Nat /\ Append(list, e) # <<>>
           /\ Append(list, e)[Len(list) + 1] = e
           /\ \A k \in 1 .. Len(list) : Append(list, e)[k] = list[k]
OBVIOUS

LEMMA PushType ==
    ASSUME ConvertInv, HasInst, NEW op, PushPiece(op),
           FitsPiece([at |-> cur_o_pos + processed, op |-> op])
    PROVE  ConvertTypeOK'
<1> DEFINE s == [at |-> cur_o_pos + processed, op |-> op]
           adds == IF is_add(op) THEN Piece ELSE 0
<1>1. /\ UNCHANGED <<file, win, ssp, vcd_trgt, result>>
      /\ sections' = IF Overflows THEN Append(sections, Written(TRUE)) ELSE sections
      /\ cur_win' = IF Overflows THEN <<s>> ELSE Append(cur_win, s)
      /\ cur_win_size' = IF Overflows THEN Piece ELSE cur_win_size + Piece
      /\ num_add_bytes' = IF Overflows THEN adds ELSE num_add_bytes + adds
      /\ total_content_len' = IF Overflows THEN oal(op) ELSE total_content_len + oal(op)
  BY DEF PushPiece
<1>2. /\ next' \in 1 .. Len(file.windows[win].insts) + 1
      /\ processed' \in Nat /\ cur_o_pos' \in Nat
  BY PushInPlace
<1>3. s \in SparseOp /\ oal(op) \in Nat
  BY DEF FitsPiece
<1>4. Piece \in Nat /\ adds \in Nat
  BY PieceFacts
<1>5. /\ win \in 1 .. Len(file.windows) + 1 /\ ssp \in Seq(Nat) /\ vcd_trgt \in BOOLEAN
      /\ cur_win \in Seq(SparseOp) /\ cur_win_size \in Nat /\ num_add_bytes \in Nat
      /\ total_content_len \in Nat /\ sections \in Seq(WrittenSection)
      /\ result \in {"running", "ok", "error"}
  BY DEF ConvertInv, ConvertTypeOK
<1> HIDE DEF s, adds
<1>6. Written(TRUE) \in WrittenSection
  BY <1>5 DEF Written, WrittenSection
<1>7. cur_win' \in Seq(SparseOp) /\ sections' \in Seq(WrittenSection)
  <2>1. Append(sections, Written(TRUE)) \in Seq(WrittenSection)
    BY <1>5, <1>6, AppendAt
  <2>2. Append(cur_win, s) \in Seq(SparseOp) /\ <<s>> \in Seq(SparseOp)
    BY <1>3, <1>5, AppendAt
  <2>3. CASE Overflows
    BY <2>1, <2>2, <2>3, <1>1
  <2>4. CASE ~ Overflows
    BY <2>2, <2>4, <1>1, <1>5
  <2> QED
    BY <2>3, <2>4
<1>8. cur_win_size' \in Nat /\ num_add_bytes' \in Nat /\ total_content_len' \in Nat
  BY <1>1, <1>3, <1>4, <1>5
<1>9. next' \in Nat /\ next' <= Len(file.windows[win].insts) + 1
  <2>1. Len(file.windows[win].insts) \in Nat
    BY AtHand, WindowFacts
  <2> QED
    BY <1>2, <2>1
<1> QED
  BY <1>1, <1>2, <1>5, <1>7, <1>8, <1>9 DEF ConvertTypeOK

LEMMA PushAddsUp ==
    ASSUME ConvertInv, HasInst, NEW op, PushPiece(op),
           FitsPiece([at |-> cur_o_pos + processed, op |-> op])
    PROVE  AddsUp'
<1> DEFINE s == [at |-> cur_o_pos + processed, op |-> op]
           len == oal(op)
<1>1. /\ UNCHANGED file
      /\ cur_win_size' = IF Overflows THEN Piece ELSE cur_win_size + Piece
      /\ total_content_len' = IF Overflows THEN len ELSE total_content_len + len
  BY DEF PushPiece
<1>2. len \in Nat /\ len <= Piece /\ (~ (Piece > MAX_INST_SIZE) => len = Piece)
  BY DEF FitsPiece
<1>3. Piece \in Nat /\ cur_win_size \in Nat /\ total_content_len \in Nat
  BY PieceFacts DEF ConvertInv, ConvertTypeOK
<1>4. total_content_len <= cur_win_size
        /\ (~ LongPeriod => total_content_len = cur_win_size)
  BY DEF ConvertInv, AddsUp
<1>5. Piece > MAX_INST_SIZE => LongPeriod
  BY LongPieces
<1>6. LongPeriod' = LongPeriod
  BY <1>1 DEF LongPeriod
<1>7. ~ Overflows => cur_win_size + Piece <= MAX_WIN_SIZE
  BY <1>3, Limits DEF Overflows
<1> HIDE DEF len
<1>8. total_content_len' <= cur_win_size'
  BY <1>1, <1>2, <1>3, <1>4
<1>9. ~ LongPeriod => total_content_len' = cur_win_size' /\ cur_win_size' <= MAX_WIN_SIZE
  BY <1>1, <1>2, <1>3, <1>4, <1>5, <1>7, Limits
<1> QED
  BY <1>6, <1>8, <1>9 DEF AddsUp

LEMMA OpenSection ==
    ASSUME ConvertInv, Running, ~ Refused,
           NEW end, end = cur_o_pos + processed, NEW from, from = end - cur_win_size
    PROVE  /\ MakesTarget(cur_win) /\ Row(cur_win, from, end)
           /\ WrittenUpTo(Len(sections)) = from
<1>1. cur_o_pos \in Nat /\ processed \in Nat /\ cur_win_size \in Nat
  BY DEF ConvertInv, ConvertTypeOK
<1>2. OpenInRow /\ Follows /\ total_content_len = cur_win_size
  BY DEF ConvertInv, ConvertedMeaning, Refused
<1> QED
  BY <1>1, <1>2 DEF OpenInRow, Follows

(* The open section, written when it adds up, follows those before. *)
LEMMA SectionWritten ==
    ASSUME ConvertInv, Running, ~ Refused, NEW more \in BOOLEAN,
           sections' = Append(sections, Written(more)), file' = file
    PROVE  /\ SectionsInRow' /\ Written(more) \in WrittenSection
           /\ Len(sections') = Len(sections) + 1 /\ Len(sections) \in Nat
           /\ sections'[Len(sections) + 1] = Written(more)
<1> DEFINE end == cur_o_pos + processed
           from == end - cur_win_size
           n == Len(sections)
           e == Written(more)
<1>1. /\ cur_win \in Seq(SparseOp) /\ cur_win_size \in Nat /\ num_add_bytes \in Nat
      /\ sections \in Seq(WrittenSection) /\ cur_o_pos \in Nat /\ processed \in Nat
  BY DEF ConvertInv, ConvertTypeOK
<1>2. SectionsInRow /\ total_content_len = cur_win_size
  BY DEF ConvertInv, ConvertedMeaning, Refused
<1>3. MakesTarget(cur_win) /\ Row(cur_win, from, end) /\ WrittenUpTo(n) = from
  BY OpenSection
<1>4. end \in Nat /\ from \in Int /\ from + cur_win_size = end
  BY <1>1
<1>5. e \in WrittenSection /\ e.ops = cur_win /\ e.output_size = cur_win_size
  BY <1>1 DEF Written, WrittenSection
<1> HIDE DEF e, end, from
<1>6. sections' = Append(sections, e)
  BY DEF e
<1>7. /\ Len(sections') = n + 1 /\ n \in Nat /\ sections'[n + 1] = e
      /\ \A k \in 1 .. n : sections'[k] = sections[k]
  BY <1>1, <1>5, <1>6, AppendAt
<1>8. \A k \in 0 .. n : WrittenUpTo(k)' = WrittenUpTo(k)
  BY <1>7 DEF WrittenUpTo
<1>9. SectionsInRow'
  <2> SUFFICES ASSUME NEW k \in 1 .. n + 1
               PROVE  /\ MakesTarget(sections'[k].ops)
                      /\ Row(sections'[k].ops, WrittenUpTo(k - 1)',
                             WrittenUpTo(k - 1)' + sections'[k].output_size)
    BY <1>7 DEF SectionsInRow, MakesTarget
  <2>1. k - 1 \in 0 .. n
    BY <1>7
  <2>2. WrittenUpTo(k - 1)' = WrittenUpTo(k - 1)
    BY <2>1, <1>8
  <2>3. CASE k \in 1 .. n
    BY <2>2, <2>3, <1>2, <1>7 DEF SectionsInRow
  <2>4. CASE k = n + 1
    <3>1. k - 1 = n
      BY <2>4, <1>7
    <3> QED
      BY <2>2, <2>4, <3>1, <1>3, <1>4, <1>5, <1>7
  <2> QED
    BY <2>3, <2>4, <1>7
<1> QED
  BY <1>5, <1>7, <1>9 DEF e

(* The open section takes the piece, or is written and begins with it. *)
LEMMA PushMeaning ==
    ASSUME ConvertInv, HasInst, NEW op, PushPiece(op),
           FitsPiece([at |-> cur_o_pos + processed, op |-> op])
    PROVE  ConvertedMeaning' /\ Follows'
<1> DEFINE s == [at |-> cur_o_pos + processed, op |-> op]
           end == cur_o_pos + processed
           from == end - cur_win_size
           n == Len(sections)
<1>1. /\ UNCHANGED <<file, result>> /\ ~ (Overflows /\ Refused)
      /\ sections' = IF Overflows THEN Append(sections, Written(TRUE)) ELSE sections
      /\ cur_win' = IF Overflows THEN <<s>> ELSE Append(cur_win, s)
      /\ cur_win_size' = IF Overflows THEN Piece ELSE cur_win_size + Piece
      /\ total_content_len' = IF Overflows THEN oal(op) ELSE total_content_len + oal(op)
  BY DEF PushPiece
<1>2. /\ cur_win \in Seq(SparseOp) /\ cur_win_size \in Nat /\ total_content_len \in Nat
      /\ sections \in Seq(WrittenSection) /\ cur_o_pos \in Nat /\ processed \in Nat
      /\ total_content_len <= cur_win_size /\ Running
  BY DEF ConvertInv, ConvertTypeOK, AddsUp, HasInst, InWindow
<1>3. Piece \in Nat /\ Piece > 0 /\ cur_o_pos' + processed' = end + Piece
        /\ cur_o_pos' \in Nat /\ processed' \in Nat
  BY PieceFacts, PushInPlace
<1>4. /\ s \in SparseOp /\ s.at = end /\ oal(op) \in Nat /\ oal(op) <= Piece
      /\ oal(op) = Piece => /\ SizeOf(s) = Piece /\ Yields(s, file.src, file.out)
                            /\ ~ (Piece > MAX_INST_SIZE)
  BY <1>3, Limits DEF FitsPiece
<1>5. oal(op) = Piece => EndOf(s) = end + Piece
  BY <1>4 DEF EndOf
<1>6. end \in Nat /\ from \in Int /\ from + cur_win_size = end
  BY <1>2
<1>7. SectionsInRow
  BY DEF ConvertInv, ConvertedMeaning
<1>8. total_content_len = cur_win_size =>
        MakesTarget(cur_win) /\ Row(cur_win, from, end) /\ WrittenUpTo(n) = from
  BY <1>2 DEF ConvertInv, ConvertedMeaning, OpenInRow, Follows
<1>9. Running' /\ result' # "ok"
  BY <1>1, <1>2 DEF Running
<1> HIDE DEF s, end, from
<1>10. CASE ~ Overflows
  <2>1. sections' = sections /\ cur_win' = Append(cur_win, s) /\ file' = file
          /\ cur_win_size' = cur_win_size + Piece
          /\ total_content_len' = total_content_len + oal(op)
    BY <1>1, <1>10
  <2>2. SectionsInRow'
    BY <1>7, <2>1 DEF SectionsInRow, WrittenUpTo, MakesTarget
  <2>3. ASSUME total_content_len' = cur_win_size'
        PROVE  /\ MakesTarget(cur_win)'
               /\ Row(cur_win', from, end + Piece) /\ WrittenUpTo(n)' = from
               /\ cur_o_pos' + processed' - cur_win_size' = from
    <3>1. total_content_len = cur_win_size /\ oal(op) = Piece
      BY <2>1, <2>3, <1>2, <1>3, <1>4
    <3>2. MakesTarget(cur_win) /\ Row(cur_win, from, s.at) /\ WrittenUpTo(n) = from
      BY <3>1, <1>4, <1>8
    <3>3. Row(cur_win', from, end + Piece)
      BY <3>1, <3>2, <2>1, <1>2, <1>4, <1>5, RowAppend
    <3>4. MakesTarget(cur_win)'
      <4>1. /\ cur_win' \in Seq(SparseOp) /\ Len(cur_win') = Len(cur_win) + 1
            /\ cur_win'[Len(cur_win) + 1] = s /\ Len(cur_win) \in Nat
            /\ \A k \in 1 .. Len(cur_win) : cur_win'[k] = cur_win[k]
        BY <2>1, <1>2, <1>4, AppendAt
      <4>2. Yields(s, file.src, file.out)
        BY <3>1, <1>4
      <4>3. ASSUME NEW k \in 1 .. Len(cur_win') PROVE Yields(cur_win'[k], file.src, file.out)
        <5>1. CASE k \in 1 .. Len(cur_win)
          <6>1. cur_win'[k] = cur_win[k]
            BY <5>1, <4>1
          <6>2. Yields(cur_win[k], file.src, file.out)
            BY <5>1, <3>2 DEF MakesTarget
          <6> QED
            BY <6>1, <6>2
        <5>2. CASE k = Len(cur_win) + 1
          BY <5>2, <4>1, <4>2
        <5> QED
          BY <5>1, <5>2, <4>1
      <4> QED
        BY <4>3, <2>1 DEF MakesTarget
    <3>5. WrittenUpTo(n)' = from
      BY <3>2, <2>1 DEF WrittenUpTo
    <3>6. cur_o_pos' + processed' - cur_win_size' = from
      <4> DEFINE a == cur_o_pos'
                 b == processed'
                 more == cur_win_size'
      <4>1. more = cur_win_size + Piece
        BY <2>1
      <4>2. a + b = end + Piece /\ a \in Nat /\ b \in Nat
        BY <1>3
      <4> HIDE DEF a, b, more
      <4>3. a + b - more = from
        BY <4>1, <4>2, <1>2, <1>3, <1>6
      <4> QED
        BY <4>3 DEF a, b, more
    <3> QED
      BY <3>3, <3>4, <3>5, <3>6
  <2>4. OpenInRow'
    BY <2>3, <1>3 DEF OpenInRow
  <2>5. Follows'
    BY <2>1, <2>3 DEF Follows
  <2> QED
    BY <2>2, <2>4, <2>5, <1>9 DEF ConvertedMeaning
<1>11. CASE Overflows
  <2>1. /\ ~ Refused /\ sections' = Append(sections, Written(TRUE)) /\ cur_win' = <<s>>
        /\ cur_win_size' = Piece /\ total_content_len' = oal(op) /\ file' = file
    BY <1>1, <1>11
  <2>2. MakesTarget(cur_win) /\ Row(cur_win, from, end) /\ WrittenUpTo(n) = from
    <3>1. total_content_len = cur_win_size
      BY <2>1 DEF Refused
    <3> QED
      BY <3>1, <1>8
  <2>3. /\ SectionsInRow' /\ Len(sections') = n + 1 /\ n \in Nat
        /\ sections'[n + 1] = Written(TRUE)
    BY <2>1, <1>2, SectionWritten
  <2>4. Written(TRUE).ops = cur_win
    BY DEF Written
  <2>5. ASSUME total_content_len' = cur_win_size'
        PROVE  /\ MakesTarget(cur_win)' /\ Row(cur_win', end, end + Piece)
               /\ WrittenUpTo(Len(sections))' = end
               /\ cur_o_pos' + processed' - cur_win_size' = end
    <3>1. oal(op) = Piece
      BY <2>1, <2>5
    <3>2. cur_win # <<>>
      <4>1. Piece <= MAX_INST_SIZE /\ cur_win_size > 0
        BY <3>1, <1>2, <1>3, <1>4, <1>11, Limits DEF Overflows
      <4>2. from # end
        BY <4>1, <1>2, <1>6
      <4> QED
        BY <4>2, <2>2 DEF Row
    <3>3. WrittenUpTo(Len(sections))' = end
      <4>1. EndOf(cur_win[Len(cur_win)]) = end
        BY <3>2, <2>2 DEF Row
      <4>2. n + 1 # 0
        BY <2>3
      <4> QED
        BY <4>1, <4>2, <2>3, <2>4 DEF WrittenUpTo
    <3>4. MakesTarget(cur_win)'
      BY <3>1, <2>1, <1>4 DEF MakesTarget
    <3>5. Row(cur_win', end, end + Piece)
      BY <3>1, <2>1, <1>4, <1>5 DEF Row
    <3>6. cur_o_pos' + processed' - cur_win_size' = end
      <4> DEFINE a == cur_o_pos'
                 b == processed'
                 more == cur_win_size'
      <4>1. more = Piece
        BY <2>1
      <4>2. a + b = end + Piece /\ a \in Nat /\ b \in Nat
        BY <1>3
      <4> HIDE DEF a, b, more
      <4>3. a + b - more = end
        BY <4>1, <4>2, <1>3, <1>6
      <4> QED
        BY <4>3 DEF a, b, more
    <3> QED
      BY <3>3, <3>4, <3>5, <3>6
  <2>6. OpenInRow'
    BY <2>5, <1>3 DEF OpenInRow
  <2>7. Follows'
    BY <2>5 DEF Follows
  <2> QED
    BY <2>3, <2>6, <2>7, <1>9 DEF ConvertedMeaning
<1> QED
  BY <1>10, <1>11

LEMMA PushInv ==
    ASSUME ConvertInv, HasInst, NEW op, PushPiece(op),
           FitsPiece([at |-> cur_o_pos + processed, op |-> op])
    PROVE  ConvertInv'
<1>1. InPlace' /\ PartConverted'
  BY PushInPlace
<1>2. ConvertTypeOK'
  BY PushType
<1>3. AddsUp'
  BY PushAddsUp
<1>4. ConvertedMeaning' /\ Follows'
  BY PushMeaning
<1>5. file \in Files /\ result = "running" /\ file' = file /\ result' = result
  BY DEF ConvertInv, HasInst, InWindow, Running, PushPiece
<1>6. FailsOnlyOnLongPeriods'
  BY <1>5 DEF FailsOnlyOnLongPeriods
<1> QED
  BY <1>1, <1>2, <1>3, <1>4, <1>5, <1>6 DEF ConvertInv

-----------------------------------------------------------------------------
(* The bytes of the output that a piece of the instruction stands for. *)
LEMMA PiecePlace ==
    ASSUME ConvertInv, HasInst
    PROVE  /\ cur_o_pos = TheInst.at /\ cur_o_pos \in Nat /\ processed \in Nat
           /\ Piece \in Nat /\ Piece > 0 /\ processed + Piece <= InstSize(TheInst)
           /\ InstSize(TheInst) \in Nat /\ Len(file.out) \in Nat
           /\ cur_o_pos + processed + Piece <= Len(file.out)
           /\ ~ (TheInst.op = "Copy" /\ TheInst.type = "Q") => Piece <= MAX_INST_SIZE
           /\ TheInst.op = "Run" => Piece <= MAX_RUN_LEN
<1> DEFINE w == file.windows[win]
           inst == TheInst
           size == InstSize(TheInst)
<1>1. /\ inst \in Inst /\ IsInst(file, w, inst) /\ cur_o_pos = inst.at /\ processed \in Nat
      /\ file \in Files
  BY AtHand
<1>2. size \in Nat /\ cur_o_pos \in Nat /\ Len(file.out) \in Nat
  BY <1>1, InstKinds, FileFacts
<1>3. cur_o_pos + size <= Len(file.out)
  BY <1>1 DEF IsInst
<1>4. /\ Piece \in Nat /\ Piece > 0 /\ processed + Piece <= size
      /\ Piece <= PieceLimit(inst) /\ PieceLimit(inst) \in Nat
  BY PieceFacts
<1>5. ~ (inst.op = "Copy" /\ inst.type = "Q") => PieceLimit(inst) <= MAX_INST_SIZE
  BY Limits DEF PieceLimit
<1>6. inst.op = "Run" => PieceLimit(inst) = MAX_RUN_LEN
  BY DEF PieceLimit
<1> HIDE DEF size, inst, w
<1>7. cur_o_pos + processed + Piece <= Len(file.out)
  BY <1>1, <1>2, <1>3, <1>4
<1>8. ~ (inst.op = "Copy" /\ inst.type = "Q") => Piece <= MAX_INST_SIZE
  BY <1>4, <1>5, Limits
<1>9. inst.op = "Run" => Piece <= MAX_RUN_LEN
  BY <1>4, <1>6
<1> QED
  BY <1>1, <1>2, <1>4, <1>7, <1>8, <1>9 DEF size, inst

(* A piece that is copied from where the same bytes are. *)
LEMMA CopyFits ==
    ASSUME ConvertInv, HasInst, Piece <= MAX_INST_SIZE,
           NEW from \in CopySrc, NEW addr \in Nat,
           NEW there, there = IF from = "Dict" THEN file.src ELSE file.out,
           addr + Piece <= Len(there),
           from = "Output" => addr + Piece <= cur_o_pos + processed,
           \A j \in 1 .. Piece : there[addr + j] = file.out[cur_o_pos + processed + j]
    PROVE  FitsPiece([at |-> cur_o_pos + processed, op |-> Copy(from, addr, Piece)])
<1> DEFINE op == Copy(from, addr, Piece)
           s == [at |-> cur_o_pos + processed, op |-> op]
           n == Piece
<1>1. /\ n \in Nat /\ cur_o_pos \in Nat /\ processed \in Nat /\ Len(file.out) \in Nat
      /\ cur_o_pos + processed + n <= Len(file.out)
  BY PiecePlace
<1>2. s.op = op /\ s.at = cur_o_pos + processed /\ s.at \in Nat
  BY <1>1
<1>3. /\ op = [op |-> "Copy", src |-> from, addr |-> addr, len |-> n]
      /\ op.op = "Copy" /\ op.src = from /\ op.addr = addr /\ op.len = n
  BY DEF Copy
<1>4. is_copy(op) /\ ~ is_add(op) /\ ~ is_run(op) /\ (is_copy_from(op, "Output") <=> from = "Output")
  BY <1>3 DEF is_copy, is_add, is_run, is_copy_from
<1>5. op \in CopyOps
  BY <1>1, <1>3, Limits DEF CopyOps
<1>6. s \in SparseOp
  BY <1>2, <1>5 DEF SparseOp, Op
<1> HIDE DEF op
<1>7. oal(s.op) = n /\ SizeOf(s) = n
  BY <1>2, <1>3, <1>4 DEF oal, SizeOf
<1>8. CopiedFrom(op, file.src, file.out) = there
  BY <1>3 DEF CopiedFrom
<1> HIDE DEF s, n
<1>9. EndOf(s) <= Len(file.out)
  BY <1>1, <1>2, <1>7 DEF EndOf
<1>10. Yields(s, file.src, file.out)
  BY <1>2, <1>3, <1>4, <1>7, <1>8, <1>9 DEF Yields, n
<1>11. ~ (n > MAX_INST_SIZE)
  BY <1>1, Limits DEF n
<1> QED
  BY <1>1, <1>2, <1>6, <1>7, <1>10, <1>11 DEF FitsPiece, s, op, n

LEMMA RunFits ==
    ASSUME ConvertInv, HasInst, TheInst.op = "Run"
    PROVE  FitsPiece([at |-> cur_o_pos + processed, op |-> Run(TheInst.byte, Piece)])
<1> DEFINE byte == TheInst.byte
           op == Run(byte, Piece)
           s == [at |-> cur_o_pos + processed, op |-> op]
           n == Piece
           size == InstSize(TheInst)
<1>1. /\ n \in Nat /\ cur_o_pos \in Nat /\ processed \in Nat /\ Len(file.out) \in Nat
      /\ cur_o_pos + processed + n <= Len(file.out) /\ n <= MAX_RUN_LEN
      /\ size \in Nat /\ processed + n <= size /\ cur_o_pos = TheInst.at
  BY PiecePlace
<1>2. s.op = op /\ s.at = cur_o_pos + processed /\ s.at \in Nat
  BY <1>1
<1>3. byte \in Byte /\ \A j \in 1 .. size : byte = file.out[cur_o_pos + j]
  BY <1>1, AtHand, InstKinds DEF IsInst
<1>4. /\ op = [op |-> "Run", byte |-> byte, len |-> n]
      /\ op.op = "Run" /\ op.byte = byte /\ op.len = n
  BY DEF Run
<1>5. is_run(op) /\ ~ is_add(op) /\ ~ is_copy(op) /\ ~ is_copy_from(op, "Output")
  BY <1>4 DEF is_copy, is_add, is_run, is_copy_from
<1>6. s \in SparseOp
  BY <1>1, <1>2, <1>3, <1>4, Limits DEF SparseOp, Op, RunOps
<1> HIDE DEF op, byte
<1>7. oal(s.op) = n /\ SizeOf(s) = n
  BY <1>2, <1>4, <1>5 DEF oal, SizeOf
<1> HIDE DEF s, n, size
<1>8. EndOf(s) <= Len(file.out)
  BY <1>1, <1>2, <1>7 DEF EndOf
<1>9. ASSUME NEW j \in 1 .. n PROVE byte = file.out[s.at + j]
  <2>1. processed + j \in 1 .. size /\ cur_o_pos + (processed + j) = s.at + j
    BY <1>1, <1>2
  <2> QED
    BY <1>3, <2>1
<1>10. Yields(s, file.src, file.out)
  BY <1>2, <1>4, <1>5, <1>7, <1>8, <1>9 DEF Yields
<1>11. ~ (n > MAX_INST_SIZE)
  BY <1>1, Limits
<1> QED
  BY <1>1, <1>2, <1>6, <1>7, <1>10, <1>11 DEF FitsPiece, s, op, n, byte

(* A length that a u16 holds is not changed by the cast. *)
LEMMA CastKeeps ==
    ASSUME NEW n \in Nat, n <= MAX_INST_SIZE
    PROVE  n % (MAX_INST_SIZE + 1) = n
BY Limits

LEMMA AddFits ==
    ASSUME ConvertInv, HasInst, TheInst.op = "Add"
    PROVE  FitsPiece([at |-> cur_o_pos + processed,
                      op |-> Add(SubSeq(TheInst.bytes, processed + 1, processed + Piece))])
<1> DEFINE bytes == TheInst.bytes
           n == Piece
           p == processed
           part == SubSeq(bytes, p + 1, p + n)
           op == Add(part)
           s == [at |-> cur_o_pos + processed, op |-> op]
           size == InstSize(TheInst)
<1>1. /\ n \in Nat /\ n > 0 /\ cur_o_pos \in Nat /\ p \in Nat /\ Len(file.out) \in Nat
      /\ cur_o_pos + p + n <= Len(file.out) /\ n <= MAX_INST_SIZE
      /\ size \in Nat /\ p + n <= size /\ cur_o_pos = TheInst.at
  BY PiecePlace
<1>2. s.op = op /\ s.at = cur_o_pos + p /\ s.at \in Nat
  BY <1>1
<1>3. /\ bytes \in Seq(Byte) /\ size = Len(bytes)
      /\ \A j \in 1 .. size : bytes[j] = file.out[cur_o_pos + j]
  BY <1>1, AtHand, InstKinds DEF IsInst
<1> HIDE DEF bytes, n, p, size
<1>4. part \in Seq(Byte) /\ Len(part) = n
        /\ \A j \in 1 .. n : part[j] = bytes[p + j]
  <2>1. \A k \in p + 1 .. p + n : bytes[k] \in Byte
    BY <1>1, <1>3
  <2>2. p + 1 \in Int /\ p + n \in Int /\ p + 1 <= p + n
          /\ (p + n) - (p + 1) + 1 = n /\ \A j \in 1 .. n : p + 1 + j - 1 = p + j
    BY <1>1
  <2>3. part \in Seq(Byte) /\ Len(part) = n
    BY <2>1, <2>2, SubSeqProperties
  <2>4. \A j \in 1 .. (p + n) - (p + 1) + 1 : part[j] = bytes[p + 1 + j - 1]
    BY <2>1, <2>2, SubSeqProperties
  <2> HIDE DEF part
  <2> QED
    BY <2>2, <2>3, <2>4
<1> HIDE DEF part
<1>5. op = [op |-> "Add", bytes |-> part] /\ op.op = "Add" /\ op.bytes = part
  BY DEF Add
<1>6. is_add(op) /\ ~ is_copy(op) /\ ~ is_copy_from(op, "Output")
  BY <1>5 DEF is_add, is_copy, is_copy_from
<1>7. s \in SparseOp
  BY <1>2, <1>4, <1>5 DEF SparseOp, Op, AddOps
<1> HIDE DEF op
<1>8. oal(s.op) = n /\ SizeOf(s) = n
  <2>1. n % (MAX_INST_SIZE + 1) = n
    BY <1>1, CastKeeps
  <2> QED
    BY <2>1, <1>2, <1>4, <1>5, <1>6 DEF oal, SizeOf
<1> HIDE DEF s
<1>9. EndOf(s) <= Len(file.out)
  BY <1>1, <1>2, <1>8 DEF EndOf
<1>10. ASSUME NEW j \in 1 .. n PROVE part[j] = file.out[s.at + j]
  <2>1. p + j \in 1 .. size /\ cur_o_pos + (p + j) = s.at + j
    BY <1>1, <1>2
  <2> QED
    BY <1>3, <1>4, <2>1
<1>11. Yields(s, file.src, file.out)
  BY <1>2, <1>5, <1>6, <1>8, <1>9, <1>10 DEF Yields
<1>12. ~ (n > MAX_INST_SIZE)
  BY <1>1, Limits
<1> QED
  BY <1>1, <1>2, <1>7, <1>8, <1>11, <1>12 DEF FitsPiece, s, op, n, part, p, bytes

-----------------------------------------------------------------------------
LEMMA ConvertAddInv == ConvertInv /\ ConvertAdd => ConvertInv'
BY AddFits, PushInv DEF ConvertAdd

LEMMA ConvertRunInv == ConvertInv /\ ConvertRun => ConvertInv'
BY RunFits, PushInv DEF ConvertRun

LEMMA ConvertCopySInv == ConvertInv /\ ConvertCopyS => ConvertInv'
<1> SUFFICES ASSUME ConvertInv, ConvertCopyS PROVE ConvertInv'
  OBVIOUS
<1> DEFINE inst == TheInst
           w == file.windows[win]
           from == IF vcd_trgt THEN "Output" ELSE "Dict"
           there == IF from = "Dict" THEN file.src ELSE file.out
           addr == ssp[1] + inst.u_pos + processed
<1>1. HasInst /\ inst.op = "Copy" /\ inst.type = "S" /\ PushPiece(Copy(from, addr, Piece))
  BY DEF ConvertCopyS
<1>2. /\ inst \in Inst /\ IsInst(file, w, inst) /\ IsWindow(file, w) /\ file \in Files
      /\ win \in 1 .. Len(file.windows) /\ ssp = w.ssp /\ vcd_trgt = w.target
  BY <1>1, AtHand
<1>3. /\ inst.len \in Nat /\ inst.u_pos \in Nat /\ InstSize(inst) = inst.len
      /\ w.size \in Nat /\ w.from \in Nat /\ w.ssp \in Seq(Nat)
  BY <1>1, <1>2, InstKinds, WindowFacts
<1>4. /\ Piece \in Nat /\ Piece > 0 /\ processed \in Nat /\ processed + Piece <= inst.len
      /\ cur_o_pos = inst.at /\ cur_o_pos \in Nat /\ Piece <= MAX_INST_SIZE /\ Len(file.out) \in Nat
  BY <1>1, <1>3, PiecePlace
<1>5. inst.u_pos + inst.len <= w.size /\ cur_o_pos >= w.from
        /\ \A j \in 1 .. inst.len : InU(file, w, inst.u_pos + j) = file.out[cur_o_pos + j]
  BY <1>1, <1>2, <1>3, <1>4 DEF IsInst, CopyTypeOK
<1>6. /\ w.ssp # <<>>
      /\ w.ssp[1] + w.size <= (IF w.target THEN w.from ELSE Len(file.src))
  <2>1. w.size > 0
    BY <1>3, <1>4, <1>5
  <2> QED
    BY <2>1, <1>2 DEF IsWindow
<1>7. ssp[1] \in Nat /\ ssp[1] + w.size <= (IF vcd_trgt THEN w.from ELSE Len(file.src))
  BY <1>2, <1>3, <1>6
<1>8. there = Segment(file, w) /\ from \in CopySrc
  BY <1>2 DEF Segment, CopySrc
<1>9. from = "Output" <=> vcd_trgt
  OBVIOUS
<1>10. vcd_trgt => there = file.out
  OBVIOUS
<1>11. ~ vcd_trgt => there = file.src
  OBVIOUS
<1>12. inst.at + InstSize(inst) <= Len(file.out)
  BY <1>2 DEF IsInst
<1>13. addr \in Nat /\ addr + Piece <= ssp[1] + w.size
  <2> DEFINE len == inst.len
             u_pos == inst.u_pos
             size == w.size
             begin == ssp[1]
  <2>1. len \in Nat /\ u_pos \in Nat /\ size \in Nat /\ begin \in Nat /\ u_pos + len <= size
          /\ processed + Piece <= len
    BY <1>3, <1>4, <1>5, <1>7
  <2> HIDE DEF len, u_pos, size, begin
  <2>2. /\ begin + u_pos + processed \in Nat
        /\ begin + u_pos + processed + Piece <= begin + size
    BY <2>1, <1>4
  <2> QED
    BY <2>2 DEF u_pos, size, begin
<1>14. \A j \in 1 .. Piece : there[addr + j] = file.out[cur_o_pos + processed + j]
  <2> SUFFICES ASSUME NEW j \in 1 .. Piece
               PROVE  there[addr + j] = file.out[cur_o_pos + processed + j]
    OBVIOUS
  <2> DEFINE k == processed + j
  <2>1. k \in 1 .. inst.len /\ inst.u_pos + k <= w.size
    <3> DEFINE len == inst.len
               u_pos == inst.u_pos
               size == w.size
    <3>1. len \in Nat /\ u_pos \in Nat /\ size \in Nat /\ u_pos + len <= size
            /\ processed + Piece <= len
      BY <1>3, <1>4, <1>5
    <3> HIDE DEF len, u_pos, size
    <3>2. k \in 1 .. len /\ u_pos + k <= size
      BY <3>1, <1>4
    <3> QED
      BY <3>2 DEF len, u_pos, size
  <2>2. InU(file, w, inst.u_pos + k) = there[ssp[1] + (inst.u_pos + k)]
    BY <2>1, <1>2, <1>8 DEF InU
  <2>3. InU(file, w, inst.u_pos + k) = file.out[cur_o_pos + k]
    BY <2>1, <1>5
  <2>4. ssp[1] + (inst.u_pos + k) = addr + j /\ cur_o_pos + k = cur_o_pos + processed + j
    <3> DEFINE u_pos == inst.u_pos
    <3>1. u_pos \in Nat
      BY <1>3
    <3> HIDE DEF u_pos
    <3>2. ssp[1] + (u_pos + k) = ssp[1] + u_pos + processed + j
            /\ cur_o_pos + k = cur_o_pos + processed + j
      BY <3>1, <1>4, <1>7
    <3> QED
      BY <3>2 DEF u_pos
  <2> HIDE DEF there, addr, w, inst
  <2> QED
    BY <2>2, <2>3, <2>4
<1>15. /\ addr + Piece <= Len(there)
       /\ from = "Output" => addr + Piece <= cur_o_pos + processed
  <2>1. Len(file.src) \in Nat
    BY <1>2, FileFacts
  <2> DEFINE end == addr + Piece
             top == ssp[1] + w.size
  <2>2. end \in Nat /\ top \in Nat /\ end <= top
    <3> DEFINE begin == ssp[1]
               size == w.size
    <3>1. addr \in Nat /\ Piece \in Nat /\ begin \in Nat /\ size \in Nat
            /\ addr + Piece <= begin + size
      BY <1>3, <1>4, <1>7, <1>13
    <3> HIDE DEF addr, begin, size
    <3>2. addr + Piece \in Nat /\ begin + size \in Nat /\ addr + Piece <= begin + size
      BY <3>1
    <3> QED
      BY <3>2 DEF begin, size
  <2>3. w.from <= Len(file.out) /\ w.from <= cur_o_pos + processed
    <3> DEFINE len == InstSize(inst)
               begin == w.from
               at == inst.at
    <3>1. at + len <= Len(file.out) /\ len \in Nat /\ begin \in Nat /\ at = cur_o_pos /\ at \in Nat
            /\ at >= begin
      BY <1>3, <1>4, <1>5, <1>12
    <3> HIDE DEF len, begin, at
    <3>2. begin <= Len(file.out) /\ begin <= cur_o_pos + processed
      BY <3>1, <1>4
    <3> QED
      BY <3>2 DEF begin
  <2> HIDE DEF end, there, from
  <2>4. CASE vcd_trgt
    <3>1. top <= w.from /\ there = file.out
      BY <2>4, <1>7, <1>10
    <3>2. end <= Len(file.out) /\ end <= cur_o_pos + processed
      <4> DEFINE begin == w.from
      <4>1. begin \in Nat /\ top <= begin /\ begin <= Len(file.out) /\ begin <= cur_o_pos + processed
        BY <3>1, <2>3, <1>3
      <4> HIDE DEF begin, top
      <4> QED
        BY <4>1, <2>2, <1>4
    <3> QED
      BY <3>1, <3>2 DEF end
  <2>5. CASE ~ vcd_trgt
    <3>1. top <= Len(file.src) /\ there = file.src
      BY <2>5, <1>7, <1>11
    <3>2. end <= Len(file.src)
      <4> HIDE DEF top
      <4> QED
        BY <3>1, <2>1, <2>2
    <3> QED
      BY <3>1, <3>2, <2>5, <1>9 DEF end
  <2> QED
    BY <2>4, <2>5
<1>16. FitsPiece([at |-> cur_o_pos + processed, op |-> Copy(from, addr, Piece)])
  <2> HIDE DEF addr, from
  <2> QED
    BY <1>1, <1>4, <1>8, <1>13, <1>14, <1>15, CopyFits
<1> QED
  BY <1>1, <1>16, PushInv

(* Where a copy within the window reads in the output, as the place in U    *)
(* says.                                                                    *)
LEMMA BackInOutput ==
    ASSUME ConvertInv, HasInst, NEW inst, inst = TheInst, inst.op = "Copy", inst.type = "T",
           NEW P, P = inst.u_start - inst.u_pos
    PROVE  /\ P \in Nat /\ P <= inst.at /\ inst.len \in Nat /\ inst.len <= P /\ inst.at \in Nat
           /\ \A j \in 1 .. inst.len : file.out[inst.at - P + j] = file.out[inst.at + j]
<1> DEFINE w == file.windows[win]
<1>1. inst \in Inst /\ IsInst(file, w, inst) /\ file \in Files
        /\ win \in 1 .. Len(file.windows)
  BY AtHand
<1>2. inst.at \in Nat /\ inst.len \in Nat /\ inst.u_pos \in Nat /\ inst.u_start \in Nat
        /\ InstSize(inst) = inst.len /\ w.size \in Nat /\ w.from \in Nat
  BY <1>1, InstKinds, WindowFacts
<1>3. inst.at >= w.from /\ inst.u_start = w.size + inst.at - w.from
        /\ w.size <= inst.u_pos /\ inst.u_pos + inst.len <= inst.u_start
  BY <1>1 DEF IsInst, CopyTypeOK
<1>4. \A j \in 1 .. inst.len : InU(file, w, inst.u_pos + j) = file.out[inst.at + j]
  BY <1>1, <1>2 DEF IsInst
<1> HIDE DEF w
<1>5. P \in Nat /\ P <= inst.at /\ inst.len <= P
  BY <1>2, <1>3
<1>6. ASSUME NEW j \in 1 .. inst.len
      PROVE  file.out[inst.at - P + j] = file.out[inst.at + j]
  <2>1. ~ (inst.u_pos + j <= w.size)
    BY <1>2, <1>3
  <2>2. InU(file, w, inst.u_pos + j) = file.out[w.from + (inst.u_pos + j) - w.size]
    BY <2>1 DEF InU
  <2>3. w.from + (inst.u_pos + j) - w.size = inst.at - P + j
    BY <1>2, <1>3
  <2> QED
    BY <1>4, <2>2, <2>3
<1> QED
  BY <1>2, <1>5, <1>6

LEMMA ConvertCopyTInv == ConvertInv /\ ConvertCopyT => ConvertInv'
<1> SUFFICES ASSUME ConvertInv, ConvertCopyT PROVE ConvertInv'
  OBVIOUS
<1> DEFINE inst == TheInst
           P == inst.u_start - inst.u_pos
           addr == cur_o_pos - P + processed
           end == cur_o_pos + processed
<1>1. HasInst /\ inst.op = "Copy" /\ inst.type = "T" /\ PushPiece(Copy("Output", addr, Piece))
  BY DEF ConvertCopyT
<1>2. /\ P \in Nat /\ P <= cur_o_pos /\ inst.len \in Nat /\ inst.len <= P /\ cur_o_pos = inst.at
      /\ \A j \in 1 .. inst.len : file.out[cur_o_pos - P + j] = file.out[cur_o_pos + j]
  BY <1>1, BackInOutput, PiecePlace
<1>3. /\ Piece \in Nat /\ Piece > 0 /\ processed \in Nat /\ processed + Piece <= inst.len
      /\ cur_o_pos \in Nat /\ Piece <= MAX_INST_SIZE /\ Len(file.out) \in Nat
      /\ cur_o_pos + processed + Piece <= Len(file.out)
  <2>1. InstSize(inst) = inst.len
    BY <1>1 DEF InstSize
  <2> QED
    BY <1>1, <2>1, PiecePlace
<1> DEFINE len == inst.len
<1> HIDE DEF P, len
<1>4. addr \in Nat /\ addr + Piece <= cur_o_pos + processed /\ addr + Piece <= Len(file.out)
  <2>1. len \in Nat /\ len <= P /\ processed + Piece <= len
    BY <1>2, <1>3 DEF len
  <2> DEFINE pos == cur_o_pos
             size == Len(file.out)
  <2>2. /\ P \in Nat /\ P <= pos /\ pos \in Nat /\ processed \in Nat /\ Piece \in Nat
        /\ size \in Nat /\ pos + processed + Piece <= size
    BY <1>2, <1>3
  <2> HIDE DEF pos, size
  <2>3. /\ pos - P + processed \in Nat /\ pos - P + processed + Piece <= pos + processed
        /\ pos - P + processed + Piece <= size
    BY <2>1, <2>2
  <2> QED
    BY <2>3 DEF pos, size
<1>5. \A j \in 1 .. Piece : file.out[addr + j] = file.out[cur_o_pos + processed + j]
  <2> SUFFICES ASSUME NEW j \in 1 .. Piece
               PROVE  file.out[addr + j] = file.out[cur_o_pos + processed + j]
    OBVIOUS
  <2>1. processed + j \in 1 .. len
    <3>1. len \in Nat /\ processed + Piece <= len
      BY <1>2, <1>3 DEF len
    <3> QED
      BY <3>1, <1>3
  <2>2. cur_o_pos - P + (processed + j) = addr + j
          /\ cur_o_pos + (processed + j) = cur_o_pos + processed + j
    BY <1>2, <1>3
  <2> QED
    BY <2>1, <2>2, <1>2 DEF len
<1>6. FitsPiece([at |-> cur_o_pos + processed, op |-> Copy("Output", addr, Piece)])
  <2>1. "Output" \in CopySrc /\ "Output" # "Dict"
    BY DEF CopySrc
  <2> HIDE DEF addr
  <2> QED
    BY <2>1, <1>1, <1>3, <1>4, <1>5, CopyFits
<1> QED
  BY <1>1, <1>6, PushInv

LEMMA ConvertCopyQInv == ConvertInv /\ ConvertCopyQ => ConvertInv'
<1> SUFFICES ASSUME ConvertInv, ConvertCopyQ PROVE ConvertInv'
  OBVIOUS
<1> DEFINE inst == TheInst
           P == Period(inst)
           addr == cur_o_pos - P
           n == Piece % (MAX_INST_SIZE + 1)
           s == [at |-> cur_o_pos + processed, op |-> Copy("Output", addr, n)]
<1>1. HasInst /\ inst.op = "Copy" /\ inst.type = "Q" /\ PushPiece(Copy("Output", addr, n))
  BY DEF ConvertCopyQ
<1>2. cur_o_pos = inst.at /\ cur_o_pos \in Nat /\ processed \in Nat
        /\ Piece \in Nat /\ Piece > 0 /\ processed + Piece <= inst.len
        /\ cur_o_pos + processed + Piece <= Len(file.out) /\ Len(file.out) \in Nat
  <2>1. InstSize(inst) = inst.len
    BY <1>1 DEF InstSize
  <2> QED
    BY <1>1, <2>1, PiecePlace
<1>3. /\ P \in Nat /\ P > 0 /\ P <= cur_o_pos /\ inst.len \in Nat
      /\ \A j \in 1 .. P :
            processed + j <= inst.len =>
                file.out[cur_o_pos - P + j] = file.out[cur_o_pos + processed + j]
  BY <1>1, <1>2, Repeats
<1>4. Piece <= P
  <2>1. PieceLimit(inst) = P
    BY <1>1 DEF PieceLimit
  <2> QED
    BY <1>1, <2>1, PieceFacts
<1> HIDE DEF P
<1>5. addr \in Nat /\ addr + Piece <= cur_o_pos + processed /\ addr + Piece <= Len(file.out)
  <2> DEFINE size == Len(file.out)
             pos == cur_o_pos
  <2>1. /\ pos \in Nat /\ processed \in Nat /\ Piece \in Nat /\ pos + processed + Piece <= size
        /\ size \in Nat /\ P \in Nat /\ P <= pos /\ Piece <= P
    BY <1>2, <1>3, <1>4
  <2> HIDE DEF size, pos
  <2>2. pos - P \in Nat /\ pos - P + Piece <= pos + processed /\ pos - P + Piece <= size
    BY <2>1
  <2> QED
    BY <2>2 DEF size, pos
<1>6. "Output" \in CopySrc /\ "Output" # "Dict"
  BY DEF CopySrc
<1>7. FitsPiece(s)
  <2>1. CASE Piece <= MAX_INST_SIZE
    <3>1. n = Piece
      BY <2>1, <1>2, CastKeeps
    <3>2. ASSUME NEW j \in 1 .. Piece
          PROVE  file.out[addr + j] = file.out[cur_o_pos + processed + j]
      <4> DEFINE len == inst.len
      <4>1. processed + Piece <= len /\ len \in Nat
        BY <1>2, <1>3
      <4> HIDE DEF len
      <4>2. j \in 1 .. P /\ processed + j <= len
        BY <4>1, <1>2, <1>3, <1>4
      <4> QED
        BY <4>2, <1>3 DEF len
    <3>3. FitsPiece([at |-> cur_o_pos + processed, op |-> Copy("Output", addr, Piece)])
      <4> HIDE DEF addr
      <4> QED
        BY <2>1, <1>1, <1>5, <1>6, <3>2, CopyFits
    <3> QED
      BY <3>1, <3>3
  <2>2. CASE ~ (Piece <= MAX_INST_SIZE)
    <3>1. n \in 0 .. MAX_INST_SIZE /\ n <= Piece /\ n # Piece /\ Piece > MAX_INST_SIZE /\ n \in Nat
      BY <2>2, <1>2, Limits
    <3> HIDE DEF n, addr
    <3>2. s.op.op = "Copy" /\ s.op.len = n /\ s.op \in CopyOps /\ s.at = cur_o_pos + processed
      BY <3>1, <1>5, <1>6 DEF Copy, CopyOps
    <3>3. oal(s.op) = n /\ s \in SparseOp
      BY <3>2, <1>2 DEF oal, is_add, SparseOp, Op
    <3> QED
      BY <3>1, <3>2, <3>3 DEF FitsPiece
  <2> QED
    BY <2>1, <2>2
<1> QED
  BY <1>1, <1>7, PushInv

-----------------------------------------------------------------------------
LEMMA InitInv == ConvertInit => ConvertInv
<1> SUFFICES ASSUME ConvertInit PROVE ConvertInv
  OBVIOUS
<1>1. /\ file \in Files /\ win = 1 /\ next = 0 /\ ssp = <<>> /\ vcd_trgt = FALSE
      /\ processed = 0 /\ cur_o_pos = 0 /\ cur_win = <<>> /\ cur_win_size = 0
      /\ num_add_bytes = 0 /\ total_content_len = 0 /\ sections = <<>> /\ result = "running"
  BY DEF ConvertInit
<1>2. Len(file.windows) \in Nat /\ file.windows \in Seq(Window)
  BY <1>1, FileFacts
<1>3. \A w \in 1 .. Len(file.windows) : Len(file.windows[w].insts) \in Nat
  BY <1>1, WindowFacts
<1>4. ConvertTypeOK
  <2>1. win \in 1 .. Len(file.windows) + 1
    BY <1>1, <1>2
  <2>2. next \in Nat /\ (win <= Len(file.windows) => next <= Len(file.windows[win].insts) + 1)
    BY <2>1, <1>1, <1>2, <1>3
  <2>3. /\ ssp \in Seq(Nat) /\ vcd_trgt \in BOOLEAN /\ processed \in Nat /\ cur_o_pos \in Nat
        /\ cur_win \in Seq(SparseOp) /\ sections \in Seq(WrittenSection)
    BY <1>1, EmptySeq
  <2> QED
    BY <2>1, <2>2, <2>3, <1>1 DEF ConvertTypeOK
<1>5. InPlace
  <2>1. CASE 1 <= Len(file.windows)
    <3>1. 1 \in 1 .. Len(file.windows) /\ ~ (1 > Len(file.windows))
      BY <2>1, <1>2
    <3>2. file.windows[1].from = 0
      BY <3>1, <1>1, FileFacts
    <3> QED
      BY <3>1, <3>2, <1>1 DEF InPlace, InstPlace
  <2>2. CASE ~ (1 <= Len(file.windows))
    <3>1. file.windows = <<>> /\ 1 > Len(file.windows)
      BY <2>2, <1>2
    <3>2. Len(file.out) = 0
      BY <3>1, <1>1, FileFacts
    <3> QED
      BY <3>1, <3>2, <1>1 DEF InPlace, InstPlace
  <2> QED
    BY <2>1, <2>2
<1>6. Row(cur_win, 0, 0) /\ MakesTarget(cur_win) /\ Len(sections) = 0 /\ WrittenUpTo(0) = 0
  BY <1>1 DEF Row, MakesTarget, WrittenUpTo
<1>7. PartConverted /\ AddsUp /\ Follows /\ FailsOnlyOnLongPeriods
  BY <1>1, <1>6, Limits DEF PartConverted, AddsUp, Follows, FailsOnlyOnLongPeriods
<1>8. ConvertedMeaning
  BY <1>1, <1>6 DEF ConvertedMeaning, SectionsInRow, OpenInRow
<1> QED
  BY <1>1, <1>4, <1>5, <1>7, <1>8 DEF ConvertInv

(* What the steps between instructions leave as it is. *)
LEMMA StillMeant ==
    ASSUME ConvertInv,
           UNCHANGED <<file, processed, cur_o_pos, open, sections, result>>
    PROVE  AddsUp' /\ Follows' /\ ConvertedMeaning' /\ FailsOnlyOnLongPeriods'
BY DEF ConvertInv, AddsUp, LongPeriod, Follows, WrittenUpTo, ConvertedMeaning, SectionsInRow,
       OpenInRow, MakesTarget, FailsOnlyOnLongPeriods, Running, open

LEMMA ReadSummaryInv == ConvertInv /\ ReadSummary => ConvertInv'
<1> SUFFICES ASSUME ConvertInv, ReadSummary PROVE ConvertInv'
  OBVIOUS
<1> DEFINE w == file.windows[win]
<1>1. /\ win <= Len(file.windows) /\ next = 0 /\ next' = 1 /\ ssp' = w.ssp
      /\ vcd_trgt' = (vcd_trgt \/ w.target)
      /\ UNCHANGED <<file, win, processed, cur_o_pos, open, sections, result>>
  BY DEF ReadSummary, InWindow
<1>2. file \in Files /\ Len(file.windows) \in Nat /\ win \in 1 .. Len(file.windows)
  BY <1>1, FileFacts DEF ConvertInv, ConvertTypeOK
<1>3. /\ w.ssp \in Seq(Nat) /\ w.target \in BOOLEAN /\ Len(w.insts) \in Nat
      /\ w.insts \in Seq(Inst) /\ IsWindow(file, w)
  BY <1>2, WindowFacts, FileFacts
<1>4. cur_o_pos = w.from /\ ~ vcd_trgt /\ ~ (win > Len(file.windows))
  BY <1>1, <1>2 DEF ConvertInv, InPlace, InstPlace
<1>5. vcd_trgt' = w.target
  BY <1>1, <1>3, <1>4
<1>6. processed = 0
  BY <1>1 DEF ConvertInv, ConvertTypeOK, PartConverted
<1>7. ConvertTypeOK'
  <2>1. next' \in Nat /\ next' <= Len(w.insts) + 1
    BY <1>1, <1>3
  <2> QED
    BY <2>1, <1>1, <1>3, <1>5 DEF ConvertInv, ConvertTypeOK, open
<1>8. w.from = IF 1 <= Len(w.insts) THEN w.insts[1].at ELSE EndOfWindow(w)
  <2>1. CASE 1 <= Len(w.insts)
    <3>1. 1 \in 1 .. Len(w.insts)
      BY <2>1, <1>3
    <3> QED
      BY <2>1, <3>1, <1>3 DEF IsWindow
  <2>2. CASE ~ (1 <= Len(w.insts))
    <3>1. w.insts = <<>>
      BY <2>2, <1>3
    <3> QED
      BY <2>2, <3>1 DEF EndOfWindow
  <2> QED
    BY <2>1, <2>2
<1>9. InPlace'
  BY <1>1, <1>4, <1>5, <1>8 DEF InPlace, InstPlace
<1>10. PartConverted'
  BY <1>1, <1>6 DEF PartConverted
<1>11. AddsUp' /\ Follows' /\ ConvertedMeaning' /\ FailsOnlyOnLongPeriods'
  BY <1>1, StillMeant
<1> QED
  BY <1>1, <1>2, <1>7, <1>9, <1>10, <1>11 DEF ConvertInv

LEMMA EndWindowInv == ConvertInv /\ EndWindow => ConvertInv'
<1> SUFFICES ASSUME ConvertInv, EndWindow PROVE ConvertInv'
  OBVIOUS
<1> DEFINE w == file.windows[win]
<1>1. /\ win <= Len(file.windows) /\ next = Len(w.insts) + 1 /\ next' = 0 /\ win' = win + 1
      /\ ssp' = <<>> /\ vcd_trgt' = FALSE
      /\ UNCHANGED <<file, processed, cur_o_pos, open, sections, result>>
  BY DEF EndWindow, InWindow
<1>2. file \in Files /\ Len(file.windows) \in Nat /\ win \in 1 .. Len(file.windows)
        /\ file.windows \in Seq(Window)
  BY <1>1, FileFacts DEF ConvertInv, ConvertTypeOK
<1>3. Len(w.insts) \in Nat
  BY <1>2, WindowFacts
<1>4. cur_o_pos = EndOfWindow(w)
  <2>1. next # 0 /\ ~ (next <= Len(w.insts)) /\ ~ (win > Len(file.windows))
    BY <1>1, <1>2, <1>3
  <2> QED
    BY <2>1 DEF ConvertInv, InPlace, InstPlace
<1>5. processed = 0
  <2>1. ~ (next \in 1 .. Len(w.insts))
    <3> DEFINE n == Len(w.insts)
    <3>1. n \in Nat /\ next = n + 1
      BY <1>1, <1>3
    <3> HIDE DEF n
    <3>2. ~ (next \in 1 .. n)
      BY <3>1
    <3> QED
      BY <3>2 DEF n
  <2>2. processed \in Nat
    BY DEF ConvertInv, ConvertTypeOK
  <2> QED
    BY <2>1, <2>2 DEF ConvertInv, PartConverted
<1>6. ConvertTypeOK'
  <2>1. \A v \in 1 .. Len(file.windows) : Len(file.windows[v].insts) \in Nat
    BY <1>2, WindowFacts
  <2>2. /\ win' \in 1 .. Len(file.windows)' + 1 /\ next' \in Nat
        /\ win' <= Len(file.windows)' => next' <= Len(file.windows[win].insts)' + 1
    <3>1. win + 1 \in 1 .. Len(file.windows) + 1
      BY <1>2
    <3>2. win + 1 <= Len(file.windows) => 0 <= Len(file.windows[win + 1].insts) + 1
      BY <2>1, <1>2
    <3> QED
      BY <3>1, <3>2, <1>1
  <2>3. ssp' \in Seq(Nat) /\ vcd_trgt' \in BOOLEAN
    BY <1>1, EmptySeq
  <2> QED
    BY <2>2, <2>3, <1>1 DEF ConvertInv, ConvertTypeOK, open
<1>7. InPlace'
  <2>1. CASE win + 1 > Len(file.windows)
    <3>1. win = Len(file.windows) /\ file.windows # <<>>
      BY <2>1, <1>2
    <3>2. Len(file.out) = EndOfWindow(w)
      BY <3>1, <1>2, FileFacts
    <3> QED
      BY <2>1, <3>2, <1>1, <1>4 DEF InPlace, InstPlace
  <2>2. CASE ~ (win + 1 > Len(file.windows))
    <3>1. win + 1 \in 1 .. Len(file.windows) /\ win + 1 # 1 /\ win + 1 - 1 = win
      BY <2>2, <1>2
    <3>2. file.windows[win + 1].from = EndOfWindow(w)
      BY <3>1, <1>2, FileFacts
    <3> QED
      BY <2>2, <3>2, <1>1, <1>4 DEF InPlace, InstPlace
  <2> QED
    BY <2>1, <2>2
<1>8. PartConverted'
  BY <1>1, <1>5 DEF PartConverted
<1>9. AddsUp' /\ Follows' /\ ConvertedMeaning' /\ FailsOnlyOnLongPeriods'
  BY <1>1, StillMeant
<1> QED
  BY <1>1, <1>2, <1>6, <1>7, <1>8, <1>9 DEF ConvertInv

(* A section that does not add up or is too large tells of a long period. *)
LEMMA RefusedPeriod == ConvertInv /\ Refused => LongPeriod
<1> SUFFICES ASSUME ConvertInv, Refused, ~ LongPeriod PROVE FALSE
  OBVIOUS
<1>1. total_content_len = cur_win_size /\ cur_win_size <= MAX_WIN_SIZE /\ cur_win_size \in Nat
  BY DEF ConvertInv, AddsUp, ConvertTypeOK
<1> QED
  BY <1>1, Limits DEF Refused

(* The conversion stops at a section that is refused. *)
LEMMA Stops ==
    ASSUME ConvertInv, Running, Refused, result' = "error",
           UNCHANGED <<file, window, processed, cur_o_pos, open, sections>>
    PROVE  ConvertInv'
<1>1. UNCHANGED <<file, win, next, ssp, vcd_trgt, processed, cur_o_pos, cur_win, cur_win_size,
                  num_add_bytes, total_content_len, sections>>
  BY DEF window, open
<1>2. file \in Files /\ ConvertTypeOK'
  BY <1>1 DEF ConvertInv, ConvertTypeOK
<1>3. InPlace' /\ PartConverted' /\ AddsUp'
  BY <1>1 DEF ConvertInv, InPlace, InstPlace, PartConverted, TheInst, AddsUp, LongPeriod
<1>4. Follows' /\ OpenInRow'
  BY DEF Follows, OpenInRow, Running
<1>5. SectionsInRow'
  BY <1>1 DEF ConvertInv, ConvertedMeaning, SectionsInRow, MakesTarget, WrittenUpTo
<1>6. LongPeriod /\ LongPeriod' = LongPeriod
  BY <1>1, RefusedPeriod DEF LongPeriod
<1>7. ConvertedMeaning' /\ FailsOnlyOnLongPeriods'
  BY <1>4, <1>5, <1>6 DEF ConvertedMeaning, FailsOnlyOnLongPeriods, LongPeriod
<1> QED
  BY <1>1, <1>2, <1>3, <1>4, <1>7 DEF ConvertInv

LEMMA EndOfFileInv == ConvertInv /\ EndOfFile => ConvertInv'
<1> SUFFICES ASSUME ConvertInv, EndOfFile PROVE ConvertInv'
  OBVIOUS
<1>1. CASE Refused
  BY <1>1, Stops DEF EndOfFile
<1>2. CASE ~ Refused
  <2>1. /\ Running /\ win > Len(file.windows) /\ result' = "ok"
        /\ sections' = Append(sections, Written(FALSE))
        /\ UNCHANGED <<file, win, next, ssp, vcd_trgt, processed, cur_o_pos, cur_win, cur_win_size,
                       num_add_bytes, total_content_len>>
    BY <1>2 DEF EndOfFile, window, open
  <2>2. SectionsInRow' /\ Written(FALSE) \in WrittenSection
    BY <2>1, <1>2, SectionWritten
  <2>3. sections' \in Seq(WrittenSection)
    BY <2>1, <2>2, AppendAt DEF ConvertInv, ConvertTypeOK
  <2>4. file \in Files /\ ConvertTypeOK'
    BY <2>1, <2>3 DEF ConvertInv, ConvertTypeOK
  <2>5. InPlace' /\ PartConverted' /\ AddsUp'
    BY <2>1 DEF ConvertInv, InPlace, InstPlace, PartConverted, TheInst, AddsUp, LongPeriod
  <2>6. Follows' /\ OpenInRow' /\ FailsOnlyOnLongPeriods'
    BY <2>1 DEF Follows, OpenInRow, Running, FailsOnlyOnLongPeriods
  <2>7. cur_o_pos' = Len(file.out)'
    BY <2>1 DEF ConvertInv, InPlace, InstPlace
  <2>8. ConvertedMeaning'
    BY <2>2, <2>6, <2>7 DEF ConvertedMeaning
  <2> QED
    BY <2>1, <2>4, <2>5, <2>6, <2>8 DEF ConvertInv
<1> QED
  BY <1>1, <1>2

LEMMA NextInv == ConvertInv /\ [ConvertNext]_convertVars => ConvertInv'
<1> SUFFICES ASSUME ConvertInv, [ConvertNext]_convertVars PROVE ConvertInv'
  OBVIOUS
<1>1. CASE ReadSummary
  BY <1>1, ReadSummaryInv
<1>2. CASE EndWindow
  BY <1>2, EndWindowInv
<1>3. CASE ConvertAdd
  BY <1>3, ConvertAddInv
<1>4. CASE ConvertRun
  BY <1>4, ConvertRunInv
<1>5. CASE ConvertCopyS
  BY <1>5, ConvertCopySInv
<1>6. CASE ConvertCopyT
  BY <1>6, ConvertCopyTInv
<1>7. CASE ConvertCopyQ
  BY <1>7, ConvertCopyQInv
<1>8. CASE FlushFails
  BY <1>8, Stops DEF FlushFails, HasInst, InWindow
<1>9. CASE EndOfFile
  BY <1>9, EndOfFileInv
<1>10. CASE UNCHANGED convertVars
  <2>1. UNCHANGED <<file, win, next, ssp, vcd_trgt, processed, cur_o_pos, open, sections, result>>
          /\ UNCHANGED <<cur_win, cur_win_size, num_add_bytes, total_content_len>>
    BY <1>10 DEF convertVars, window, open
  <2>2. AddsUp' /\ Follows' /\ ConvertedMeaning' /\ FailsOnlyOnLongPeriods'
    BY <2>1, StillMeant
  <2>3. file' \in Files /\ ConvertTypeOK'
    BY <2>1 DEF ConvertInv, ConvertTypeOK
  <2>4. InPlace' /\ PartConverted'
    BY <2>1 DEF ConvertInv, InPlace, InstPlace, PartConverted, TheInst
  <2> QED
    BY <2>2, <2>3, <2>4 DEF ConvertInv
<1> QED
  BY <1>1, <1>2, <1>3, <1>4, <1>5, <1>6, <1>7, <1>8, <1>9, <1>10 DEF ConvertNext

(* The invariant that the three properties rest on                          *)
(* (convert_vcdiff_to_smdiff).                                              *)
THEOREM InvCorrect == ConvertSpec => []ConvertInv
<1>1. ConvertInit => ConvertInv
  BY InitInv
<1>2. ConvertInv /\ [ConvertNext]_convertVars => ConvertInv'
  BY NextInv
<1> QED
  BY <1>1, <1>2, PTL DEF ConvertSpec

(* Every section, the open one too, is of operations that fit the fields of *)
(* a patch, also when the cast of a length wrapped                          *)
(* (convert_vcdiff_to_smdiff).                                              *)
THEOREM TypeCorrect == ConvertSpec => []ConvertTypeOK
<1>1. ConvertInv => ConvertTypeOK
  BY DEF ConvertInv
<1> QED
  BY <1>1, InvCorrect, PTL

(* The sections written make the target file of any valid VCDIFF file, from *)
(* its begin and without a gap (convert_vcdiff_to_smdiff).                  *)
THEOREM MeaningCorrect == ConvertSpec => []ConvertedMeaning
<1>1. ConvertInv => ConvertedMeaning
  BY DEF ConvertInv
<1> QED
  BY <1>1, InvCorrect, PTL

(* Only a copy that repeats more bytes than a u16 holds makes the           *)
(* conversion fail (the cast of a copy's length, write_ops).                *)
THEOREM FailsCorrect == ConvertSpec => []FailsOnlyOnLongPeriods
<1>1. ConvertInv => FailsOnlyOnLongPeriods
  BY DEF ConvertInv
<1> QED
  BY <1>1, InvCorrect, PTL
-----------------------------------------------------------------------------
(* What the counts of the open section say, and that a header repeats them. *)
SumsInv ==
    /\ total_content_len = TotalSize(cur_win)
    /\ num_add_bytes = TotalAdds(cur_win)
    /\ HeadersMatch

LEMMA SizesOfOps ==
    ASSUME NEW list \in Seq(SparseOp), NEW n \in 1 .. Len(list)
    PROVE  oal(list[n].op) \in Nat
<1>1. list[n].op \in Op
  <2>1. list[n] \in SparseOp
    OBVIOUS
  <2> QED
    BY <2>1 DEF SparseOp
<1>2. ASSUME NEW op \in AddOps PROVE oal(op) \in Nat
  <2> DEFINE len == Len(op.bytes)
  <2>1. len \in Nat /\ oal(op) = len % (MAX_INST_SIZE + 1)
    BY DEF AddOps, oal, is_add
  <2> HIDE DEF len
  <2> QED
    BY <2>1, Limits
<1>3. ASSUME NEW op \in RunOps \cup CopyOps PROVE oal(op) \in Nat
  <2>1. op.len \in Nat
    BY Limits DEF RunOps, CopyOps
  <2>2. oal(op) = op.len
    BY DEF RunOps, CopyOps, oal, is_add
  <2> QED
    BY <2>1, <2>2
<1>4. list[n].op \in AddOps \/ list[n].op \in RunOps \cup CopyOps
  BY <1>1 DEF Op
<1> QED
  BY <1>2, <1>3, <1>4

LEMMA TotalsOfNone == TotalSize(<<>>) = 0 /\ TotalAdds(<<>>) = 0
<1>1. Len(<<>>) = 0 /\ 0 \in Nat
  OBVIOUS
<1>2. RunningSum([n \in 1 .. 0 |-> oal(<<>>[n].op)], 0)[0] = 0
  BY RunningSumIs
<1>3. RunningSum([n \in 1 .. 0 |-> IF is_add(<<>>[n].op) THEN oal(<<>>[n].op) ELSE 0], 0)[0] = 0
  BY RunningSumIs
<1> QED
  BY <1>1, <1>2, <1>3 DEF TotalSize, TotalAdds

LEMMA TotalsOfMore ==
    ASSUME NEW list \in Seq(SparseOp), NEW s, Append(list, s) \in Seq(SparseOp)
    PROVE  /\ TotalSize(Append(list, s)) = TotalSize(list) + oal(s.op)
           /\ TotalAdds(Append(list, s))
                 = TotalAdds(list) + (IF is_add(s.op) THEN oal(s.op) ELSE 0)
<1> DEFINE more == Append(list, s)
           m == Len(list)
           size == [n \in 1 .. m |-> oal(list[n].op)]
           sizes == [n \in 1 .. m + 1 |-> oal(more[n].op)]
           adds(t) == IF is_add(t.op) THEN oal(t.op) ELSE 0
           add == [n \in 1 .. m |-> adds(list[n])]
           addss == [n \in 1 .. m + 1 |-> adds(more[n])]
<1>1. m \in Nat /\ Len(more) = m + 1 /\ more[m + 1] = s /\ \A n \in 1 .. m : more[n] = list[n]
  OBVIOUS
<1>2. \A n \in 1 .. m + 1 : oal(more[n].op) \in Nat
  BY <1>1, SizesOfOps
<1>3. \A n \in 1 .. m + 1 : adds(more[n]) \in Nat
  BY <1>2
<1> HIDE DEF more, m, adds
<1>4. /\ m \in Nat /\ \A n \in 1 .. m : size[n] = sizes[n]
      /\ \A n \in 1 .. m + 1 : sizes[n] \in Nat
  BY <1>1, <1>2
<1>5. /\ m \in Nat /\ \A n \in 1 .. m : add[n] = addss[n]
      /\ \A n \in 1 .. m + 1 : addss[n] \in Nat
  BY <1>1, <1>3
<1>6. m + 1 \in 1 .. m + 1 /\ sizes[m + 1] = oal(s.op) /\ addss[m + 1] = adds(s)
  BY <1>1
<1>7. RunningSum(sizes, m + 1)[m + 1] = RunningSum(size, m)[m] + sizes[m + 1]
  <2> HIDE DEF size, sizes
  <2> QED
    BY <1>4, RunningSumMore
<1>8. RunningSum(addss, m + 1)[m + 1] = RunningSum(add, m)[m] + addss[m + 1]
  <2> HIDE DEF add, addss
  <2> QED
    BY <1>5, RunningSumMore
<1>9. TotalSize(more) = RunningSum(sizes, m + 1)[m + 1] /\ TotalSize(list) = RunningSum(size, m)[m]
  BY <1>1 DEF TotalSize, sizes, size, m
<1>10. TotalAdds(more) = RunningSum(addss, m + 1)[m + 1] /\ TotalAdds(list) = RunningSum(add, m)[m]
  BY <1>1 DEF TotalAdds, addss, add, m, adds
<1> QED
  BY <1>6, <1>7, <1>8, <1>9, <1>10 DEF more, adds

LEMMA WrittenMatches ==
    ASSUME ConvertInv, SumsInv, Running, ~ Refused, NEW more \in BOOLEAN,
           sections' = Append(sections, Written(more)),
           more <=> ~ (result' = "ok")
    PROVE  HeadersMatch'
<1> DEFINE n == Len(sections)
<1>1. n \in Nat /\ Len(sections') = n + 1 /\ sections'[n + 1] = Written(more)
        /\ \A k \in 1 .. n : sections'[k] = sections[k]
  BY DEF ConvertInv, ConvertTypeOK
<1>2. cur_win_size <= MAX_WIN_SIZE /\ cur_win_size = total_content_len
  BY Limits DEF Refused, ConvertInv, ConvertTypeOK
<1> HIDE DEF n
<1> SUFFICES ASSUME NEW k \in 1 .. n + 1
             PROVE  /\ sections'[k].num_operations = Len(sections'[k].ops)
                    /\ sections'[k].num_add_bytes = TotalAdds(sections'[k].ops)
                    /\ sections'[k].output_size = TotalSize(sections'[k].ops)
                    /\ sections'[k].output_size <= MAX_WIN_SIZE
                    /\ sections'[k].more_sections <=> ~ (result' = "ok" /\ k = n + 1)
  BY <1>1 DEF HeadersMatch
<1>3. CASE k \in 1 .. n
  <2>1. k # n + 1 /\ ~ (result = "ok")
    BY <1>1, <1>3 DEF Running
  <2> QED
    BY <1>1, <1>3, <2>1 DEF SumsInv, HeadersMatch, n
<1>4. CASE k = n + 1
  BY <1>1, <1>2, <1>4 DEF Written, SumsInv
<1> QED
  BY <1>1, <1>3, <1>4

LEMMA PushSums ==
    ASSUME ConvertInv, SumsInv, HasInst, NEW op, PushPiece(op), ConvertTypeOK',
           is_add(op) => oal(op) = Piece
    PROVE  SumsInv'
<1> DEFINE s == [at |-> cur_o_pos + processed, op |-> op]
           adds == IF is_add(op) THEN Piece ELSE 0
<1>1. /\ ~ (Overflows /\ Refused) /\ result' = result /\ Running
      /\ sections' = IF Overflows THEN Append(sections, Written(TRUE)) ELSE sections
      /\ cur_win' = IF Overflows THEN <<s>> ELSE Append(cur_win, s)
      /\ num_add_bytes' = IF Overflows THEN adds ELSE num_add_bytes + adds
      /\ total_content_len' = IF Overflows THEN oal(op) ELSE total_content_len + oal(op)
  BY DEF PushPiece, HasInst, InWindow
<1>2. cur_win \in Seq(SparseOp) /\ cur_win' \in Seq(SparseOp)
  BY DEF ConvertInv, ConvertTypeOK
<1>3. s.op = op /\ adds = IF is_add(s.op) THEN oal(s.op) ELSE 0
  OBVIOUS
<1> HIDE DEF s, adds
<1>4. CASE ~ Overflows
  <2>1. /\ TotalSize(cur_win') = TotalSize(cur_win) + oal(op)
        /\ TotalAdds(cur_win') = TotalAdds(cur_win) + adds
    BY <1>1, <1>2, <1>3, <1>4, TotalsOfMore
  <2>2. HeadersMatch'
    BY <1>1, <1>4 DEF SumsInv, HeadersMatch
  <2> QED
    BY <1>1, <1>4, <2>1, <2>2 DEF SumsInv
<1>5. CASE Overflows
  <2>1. cur_win' = Append(<<>>, s) /\ <<>> \in Seq(SparseOp)
    BY <1>1, <1>5
  <2>2. TotalSize(cur_win') = 0 + oal(op) /\ TotalAdds(cur_win') = 0 + adds
    BY <1>2, <1>3, <2>1, TotalsOfMore, TotalsOfNone
  <2>3. oal(op) \in Nat /\ adds \in Nat
    <3>1. Len(cur_win') = 1 /\ cur_win'[1] = s
      BY <1>1, <1>5
    <3>2. oal(cur_win'[1].op) \in Nat
      BY <1>2, <3>1, SizesOfOps
    <3> QED
      BY <1>3, <3>1, <3>2
  <2>4. HeadersMatch'
    BY <1>1, <1>5, WrittenMatches DEF Running
  <2> QED
    BY <1>1, <1>5, <2>2, <2>3, <2>4 DEF SumsInv
<1> QED
  BY <1>4, <1>5

LEMMA OtherSums ==
    ASSUME SumsInv, UNCHANGED <<open, sections>>, result' # "ok" \/ result' = result,
           result = "ok" => result' = "ok"
    PROVE  SumsInv'
BY DEF SumsInv, HeadersMatch, open

LEMMA SumsNext == ConvertInv /\ SumsInv /\ [ConvertNext]_convertVars => SumsInv'
<1> SUFFICES ASSUME ConvertInv, SumsInv, [ConvertNext]_convertVars PROVE SumsInv'
  OBVIOUS
<1>1. ConvertTypeOK'
  BY NextInv DEF ConvertInv
<1>2. CASE ConvertAdd
  <2> DEFINE op == Add(SubSeq(TheInst.bytes, processed + 1, processed + Piece))
  <2>1. HasInst /\ TheInst.op = "Add" /\ PushPiece(op)
    BY <1>2 DEF ConvertAdd
  <2>2. oal(op) = Piece
    <3>1. FitsPiece([at |-> cur_o_pos + processed, op |-> op])
      BY <2>1, AddFits
    <3>2. Piece <= MAX_INST_SIZE /\ Piece \in Nat
      BY <2>1, PiecePlace
    <3> HIDE DEF op
    <3> QED
      BY <3>1, <3>2, Limits DEF FitsPiece
  <2> HIDE DEF op
  <2> QED
    BY <1>1, <2>1, <2>2, PushSums
<1>3. CASE ConvertRun
  <2>1. HasInst /\ PushPiece(Run(TheInst.byte, Piece)) /\ ~ is_add(Run(TheInst.byte, Piece))
    BY <1>3 DEF ConvertRun, Run, is_add
  <2> QED
    BY <1>1, <2>1, PushSums
<1>4. ASSUME HasInst, NEW from, NEW addr, NEW len, PushPiece(Copy(from, addr, len)) PROVE SumsInv'
  <2>1. ~ is_add(Copy(from, addr, len))
    BY DEF Copy, is_add
  <2> QED
    BY <1>1, <1>4, <2>1, PushSums
<1>5. CASE ConvertCopyS \/ ConvertCopyT \/ ConvertCopyQ
  BY <1>4, <1>5 DEF ConvertCopyS, ConvertCopyT, ConvertCopyQ
<1>6. CASE ReadSummary \/ EndWindow \/ FlushFails \/ UNCHANGED convertVars
  <2>1. UNCHANGED <<open, sections>> /\ (result' # "ok" \/ result' = result)
          /\ (result = "ok" => result' = "ok")
    BY <1>6 DEF ReadSummary, EndWindow, FlushFails, HasInst, InWindow, Running, convertVars, open
  <2> QED
    BY <2>1, OtherSums
<1>7. CASE EndOfFile
  <2>1. CASE Refused
    <3>1. UNCHANGED <<open, sections>> /\ result' # "ok" /\ result # "ok"
      BY <1>7, <2>1 DEF EndOfFile, Running
    <3> QED
      BY <3>1, OtherSums
  <2>2. CASE ~ Refused
    <3>1. /\ Running /\ sections' = Append(sections, Written(FALSE)) /\ result' = "ok"
          /\ UNCHANGED <<cur_win, num_add_bytes, total_content_len>>
      BY <1>7, <2>2 DEF EndOfFile, open
    <3>2. HeadersMatch'
      BY <2>2, <3>1, WrittenMatches
    <3> QED
      BY <3>1, <3>2 DEF SumsInv
  <2> QED
    BY <2>1, <2>2
<1> QED
  BY <1>2, <1>3, <1>5, <1>6, <1>7 DEF ConvertNext

LEMMA SumsInit == ConvertInit => SumsInv
BY TotalsOfNone DEF ConvertInit, SumsInv, HeadersMatch

(* The header of every section written says what its operations add up to,  *)
(* also where a length wrapped in the cast: such a section is not written   *)
(* (convert_vcdiff_to_smdiff, write_ops).                                   *)
THEOREM HeadersCorrect == ConvertSpec => []HeadersMatch
<1>1. SumsInv => HeadersMatch
  BY DEF SumsInv
<1> QED
  BY <1>1, InvCorrect, SumsInit, SumsNext, PTL DEF ConvertSpec
=============================================================================
