--------------------------- MODULE VcdiffConvert ---------------------------
(***************************************************************************)
(* smdiff-vcdiff/src/lib.rs: convert_vcdiff_to_smdiff.  The instructions   *)
(* of a VCDIFF file, read by the external vcdiff crates window by window,  *)
(* become operations, and these sections that have nothing to do with the  *)
(* windows.  VCDIFF addresses copies in U, the window's source segment     *)
(* followed by what the window makes; smdiff addresses the dictionary or   *)
(* the whole output.                                                       *)
(*                                                                         *)
(* A copy's type is the external reader's: S from the segment, T from the  *)
(* window, Q from the window up to what the copy itself makes, so that the *)
(* bytes from u_pos up to its own place u_start repeat.  len is what the   *)
(* copy adds to the output, which for a Q (len_o) may be less than what    *)
(* would repeat.                                                           *)
(***************************************************************************)
EXTENDS PlacedOps

CONSTANTS MAX_WIN_SIZE, \* largest output of a section: 2^24 - 1
          Files         \* VCDIFF files, with the source and the target file

Smaller(m, n) == IF m < n THEN m ELSE n

-----------------------------------------------------------------------------
(* The byte at place k of U, for a window of the file c (RFC 3284). *)
Segment(c, w) == IF w.target THEN c.out ELSE c.src
InU(c, w, k) ==
    IF k <= w.size THEN Segment(c, w)[w.ssp[1] + k] ELSE c.out[w.from + k - w.size]

InstSize(inst) == IF inst.op = "Add" THEN Len(inst.bytes) ELSE inst.len

(* How many bytes repeat in a copy of type Q. *)
Period(inst) == inst.u_start - inst.u_pos

CopyTypeOK(w, inst) ==
    /\ inst.u_start = w.size + inst.at - w.from
    /\ CASE inst.type = "S" -> inst.u_pos + inst.len <= w.size
         [] inst.type = "T" -> w.size <= inst.u_pos /\ inst.u_pos + inst.len <= inst.u_start
         [] inst.type = "Q" -> w.size <= inst.u_pos /\ inst.u_pos < inst.u_start

IsInst(c, w, inst) ==
    /\ inst.at >= w.from /\ InstSize(inst) > 0 /\ inst.at + InstSize(inst) <= Len(c.out)
    /\ CASE inst.op = "Add" -> \A j \in 1 .. InstSize(inst) : inst.bytes[j] = c.out[inst.at + j]
         [] inst.op = "Run" -> \A j \in 1 .. InstSize(inst) : inst.byte = c.out[inst.at + j]
         [] inst.op = "Copy" ->
               /\ CopyTypeOK(w, inst)
               /\ \A j \in 1 .. InstSize(inst) : InU(c, w, inst.u_pos + j) = c.out[inst.at + j]

(* A window's source segment exists by the time that the window is made. *)
IsWindow(c, w) ==
    /\ w.size > 0 => w.ssp # <<>>
    /\ w.ssp # <<>> => w.ssp[1] + w.size <= (IF w.target THEN w.from ELSE Len(c.src))
    /\ \A n \in 1 .. Len(w.insts) :
          /\ w.insts[n].at = IF n = 1 THEN w.from
                             ELSE w.insts[n - 1].at + InstSize(w.insts[n - 1])
          /\ IsInst(c, w, w.insts[n])

EndOfWindow(w) ==
    IF w.insts = <<>> THEN w.from
    ELSE w.insts[Len(w.insts)].at + InstSize(w.insts[Len(w.insts)])

Inst ==
    [op : {"Add"}, at : Nat, bytes : Seq(Byte)]
    \cup [op : {"Run"}, at : Nat, byte : Byte, len : Nat]
    \cup [op : {"Copy"}, at : Nat, type : {"S", "T", "Q"}, u_pos : Nat, u_start : Nat, len : Nat]

Window == [ssp : Seq(Nat), size : Nat, target : BOOLEAN,
           from : Nat, insts : Seq(Inst)]

ASSUME ConvertAssumption ==
    /\ MAX_WIN_SIZE \in Nat /\ MAX_INST_SIZE <= MAX_WIN_SIZE
    /\ \A c \in Files :
          /\ c.src \in Seq(Byte) /\ c.out \in Seq(Byte)
          /\ c.windows \in Seq(Window)
          /\ \A w \in 1 .. Len(c.windows) :
                /\ c.windows[w].from = IF w = 1 THEN 0 ELSE EndOfWindow(c.windows[w - 1])
                /\ IsWindow(c, c.windows[w])
          /\ Len(c.out) = IF c.windows = <<>> THEN 0
                          ELSE EndOfWindow(c.windows[Len(c.windows)])

-----------------------------------------------------------------------------
VARIABLES file,          \* the VCDIFF file
          win,           \* the window that the next message is of
          next,          \* its next instruction; 0 before its summary
          ssp, vcd_trgt, \* the source segment, as the last messages said
          processed,     \* bytes of the instruction converted so far
          cur_o_pos,     \* output position of the instruction
          cur_win,       \* the operations of the open section, with their places
          cur_win_size, num_add_bytes, \* its totals
          total_content_len,           \* what write_ops will find its size to be
          sections,      \* the sections written
          result         \* "running", then "ok" or "error"

window == <<win, next, ssp, vcd_trgt>>
open == <<cur_win, cur_win_size, num_add_bytes, total_content_len>>
convertVars == <<file, window, processed, cur_o_pos, open, sections, result>>

ConvertInit ==
    /\ file \in Files
    /\ win = 1 /\ next = 0
    /\ ssp = <<>> /\ vcd_trgt = FALSE
    /\ processed = 0 /\ cur_o_pos = 0
    /\ cur_win = <<>> /\ cur_win_size = 0 /\ num_add_bytes = 0 /\ total_content_len = 0
    /\ sections = <<>>
    /\ result = "running"

Running == result = "running"
InWindow == Running /\ win <= Len(file.windows)

ReadSummary ==
    /\ InWindow /\ next = 0
    /\ ssp' = file.windows[win].ssp
    /\ vcd_trgt' = (vcd_trgt \/ file.windows[win].target)
    /\ next' = 1
    /\ UNCHANGED <<file, win, processed, cur_o_pos, open, sections, result>>

(* Faulty: the kind of the source segment outlives its window. *)
EndWindowKeepsTarget ==
    /\ InWindow /\ next = Len(file.windows[win].insts) + 1
    /\ ssp' = <<>>
    /\ win' = win + 1 /\ next' = 0
    /\ UNCHANGED <<file, vcd_trgt, processed, cur_o_pos, open, sections, result>>

EndWindow ==
    /\ InWindow /\ next = Len(file.windows[win].insts) + 1
    /\ ssp' = <<>> /\ vcd_trgt' = FALSE
    /\ win' = win + 1 /\ next' = 0
    /\ UNCHANGED <<file, processed, cur_o_pos, open, sections, result>>

HasInst == InWindow /\ next \in 1 .. Len(file.windows[win].insts)
TheInst == file.windows[win].insts[next]

(* What write_section_header and write_ops make of the open section. *)
Written(more) ==
    [num_operations |-> Len(cur_win), num_add_bytes |-> num_add_bytes,
     output_size |-> cur_win_size, more_sections |-> more, ops |-> cur_win]

Refused == cur_win_size > MAX_WIN_SIZE \/ total_content_len # cur_win_size

(* Faulty: a Run is cut like an Add. *)
PieceLimitOfRuns(inst) ==
    IF inst.op = "Copy" /\ inst.type = "Q" THEN Period(inst) ELSE MAX_INST_SIZE

(* The most that one operation takes of an instruction: the bytes that a    *)
(* copy's output repeats are not compared with what a u16 holds.            *)
PieceLimit(inst) ==
    CASE inst.op = "Run" -> MAX_RUN_LEN
      [] inst.op = "Copy" /\ inst.type = "Q" -> Period(inst)
      [] OTHER -> MAX_INST_SIZE

Piece == Smaller(InstSize(TheInst) - processed, PieceLimit(TheInst))

(* Faulty: the section is closed when it is over its limit already. *)
OverflowsAlready == cur_win_size > MAX_WIN_SIZE

Overflows == cur_win_size + Piece > MAX_WIN_SIZE

(* Faulty: the count of Add bytes runs on into the next section. *)
PushPieceKeepsAddBytes(op) ==
    LET s == [at |-> cur_o_pos + processed, op |-> op]
        adds == IF is_add(op) THEN Piece ELSE 0
        last == processed + Piece = InstSize(TheInst)
    IN /\ ~ (Overflows /\ Refused)
       /\ sections' = IF Overflows THEN Append(sections, Written(TRUE)) ELSE sections
       /\ cur_win' = IF Overflows THEN <<s>> ELSE Append(cur_win, s)
       /\ cur_win_size' = IF Overflows THEN Piece ELSE cur_win_size + Piece
       /\ num_add_bytes' = num_add_bytes + adds
       /\ total_content_len' = IF Overflows THEN oal(op) ELSE total_content_len + oal(op)
       /\ processed' = IF last THEN 0 ELSE processed + Piece
       /\ cur_o_pos' = IF last THEN cur_o_pos + InstSize(TheInst) ELSE cur_o_pos
       /\ next' = IF last THEN next + 1 ELSE next
       /\ UNCHANGED <<file, win, ssp, vcd_trgt, result>>

(* The operation that a piece becomes.  If it does not fit the open section, *)
(* that is written first.                                                   *)
PushPiece(op) ==
    LET s == [at |-> cur_o_pos + processed, op |-> op]
        adds == IF is_add(op) THEN Piece ELSE 0
        last == processed + Piece = InstSize(TheInst)
    IN /\ ~ (Overflows /\ Refused)
       /\ sections' = IF Overflows THEN Append(sections, Written(TRUE)) ELSE sections
       /\ cur_win' = IF Overflows THEN <<s>> ELSE Append(cur_win, s)
       /\ cur_win_size' = IF Overflows THEN Piece ELSE cur_win_size + Piece
       /\ num_add_bytes' = IF Overflows THEN adds ELSE num_add_bytes + adds
       /\ total_content_len' = IF Overflows THEN oal(op) ELSE total_content_len + oal(op)
       /\ processed' = IF last THEN 0 ELSE processed + Piece
       /\ cur_o_pos' = IF last THEN cur_o_pos + InstSize(TheInst) ELSE cur_o_pos
       /\ next' = IF last THEN next + 1 ELSE next
       /\ UNCHANGED <<file, win, ssp, vcd_trgt, result>>

ConvertAdd ==
    /\ HasInst /\ TheInst.op = "Add"
    /\ PushPiece(Add(SubSeq(TheInst.bytes, processed + 1, processed + Piece)))

ConvertRun ==
    /\ HasInst /\ TheInst.op = "Run"
    /\ PushPiece(Run(TheInst.byte, Piece))

ConvertCopyS ==
    /\ HasInst /\ TheInst.op = "Copy" /\ TheInst.type = "S"
    /\ PushPiece(Copy(IF vcd_trgt THEN "Output" ELSE "Dict",
                      ssp[1] + TheInst.u_pos + processed, Piece))

ConvertCopyT ==
    /\ HasInst /\ TheInst.op = "Copy" /\ TheInst.type = "T"
    /\ PushPiece(Copy("Output", cur_o_pos - (TheInst.u_start - TheInst.u_pos) + processed,
                      Piece))

(* Each piece copies the bytes that repeat, from where they are first; their *)
(* number is cast to a u16.                                                 *)
ConvertCopyQ ==
    /\ HasInst /\ TheInst.op = "Copy" /\ TheInst.type = "Q"
    /\ PushPiece(Copy("Output", cur_o_pos - Period(TheInst),
                      Piece % (MAX_INST_SIZE + 1)))

(* The next operation does not fit and write_ops refuses the open section. *)
FlushFails ==
    /\ HasInst /\ Overflows /\ Refused
    /\ result' = "error"
    /\ UNCHANGED <<file, window, processed, cur_o_pos, open, sections>>

(* The end of the file: what is open is the terminal section. *)
EndOfFile ==
    /\ Running /\ win > Len(file.windows)
    /\ result' = IF Refused THEN "error" ELSE "ok"
    /\ sections' = IF Refused THEN sections ELSE Append(sections, Written(FALSE))
    /\ UNCHANGED <<file, window, processed, cur_o_pos, open>>

ConvertNext ==
    \/ ReadSummary \/ EndWindow \/ ConvertAdd \/ ConvertRun
    \/ ConvertCopyS \/ ConvertCopyT \/ ConvertCopyQ \/ FlushFails \/ EndOfFile

ConvertSpec == ConvertInit /\ [][ConvertNext]_convertVars

-----------------------------------------------------------------------------
WrittenSection ==
    [num_operations : Nat, num_add_bytes : Nat, output_size : Nat,
     more_sections : BOOLEAN, ops : Seq(SparseOp)]

ConvertTypeOK ==
    /\ win \in 1 .. Len(file.windows) + 1
    /\ next \in Nat /\ (win <= Len(file.windows) => next <= Len(file.windows[win].insts) + 1)
    /\ ssp \in Seq(Nat) /\ vcd_trgt \in BOOLEAN
    /\ processed \in Nat /\ cur_o_pos \in Nat
    /\ cur_win \in Seq(SparseOp)
    /\ cur_win_size \in Nat /\ num_add_bytes \in Nat /\ total_content_len \in Nat
    /\ sections \in Seq(WrittenSection)
    /\ result \in {"running", "ok", "error"}

MakesTarget(list) == \A n \in 1 .. Len(list) : Yields(list[n], file.src, file.out)

(* Where the first n sections end. *)
WrittenUpTo(n) == IF n = 0 THEN 0 ELSE EndOf(sections[n].ops[Len(sections[n].ops)])

SectionsInRow ==
    \A k \in 1 .. Len(sections) :
        /\ MakesTarget(sections[k].ops)
        /\ Row(sections[k].ops, WrittenUpTo(k - 1), WrittenUpTo(k - 1) + sections[k].output_size)

OpenInRow ==
    Running /\ total_content_len = cur_win_size =>
        /\ MakesTarget(cur_win)
        /\ Row(cur_win, cur_o_pos + processed - cur_win_size, cur_o_pos + processed)

(* What is written makes the target file, from its begin and without a gap, *)
(* though windows and sections begin at different places: each copy reads,  *)
(* in the dictionary or in the whole output, the bytes that VCDIFF means by *)
(* its place in U, and only such as are there by then.                      *)
ConvertedMeaning ==
    /\ SectionsInRow /\ OpenInRow
    /\ result = "ok" => cur_o_pos = Len(file.out)

(* What placed operations, and the Adds among them, add up to. *)
TotalSize(list) ==
    RunningSum([n \in 1 .. Len(list) |-> oal(list[n].op)], Len(list))[Len(list)]
TotalAdds(list) ==
    RunningSum([n \in 1 .. Len(list) |-> IF is_add(list[n].op) THEN oal(list[n].op) ELSE 0],
               Len(list))[Len(list)]

(* The totals of a written section are those of its operations, it keeps to *)
(* the limit, and the terminal section is the last and only that one        *)
(* (SectionHeader; write_ops does not compare num_add_bytes here).          *)
HeadersMatch ==
    \A k \in 1 .. Len(sections) :
        /\ sections[k].num_operations = Len(sections[k].ops)
        /\ sections[k].num_add_bytes = TotalAdds(sections[k].ops)
        /\ sections[k].output_size = TotalSize(sections[k].ops)
        /\ sections[k].output_size <= MAX_WIN_SIZE
        /\ sections[k].more_sections <=> ~ (result = "ok" /\ k = Len(sections))

(* Only a copy that repeats more bytes than a u16 holds makes the           *)
(* conversion of a valid file fail.                                         *)
FailsOnlyOnLongPeriods ==
    result = "error" =>
        \E w \in 1 .. Len(file.windows) : \E n \in 1 .. Len(file.windows[w].insts) :
            LET inst == file.windows[w].insts[n]
            IN inst.op = "Copy" /\ inst.type = "Q" /\ Period(inst) > MAX_INST_SIZE
=============================================================================
