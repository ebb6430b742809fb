------------------------------ MODULE Decoder ------------------------------
(***************************************************************************)
(* smdiff-decoder/src/lib.rs: apply_patch and apply_ops.  The operations   *)
(* of one section after another are applied to a sink that is written,     *)
(* read back for copies from the output, and moved about with seek.  The   *)
(* caller's sink may already hold bytes: nothing truncates it.             *)
(*                                                                         *)
(* Where the sections come from is left to the environment here (any list  *)
(* of Sections, then an end or a read error); PatchPipeline supplies them  *)
(* from the section reader.                                                *)
(***************************************************************************)
EXTENDS SmdiffOps

CONSTANTS Src,      \* the bytes of the dictionary
          Sections, \* the operation lists a section of a patch can hold
          Sinks     \* what the sink can hold when apply_patch is called

ASSUME DecoderAssumption ==
    /\ Src \in Seq(Byte)
    /\ \A s \in Sections : s \in Seq(Op)
    /\ \A s \in Sinks : s \in Seq(Byte)

VARIABLES has_src,   \* src is Some: the caller supplied a dictionary
          ops,       \* what is left of the section being applied
          sink,      \* the contents of the sink
          cursor,    \* the sink's seek position
          cur_o_pos, \* the output position, shared by all sections
          outcome    \* "running", then "ok", "error" (Err returned) or "panic"

decoderVars == <<has_src, ops, sink, cursor, cur_o_pos, outcome>>

DecoderInit ==
    /\ has_src \in BOOLEAN
    /\ ops = <<>>
    /\ sink \in Sinks
    /\ cursor = 0
    /\ cur_o_pos = 0
    /\ outcome = "running"

(* The sink's contents once bytes are written at position pos. *)
Written(s, pos, bytes) ==
    SubSeq(s, 1, pos) \o bytes \o SubSeq(s, pos + Len(bytes) + 1, Len(s))

(* write_all at the position at, then the output position moves on. *)
WriteAll(at, bytes) ==
    /\ sink' = Written(sink, at, bytes)
    /\ cursor' = at + Len(bytes)
    /\ cur_o_pos' = cur_o_pos + Len(bytes)

(* Faulty: the sink is positioned on the last byte written, not after it. *)
BeginSectionOnLastByte(section) ==
    /\ outcome = "running" /\ ops = <<>>
    /\ ops' = section
    /\ cursor' = cur_o_pos - 1
    /\ UNCHANGED <<has_src, sink, cur_o_pos, outcome>>

(* Faulty: every section believes that it begins the output. *)
BeginSectionAtZero(section) ==
    /\ outcome = "running" /\ ops = <<>>
    /\ ops' = section
    /\ cursor' = 0 /\ cur_o_pos' = 0
    /\ UNCHANGED <<has_src, sink, outcome>>

BeginSection(section) ==
    /\ outcome = "running" /\ ops = <<>>
    /\ ops' = section
    /\ cursor' = cur_o_pos
    /\ UNCHANGED <<has_src, sink, cur_o_pos, outcome>>

(* What every completed operation does besides writing. *)
Consume ==
    /\ outcome = "running" /\ ops # <<>>
    /\ ops' = Tail(ops)
    /\ UNCHANGED <<has_src, outcome>>

ApplyAdd ==
    /\ Consume /\ is_add(Head(ops))
    /\ WriteAll(cursor, Head(ops).bytes)

ApplyRun ==
    /\ Consume /\ is_run(Head(ops))
    /\ WriteAll(cursor, [i \in 1 .. Head(ops).len |-> Head(ops).byte])

(* seek goes anywhere, also past the end; read_exact of no bytes succeeds there. *)
Reaches(op, bytes) == op.len = 0 \/ op.addr + op.len <= Len(bytes)
Slice(op, bytes) == SubSeq(bytes, op.addr + 1, op.addr + op.len)

ApplyCopyDict ==
    /\ Consume /\ is_copy_from(Head(ops), "Dict")
    /\ has_src /\ Reaches(Head(ops), Src)
    /\ WriteAll(cursor, Slice(Head(ops), Src))

(* Faulty: the bytes are written where the read left the cursor. *)
ApplyCopyOutputInPlace ==
    /\ Consume /\ is_copy_from(Head(ops), "Output")
    /\ Head(ops).len > 0 /\ Reaches(Head(ops), sink)
    /\ WriteAll(Head(ops).addr + Head(ops).len, Slice(Head(ops), sink))

(* seek to the address, read_exact, seek back to the start position, write. *)
ApplyCopyOutput ==
    /\ Consume /\ is_copy_from(Head(ops), "Output")
    /\ Reaches(Head(ops), sink)
    /\ WriteAll(cur_o_pos, Slice(Head(ops), sink))

(* A copy from a dictionary nobody supplied panics. *)
PanicNoSource ==
    /\ outcome = "running" /\ ops # <<>>
    /\ is_copy_from(Head(ops), "Dict") /\ ~ has_src
    /\ outcome' = "panic"
    /\ UNCHANGED <<has_src, ops, sink, cursor, cur_o_pos>>

(* Faulty: a read that ends early is tried again. *)
CopyRetries ==
    /\ outcome = "running" /\ ops # <<>>
    /\ is_copy_from(Head(ops), "Output") /\ ~ Reaches(Head(ops), sink)
    /\ cursor' = Len(sink)
    /\ UNCHANGED <<has_src, ops, sink, cur_o_pos, outcome>>

(* read_exact meets the end: the error is returned, and a sink read from is *)
(* left wherever the failed read took its cursor.                           *)
CopyFails ==
    /\ outcome = "running" /\ ops # <<>>
    /\ LET op == Head(ops)
       IN \/ /\ is_copy_from(op, "Dict") /\ has_src /\ ~ Reaches(op, Src)
             /\ cursor' = cursor
          \/ /\ is_copy_from(op, "Output") /\ ~ Reaches(op, sink)
             /\ cursor' = IF op.addr > Len(sink) THEN op.addr ELSE Len(sink)
    /\ outcome' = "error"
    /\ UNCHANGED <<has_src, ops, sink, cur_o_pos>>

ApplyOp ==
    \/ ApplyAdd \/ ApplyRun \/ ApplyCopyDict \/ ApplyCopyOutput
    \/ PanicNoSource \/ CopyFails

(* The reader returned None, or an error that apply_patch passes on. *)
ReaderEnds(result) ==
    /\ outcome = "running" /\ ops = <<>>
    /\ outcome' = result
    /\ UNCHANGED <<has_src, ops, sink, cursor, cur_o_pos>>

NextSection == \E section \in Sections : BeginSection(section)
NoMoreSections == ReaderEnds("ok")
ReadFails == ReaderEnds("error")

DecoderNext == ApplyOp \/ NextSection \/ NoMoreSections \/ ReadFails

DecoderSpec == DecoderInit /\ [][DecoderNext]_decoderVars

-----------------------------------------------------------------------------
DecoderTypeOK ==
    /\ has_src \in BOOLEAN
    /\ ops \in Seq(Op)
    /\ sink \in Seq(Byte)
    /\ cursor \in Nat
    /\ cur_o_pos \in Nat
    /\ outcome \in {"running", "ok", "error", "panic"}

(* The output position never runs ahead of what the sink holds, and between *)
(* two operations the sink's cursor stands on it: the position kept in      *)
(* cur_o_pos and the one kept by the sink agree after every seek and write. *)
CursorAtOutputEnd ==
    /\ cur_o_pos <= Len(sink)
    /\ outcome = "running" => cursor = cur_o_pos

(* What the caller owes the decoder: a sink that already held bytes is used *)
(* only with patches whose output copies stay inside the output.  Nothing   *)
(* checks it: such a copy reads the older bytes, without an error.          *)
CopiesStayInOutput ==
    /\ ops # <<>>
    /\ is_copy_from(Head(ops), "Output")
    /\ Len(sink) > cur_o_pos
    => Head(ops).addr + Head(ops).len <= cur_o_pos

Abstract == INSTANCE PatchMeaning WITH
    pending <- ops,
    out <- SubSeq(sink, 1, cur_o_pos),
    outcome <- IF outcome \in {"error", "panic"} THEN "failed" ELSE outcome

(* Every step of the decoder is a step of the meaning of the patch, with the *)
(* first cur_o_pos bytes of the sink for its output (apply_patch and         *)
(* apply_ops), except a copy that reads what a reused sink held before; and  *)
(* after one, every other step is again.                                     *)
ImplementsMeaning ==
    /\ Abstract!MeaningInit
    /\ [][CopiesStayInOutput => Abstract!MeaningNext]_(Abstract!meaningVars)
=============================================================================
