----------------------------- MODULE Transcoder -----------------------------
(***************************************************************************)
(* smdiff-merger/src/transcoder.rs: the operations of a patch are joined   *)
(* where two of a kind are neighbours, and cut again to the sizes that an  *)
(* operation can have.  What comes out is cut into sections (Sections) and *)
(* written (PatchWriter) in the format asked for.                          *)
(*                                                                         *)
(* Indices are those of the code plus one.  Each operation is kept with    *)
(* its place in the output; the code keeps that of the Runs only.          *)
(***************************************************************************)
EXTENDS PlacedOps

CONSTANT Inputs \* patches with their dictionary and the file that they make

RUN_LIMIT == 6 * MAX_RUN_LEN

(* An Add is not bounded while it is being joined. *)
JoinedOp == [at : Nat, op : AddOps \cup CopyOps
                            \cup [op : {"Run"}, byte : Byte, len : 0 .. 2 * MAX_RUN_LEN]]

ASSUME TranscoderAssumption ==
    \A c \in Inputs :
        /\ c.src \in Seq(Byte) /\ c.out \in Seq(Byte)
        /\ c.ops \in Seq(SparseOp)
        /\ Row(c.ops, 0, Len(c.out))
        /\ \A k \in 1 .. Len(c.ops) :
              SizeOf(c.ops[k]) <= MAX_INST_SIZE /\ Yields(c.ops[k], c.src, c.out)

VARIABLES given,     \* the patch
          ops,       \* its operations, being joined
          i,         \* the operation that the loop is at
          processed, \* what of it is converted already
          out_ops,   \* the operations made
          stage      \* "adds", "runs", "convert", then "done" or "panic"

transcoderVars == <<given, ops, i, processed, out_ops, stage>>

(* read_ops_from_patch; the operations are those of all sections. *)
TranscoderInit ==
    /\ given \in Inputs
    /\ ops = given.ops
    /\ i = 1 /\ processed = 0 /\ out_ops = <<>>
    /\ stage = "adds"

(* The loops run to len() - 1, which does not exist for a patch of no        *)
(* operations: the subtraction overflows, or split_at_mut finds no element. *)
PanicEmpty ==
    /\ stage = "adds" /\ ops = <<>>
    /\ stage' = "panic"
    /\ UNCHANGED <<given, ops, i, processed, out_ops>>

(* The first of two neighbours takes what the second has. *)
Joined(op) ==
    [ops EXCEPT
        ![i] = [at |-> @.at, op |-> op],
        ![i + 1] = [at |-> EndOf(@),
                    op |-> IF is_add(@.op) THEN Add(<<>>) ELSE Run(@.op.byte, 0)]]

(* Faulty: the loop goes on only when it has joined something. *)
JoinAddsWaits ==
    /\ stage = "adds" /\ i < Len(ops)
    /\ LET first == ops[i].op
           second == ops[i + 1].op
           adds == is_add(first) /\ is_add(second)
           joins == adds /\ second.bytes # <<>> /\ Len(first.bytes) < MAX_INST_SIZE
       IN /\ ops' = IF joins THEN Joined(Add(first.bytes \o second.bytes)) ELSE ops
          /\ i' = IF joins THEN i + 2 ELSE IF adds THEN i ELSE i + 1
    /\ UNCHANGED <<given, processed, out_ops, stage>>

(* join_adjacent_adds: two neighbours at a time, then it is past both. *)
JoinAdds ==
    /\ stage = "adds" /\ i < Len(ops)
    /\ LET first == ops[i].op
           second == ops[i + 1].op
           adds == is_add(first) /\ is_add(second)
       IN /\ ops' = IF adds /\ second.bytes # <<>> /\ Len(first.bytes) < MAX_INST_SIZE
                    THEN Joined(Add(first.bytes \o second.bytes)) ELSE ops
          /\ i' = IF adds THEN i + 2 ELSE i + 1
    /\ UNCHANGED <<given, processed, out_ops, stage>>

AddsJoined ==
    /\ stage = "adds" /\ ops # <<>> /\ i >= Len(ops)
    /\ stage' = "runs" /\ i' = 1
    /\ UNCHANGED <<given, ops, processed, out_ops>>

(* Faulty: the byte is not looked at. *)
JoinRunsOfAnyByte ==
    /\ stage = "runs" /\ i < Len(ops)
    /\ LET first == ops[i].op
           second == ops[i + 1].op
           runs == is_run(first) /\ is_run(second)
       IN /\ ops' = IF runs THEN Joined(Run(first.byte, first.len + second.len)) ELSE ops
          /\ i' = IF runs THEN i + 2 ELSE i + 1
    /\ UNCHANGED <<given, processed, out_ops, stage>>

(* join_adjacent_runs *)
JoinRuns ==
    /\ stage = "runs" /\ i < Len(ops)
    /\ LET first == ops[i].op
           second == ops[i + 1].op
           runs == is_run(first) /\ is_run(second)
       IN /\ ops' = IF runs /\ first.byte = second.byte
                    THEN Joined(Run(first.byte, first.len + second.len)) ELSE ops
          /\ i' = IF runs THEN i + 2 ELSE i + 1
    /\ UNCHANGED <<given, processed, out_ops, stage>>

RunsJoined ==
    /\ stage = "runs" /\ i >= Len(ops)
    /\ stage' = "convert" /\ i' = 1
    /\ UNCHANGED <<given, ops, processed, out_ops>>

Converting == stage = "convert" /\ i <= Len(ops)

(* An Add or a Run that was joined to the one before, or was empty. *)
SkipEmpty ==
    /\ Converting /\ ~ is_copy(ops[i].op) /\ SizeOf(ops[i]) = 0
    /\ i' = i + 1
    /\ UNCHANGED <<given, ops, processed, out_ops, stage>>

(* An operation made for the next bytes of ops[i]; if they are the last of   *)
(* it, the loop goes on to the next.                                        *)
Emit(op) ==
    LET s == [at |-> ops[i].at + processed, op |-> op]
        more == processed + SizeOf(s) < SizeOf(ops[i])
    IN /\ out_ops' = Append(out_ops, s)
       /\ processed' = IF more THEN processed + SizeOf(s) ELSE 0
       /\ i' = IF more THEN i ELSE i + 1
       /\ UNCHANGED <<given, ops, stage>>

ConvertCopy == Converting /\ is_copy(ops[i].op) /\ Emit(ops[i].op)

Smaller(m, n) == IF m < n THEN m ELSE n

(* Faulty: a size that a u16 just holds is cut. *)
MakeAddOpBelowLimit ==
    /\ Converting /\ is_add(ops[i].op) /\ SizeOf(ops[i]) > 0
    /\ LET bytes == ops[i].op.bytes
           size == Smaller(Len(bytes) - processed, MAX_INST_SIZE - 1)
       IN Emit(IF Len(bytes) = 1 THEN Run(bytes[1], 1)
               ELSE Add(SubSeq(bytes, processed + 1, processed + size)))

(* Faulty: a joined Add is not cut. *)
MakeAddOpUncut ==
    /\ Converting /\ is_add(ops[i].op) /\ SizeOf(ops[i]) > 0
    /\ LET bytes == ops[i].op.bytes
       IN Emit(IF Len(bytes) = 1 THEN Run(bytes[1], 1) ELSE Add(bytes))

(* make_add_ops: one byte is a Run; more are cut to what a u16 holds. *)
MakeAddOp ==
    /\ Converting /\ is_add(ops[i].op) /\ SizeOf(ops[i]) > 0
    /\ LET bytes == ops[i].op.bytes
           size == Smaller(Len(bytes) - processed, MAX_INST_SIZE)
       IN Emit(IF Len(bytes) = 1 THEN Run(bytes[1], 1)
               ELSE Add(SubSeq(bytes, processed + 1, processed + size)))

(* Faulty: a joined Run is not cut. *)
MakeRunOpUncut ==
    /\ Converting /\ is_run(ops[i].op) /\ SizeOf(ops[i]) > 0
    /\ ops[i].op.len < RUN_LIMIT
    /\ Emit(ops[i].op)

(* make_run_ops for a Run shorter than RUN_LIMIT, as two joined ones are    *)
(* (TranscoderTypeOK): the copies it makes of a longer one are out of reach. *)
MakeRunOp ==
    /\ Converting /\ is_run(ops[i].op) /\ SizeOf(ops[i]) > 0
    /\ ops[i].op.len < RUN_LIMIT
    /\ Emit(Run(ops[i].op.byte, Smaller(ops[i].op.len - processed, MAX_RUN_LEN)))

FinishTranscoder ==
    /\ stage = "convert" /\ i > Len(ops)
    /\ stage' = "done"
    /\ UNCHANGED <<given, ops, i, processed, out_ops>>

TranscoderNext ==
    \/ PanicEmpty \/ JoinAdds \/ AddsJoined \/ JoinRuns \/ RunsJoined
    \/ SkipEmpty \/ ConvertCopy \/ MakeAddOp \/ MakeRunOp \/ FinishTranscoder

(* One thread runs the loops to their ends. *)
TranscoderSpec ==
    TranscoderInit /\ [][TranscoderNext]_transcoderVars /\ WF_transcoderVars(TranscoderNext)

-----------------------------------------------------------------------------
TranscoderTypeOK ==
    /\ ops \in Seq(JoinedOp) /\ Len(ops) = Len(given.ops)
    /\ i \in 1 .. Len(ops) + 1
    /\ processed \in Nat
    /\ out_ops \in Seq(SparseOp)
    /\ stage \in {"adds", "runs", "convert", "done", "panic"}

(* How far the operations made reach. *)
Reached ==
    IF stage \in {"adds", "runs", "panic"} THEN 0
    ELSE IF i <= Len(ops) THEN ops[i].at + processed ELSE Len(given.out)

(* While neighbours are joined and cut again, both lists keep making the    *)
(* bytes that the patch makes, in its order: nothing is lost or doubled at  *)
(* a joint or a cut, and no copy reads what is not yet there (transcode).   *)
SameMeaning ==
    /\ Row(ops, 0, Len(given.out))
    /\ \A k \in 1 .. Len(ops) : Yields(ops[k], given.src, given.out)
    /\ Row(out_ops, 0, Reached)
    /\ \A k \in 1 .. Len(out_ops) : Yields(out_ops[k], given.src, given.out)

(* What is written fits the fields of a patch: no size is 0 but that of a   *)
(* copy that was given so, and none wraps in its u16 (oal, write_ops).  A   *)
(* Run's own field is smaller: TranscoderTypeOK bounds it.                  *)
SizesFit ==
    \A k \in 1 .. Len(out_ops) :
        /\ SizeOf(out_ops[k]) = oal(out_ops[k].op)
        /\ SizeOf(out_ops[k]) > 0 \/ is_copy(out_ops[k].op)

(* Transcoding makes no patch longer: what is cut was joined before. *)
NotMoreOps == Len(out_ops) <= Len(given.ops)

(* A patch with operations is transcoded to its end. *)
Transcodes == given.ops # <<>> ~> stage = "done"
=============================================================================
