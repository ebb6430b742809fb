------------------------------ MODULE PlacedOps ------------------------------
(***************************************************************************)
(* Operations with their places in the output.  The merger keeps them      *)
(* (SparseOp of smdiff-merger/src/lib.rs) and so does the transcoder for   *)
(* its Runs; the modules keep them for every operation, to say of each by  *)
(* itself that it makes the bytes that belong in its place.                *)
(***************************************************************************)
EXTENDS SmdiffOps

SparseOp == [at : Nat, op : Op]

(* The bytes that an operation makes: oal without the cast to a u16. *)
SizeOf(s) == IF is_add(s.op) THEN Len(s.op.bytes) ELSE s.op.len
EndOf(s) == s.at + SizeOf(s)

(* The operations follow one another and make the output between two places. *)
Row(list, from, to) ==
    /\ \A k \in 1 .. Len(list) : list[k].at = IF k = 1 THEN from ELSE EndOf(list[k - 1])
    /\ to = IF list = <<>> THEN from ELSE EndOf(list[Len(list)])

(* Applied to src, the operation makes the bytes that out has in its place, *)
(* and a copy from the output reads only what is made before it.            *)
Yields(s, src, out) ==
    LET byte(j) == IF is_add(s.op) THEN s.op.bytes[j]
                   ELSE IF is_run(s.op) THEN s.op.byte
                   ELSE CopiedFrom(s.op, src, out)[s.op.addr + j]
    IN /\ EndOf(s) <= Len(out)
       /\ is_copy(s.op) => s.op.addr + s.op.len <= Len(CopiedFrom(s.op, src, out))
       /\ is_copy_from(s.op, "Output") => s.op.addr + s.op.len <= s.at
       /\ \A j \in 1 .. SizeOf(s) : byte(j) = out[s.at + j]
=============================================================================
