----------------------------- MODULE SmdiffOps -----------------------------
(***************************************************************************)
(* The delta operations of smdiff (smdiff-common/src/lib.rs): Add, Copy    *)
(* from the dictionary or from the output produced so far, and Run.  Every *)
(* other module builds on these records.  A byte is an element of Byte;    *)
(* the widths of the code are parameters, so that a small instance meets   *)
(* the same boundaries as the code does at 62 and 65535.                   *)
(***************************************************************************)
EXTENDS Integers, Sequences

CONSTANTS Byte,         \* the byte values
          MAX_RUN_LEN,  \* longest Run, and longest size held in the op byte: 62
          MAX_INST_SIZE \* largest size a u16 holds: 65535

ASSUME LimitsAssumption ==
    /\ MAX_RUN_LEN \in Nat \ {0}
    /\ MAX_INST_SIZE \in Nat
    /\ MAX_RUN_LEN < MAX_INST_SIZE

Add(bytes) == [op |-> "Add", bytes |-> bytes]
Copy(src, addr, len) == [op |-> "Copy", src |-> src, addr |-> addr, len |-> len]
Run(byte, len) == [op |-> "Run", byte |-> byte, len |-> len]

CopySrc == {"Dict", "Output"}

AddOps == [op : {"Add"}, bytes : Seq(Byte)]
CopyOps == [op : {"Copy"}, src : CopySrc, addr : Nat, len : 0 .. MAX_INST_SIZE]
RunOps == [op : {"Run"}, byte : Byte, len : 0 .. MAX_RUN_LEN]
Op == AddOps \cup CopyOps \cup RunOps

is_add(op) == op.op = "Add"
is_run(op) == op.op = "Run"
is_copy(op) == op.op = "Copy"
is_copy_from(op, src) == is_copy(op) /\ op.src = src

(***************************************************************************)
(* The number of output bytes of an operation.  An Add's length is cast to *)
(* a u16, so it wraps for a slice longer than MAX_INST_SIZE.               *)
(***************************************************************************)
oal(op) == IF is_add(op) THEN Len(op.bytes) % (MAX_INST_SIZE + 1) ELSE op.len

(***************************************************************************)
(* What an operation appends to an output, given the bytes of the          *)
(* dictionary and the output generated so far.                             *)
(***************************************************************************)
CopiedFrom(op, src, output) == IF op.src = "Dict" THEN src ELSE output

Meaning(op, src, output) ==
    IF is_add(op) THEN op.bytes
    ELSE IF is_run(op) THEN [i \in 1 .. op.len |-> op.byte]
    ELSE SubSeq(CopiedFrom(op, src, output), op.addr + 1, op.addr + op.len)

(* The output after the first n of some operations, for each n. *)
OutputAfter(list, src, output) ==
    LET after[n \in 0 .. Len(list)] ==
            IF n = 0 THEN output
            ELSE after[n - 1] \o Meaning(list[n], src, after[n - 1])
    IN after

(* What the first n of some numbers add up to, for each n up to the last. *)
RunningSum(size, last) ==
    LET sum[n \in 0 .. last] == IF n = 0 THEN 0 ELSE sum[n - 1] + size[n]
    IN sum
=============================================================================
