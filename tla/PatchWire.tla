----------------------------- MODULE PatchWire -----------------------------
(***************************************************************************)
(* The patch file as its fields: what one call of a write_* function puts  *)
(* there and one read_* call takes back (smdiff-common/src/lib.rs); of a   *)
(* varint, each of its bytes is one.  Copy addresses are file offsets, far *)
(* below 2^63, where the signed differences do not wrap.                   *)
(***************************************************************************)
EXTENDS SmdiffOps, SequencesExt

CONSTANTS VARINT_BASE, \* what the payload of a varint's byte counts up to: 2^7
          U32_SIZE     \* what the numbers of a header count up to: 2^32

ASSUME WireAssumption == VARINT_BASE \in Nat \ {0, 1} /\ U32_SIZE \in Nat \ {0}

VARIABLE wire \* the fields of the patch file

Format == {"Interleaved", "Segregated"}

(* Secondary compression of a section: none, smdiff itself, zstd or brotli. *)
Algo == 0 .. 3

Field(kind, value) == [kind |-> kind, value |-> value]
Bytes(bytes) == [i \in 1 .. Len(bytes) |-> Field("byte", bytes[i])]

(* A byte of a varint: its payload, and whether another byte follows. *)
VarintByte(low, more) == Field("varint", [low |-> low, more |-> more])

(* write_u_varint: the low digits first. *)
u_varint[n \in Nat] ==
    IF n < VARINT_BASE THEN <<VarintByte(n, FALSE)>>
    ELSE <<VarintByte(n % VARINT_BASE, TRUE)>> \o u_varint[n \div VARINT_BASE]

zigzag_encode(n) == IF n >= 0 THEN 2 * n ELSE -2 * n - 1
zigzag_decode(z) == IF z % 2 = 0 THEN z \div 2 ELSE -((z + 1) \div 2)

(* How a size is encoded; also how a size indicator is understood. *)
size_routine(size) ==
    IF size \in 1 .. MAX_RUN_LEN THEN "Done"
    ELSE IF size = MAX_RUN_LEN + 1 THEN "U8And62" ELSE "U16"

bit_flag(op) ==
    IF is_add(op) THEN "ADD"
    ELSE IF is_run(op) THEN "RUN"
    ELSE IF op.src = "Dict" THEN "COPY_D" ELSE "COPY_O"

(* Both copy registers, as every section finds them. *)
NoAddr == [src \in CopySrc |-> 0]

(* - and + of two u32 in a build that does not check them. *)
wrapping_sub(a, b) == IF b <= a THEN a - b ELSE a - b + U32_SIZE
wrapping_add(a, b) == IF a + b < U32_SIZE THEN a + b ELSE a + b - U32_SIZE

(* Faulty: the difference the other way round. *)
diff_addresses_swapped(cur, target) == cur - target

diff_addresses_to_i64(cur, target) == target - cur
diff_addresses_to_u64(cur, input) == cur + input

(* What operations add up to; how many bytes the Adds among the first n have. *)
SumOal(list) ==
    RunningSum([k \in 1 .. Len(list) |-> oal(list[k])], Len(list))[Len(list)]
AddsAmong(list, n) ==
    RunningSum([k \in 1 .. Len(list) |-> IF is_add(list[k]) THEN oal(list[k]) ELSE 0],
               Len(list))[n]

SectionHeader == [compression_algo : Algo, format : Format, more_sections : BOOLEAN,
                  num_operations : Nat, num_add_bytes : Nat, output_size : Nat]
=============================================================================
