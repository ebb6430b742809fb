---------------------------- MODULE RollingHash ----------------------------
(***************************************************************************)
(* smdiff-encoder/src/hasher.rs: the polynomial checksum of a window of    *)
(* bytes, and how it moves with the window.  The code has one for windows  *)
(* of 9 bytes in a u64 and one for windows of 4 in a u32; here the window  *)
(* is a parameter, and the word is small so that checksums collide.        *)
(***************************************************************************)
EXTENDS Integers, Sequences

CONSTANTS HASH_MULT, \* the multiplier, odd
          MOD_INV,   \* its inverse
          HASH_SIZE  \* number of hash values: 2^64 and 2^32

ASSUME HashAssumption ==
    /\ HASH_MULT \in Nat /\ MOD_INV \in Nat /\ HASH_SIZE \in Nat \ {0, 1}
    /\ (HASH_MULT * MOD_INV) % HASH_SIZE = 1

Hash == 0 .. HASH_SIZE - 1

Power[n \in Nat] == IF n = 0 THEN 1 ELSE (HASH_MULT * Power[n - 1]) % HASH_SIZE

(* The byte at a position; what lies past the end adds nothing to a sum. *)
ByteAt(s, pos) == IF pos < Len(s) THEN s[pos + 1] ELSE 0

(* The window bytes of s from a position, the first weighted most. *)
calculate_checksum(s, pos, window) ==
    LET sum[i \in 0 .. window] ==
            IF i = 0 THEN 0
            ELSE (sum[i - 1] + Power[window - i] * ByteAt(s, pos + i - 1)) % HASH_SIZE
    IN sum[window]

(* Faulty variant: the byte that leaves is taken off at its old weight. *)
update_checksum_fwd_old_weight(checksum, old, new, window) ==
    (HASH_MULT * checksum - Power[window - 1] * old + new) % HASH_SIZE

(* One byte on: old leaves in front, new enters behind. *)
update_checksum_fwd(checksum, old, new, window) ==
    (HASH_MULT * checksum - Power[window] * old + new) % HASH_SIZE

(* One byte back: old leaves behind, new enters in front. *)
update_checksum_bwd(checksum, old, new, window) ==
    ((checksum - old + Power[window] * new) * MOD_INV) % HASH_SIZE
=============================================================================
