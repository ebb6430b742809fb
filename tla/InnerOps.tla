------------------------------ MODULE InnerOps ------------------------------
(***************************************************************************)
(* smdiff-encoder/src/encoder.rs: the matches encode_inner passes on to    *)
(* translate_inner_ops.  Positions count from 0, as in the code; byte p of *)
(* a string is its element p + 1.                                          *)
(***************************************************************************)
EXTENDS SmdiffOps

InnerOp == [kind : {"MatchSrc", "MatchTrgt", "Run"}, start : Nat, byte : Byte,
            length : Nat, o_pos : Nat]

(* The length bytes at position from of one string are those at of another. *)
SameBytes(s, from, t, at, length) ==
    /\ from + length <= Len(s) /\ at + length <= Len(t)
    /\ \A j \in 1 .. length : s[from + j] = t[at + j]

(* What an inner op says of its target (the assertions of encode_inner). *)
TrueMatch(m, src, trgt) ==
    /\ m.o_pos + m.length <= Len(trgt)
    /\ m.kind = "MatchSrc" => SameBytes(src, m.start, trgt, m.o_pos, m.length)
    /\ m.kind = "MatchTrgt" => /\ SameBytes(trgt, m.start, trgt, m.o_pos, m.length)
                               /\ m.start + m.length <= m.o_pos
    /\ m.kind = "Run" => \A j \in 1 .. m.length : trgt[m.o_pos + j] = m.byte

(* encode_inner returns matches of some length, by start and by end. *)
Ordered(m, n) == m.o_pos <= n.o_pos /\ m.o_pos + m.length <= n.o_pos + n.length
=============================================================================
