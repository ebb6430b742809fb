---------------------------- MODULE MCTranscoder ----------------------------
(* Patches of up to four operations, with a Run limit of 2 and a u16 of 3: *)
(* two joined Adds or Runs can be below, at and above the limit, and three  *)
(* or more neighbours of a kind occur, with empty ones among them.          *)
EXTENDS Transcoder, SequencesExt

MC_Byte == {"a", "b", "c"}
Src == <<"a", "b", "c">>

OpPool ==
    {Add(<<>>), Add(<<"a">>), Add(<<"b", "c">>), Add(<<"c", "a", "b">>),
     Run("a", 2), Run("b", 1), Run("b", 2), Copy("Dict", 1, 2), Copy("Output", 0, 2)}

Sparse(list) ==
    [k \in 1 .. Len(list) |->
        [at |-> FoldLeft(LAMBDA n, op : n + oal(op), 0, SubSeq(list, 1, k - 1)),
         op |-> list[k]]]

Applied(list) == FoldLeft(LAMBDA out, op : out \o Meaning(op, Src, out), <<>>, list)

(* Every copy from the output reads what is there by then. *)
Readable(list) ==
    \A k \in 1 .. Len(list) :
        is_copy_from(list[k].op, "Output") => list[k].op.addr + list[k].op.len <= list[k].at

Lists ==
    BoundedSeq(OpPool, 3)
    \cup {<<a, a>> \o l : a \in {Add(<<"b", "c">>), Run("b", 2)}, l \in [1 .. 2 -> OpPool]}

MC_Inputs ==
    {[src |-> Src, out |-> Applied(list), ops |-> Sparse(list)] :
        list \in {l \in Lists : Readable(Sparse(l))}}
=============================================================================
