----------------------------- MODULE MCMerger -----------------------------
(* Chains of two and three patches of at most three operations each.  The *)
(* bytes of the first file are all different, so that a copy from a wrong *)
(* address makes wrong bytes.                                              *)
EXTENDS Merger, SequencesExt, TLC

MC_Byte == {"a", "b", "c", "d", "x", "y", "z"}
First == <<"a", "b", "c", "d">>

OpPool ==
    {Add(<<"x", "y">>), Run("z", 2), Copy("Dict", 0, 2), Copy("Dict", 1, 3),
     Copy("Dict", 3, 1), Copy("Output", 0, 2), Copy("Output", 1, 2)}

(* A list of operations, each with its position. *)
Sparse(ops) ==
    [i \in 1 .. Len(ops) |->
        [at |-> FoldLeft(LAMBDA n, op : n + oal(op), 0, SubSeq(ops, 1, i - 1)),
         op |-> ops[i]]]

Applied(list, src) ==
    FoldLeft(LAMBDA out, s : out \o Meaning(s.op, src, out), <<>>, list)

(* Patches that make a file of four bytes or more from any such file. *)
Patches ==
    LET end(list) == IF list = <<>> THEN 0 ELSE EndOf(Last(list))
    IN {list \in {Sparse(ops) : ops \in BoundedSeq(OpPool, 3)} :
           /\ end(list) >= 4
           /\ \A i \in 1 .. Len(list) :
                 is_copy_from(list[i].op, "Output") =>
                     list[i].op.addr + list[i].op.len <= list[i].at}

Chain(patches) ==
    [patches |-> patches,
     files |-> FoldLeft(LAMBDA files, p : Append(files, Applied(p, Last(files))),
                        <<First>>, patches)]

(* Some patches of each kind, to come before or after any other. *)
Some ==
    {Sparse(ops) : ops \in
        {<<Copy("Dict", 1, 3), Copy("Output", 1, 2)>>,
         <<Add(<<"x", "y">>), Copy("Dict", 3, 1), Copy("Output", 1, 2)>>,
         <<Copy("Dict", 0, 2), Run("z", 2), Copy("Dict", 1, 3)>>,
         <<Run("z", 2), Add(<<"x", "y">>)>>}}

MC_Chains ==
    {Chain(<<p, q>>) : p \in Some, q \in Patches}
    \cup {Chain(<<p, q>>) : p \in Patches, q \in Some}
    \cup {Chain(<<p, q, r>>) : p, q, r \in Some}
===========================================================================
