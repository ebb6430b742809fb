----------------------------- MODULE MCPipeline -----------------------------
(* Patches of one or two sections, of at most two operations and one, in   *)
(* both layouts and in mixed ones, with a Run limit of 1 and a u16 of 3,   *)
(* so that the sizes 1, 2 and 3 take the three encodings of a size.        *)
EXTENDS PatchPipeline, TLC

MC_Byte == {"a", "b", "zero"}
MC_Src == <<"a", "b", "b">>
MC_Sinks == {<<>>}

OpPool ==
    {Add(<<"a">>), Add(<<"b", "a">>), Run("b", 1), Copy("Dict", 2, 1),
     Copy("Dict", 0, 3), Copy("Output", 0, 2), Copy("Output", 1, 1)}

Correct(list, format, more) ==
    [compression_algo |-> 0, format |-> format, more_sections |-> more, num_operations |-> Len(list),
     num_add_bytes |-> AddsAmong(list, Len(list)), output_size |-> SumOal(list)]

(* Headers that do not match the operations, in one field; that deny them; *)
(* or that have more Add bytes than output, which wraps round.             *)
Mismatched(h) ==
    {[h EXCEPT !.num_operations = @ + 1], [h EXCEPT !.output_size = @ + 1],
     [h EXCEPT !.num_operations = 0, !.output_size = 0, !.num_add_bytes = 0]}
    \cup (IF h.format = "Segregated"
          THEN {[h EXCEPT !.num_add_bytes = @ - 1], [h EXCEPT !.num_add_bytes = h.output_size + 1],
                [h EXCEPT !.num_operations = 0, !.output_size = 0]}
          ELSE {})

Lists(pool) == {s \in BoundedSeq(pool, 2) : s # <<>>}

(* For compressed patches, which are also cut short at more places. *)
CompressedPool == {Add(<<"b", "a">>), Copy("Dict", 0, 3), Copy("Output", 1, 1)}

One(list, format, more) == [header |-> Correct(list, format, more), ops |-> list]

SingleSection(pool) ==
    {<<One(s, f, FALSE)>> : s \in Lists(pool) \cup {<<>>}, f \in Format}

TwoSections(pool) ==
    {<<One(s, f, TRUE), One(t, g, FALSE)>> : s \in Lists(pool), t \in {<<op>> : op \in pool},
        f \in Format, g \in Format}

Refused ==
    LET small == {<<Add(<<"b", "a">>)>>, <<Copy("Dict", 0, 3), Add(<<"a">>)>>}
        other == One(<<Run("b", 1)>>, "Interleaved", FALSE)
    IN UNION {{<<[header |-> h, ops |-> s], other>> :
                  h \in Mismatched(Correct(s, f, TRUE))} : s \in small, f \in Format}
       \cup UNION {{<<[header |-> h, ops |-> s]>> :
                  h \in Mismatched(Correct(s, f, FALSE))} : s \in small, f \in Format}

MC_Patches ==
    [algo \in Algo |->
        LET pool == IF algo = 0 THEN OpPool ELSE CompressedPool
        IN SingleSection(pool) \cup TwoSections(pool) \cup Refused]
MC_Sections == {}
=============================================================================
