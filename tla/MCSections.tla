----------------------------- MODULE MCSections -----------------------------
(* make_sections on every list of at most MaxOps operations whose sizes run *)
(* from 1 to the u16 limit of 3, for limits below, inside and above the    *)
(* range that a section size is clamped to.                                *)
EXTENDS Sections, SequencesExt, TLC

CONSTANT MaxOps

MC_Byte == {"a"}

OpPool == {Add(<<"a">>), Add(<<"a", "a">>), Add(<<"a", "a", "a">>),
           Run("a", 2), Copy("Dict", 0, 1), Copy("Output", 0, 3)}

MC_OpLists == BoundedSeq(OpPool, MaxOps)
MC_SectionSizes == {0, 4, 9}
=============================================================================
