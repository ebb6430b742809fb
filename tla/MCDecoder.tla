----------------------------- MODULE MCDecoder -----------------------------
(* The decoder on sections of at most MaxOps operations from OpPool, until *)
(* MaxOutput bytes are produced, over an empty sink and over older ones,   *)
(* whose bytes the sections' copies may reach.                             *)
EXTENDS Decoder, SequencesExt

CONSTANTS MaxOps,   \* bound on the operations of one section
          MaxOutput \* no section begins once this much output exists

MC_Byte == {"a", "b", "z"}
MC_Src == <<"a", "b">>
MC_Sinks == {<<>>, <<"z">>, <<"z", "z", "z">>}

OpPool ==
    {Add(<<"a">>), Add(<<"b", "a">>), Run("b", 2)}
    \cup {Copy("Dict", 0, 2), Copy("Dict", 1, 2)}
    \cup {Copy("Output", addr, len) : addr \in 0 .. 2, len \in 1 .. 2}
    \cup {Copy("Output", 2, 0)}

MC_Sections == BoundedSeq(OpPool, MaxOps)

MCNextSection == cur_o_pos < MaxOutput /\ NextSection

MCNext == ApplyOp \/ MCNextSection \/ NoMoreSections \/ ReadFails

MCSpec == DecoderInit /\ [][MCNext]_decoderVars /\ WF_decoderVars(ApplyOp)

(* Every section that was read is applied to its end or reported as failed. *)
SectionFinishes == ops # <<>> ~> (ops = <<>> \/ outcome # "running")
=============================================================================
