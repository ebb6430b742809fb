---------------------------- MODULE PatchMeaning ----------------------------
(***************************************************************************)
(* What a patch means: its operations, in order, each append bytes to an   *)
(* output that only grows.  A copy reads the dictionary or the output      *)
(* generated so far; one that reaches past either has no meaning and the   *)
(* patch fails there, the output produced before it left standing.  A copy *)
(* of no bytes reaches nowhere.                                            *)
(* There is no sink, no cursor and no section here: this is the promise    *)
(* that the decoder (and, over merged patches, the merger) must keep.      *)
(***************************************************************************)
EXTENDS SmdiffOps

CONSTANT Src \* the bytes of the dictionary

VARIABLES has_src, \* whether the caller supplied a dictionary
          pending, \* the operations received and not yet applied
          out,     \* the output generated so far
          outcome  \* "running", "ok" or "failed"

meaningVars == <<has_src, pending, out, outcome>>

(* A copy has a meaning if what it reads exists. *)
HasMeaning(op, output) ==
    is_copy(op) =>
        /\ op.src = "Dict" => has_src
        /\ op.len = 0 \/ op.addr + op.len <= Len(CopiedFrom(op, Src, output))

MeaningInit ==
    /\ has_src \in BOOLEAN
    /\ pending = <<>>
    /\ out = <<>>
    /\ outcome = "running"

Receive ==
    /\ outcome = "running" /\ pending = <<>>
    /\ pending' \in Seq(Op)
    /\ UNCHANGED <<has_src, out, outcome>>

Apply ==
    /\ outcome = "running" /\ pending # <<>>
    /\ HasMeaning(Head(pending), out)
    /\ out' = out \o Meaning(Head(pending), Src, out)
    /\ pending' = Tail(pending)
    /\ UNCHANGED <<has_src, outcome>>

(* An operation without a meaning ends the patch. *)
Reject ==
    /\ outcome = "running" /\ pending # <<>>
    /\ ~ HasMeaning(Head(pending), out)
    /\ outcome' = "failed"
    /\ UNCHANGED <<has_src, pending, out>>

(* No further operation arrives, because the patch ended or cannot be read. *)
Stop ==
    /\ outcome = "running" /\ pending = <<>>
    /\ outcome' \in {"ok", "failed"}
    /\ UNCHANGED <<has_src, pending, out>>

MeaningNext == Receive \/ Apply \/ Reject \/ Stop

MeaningSpec == MeaningInit /\ [][MeaningNext]_meaningVars
=============================================================================
