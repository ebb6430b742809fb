------------------------------- MODULE Merger -------------------------------
(***************************************************************************)
(* smdiff-merger/src/lib.rs: Merger::new, merge and finish.  Patches that  *)
(* turn one file into the next, and that into a third, are merged from the *)
(* last to the first: each copy from the file in between is replaced by    *)
(* the part of the earlier patch that makes those bytes.                   *)
(*                                                                         *)
(* Indices are those of the code plus one.  Every operation of a patch is  *)
(* taken to make at least one byte, as all those that the encoder makes.   *)
(***************************************************************************)
EXTENDS PlacedOps

CONSTANT Chains \* files and, between each and the next, the patch that makes it

InARow(list, size) == Row(list, 0, size) /\ \A i \in 1 .. Len(list) : SizeOf(list[i]) > 0

(* A patch file holds the operations only; the positions are for reference. *)
IsPatch(list, src, out) ==
    /\ list \in Seq(SparseOp)
    /\ InARow(list, Len(out))
    /\ \A i \in 1 .. Len(list) :
          /\ is_add(list[i].op) => Len(list[i].op.bytes) <= MAX_INST_SIZE
          /\ Yields(list[i], src, out)

ASSUME MergerAssumption ==
    \A c \in Chains :
        /\ c.files \in Seq(Seq(Byte))
        /\ c.patches \in Seq(Seq(SparseOp)) /\ c.patches # <<>>
        /\ Len(c.files) = Len(c.patches) + 1
        /\ \A k \in 1 .. Len(c.patches) : IsPatch(c.patches[k], c.files[k], c.files[k + 1])

VARIABLES chain,     \* the files and patches
          left,      \* patches before the one taken last
          terminal,  \* the patch being read is the terminal one
          input,     \* what of it is still in its file
          stats,     \* copy_bytes and output_size of Stats
          extracted, \* its operations read and not yet dereferenced
          pending,   \* operations on their way into output
          output,    \* the list being built: dereferenced or expanded operations
          o_pos,     \* output position after output (and, before, of extracted)
          terminal_patch, terminal_copy_indices, \* the Merger
          unresolved, inserts, shift, new_indices, \* the loop of merge
          cur_idx,   \* the next operation of terminal_patch to expand
          phase      \* "extract", "deref", "resolve", "expand", "merger" or "summary"

reading == <<input, stats, extracted>>
merger == <<terminal_patch, terminal_copy_indices>>
merging == <<unresolved, inserts, shift, new_indices>>
mergerVars == <<chain, left, terminal, reading, pending, output, o_pos, merger,
                merging, cur_idx, phase>>

NoStats == [copy_bytes |-> 0, output_size |-> 0]

-----------------------------------------------------------------------------
(* Faulty: a copy shortened at its front still reads from where it did. *)
SkipKeepsAddr(op, amt) ==
    IF is_add(op) THEN [op EXCEPT !.bytes = SubSeq(@, amt + 1, Len(@))]
    ELSE [op EXCEPT !.len = @ - amt]

(* Shortening an operation at its front and at its back. *)
skip(op, amt) ==
    IF is_add(op) THEN [op EXCEPT !.bytes = SubSeq(@, amt + 1, Len(@))]
    ELSE IF is_run(op) THEN [op EXCEPT !.len = @ - amt]
    ELSE [op EXCEPT !.addr = @ + amt, !.len = @ - amt]

trunc(op, amt) ==
    IF is_add(op) THEN [op EXCEPT !.bytes = SubSeq(@, 1, Len(@) - amt)]
    ELSE [op EXCEPT !.len = @ - amt]

(* Faulty: the first byte of an operation is not its own. *)
find_controlling_op_after(ops, at) ==
    {i \in 1 .. Len(ops) : ops[i].at < at /\ at < EndOf(ops[i])}

(* The operation that makes the byte at a position, if there is one. *)
find_controlling_op(ops, at) ==
    {i \in 1 .. Len(ops) : ops[i].at <= at /\ at < EndOf(ops[i])}

Clip(s, start, end) ==
    LET front == IF start > s.at THEN start - s.at ELSE 0
        back == IF end < EndOf(s) THEN EndOf(s) - end ELSE 0
    IN [at |-> s.at + front, op |-> trunc(skip(s.op, front), back)]

(* The operations from the first to the last that make a range, as positions. *)
Covers(ops, start, len, first, last) ==
    /\ first \in find_controlling_op(ops, start)
    /\ last \in first .. Len(ops) /\ EndOf(ops[last]) >= start + len
    /\ \A k \in first .. last - 1 : EndOf(ops[k]) < start + len

Covered(ops, start, len) ==
    \E first, last \in 1 .. Len(ops) : Covers(ops, start, len, first, last)

(* The value of get_exact_slice where it is not None, that is if Covered. *)
get_exact_slice(ops, start, len) ==
    LET r == CHOOSE r \in (1 .. Len(ops)) \X (1 .. Len(ops)) :
                 Covers(ops, start, len, r[1], r[2])
    IN [k \in 1 .. r[2] - r[1] + 1 |-> Clip(ops[r[1] + k - 1], start, start + len)]

is_mergeable(s) == is_copy_from(s.op, "Dict")

(* The indices of the copies from the dictionary, in a list put at first. *)
find_mergeable_copies(list, first) ==
    LET found[k \in 0 .. Len(list)] ==
            IF k = 0 THEN <<>>
            ELSE IF is_mergeable(list[k]) THEN Append(found[k - 1], first + k - 1)
            ELSE found[k - 1]
    IN found[Len(list)]

-----------------------------------------------------------------------------
(* Merger::new has opened the patch that makes the last of the files. *)
MergerInit ==
    /\ chain \in Chains
    /\ left = Len(chain.patches) - 1 /\ terminal = TRUE
    /\ input = chain.patches[Len(chain.patches)]
    /\ stats = NoStats /\ extracted = <<>>
    /\ pending = <<>> /\ output = <<>> /\ o_pos = 0
    /\ terminal_patch = <<>> /\ terminal_copy_indices = <<>>
    /\ unresolved = <<>> /\ inserts = <<>> /\ shift = 0 /\ new_indices = <<>>
    /\ cur_idx = 1
    /\ phase = "extract"

(* Faulty: only copies from the output are counted. *)
CountOutputCopies(op) ==
    [copy_bytes |-> stats.copy_bytes + (IF is_copy_from(op, "Output") THEN oal(op) ELSE 0),
     output_size |-> stats.output_size + oal(op)]

(* Stats counts a copy twice: once by its source, and again as one from Dict. *)
Count(op) ==
    LET times == IF is_copy(op) THEN 2 ELSE 1
    IN [copy_bytes |-> stats.copy_bytes + (IF is_copy(op) THEN 2 * oal(op) ELSE 0),
        output_size |-> stats.output_size + times * oal(op)]

(* extract_patch_instructions, one operation. *)
ExtractOp ==
    /\ phase = "extract" /\ input # <<>>
    /\ LET op == Head(input).op
       IN /\ extracted' = Append(extracted, [at |-> o_pos, op |-> op])
          /\ o_pos' = o_pos + oal(op)
          /\ stats' = Count(op)
    /\ input' = Tail(input)
    /\ UNCHANGED <<chain, left, terminal, pending, output, merger, merging, cur_idx, phase>>

(* A terminal patch without copies is the summary; any patch with one has its *)
(* copies from the output dereferenced.                                       *)
Extracted ==
    /\ phase = "extract" /\ input = <<>>
    /\ IF stats.copy_bytes > 0
       THEN phase' = "deref" /\ o_pos' = 0 /\ UNCHANGED <<extracted, output, terminal_patch>>
       ELSE /\ phase' = IF terminal THEN "summary" ELSE "resolve"
            /\ terminal_patch' = IF terminal THEN extracted ELSE terminal_patch
            /\ output' = IF terminal THEN output ELSE extracted
            /\ extracted' = <<>>
            /\ UNCHANGED o_pos
    /\ UNCHANGED <<chain, left, terminal, input, stats, pending, terminal_copy_indices,
                   merging, cur_idx>>

(* deref_copy_o: the next operation, or those that it stands for. *)
DerefOp ==
    /\ phase = "deref" /\ pending = <<>> /\ extracted # <<>>
    /\ LET op == Head(extracted).op
       IN /\ is_copy_from(op, "Output") => Covered(output, op.addr, op.len)
          /\ pending' = IF is_copy_from(op, "Output")
                        THEN get_exact_slice(output, op.addr, op.len) ELSE <<Head(extracted)>>
    /\ extracted' = Tail(extracted)
    /\ UNCHANGED <<chain, left, terminal, input, stats, output, o_pos, merger, merging,
                   cur_idx, phase>>

(* Faulty: an operation brings its old position along. *)
PushOpWhereItWas ==
    /\ pending # <<>>
    /\ output' = Append(output, Head(pending))
    /\ o_pos' = o_pos + oal(Head(pending).op)
    /\ pending' = Tail(pending)
    /\ UNCHANGED <<chain, left, terminal, reading, merger, merging, cur_idx, phase>>

(* An operation takes its place in the list that deref_copy_o or expand_to makes. *)
PushOp ==
    /\ pending # <<>>
    /\ output' = Append(output, [Head(pending) EXCEPT !.at = o_pos])
    /\ o_pos' = o_pos + oal(Head(pending).op)
    /\ pending' = Tail(pending)
    /\ UNCHANGED <<chain, left, terminal, reading, merger, merging, cur_idx, phase>>

Dereferenced ==
    /\ phase = "deref" /\ pending = <<>> /\ extracted = <<>>
    /\ IF terminal
       THEN /\ terminal_patch' = output
            /\ terminal_copy_indices' = find_mergeable_copies(output, 1)
            /\ phase' = "merger"
       ELSE phase' = "resolve" /\ UNCHANGED merger
    /\ UNCHANGED <<chain, left, terminal, reading, pending, output, o_pos, merging, cur_idx>>

(* The caller merges the patch before. *)
Merge ==
    /\ phase = "merger" /\ left > 0
    /\ left' = left - 1 /\ terminal' = FALSE
    /\ input' = chain.patches[left] /\ stats' = NoStats /\ extracted' = <<>>
    /\ output' = <<>> /\ o_pos' = 0
    /\ unresolved' = terminal_copy_indices
    /\ inserts' = <<>> /\ shift' = 0 /\ new_indices' = <<>>
    /\ phase' = "extract"
    /\ UNCHANGED <<chain, pending, merger, cur_idx>>

(* Faulty: the index of a replaced copy is counted along with its replacement. *)
ResolveCopyShiftsTooFar ==
    /\ phase = "resolve" /\ unresolved # <<>>
    /\ LET i == Head(unresolved)
           copy == terminal_patch[i].op
           resolved == get_exact_slice(output, copy.addr, copy.len)
       IN /\ is_mergeable(terminal_patch[i]) /\ Covered(output, copy.addr, copy.len)
          /\ new_indices' = new_indices \o find_mergeable_copies(resolved, i + shift)
          /\ shift' = shift + Len(resolved)
          /\ inserts' = Append(inserts, [index |-> i, ops |-> resolved])
    /\ unresolved' = Tail(unresolved)
    /\ UNCHANGED <<chain, left, terminal, reading, pending, output, o_pos, merger,
                   cur_idx, phase>>

(* The copies from the dictionary, one after another, from the earlier patch. *)
ResolveCopy ==
    /\ phase = "resolve" /\ unresolved # <<>>
    /\ LET i == Head(unresolved)
           copy == terminal_patch[i].op
           resolved == get_exact_slice(output, copy.addr, copy.len)
       IN /\ is_mergeable(terminal_patch[i]) /\ Covered(output, copy.addr, copy.len)
          /\ new_indices' = new_indices \o find_mergeable_copies(resolved, i + shift)
          /\ shift' = shift + Len(resolved) - 1
          /\ inserts' = Append(inserts, [index |-> i, ops |-> resolved])
    /\ unresolved' = Tail(unresolved)
    /\ UNCHANGED <<chain, left, terminal, reading, pending, output, o_pos, merger,
                   cur_idx, phase>>

Resolved ==
    /\ phase = "resolve" /\ unresolved = <<>>
    /\ output' = <<>> /\ o_pos' = 0 /\ cur_idx' = 1
    /\ phase' = "expand"
    /\ UNCHANGED <<chain, left, terminal, reading, pending, merger, merging>>

(* expand_to: an operation stays, or its insert takes its place. *)
ExpandOp ==
    /\ phase = "expand" /\ pending = <<>> /\ cur_idx <= Len(terminal_patch)
    /\ LET found == {k \in 1 .. Len(inserts) : inserts[k].index = cur_idx}
       IN pending' = IF found = {} THEN <<terminal_patch[cur_idx]>>
                     ELSE inserts[CHOOSE k \in found : TRUE].ops
    /\ cur_idx' = cur_idx + 1
    /\ UNCHANGED <<chain, left, terminal, reading, output, o_pos, merger, merging, phase>>

(* merge returns the expanded list: the summary when it has no copies left. *)
Expanded ==
    /\ phase = "expand" /\ pending = <<>> /\ cur_idx > Len(terminal_patch)
    /\ terminal_patch' = output
    /\ terminal_copy_indices' = new_indices
    /\ phase' = IF new_indices = <<>> THEN "summary" ELSE "merger"
    /\ UNCHANGED <<chain, left, terminal, reading, pending, output, o_pos, merging, cur_idx>>

(* The caller has merged enough. *)
FinishMerger ==
    /\ phase = "merger"
    /\ phase' = "summary"
    /\ UNCHANGED <<chain, left, terminal, reading, pending, output, o_pos, merger,
                   merging, cur_idx>>

MergerWorks ==
    \/ ExtractOp \/ Extracted \/ DerefOp \/ PushOp \/ Dereferenced
    \/ ResolveCopy \/ Resolved \/ ExpandOp \/ Expanded

MergerNext == MergerWorks \/ Merge \/ FinishMerger

(* new and merge run to their ends; the caller need not call merge or finish. *)
MergerSpec == MergerInit /\ [][MergerNext]_mergerVars /\ WF_mergerVars(MergerWorks)

-----------------------------------------------------------------------------
Inserts == [index : Nat, ops : Seq(SparseOp)]

MergerTypeOK ==
    /\ left \in 0 .. Len(chain.patches) - 1 /\ terminal \in BOOLEAN
    /\ input \in Seq(SparseOp) /\ extracted \in Seq(SparseOp)
    /\ stats \in [copy_bytes : Nat, output_size : Nat]
    /\ pending \in Seq(SparseOp) /\ output \in Seq(SparseOp) /\ o_pos \in Nat
    /\ terminal_patch \in Seq(SparseOp)
    /\ terminal_copy_indices \in Seq(1 .. Len(terminal_patch))
    /\ unresolved \in Seq(1 .. Len(terminal_patch))
    /\ inserts \in Seq(Inserts) /\ shift \in Nat /\ new_indices \in Seq(Nat)
    /\ cur_idx \in Nat \ {0}
    /\ phase \in {"extract", "deref", "resolve", "expand", "merger", "summary"}

(* No unwrap, expect or (but for one) debug_assert of the merger fails: the *)
(* operations of the Merger are in a row when a patch is merged, a copy      *)
(* resolved is one from the dictionary, and get_exact_slice finds all that  *)
(* a copy from the output or from the file in between asks for.             *)
UnwrapsSucceed ==
    /\ phase = "merger" => InARow(terminal_patch, Len(chain.files[Len(chain.files)]))
    /\ phase = "deref" /\ pending = <<>> /\ extracted # <<>> =>
          LET op == Head(extracted).op
          IN is_copy_from(op, "Output") => Covered(output, op.addr, op.len)
    /\ phase = "resolve" /\ unresolved # <<>> =>
          LET s == terminal_patch[Head(unresolved)]
          IN is_mergeable(s) /\ Covered(output, s.op.addr, s.op.len)

(* Between two merges the indices are, in order, all those of the copies to *)
(* resolve, however many operations the earlier ones were replaced by, and  *)
(* no copy from the output is left (find_mergeable_copies, merge).          *)
CopyIndicesExact ==
    phase = "merger" =>
        /\ \A k \in 2 .. Len(terminal_copy_indices) :
              terminal_copy_indices[k - 1] < terminal_copy_indices[k]
        /\ {terminal_copy_indices[k] : k \in 1 .. Len(terminal_copy_indices)}
             = {i \in 1 .. Len(terminal_patch) : is_copy(terminal_patch[i].op)}
        /\ \A i \in 1 .. Len(terminal_patch) : ~ is_copy_from(terminal_patch[i].op, "Output")

(* What is merged so far makes the last file, byte for byte, from the file  *)
(* before the earliest patch merged (merge); so does the summary.           *)
MergedMeaning ==
    phase \in {"merger", "summary"} =>
        LET final == chain.files[Len(chain.files)]
        IN /\ InARow(terminal_patch, Len(final))
           /\ \A i \in 1 .. Len(terminal_patch) :
                 Yields(terminal_patch[i], chain.files[left + 1], final)

(* A summary that new or merge returns by itself, where the caller is to    *)
(* stop merging, reads no file at all (the doc of SummaryPatch).            *)
EarlySummaryHasNoCopies ==
    [][phase' = "summary" /\ phase # "merger" =>
          \A i \in 1 .. Len(terminal_patch') : ~ is_copy(terminal_patch'[i].op)]_mergerVars

(* A call of new or merge returns. *)
MergeEnds == phase = "extract" ~> phase \in {"merger", "summary"}

(* smdiff-merger/src/lib.rs:285: "terminal_copy_indices should not be empty". *)
MergerHasCopies == phase = "merger" => terminal_copy_indices # <<>>
=============================================================================
