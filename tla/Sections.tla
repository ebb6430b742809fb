------------------------------ MODULE Sections ------------------------------
(***************************************************************************)
(* smdiff-writer/src/lib.rs: make_sections.  One pass over the operations  *)
(* of a patch cuts them into sections whose output stays within a limit,   *)
(* and counts what the header of each section says.  An encoder writes the *)
(* sections in order, and the decoder continues each where the one before  *)
(* ended, so they must tile the operations and the output.                 *)
(***************************************************************************)
EXTENDS SmdiffOps

CONSTANTS MAX_WIN_SIZE, \* largest output of a section: 2^24 - 1
          OpLists,      \* the operation lists a caller passes
          SectionSizes  \* the section sizes a caller asks for

ASSUME SectionsAssumption ==
    /\ MAX_WIN_SIZE \in Nat /\ MAX_INST_SIZE <= MAX_WIN_SIZE
    /\ \A l \in OpLists : l \in Seq(Op)
    /\ SectionSizes \subseteq Nat

VARIABLES list,          \* the operations
          max_win_size,  \* the section size asked for, clamped
          start_index,   \* operations before the open section
          end_index,     \* operations taken so far
          output_size,   \* output bytes of the open section
          num_add_bytes, \* Add bytes of the open section
          result,        \* the sections closed so far
          o_pos,         \* output bytes of all the operations taken so far
          finished       \* the last section is pushed

sectionsVars == <<list, max_win_size, start_index, end_index, output_size,
                  num_add_bytes, result, o_pos, finished>>

(* Faulty: only the upper limit is applied. *)
ClampAbove(n, low, high) == IF n > high THEN high ELSE n

Clamp(n, low, high) == IF n < low THEN low ELSE IF n > high THEN high ELSE n

SectionsInit ==
    /\ list \in OpLists
    /\ \E size \in SectionSizes : max_win_size = Clamp(size, MAX_INST_SIZE, MAX_WIN_SIZE)
    /\ start_index = 0 /\ end_index = 0
    /\ output_size = 0 /\ num_add_bytes = 0
    /\ result = <<>> /\ o_pos = 0
    /\ finished = FALSE

(* The open section, closed before the operation after end_index: the slice *)
(* of operations, its header, and where in the output it begins and ends.   *)
Closed(more) ==
    [start |-> start_index, end |-> end_index,
     num_operations |-> end_index - start_index,
     num_add_bytes |-> num_add_bytes, output_size |-> output_size,
     more_sections |-> more,
     from |-> o_pos - output_size, to |-> o_pos]

OpSize == oal(list[end_index + 1])
AddSize == IF is_add(list[end_index + 1]) THEN OpSize ELSE 0

(* Faulty: the section is looked at without the operation to come. *)
OverflowsAlready == output_size > max_win_size

(* Faulty: a section that would be exactly full is cut. *)
OverflowsWhenFull == output_size + OpSize >= max_win_size

Overflows == output_size + OpSize > max_win_size

TakeOp ==
    /\ end_index' = end_index + 1
    /\ o_pos' = o_pos + OpSize
    /\ UNCHANGED <<list, max_win_size, finished>>

(* The next operation fits the open section. *)
Extend ==
    /\ ~ finished /\ end_index < Len(list) /\ ~ Overflows
    /\ output_size' = output_size + OpSize
    /\ num_add_bytes' = num_add_bytes + AddSize
    /\ TakeOp
    /\ UNCHANGED <<start_index, result>>

(* Faulty: the operation that begins a section is left out of it. *)
CutSkipsOp ==
    /\ ~ finished /\ end_index < Len(list) /\ Overflows
    /\ result' = Append(result, Closed(TRUE))
    /\ start_index' = end_index + 1
    /\ output_size' = OpSize
    /\ num_add_bytes' = AddSize
    /\ TakeOp

(* Faulty: the count of Add bytes runs on. *)
CutKeepsAddBytes ==
    /\ ~ finished /\ end_index < Len(list) /\ Overflows
    /\ result' = Append(result, Closed(TRUE))
    /\ start_index' = end_index
    /\ output_size' = OpSize
    /\ num_add_bytes' = num_add_bytes + AddSize
    /\ TakeOp

(* It does not: the open section is pushed and the operation begins another. *)
Cut ==
    /\ ~ finished /\ end_index < Len(list) /\ Overflows
    /\ result' = Append(result, Closed(TRUE))
    /\ start_index' = end_index
    /\ output_size' = OpSize
    /\ num_add_bytes' = AddSize
    /\ TakeOp

(* The last group is pushed, with no operation in it if the patch has none. *)
PushLast ==
    /\ ~ finished /\ end_index = Len(list)
    /\ result' = Append(result, Closed(FALSE))
    /\ finished' = TRUE
    /\ UNCHANGED <<list, max_win_size, start_index, end_index, output_size,
                   num_add_bytes, o_pos>>

SectionsNext == Extend \/ Cut \/ PushLast

SectionsSpec == SectionsInit /\ [][SectionsNext]_sectionsVars

-----------------------------------------------------------------------------
SectionRecord ==
    [start : Nat, end : Nat, num_operations : Nat, num_add_bytes : Nat,
     output_size : Nat, more_sections : BOOLEAN, from : Nat, to : Nat]

SectionsTypeOK ==
    /\ list \in Seq(Op)
    /\ max_win_size \in MAX_INST_SIZE .. MAX_WIN_SIZE
    /\ end_index \in 0 .. Len(list)
    /\ start_index \in 0 .. end_index
    /\ output_size \in Nat /\ num_add_bytes \in Nat /\ o_pos \in Nat
    /\ result \in Seq(SectionRecord)
    /\ finished \in BOOLEAN

(* The sections tile the operations and the output: each begins where the   *)
(* one before ended, the first at zero, the open one at the last closed; a  *)
(* header's output size is the stretch of output between its ends, and once *)
(* the last section is pushed nothing is left over (make_sections, encode). *)
SectionsTile ==
    /\ \A k \in 1 .. Len(result) :
          /\ result[k].output_size = result[k].to - result[k].from
          /\ result[k].num_operations = result[k].end - result[k].start
          /\ k = 1 => result[k].start = 0 /\ result[k].from = 0
          /\ k > 1 => /\ result[k].start = result[k - 1].end
                      /\ result[k].from = result[k - 1].to
    /\ LET last == result[Len(result)]
       IN IF result = <<>> THEN start_index = 0 /\ o_pos = output_size
          ELSE IF finished THEN last.end = Len(list) /\ last.to = o_pos
          ELSE last.end = start_index /\ last.to = o_pos - output_size

(* No section's output is over the limit, no section but that of an empty   *)
(* patch is without operations, the Add bytes are part of the output (the   *)
(* segregated header subtracts them from it), and the terminal section is   *)
(* the last one and only that one (make_sections, write_section_header).    *)
SectionsWellFormed ==
    \A k \in 1 .. Len(result) :
        /\ result[k].output_size <= max_win_size
        /\ result[k].num_operations > 0 \/ list = <<>>
        /\ result[k].num_add_bytes <= result[k].output_size
        /\ result[k].more_sections <=> ~ (finished /\ k = Len(result))

(* The output, and the Add bytes in it, of the first operations of the list. *)
OutputBytes == RunningSum([n \in 1 .. Len(list) |-> oal(list[n])], Len(list))
AddBytes ==
    RunningSum([n \in 1 .. Len(list) |-> IF is_add(list[n]) THEN oal(list[n]) ELSE 0], Len(list))

(* What a header says is what the operations of its section add up to: the *)
(* writer refuses a section otherwise, after having written it             *)
(* (make_sections, write_ops).                                             *)
TotalsExact ==
    \A k \in 1 .. Len(result) :
        LET first == result[k].start
            last == result[k].end
        IN /\ result[k].output_size = OutputBytes[last] - OutputBytes[first]
           /\ result[k].num_add_bytes = AddBytes[last] - AddBytes[first]

(* A section is cut no earlier than needed: it and the first operation of  *)
(* the next would not have fitted the limit together (make_sections).      *)
CutsOnlyWhenFull ==
    \A k \in 2 .. Len(result) :
        result[k - 1].output_size + oal(list[result[k].start + 1]) > max_win_size
=============================================================================
