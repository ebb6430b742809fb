------------------------------ MODULE OpMaker ------------------------------
(***************************************************************************)
(* smdiff-encoder/src/op_maker.rs: translate_inner_ops.  The encoder's     *)
(* matches overlap and leave gaps.  A first pass over neighbours removes,  *)
(* shortens and moves them until none overlap; a second one turns them,    *)
(* and the gaps between them, into operations whose sizes fit a patch.     *)
(* Indices are those of the code plus one.                                 *)
(***************************************************************************)
EXTENDS InnerOps

CONSTANTS Cases,    \* the source, target and matches that encode can pass
          NearSpan, \* two matches that span no more are not both kept: 9 + 4
          NearStart \* nor are two that start no further apart: 4

RUN_LIMIT == MAX_RUN_LEN * 6
COPY_LIMIT == RUN_LIMIT \div 2

ASSUME OpMakerAssumption ==
    /\ NearSpan \in Nat /\ NearStart \in Nat /\ Byte # {}
    /\ \A c \in Cases :
          /\ c.src \in Seq(Byte) /\ c.trgt \in Seq(Byte) /\ c.inner \in Seq(InnerOp)
          /\ \A i \in 1 .. Len(c.inner) :
                TrueMatch(c.inner[i], c.src, c.trgt) /\ c.inner[i].length > 0
          /\ \A i \in 1 .. Len(c.inner) - 1 : Ordered(c.inner[i], c.inner[i + 1])

VARIABLES src, trgt, \* the files
          ops,       \* the inner ops; a removed one has length 0
          one, two,  \* the neighbours being compared
          next,      \* the inner op to convert next
          request,   \* what a make_*_ops call is still to emit
          out_ops,   \* the operations made
          out_pos,   \* output position after them
          phase      \* "overlaps", "convert", then "done"

opMakerVars == <<src, trgt, ops, one, two, next, request, out_ops, out_pos, phase>>

Requests == [kind : {"Add", "Copy", "Run", "RunCopy"}, from : CopySrc, addr : Nat,
             byte : Byte, left : Nat, copy_bytes : Nat, max_copy_size : Nat]

NoRequest == [kind |-> "Add", from |-> "Dict", addr |-> 0, byte |-> CHOOSE b \in Byte : TRUE,
              left |-> 0, copy_bytes |-> 0, max_copy_size |-> 0]

OpMakerInit ==
    /\ \E c \in Cases : src = c.src /\ trgt = c.trgt /\ ops = c.inner
    /\ one = 1 /\ two = 2 /\ next = 1
    /\ request = NoRequest
    /\ out_ops = <<>> /\ out_pos = 0
    /\ phase = "overlaps"

-----------------------------------------------------------------------------
(* The first pass. *)
Start(k) == ops[k].o_pos
End(k) == ops[k].o_pos + ops[k].length

Comparing == phase = "overlaps" /\ two <= Len(ops)
Overlap == Start(one) <= Start(two) /\ End(one) > Start(two)

(* The match after the second also overlaps the first: the second is redundant. *)
Redundant == two < Len(ops) /\ End(one) > Start(two + 1)

TooClose == \/ End(two) - Start(one) <= NearSpan
            \/ Start(two) - Start(one) <= NearStart

Midpoint == Start(two) + (End(one) - Start(two)) \div 2

Removed(k) == [ops EXCEPT ![k].length = 0]

(* Faulty variant: the copy still reads from where it did. *)
MovedToKeepsStart(m, pos) == [m EXCEPT !.o_pos = pos, !.length = @ - (pos - m.o_pos)]

(* set_o_pos keeps the end; a run has no start to move. *)
MovedTo(m, pos) ==
    [m EXCEPT !.o_pos = pos, !.length = @ - (pos - m.o_pos),
              !.start = IF m.kind = "Run" THEN @ ELSE @ + (pos - m.o_pos)]

NextPair ==
    /\ two' = two + 1
    /\ UNCHANGED <<src, trgt, next, request, out_ops, out_pos, phase>>

Disjoint ==
    /\ Comparing /\ End(one) <= Start(two) /\ Start(one) <= Start(two)
    /\ one' = two
    /\ ops' = ops
    /\ NextPair

(* Faulty variant: the loop does not move on past what it removed. *)
DropRedundantAgain ==
    /\ Comparing /\ Overlap /\ Redundant
    /\ ops' = Removed(two)
    /\ UNCHANGED <<src, trgt, one, two, next, request, out_ops, out_pos, phase>>

DropRedundant ==
    /\ Comparing /\ Overlap /\ Redundant
    /\ ops' = Removed(two)
    /\ one' = one
    /\ NextPair

KeepLonger ==
    /\ Comparing /\ Overlap /\ ~ Redundant /\ TooClose
    /\ IF ops[one].length < ops[two].length
       THEN ops' = Removed(one) /\ one' = two
       ELSE ops' = Removed(two) /\ one' = one
    /\ NextPair

(* Faulty variant: only the first match is cut. *)
MeetMidwayCutsFirst ==
    /\ Comparing /\ Overlap /\ ~ Redundant /\ ~ TooClose /\ End(two) >= End(one)
    /\ ops' = [ops EXCEPT ![one].length = Midpoint - Start(one)]
    /\ one' = two
    /\ NextPair

MeetMidway ==
    /\ Comparing /\ Overlap /\ ~ Redundant /\ ~ TooClose /\ End(two) >= End(one)
    /\ ops' = [ops EXCEPT ![one].length = Midpoint - Start(one),
                          ![two] = MovedTo(@, Midpoint)]
    /\ one' = two
    /\ NextPair

EndOverlaps ==
    /\ phase = "overlaps" /\ two > Len(ops)
    /\ phase' = "convert"
    /\ UNCHANGED <<src, trgt, ops, one, two, next, request, out_ops, out_pos>>

-----------------------------------------------------------------------------
(* The second pass. *)
Converting == phase = "convert" /\ request.left = 0

Push(op, size) ==
    /\ out_ops' = Append(out_ops, op)
    /\ out_pos' = out_pos + size

SkipRemoved ==
    /\ Converting /\ next <= Len(ops) /\ ops[next].length = 0
    /\ next' = next + 1
    /\ UNCHANGED <<src, trgt, ops, one, two, request, out_ops, out_pos, phase>>

(* make_add_ops on the target up to a position: one byte becomes a run. *)
AddUpTo(pos) ==
    /\ IF pos = out_pos + 1
       THEN Push(Run(trgt[pos], 1), 1) /\ UNCHANGED request
       ELSE /\ request' = [NoRequest EXCEPT !.left = pos - out_pos]
            /\ UNCHANGED <<out_ops, out_pos>>
    /\ UNCHANGED <<src, trgt, ops, one, two, next, phase>>

FillGap ==
    /\ Converting /\ next <= Len(ops)
    /\ ops[next].length > 0 /\ Start(next) > out_pos
    /\ AddUpTo(Start(next))

FillTail ==
    /\ Converting /\ next > Len(ops) /\ out_pos < Len(trgt)
    /\ AddUpTo(Len(trgt))

(* A long run is three runs, and then copies of what it has put out. *)
RequestFor(m) ==
    CASE m.kind = "Run" ->
            [NoRequest EXCEPT !.kind = "Run", !.byte = m.byte, !.addr = out_pos,
                !.left = IF m.length < RUN_LIMIT THEN m.length ELSE COPY_LIMIT,
                !.copy_bytes = IF m.length < RUN_LIMIT THEN 0 ELSE m.length - COPY_LIMIT]
      [] m.kind = "MatchSrc" ->
            [NoRequest EXCEPT !.kind = "Copy", !.from = "Dict", !.addr = m.start, !.left = m.length]
      [] m.kind = "MatchTrgt" ->
            [NoRequest EXCEPT !.kind = "Copy", !.from = "Output", !.addr = m.start, !.left = m.length]

ReadsOutput(m) == m.kind = "MatchTrgt" => m.start + m.length <= out_pos

StartOp ==
    /\ Converting /\ next <= Len(ops)
    /\ ops[next].length > 0 /\ Start(next) = out_pos /\ ReadsOutput(ops[next])
    /\ request' = RequestFor(ops[next])
    /\ next' = next + 1
    /\ UNCHANGED <<src, trgt, ops, one, two, out_ops, out_pos, phase>>

Finish ==
    /\ Converting /\ next > Len(ops) /\ out_pos >= Len(trgt)
    /\ phase' = "done"
    /\ UNCHANGED <<src, trgt, ops, one, two, next, request, out_ops, out_pos>>

Smaller(m, n) == IF m < n THEN m ELSE n

Emitting(kind) ==
    /\ phase = "convert" /\ request.left > 0 /\ request.kind = kind
    /\ UNCHANGED <<src, trgt, ops, one, two, next, phase>>

EmitAdd ==
    /\ Emitting("Add")
    /\ LET size == Smaller(request.left, MAX_INST_SIZE)
       IN /\ Push(Add(SubSeq(trgt, out_pos + 1, out_pos + size)), size)
          /\ request' = [request EXCEPT !.left = @ - size]

(* Faulty variant: the match is not cut into u16 sizes. *)
EmitCopyWhole ==
    /\ Emitting("Copy")
    /\ Push(Copy(request.from, request.addr, request.left), request.left)
    /\ request' = [request EXCEPT !.left = 0]

EmitCopy ==
    /\ Emitting("Copy")
    /\ LET size == Smaller(MAX_INST_SIZE, request.left)
       IN /\ Push(Copy(request.from, request.addr, size), size)
          /\ request' = [request EXCEPT !.addr = @ + size, !.left = @ - size]

EmitRun ==
    /\ Emitting("Run")
    /\ LET size == Smaller(MAX_RUN_LEN, request.left)
       IN /\ Push(Run(request.byte, size), size)
          /\ request' = IF request.left > size
                        THEN [request EXCEPT !.left = @ - size]
                        ELSE [request EXCEPT !.kind = "RunCopy", !.left = request.copy_bytes,
                                 !.max_copy_size = COPY_LIMIT]

EmitRunCopy ==
    /\ Emitting("RunCopy")
    /\ LET size == Smaller(Smaller(request.max_copy_size, request.left), MAX_INST_SIZE)
       IN /\ Push(Copy("Output", request.addr, size), size)
          /\ request' = [request EXCEPT !.left = @ - size, !.max_copy_size = @ + size]

-----------------------------------------------------------------------------
OpMakerNext ==
    \/ Disjoint \/ DropRedundant \/ KeepLonger \/ MeetMidway \/ EndOverlaps
    \/ SkipRemoved \/ FillGap \/ StartOp \/ FillTail \/ Finish
    \/ EmitAdd \/ EmitCopy \/ EmitRun \/ EmitRunCopy

(* One thread runs translate_inner_ops to its end. *)
OpMakerSpec ==
    OpMakerInit /\ [][OpMakerNext]_opMakerVars /\ WF_opMakerVars(OpMakerNext)

-----------------------------------------------------------------------------
OpMakerTypeOK ==
    /\ src \in Seq(Byte) /\ trgt \in Seq(Byte)
    /\ ops \in Seq(InnerOp)
    /\ one \in Nat \ {0} /\ two \in Nat \ {0} /\ next \in 1 .. Len(ops) + 1
    /\ request \in Requests
    /\ out_ops \in Seq(Op)
    /\ out_pos \in 0 .. Len(trgt)
    /\ phase \in {"overlaps", "convert", "done"}

(* Whatever overlaps the encoder found, no assertion of translate_inner_ops *)
(* fails: the matches compared are sorted, the later of two that are cut    *)
(* ends later, those converted do not start before the output's end, and a  *)
(* match in the output ends before it.  A state where one fails is stuck.   *)
AssertionsHold ==
    /\ Comparing => Start(one) <= Start(two)
    /\ Comparing /\ Overlap /\ ~ Redundant /\ ~ TooClose => End(two) >= End(one)
    /\ Converting /\ next <= Len(ops) /\ ops[next].length > 0 =>
          /\ Start(next) >= out_pos
          /\ Start(next) = out_pos => ReadsOutput(ops[next])

(* An operation put at a position of the output makes the target's bytes   *)
(* there, reads only output that exists by then, and fits its size field.  *)
Rebuilds(op, at) ==
    /\ is_add(op) => /\ Len(op.bytes) \in 1 .. MAX_INST_SIZE
                     /\ SameBytes(op.bytes, 0, trgt, at, Len(op.bytes))
    /\ is_run(op) => /\ op.len \in 1 .. MAX_RUN_LEN /\ at + op.len <= Len(trgt)
                     /\ \A j \in 1 .. op.len : trgt[at + j] = op.byte
    /\ is_copy(op) => /\ op.len \in 1 .. MAX_INST_SIZE
                      /\ SameBytes(CopiedFrom(op, src, trgt), op.addr, trgt, at, op.len)
    /\ is_copy_from(op, "Output") => op.addr + op.len <= at

StepRebuilds ==
    /\ out_ops' # out_ops =>
          LET op == out_ops'[Len(out_ops')]
          IN /\ out_ops' = Append(out_ops, op)
             /\ out_pos' = out_pos + oal(op)
             /\ Rebuilds(op, out_pos)
    /\ phase' = "done" => out_pos' = Len(trgt)

(* Every operation made rebuilds the target where the one before ended, as  *)
(* encode asserts of it (translate_inner_ops, make_add_ops, make_copy_ops,  *)
(* make_run_ops), and a finished list rebuilds all of the target.           *)
OpsRebuildTarget == [][StepRebuilds]_opMakerVars

(* Both passes and every loop of the make functions end. *)
TranslationEnds == <>(phase = "done")
=============================================================================
