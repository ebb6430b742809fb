--------------------------- MODULE PatchPipeline ---------------------------
(***************************************************************************)
(* A patch file from the writer to the decoder's sink.  The writer leaves  *)
(* a whole file, one it stopped writing on an error, or one cut short;     *)
(* then apply_patch asks the section iterator for a section and applies it *)
(* until the iterator returns None or an error (smdiff-decoder/src/lib.rs).*)
(***************************************************************************)
EXTENDS PatchWriter, PatchReader, Decoder

VARIABLE delivered \* the sections handed to the decoder, with their headers

pipelineVars == <<wire, writerVars, readerVars, decoderVars, delivered>>

PipelineInit == WriterInit /\ ReaderInit /\ DecoderInit /\ delivered = <<>>

(* The file is read once it is no longer written. *)
Write ==
    /\ pos = 1 /\ reader = "idle"
    /\ WriterNext
    /\ UNCHANGED <<readerVars, decoderVars, delivered>>

(* apply_patch is inside next_borrowed when no operation is left to apply. *)
Reading == WriterStopped /\ outcome = "running" /\ ops = <<>>

Read ==
    /\ Reading /\ ReaderStep
    /\ UNCHANGED <<wire, writerVars, decoderVars, delivered>>

Deliver ==
    /\ Reading /\ Return
    /\ BeginSection(op_buffer)
    /\ delivered' = Append(delivered, [header |-> header, ops |-> op_buffer])
    /\ UNCHANGED <<wire, writerVars>>

DeliverError ==
    /\ Reading /\ (ReadError \/ ReadPanic)
    /\ ReaderEnds(reader')
    /\ UNCHANGED <<wire, writerVars, delivered>>

DeliverNone ==
    /\ Reading /\ ReturnNone
    /\ ReaderEnds("ok")
    /\ UNCHANGED <<wire, writerVars, delivered>>

ApplyNext ==
    /\ ApplyOp
    /\ UNCHANGED <<wire, writerVars, readerVars, delivered>>

PipelineNext == Write \/ Read \/ Deliver \/ DeliverError \/ DeliverNone \/ ApplyNext

(* One thread runs the writer and then the decoder to their ends; only the *)
(* loss of the file's end is not bound to happen.                          *)
PipelineSpec ==
    /\ PipelineInit /\ [][PipelineNext]_pipelineVars
    /\ WF_pipelineVars(Write /\ ~ Truncate)
    /\ WF_pipelineVars(Read \/ Deliver \/ DeliverError \/ DeliverNone \/ ApplyNext)

-----------------------------------------------------------------------------
PipelineTypeOK == WriterTypeOK /\ ReaderTypeOK /\ DecoderTypeOK

(* What a section's header tells a reader of its operations: of a header    *)
(* that denies them, with no operations and no output, nothing.  write_ops  *)
(* refuses to go on behind it, but it is in the file.                       *)
SaysNothing(h) == h.num_operations = 0 /\ h.output_size = 0
Told(s) == IF SaysNothing(s.header) THEN <<>> ELSE s.ops
Heard == [i \in 1 .. Len(patch) |-> [header |-> patch[i].header, ops |-> Told(patch[i])]]

(* Every section the reader hands out is the section the writer was given, *)
(* operation by operation, unless its header denies them: sizes, addresses *)
(* and Add bytes survive in both layouts, and no address register leaks    *)
(* from one section into the next (write_op_addtl, read_op,                 *)
(* read_ops_no_comp).                                                       *)
ReadsWhatWasWritten ==
    \A i \in 1 .. Len(delivered) : delivered[i].ops = Told(patch[i])

(* A file the writer completed without an error is never refused by the    *)
(* reader, the two agree on every field and every total; but for a brotli  *)
(* section without operations, which is refused always, since into_inner   *)
(* finds its stream unread (reader.rs:81).                                  *)
AcceptedIsReadable ==
    /\ writer = "ok" /\ reader \in {"error", "panic"} =>
          /\ sec_comp = 3 /\ reader = "error"
          /\ Len(delivered) < Len(patch) /\ patch[Len(delivered) + 1].ops = <<>>
    /\ \A i \in 1 .. Len(delivered) : sec_comp = 3 => delivered[i].ops # <<>>

(* The frame behind the last header is one that no operation asks for. *)
TailUnread == sec_comp = 2 /\ patch[Len(patch)].ops = <<>>

(* A patch that seems to apply is the whole patch: a file that lost its end *)
(* at any field, or that the writer gave up on part way, ends in an error   *)
(* and never in a shorter output reported as complete.  What may be missing *)
(* is the rest of a zstd frame that holds nothing; and where the writer     *)
(* gave up on a terminal section whose header denies its operations, their  *)
(* loss is not noticed.                                                     *)
NoSilentTruncation ==
    outcome = "ok" =>
        /\ Len(delivered) = Len(patch)
        /\ writer = "truncated" \/ pos # Len(wire) + 1 => TailUnread
        /\ (\E i \in 1 .. Len(patch) : delivered[i].ops # patch[i].ops) =>
              writer \in {"error", "panic"} /\ SaysNothing(patch[Len(patch)].header)

(* What the operations of the whole patch mean, sections set aside. *)
Replay(p) ==
    LET all == FlattenSeq([i \in 1 .. Len(p) |-> p[i].ops])
    IN OutputAfter(all, Src, <<>>)[Len(all)]

(* The output of a patch applied without an error is the meaning of the    *)
(* operations that were written, however they were cut into sections.      *)
OutputIsMeaning == outcome = "ok" => SubSeq(sink, 1, cur_o_pos) = Replay(Heard)

(* Applying a file comes to an end, whatever state the file was left in. *)
ApplyEnds == <>(outcome # "running")

=============================================================================
