---------------------------- MODULE PatchReader ----------------------------
(***************************************************************************)
(* smdiff-reader/src/lib.rs: read_section_header, read_op and the two      *)
(* layouts of read_ops_no_comp, with the section iterator around them that *)
(* is in smdiff-decoder/src/reader.rs.  A frame of zstd or brotli is read  *)
(* when the first operation asks for it, and not at all when none does.  A *)
(* section that is a patch itself is read first, by the same code, and     *)
(* applied to win_data (apply_no_sec_comp); its header waits in outer until *)
(* the terminal section in it is read.  A read that finds the file at its   *)
(* end is an error.                                                        *)
(***************************************************************************)
EXTENDS PatchWire

(* What a segregated Add holds until its bytes are read is a byte: 0. *)
ASSUME ZeroAssumption == "zero" \in Byte

VARIABLES pos,       \* the next field to read
          header,    \* the header of the section being read
          op_buffer, \* its operations read so far
          cur_addr,  \* cur_d_addr and cur_o_addr, by copy source
          done,      \* the terminal section has been read
          outer,     \* while a nested patch is read: <<the header around it>>
          win_data,  \* the fields of a compressed section
          win_pos,   \* the next of them to read
          reader     \* "idle", "open", "frame", "ops", "adds", "ready", then
                     \* "none", "error" or "panic"

winVars == <<outer, win_data, win_pos>>
readerVars == <<pos, header, op_buffer, cur_addr, done, winVars, reader>>

NoHeader == [compression_algo |-> 0, format |-> "Interleaved", more_sections |-> FALSE,
             num_operations |-> 0, num_add_bytes |-> 0, output_size |-> 0]

ReaderInit ==
    /\ pos = 1
    /\ header = NoHeader
    /\ op_buffer = <<>> /\ cur_addr = NoAddr
    /\ done = FALSE
    /\ outer = <<>> /\ win_data = <<>> /\ win_pos = 1
    /\ reader = "idle"

(* A nested patch is read as if nothing in it were compressed. *)
FromWindow == outer = <<>> /\ header.compression_algo # 0 /\ reader \in {"ops", "adds"}

(* The file, or the decompressed section, and the next field there. *)
Source == IF FromWindow THEN win_data ELSE wire
Here == IF FromWindow THEN win_pos ELSE pos

MoveTo(at) ==
    IF FromWindow THEN win_pos' = at /\ UNCHANGED pos
    ELSE pos' = at /\ UNCHANGED win_pos

Value(at) == Source[at].value

(* The next fields there are of these kinds.  (A field of another kind     *)
(* never comes up: ReadsWhatWasWritten.)                                   *)
FieldsAre(kinds, at) ==
    /\ at + Len(kinds) - 1 <= Len(Source)
    /\ \A i \in 1 .. Len(kinds) : Source[at + i - 1].kind = kinds[i]

Segregated == header.format = "Segregated"

(* read_u_varint: the number there and the place behind it; nothing if the *)
(* file ends before.                                                       *)
read_u_varint[at \in Nat] ==
    IF ~ FieldsAre(<<"varint">>, at) THEN {}
    ELSE IF ~ Value(at).more THEN {[n |-> Value(at).low, after |-> at + 1]}
    ELSE {[n |-> Value(at).low + VARINT_BASE * v.n, after |-> v.after] :
              v \in read_u_varint[at + 1]}

(* Behind the control byte: the number of operations, in the segregated    *)
(* layout that of Add bytes, and what else is put out.                     *)
HeaderRest ==
    LET adds(at) == IF Value(pos).format = "Segregated" THEN read_u_varint[at]
                    ELSE {[n |-> 0, after |-> at]}
    IN UNION {UNION {{[ops |-> o.n, adds |-> a.n, size |-> s.n, after |-> s.after] :
                          s \in read_u_varint[a.after]} :
                      a \in adds(o.after)} :
              o \in read_u_varint[pos + 1]}

CanReadHeader == FieldsAre(<<"control">>, pos) /\ HeaderRest # {}

(* A call of the iterator that is not done: op_buffer is cleared, the header *)
(* read and both address registers start again from zero.  Then read_ops    *)
(* looks at the compression, but not inside a nested patch.                 *)
ReadHeader ==
    /\ reader = "idle" /\ ~ done /\ CanReadHeader
    /\ \E rest \in HeaderRest :
          LET c == Value(pos)
              h == [compression_algo |-> c.compression_algo, format |-> c.format,
                    more_sections |-> c.more_sections, num_operations |-> rest.ops,
                    num_add_bytes |-> rest.adds,
                    output_size |-> IF c.format = "Segregated"
                                    THEN wrapping_add(rest.adds, rest.size) ELSE rest.size]
              algo == IF outer = <<>> THEN h.compression_algo ELSE 0
          IN /\ header' = h
             /\ outer' = IF algo = 1 THEN <<h>> ELSE outer
             /\ reader' = CASE algo = 0 -> "ops"
                            [] algo = 1 -> "idle"
                            [] algo = 2 -> "open"
                            [] algo = 3 -> "frame"
             /\ pos' = rest.after
    /\ op_buffer' = <<>> /\ cur_addr' = NoAddr
    /\ win_data' = IF outer = <<>> THEN <<>> ELSE win_data
    /\ win_pos' = 1
    /\ UNCHANGED done

(* StreamingDecoder::new: only the frame's head is read. *)
OpenFrame ==
    /\ reader = "open" /\ FieldsAre(<<"frame_head">>, pos)
    /\ pos' = pos + 1
    /\ reader' = IF header.num_operations = 0 THEN "ops" ELSE "frame"
    /\ UNCHANGED <<header, op_buffer, cur_addr, done, winVars>>

(* The first operation asks for its op byte.  The external decompressors    *)
(* yield what was compressed and, for its last byte, have taken their frame *)
(* from the file, no less and no more.                                      *)
Inflate ==
    /\ reader = "frame" /\ header.num_operations > 0 /\ FieldsAre(<<"frame">>, pos)
    /\ win_data' = Value(pos)
    /\ pos' = pos + 1
    /\ reader' = "ops"
    /\ UNCHANGED <<header, op_buffer, cur_addr, done, outer, win_pos>>

SizeKinds(indicator) ==
    CASE size_routine(indicator) = "Done" -> <<>>
      [] size_routine(indicator) = "U8And62" -> <<"u8">>
      [] size_routine(indicator) = "U16" -> <<"u16">>

(* The size of the operation whose op byte is here. *)
OpSize ==
    CASE size_routine(Value(Here).size) = "Done" -> Value(Here).size
      [] size_routine(Value(Here).size) = "U8And62" -> Value(Here + 1) + MAX_RUN_LEN
      [] size_routine(Value(Here).size) = "U16" -> Value(Here + 1)

(* Where the additional field of the operation here begins. *)
AfterSize == Here + 1 + Len(SizeKinds(Value(Here).size))

IsCopy(flag) == flag \in {"COPY_D", "COPY_O"}

(* The bytes there, unless it is a copy's address. *)
AdditionalBytes(flag) ==
    IF flag = "RUN" THEN 1 ELSE IF Segregated THEN 0 ELSE OpSize

CanReadOp ==
    /\ FieldsAre(<<"opbyte">>, Here)
    /\ Value(Here).flag = "RUN" => size_routine(Value(Here).size) = "Done"
    /\ FieldsAre(SizeKinds(Value(Here).size), Here + 1)
    /\ IF IsCopy(Value(Here).flag) THEN read_u_varint[AfterSize] # {}
       ELSE FieldsAre([i \in 1 .. AdditionalBytes(Value(Here).flag) |-> "byte"], AfterSize)

ReadOp ==
    /\ reader = "ops" /\ Len(op_buffer) < header.num_operations /\ CanReadOp
    /\ LET flag == Value(Here).flag
           src == IF flag = "COPY_D" THEN "Dict" ELSE "Output"
           input == CHOOSE v \in read_u_varint[AfterSize] : TRUE
           addr == diff_addresses_to_u64(cur_addr[src], zigzag_decode(input.n))
           bytes == [i \in 1 .. OpSize |->
                        IF Segregated THEN "zero" ELSE Value(AfterSize + i - 1)]
           op == IF IsCopy(flag) THEN Copy(src, addr, OpSize)
                 ELSE IF flag = "RUN" THEN Run(Value(AfterSize), OpSize)
                 ELSE Add(bytes)
       IN /\ op_buffer' = Append(op_buffer, op)
          /\ cur_addr' = IF IsCopy(flag) THEN [cur_addr EXCEPT ![src] = addr] ELSE cur_addr
          /\ header' = IF Segregated /\ flag = "ADD"
                       THEN [header EXCEPT !.num_add_bytes = @ + OpSize] ELSE header
          /\ MoveTo(IF IsCopy(flag) THEN input.after ELSE AfterSize + AdditionalBytes(flag))
    /\ UNCHANGED <<done, outer, win_data, reader>>

(* All operations are there: their sizes must add up to the header's. *)
CheckSize ==
    /\ reader = "ops" /\ Len(op_buffer) = header.num_operations
    /\ SumOal(op_buffer) = header.output_size
    /\ reader' = IF Segregated THEN "adds" ELSE "ready"
    /\ UNCHANGED <<pos, header, op_buffer, cur_addr, done, winVars>>

AddLen == AddsAmong(op_buffer, Len(op_buffer))

(* Faulty: every Add takes its bytes from the front of them. *)
FilledFromFront ==
    [i \in 1 .. Len(op_buffer) |->
        IF is_add(op_buffer[i])
        THEN Add([j \in 1 .. Len(op_buffer[i].bytes) |-> Value(Here - 1 + j)])
        ELSE op_buffer[i]]

(* Each Add takes its bytes, in the order of the operations. *)
Filled ==
    LET from(i) == Here - 1 + AddsAmong(op_buffer, i - 1)
    IN [i \in 1 .. Len(op_buffer) |->
          IF is_add(op_buffer[i])
          THEN Add([j \in 1 .. Len(op_buffer[i].bytes) |-> Value(from(i) + j)])
          ELSE op_buffer[i]]

FillAdds ==
    /\ reader = "adds" /\ FieldsAre([i \in 1 .. AddLen |-> "byte"], Here)
    /\ op_buffer' = Filled
    /\ MoveTo(Here + AddLen)
    /\ reader' = "ready"
    /\ UNCHANGED <<header, cur_addr, done, outer, win_data>>

(* Faulty: the end of the file is not noticed while Add bytes are missing. *)
ReadErrorButAdds ==
    /\ \/ reader = "idle" /\ ~ done /\ ~ CanReadHeader
       \/ reader = "frame" /\ (header.num_operations = 0 \/ ~ FieldsAre(<<"frame">>, pos))
       \/ reader = "ops" /\ Len(op_buffer) < header.num_operations /\ ~ CanReadOp
       \/ /\ reader = "ops" /\ Len(op_buffer) = header.num_operations
          /\ SumOal(op_buffer) # header.output_size
    /\ reader' = "error"
    /\ UNCHANGED <<pos, header, op_buffer, cur_addr, done, winVars>>

(* The file ends too early, a Run has a size field, or the sizes do not add *)
(* up; or into_inner refuses a brotli stream that no operation has read.    *)
ReadError ==
    /\ \/ reader = "idle" /\ ~ done /\ ~ CanReadHeader
       \/ reader = "frame" /\ (header.num_operations = 0 \/ ~ FieldsAre(<<"frame">>, pos))
       \/ reader = "ops" /\ Len(op_buffer) < header.num_operations /\ ~ CanReadOp
       \/ /\ reader = "ops" /\ Len(op_buffer) = header.num_operations
          /\ SumOal(op_buffer) # header.output_size
       \/ reader = "adds" /\ ~ FieldsAre([i \in 1 .. AddLen |-> "byte"], Here)
    /\ reader' = "error"
    /\ UNCHANGED <<pos, header, op_buffer, cur_addr, done, winVars>>

(* What new says of a zstd frame without a head is unwrapped; and a build   *)
(* that checks its sums stops at a header whose sizes add up to no u32.     *)
ReadPanic ==
    /\ \/ reader = "open" /\ ~ FieldsAre(<<"frame_head">>, pos)
       \/ /\ reader = "idle" /\ ~ done /\ CanReadHeader /\ Value(pos).format = "Segregated"
          /\ \E rest \in HeaderRest : rest.adds + rest.size >= U32_SIZE
    /\ reader' = "panic"
    /\ UNCHANGED <<pos, header, op_buffer, cur_addr, done, winVars>>

(* Faulty: the sections of a nested patch all begin its output. *)
NestedReturnOverwrites ==
    /\ reader = "ready" /\ outer # <<>>
    /\ win_data' = OutputAfter(op_buffer, <<>>, <<>>)[Len(op_buffer)]
    /\ IF header.more_sections
       THEN reader' = "idle" /\ UNCHANGED <<header, outer>>
       ELSE reader' = "ops" /\ header' = outer[1] /\ outer' = <<>>
    /\ op_buffer' = <<>> /\ cur_addr' = NoAddr
    /\ UNCHANGED <<pos, done, win_pos>>

(* A section of a nested patch is applied to what those before it made (its *)
(* copies reach no further: encode made them).  After the terminal one the  *)
(* operations of the section around it are read from there.                 *)
NestedReturn ==
    /\ reader = "ready" /\ outer # <<>>
    /\ win_data' = OutputAfter(op_buffer, <<>>, win_data)[Len(op_buffer)]
    /\ IF header.more_sections
       THEN reader' = "idle" /\ UNCHANGED <<header, outer>>
       ELSE reader' = "ops" /\ header' = outer[1] /\ outer' = <<>>
    /\ op_buffer' = <<>> /\ cur_addr' = NoAddr
    /\ UNCHANGED <<pos, done, win_pos>>

(* next_borrowed returns the section, and remembers a terminal one. *)
Return ==
    /\ reader = "ready" /\ outer = <<>>
    /\ done' = (done \/ ~ header.more_sections)
    /\ reader' = "idle"
    /\ UNCHANGED <<pos, header, op_buffer, cur_addr, winVars>>

(* Faulty: the end of the file is as good as a terminal section. *)
ReturnNoneAtEnd ==
    /\ reader = "idle" /\ (done \/ pos = Len(wire) + 1)
    /\ reader' = "none"
    /\ UNCHANGED <<pos, header, op_buffer, cur_addr, done, winVars>>

(* next_borrowed returns None once it is done. *)
ReturnNone ==
    /\ reader = "idle" /\ done
    /\ reader' = "none"
    /\ UNCHANGED <<pos, header, op_buffer, cur_addr, done, winVars>>

ReaderStep ==
    ReadHeader \/ OpenFrame \/ Inflate \/ ReadOp \/ CheckSize \/ FillAdds \/ NestedReturn

ReaderTypeOK ==
    /\ pos \in 1 .. Len(wire) + 1
    /\ header \in SectionHeader
    /\ outer = <<>> => op_buffer \in Seq(Op)
    /\ cur_addr \in [CopySrc -> Int]
    /\ done \in BOOLEAN
    /\ outer = <<>> \/ outer[1] \in SectionHeader
    /\ win_pos \in 1 .. Len(win_data) + 1
    /\ reader \in {"idle", "open", "frame", "ops", "adds", "ready", "none", "error", "panic"}
=============================================================================
