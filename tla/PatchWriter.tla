---------------------------- MODULE PatchWriter ----------------------------
(***************************************************************************)
(* smdiff-writer/src/lib.rs: write_section_header and write_ops, called    *)
(* for one section after another as section_writer does.  The header comes *)
(* from the caller and need not match the operations: write_ops finds that *)
(* out before the first operation or after the last one.                   *)
(*                                                                         *)
(* With secondary compression the operations go to a buffer first and are  *)
(* written compressed when they are complete: as a patch of its own, or as *)
(* a frame of the external zstd and brotli.  What zstd's decoder reads when *)
(* it is made, before it is asked for anything, is a field of its own.      *)
(***************************************************************************)
EXTENDS PatchWire

CONSTANTS Patches,     \* by compression, the section lists a caller has written
          MAX_WIN_SIZE \* largest output of a section: 2^24 - 1

(* What a caller owes the writer: operations that fit the fields of a patch *)
(* and whose sizes add up to a u32.  The header's numbers may be any u32.   *)
Writable(op) == (is_add(op) => Len(op.bytes) <= MAX_INST_SIZE) /\ (is_run(op) => op.len > 0)
IsSection(s) ==
    /\ \A k \in 1 .. Len(s.ops) : Writable(s.ops[k])
    /\ SumOal(s.ops) < U32_SIZE
    /\ s.header.num_operations < U32_SIZE
    /\ s.header.num_add_bytes < U32_SIZE
    /\ s.header.output_size < U32_SIZE

(* A reader that wants nothing of a zstd frame leaves its rest in front of  *)
(* the next header: only the last section may be one without operations, as *)
(* make_sections has it.                                                    *)
ASSUME WriterAssumption ==
    /\ MAX_WIN_SIZE \in Nat /\ MAX_INST_SIZE <= MAX_WIN_SIZE
    /\ DOMAIN Patches \subseteq Algo
    /\ \A algo \in DOMAIN Patches : \A p \in Patches[algo] :
          /\ p \in Seq([header : SectionHeader, ops : Seq(Op)]) /\ p # <<>>
          /\ \A i \in 1 .. Len(p) :
                /\ IsSection(p[i]) /\ (p[i].header.more_sections <=> i < Len(p))
                /\ algo = 2 /\ i < Len(p) => p[i].ops # <<>>

VARIABLES patch,            \* the sections to write, each a header and operations
          section,          \* the section being written
          written,          \* operations of it written so far
          last_addr,        \* last_d_addr and last_o_addr, by copy source
          add_bytes_slices, \* Add bytes held back to the end of the section
          sec_comp,         \* the compression asked for
          sec_data_buffer,  \* the fields of the section that are to be compressed
          writer            \* "header", "ops", then "ok", "error", "panic" or
                            \* "truncated"

writerVars == <<patch, section, written, last_addr, add_bytes_slices, sec_comp,
                sec_data_buffer, writer>>

WriterInit ==
    /\ wire = <<>>
    /\ sec_comp \in DOMAIN Patches /\ patch \in Patches[sec_comp]
    /\ section = 1 /\ written = 0
    /\ last_addr = NoAddr /\ add_bytes_slices = <<>>
    /\ sec_data_buffer = <<>>
    /\ writer = "header"

Section == patch[section]

Control(h) ==
    Field("control", [compression_algo |-> h.compression_algo, format |-> h.format,
                      more_sections |-> h.more_sections])

(* The header as far as its last number, which is what is put out and is   *)
(* not an Add's.                                                            *)
HeaderStart(h) ==
    <<Control(h)>> \o u_varint[h.num_operations]
    \o (IF h.format = "Segregated" THEN u_varint[h.num_add_bytes] ELSE <<>>)

HeaderFields(h) ==
    HeaderStart(h)
    \o u_varint[IF h.format = "Segregated" THEN wrapping_sub(h.output_size, h.num_add_bytes)
                ELSE h.output_size]

(* Faulty: the address registers live on from one section to the next. *)
WriteHeaderKeepsRegisters ==
    /\ writer = "header"
    /\ wire' = wire \o HeaderFields([Section.header EXCEPT !.compression_algo = sec_comp])
    /\ writer' = IF \/ Section.header.output_size > MAX_WIN_SIZE
                    \/ Section.header.num_operations # Len(Section.ops)
                 THEN "error" ELSE "ops"
    /\ written' = 0 /\ add_bytes_slices' = <<>>
    /\ UNCHANGED <<patch, section, last_addr, sec_comp, sec_data_buffer>>

(* write_section_header, then the checks write_ops makes before it writes. *)
WriteHeader ==
    /\ writer = "header"
    /\ wire' = wire \o HeaderFields([Section.header EXCEPT !.compression_algo = sec_comp])
    /\ writer' = IF \/ Section.header.output_size > MAX_WIN_SIZE
                    \/ Section.header.num_operations # Len(Section.ops)
                 THEN "error" ELSE "ops"
    /\ written' = 0 /\ last_addr' = NoAddr /\ add_bytes_slices' = <<>>
    /\ UNCHANGED <<patch, section, sec_comp, sec_data_buffer>>

(* More Add bytes than output: a build that checks its differences stops in *)
(* the middle of the header.                                                *)
WriteHeaderPanics ==
    /\ writer = "header" /\ Section.header.format = "Segregated"
    /\ Section.header.num_add_bytes > Section.header.output_size
    /\ wire' = wire \o HeaderStart([Section.header EXCEPT !.compression_algo = sec_comp])
    /\ writer' = "panic"
    /\ UNCHANGED <<patch, section, written, last_addr, add_bytes_slices, sec_comp,
                   sec_data_buffer>>

OpByteAndSize(op) ==
    LET opbyte(size) == Field("opbyte", [flag |-> bit_flag(op), size |-> size])
    IN CASE size_routine(oal(op)) = "Done" -> <<opbyte(oal(op))>>
         [] size_routine(oal(op)) = "U8And62" ->
               <<opbyte(MAX_RUN_LEN + 1), Field("u8", oal(op) - MAX_RUN_LEN)>>
         [] size_routine(oal(op)) = "U16" -> <<opbyte(0), Field("u16", oal(op))>>

(* What write_op_addtl puts after the size, given the address registers; a  *)
(* segregated Add has nothing here.                                         *)
Additional(op, addr, format) ==
    IF is_run(op) THEN <<Field("byte", op.byte)>>
    ELSE IF is_copy(op)
    THEN u_varint[zigzag_encode(diff_addresses_to_i64(addr[op.src], op.addr))]
    ELSE IF format = "Interleaved" THEN Bytes(op.bytes) ELSE <<>>

OpFields(op, addr, format) == OpByteAndSize(op) \o Additional(op, addr, format)

(* The section's fields go to the file, or to the buffer to be compressed. *)
PutFields(fields) ==
    IF sec_comp = 0
    THEN wire' = wire \o fields /\ UNCHANGED sec_data_buffer
    ELSE sec_data_buffer' = sec_data_buffer \o fields /\ UNCHANGED wire

WriteOp ==
    /\ writer = "ops" /\ written < Len(Section.ops)
    /\ LET op == Section.ops[written + 1]
           format == Section.header.format
       IN /\ PutFields(OpFields(op, last_addr, format))
          /\ last_addr' = IF is_copy(op) THEN [last_addr EXCEPT ![op.src] = op.addr]
                          ELSE last_addr
          /\ add_bytes_slices' = IF is_add(op) /\ format = "Segregated"
                                 THEN add_bytes_slices \o op.bytes ELSE add_bytes_slices
    /\ written' = written + 1
    /\ UNCHANGED <<patch, section, sec_comp, writer>>

(* One operation of a nested patch.  The encoder's choice of operations is *)
(* EncoderLoop's; here a stretch of the data is a copy of the data's first  *)
(* bytes where it repeats them, and an Add otherwise.                       *)
NestedOp(data, from, to) ==
    LET bytes == SubSeq(data, from + 1, to)
        same(i) == bytes[i].kind = data[i].kind /\ bytes[i].value = data[i].value
    IN IF from > 0 /\ \A i \in 1 .. to - from : same(i)
       THEN Copy("Output", 0, to - from) ELSE Add(bytes)

(* The sections of the patch that encode makes of the data, without a       *)
(* dictionary and with its default format and segment size.                 *)
SegmentSize == MAX_INST_SIZE * (MAX_WIN_SIZE \div MAX_INST_SIZE)
Pieces(n, unit) == (n + unit - 1) \div unit
UpTo(n, data) == IF n < Len(data) THEN n ELSE Len(data)
NestedSections(data) == IF data = <<>> THEN 1 ELSE Pieces(Len(data), SegmentSize)

NestedSection(data, k) ==
    LET from == (k - 1) * SegmentSize
        size == UpTo(k * SegmentSize, data) - from
        ops == Pieces(size, MAX_INST_SIZE)
    IN [header |-> [compression_algo |-> 0, format |-> "Interleaved",
                    more_sections |-> k < NestedSections(data), num_operations |-> ops,
                    num_add_bytes |-> 0, output_size |-> size],
        ops |-> [i \in 1 .. ops |-> NestedOp(data, from + (i - 1) * MAX_INST_SIZE,
                                              UpTo(from + i * MAX_INST_SIZE, data))]]

(* That patch: its copies all have the address 0, as the registers do. *)
Nested(data) ==
    LET fields(s) ==
            HeaderFields(s.header)
            \o FlattenSeq([i \in 1 .. Len(s.ops) |->
                              OpFields(s.ops[i], NoAddr, "Interleaved")])
    IN FlattenSeq([k \in 1 .. NestedSections(data) |-> fields(NestedSection(data, k))])

Compressed(data) ==
    IF sec_comp = 1 THEN Nested(data)
    ELSE (IF sec_comp = 2 THEN <<Field("frame_head", 2)>> ELSE <<>>)
         \o <<Field("frame", data)>>

(* The Add bytes held back are written before either total is checked; data *)
(* to compress is compressed after that, and its buffer cleared.            *)
FinishOps ==
    /\ writer = "ops" /\ written = Len(Section.ops)
    /\ LET h == Section.header
           data == sec_data_buffer \o Bytes(add_bytes_slices)
           refused == \/ /\ h.format = "Segregated"
                         /\ Len(add_bytes_slices) # h.num_add_bytes
                      \/ SumOal(Section.ops) # h.output_size
       IN /\ writer' = IF refused THEN "error"
                       ELSE IF section = Len(patch) THEN "ok" ELSE "header"
          /\ IF sec_comp # 0 /\ ~ refused
             THEN wire' = wire \o Compressed(data) /\ sec_data_buffer' = <<>>
             ELSE PutFields(Bytes(add_bytes_slices))
    /\ section' = IF writer' = "header" THEN section + 1 ELSE section
    /\ UNCHANGED <<patch, written, last_addr, add_bytes_slices, sec_comp>>

(* The file loses its end: whoever wrote or moved it stopped part way. *)
Truncate ==
    /\ writer = "ok"
    /\ \E n \in 0 .. Len(wire) - 1 : wire' = SubSeq(wire, 1, n)
    /\ writer' = "truncated"
    /\ UNCHANGED <<patch, section, written, last_addr, add_bytes_slices, sec_comp,
                   sec_data_buffer>>

WriterNext == WriteHeader \/ WriteHeaderPanics \/ WriteOp \/ FinishOps \/ Truncate

WriterStopped == writer \in {"ok", "error", "panic", "truncated"}

WriterTypeOK ==
    /\ \A i \in 1 .. Len(patch) :
          patch[i].header \in SectionHeader /\ patch[i].ops \in Seq(Op)
    /\ section \in 1 .. Len(patch)
    /\ written \in Nat
    /\ last_addr \in [CopySrc -> Nat]
    /\ add_bytes_slices \in Seq(Byte)
    /\ sec_comp \in Algo
    /\ sec_comp = 0 => sec_data_buffer = <<>>
    /\ writer \in {"header", "ops", "ok", "error", "panic", "truncated"}
=============================================================================
