# Verification of smdiff

TLA+ models of smdiff, a library that encodes the difference of two files as a
patch, applies patches, merges them and converts them (the Rust workspace under
`src/`). The models are checked with TLC on small instances; what matters most is
proved with TLAPS for every value of the constants.

## 1. The system

A patch is a list of sections. A section is a header and a list of operations:
`Add` (literal bytes), `Run` (one byte repeated) and `Copy` (a stretch of the
dictionary, which is the old file, or of the output produced so far). Everything
is single threaded: the library has no locks, no callbacks and no persistent state
of its own. What is hard is sequence: positions and hashes that must stay in step
through thousands of steps, registers reset at the right moment, lists of indices
into a list that is being rewritten, rings whose places are shared, sizes at the
borders of their encodings, and files that end where they should not.

| component | source | state | operations | correct if | module |
|---|---|---|---|---|---|
| operations and encodings | `smdiff-common/src/lib.rs` | none | sizes, op byte, varints, address differences | each value read is the value written | `SmdiffOps`, `PatchWire` |
| patch writer | `smdiff-writer/src/lib.rs` `write_section_header`, `write_ops` | two address registers, held back Add bytes | one call per section | the file says what the operations say, or an error is returned | `PatchWriter` |
| secondary compression | `smdiff-encoder/src/writer.rs` | buffers | `section_writer` | the section, expanded, is the section | `PatchWriter` |
| section builder | `smdiff-writer/src/lib.rs`, `make_sections` | open slice and its counts | one pass | sections tile the patch, are within the limit, headers exact | `Sections` |
| patch reader | `smdiff-reader/src/lib.rs` | position, registers, operation buffer, `done` | next section | returns what was written; a short file is an error | `PatchReader` |
| compressed section iterator | `smdiff-decoder/src/reader.rs` | the same and a decompressed buffer | next section | as the reader; stops at the end of the nested stream | `PatchReader` |
| decoder | `smdiff-decoder/src/lib.rs` | the caller's sink, its cursor, `cur_o_pos` | `apply_patch` | the sink holds what the patch means | `Decoder` |
| match loop | `smdiff-encoder/src/encoder.rs` | matches found, run length, lazy minimum | `encode_inner` | matches are true, ordered, none contained; the loop ends | `EncoderLoop` |
| source matcher | `src_matcher.rs`, `hasher.rs` | hash table, window, rolling hash | find, slide, extend | no match outside either file; hashes in step | `EncoderLoop`, `RollingHash`, `HashChains` |
| target matcher | `trgt_matcher.rs`, `hashmap.rs` | hash table, ring of earlier positions | find, store, walk | the walk ends, no match overlaps itself | `EncoderLoop`, `HashChains` |
| operation maker | `op_maker.rs`, `InnerOp` | list of matches, output position | two passes | operations rebuild the target | `InnerOps`, `OpMaker` |
| encoder front end | `smdiff-encoder/src/lib.rs` | none | `encode` | patch applied to the source gives the target | partly: its parts above |
| merger | `smdiff-merger/src/lib.rs` | merged operations, indices of copies to resolve | `new`, `merge`, `finish` | the merged patch is the composition of the patches | `PlacedOps`, `Merger` |
| transcoder | `transcoder.rs` | list of operations | join, cut | output means the same as the input | `Transcoder` |
| VCDIFF converter | `smdiff-vcdiff/src/lib.rs` | open section, source segment | one pass | output means the same as the input | `VcdiffConvert` |
| benchmarks | `smdiff-testing/` | - | - | - | - |

The encoder calls the match loop, the operation maker, the section builder and
the writer; the decoder pulls sections from an iterator, which calls the reader;
the merger and the transcoder read with that iterator and write with the section
builder and the writer; the VCDIFF converter writes sections itself. They meet in
the patch file and in the lists of matches and operations only, so that is where
the modules meet: what one promises is what the next assumes (section 2, "How the
parts fit"). The hazards of each, at their lines, are in `PROJECT.json`.

## 2. The modules

| module | models | extends |
|---|---|---|
| `SmdiffOps` | the operations, their lengths and meanings | |
| `PatchMeaning` | what a patch promises: an abstract specification without sink, cursor or sections | `SmdiffOps` |
| `Decoder` | `apply_patch`, `apply_ops` over any sections | `SmdiffOps`, instantiates `PatchMeaning` |
| `PatchWire` | the patch file as a sequence of fields, varints as bytes, the frame around a compressed section | `SmdiffOps` |
| `PatchWriter` | `write_section_header`, `write_ops`, `section_writer` | `PatchWire` |
| `PatchReader` | `read_section_header`, `read_op`, `read_ops_no_comp`, the section iterators | `PatchWire` |
| `PatchPipeline` | writer, file, reader and decoder composed | the three |
| `Sections` | `make_sections` | `SmdiffOps` |
| `InnerOps` | `InnerOp`: matches, their truth and their order | `SmdiffOps` |
| `OpMaker` | `translate_inner_ops` and the make functions | `InnerOps` |
| `RollingHash` | `hasher.rs`: the multiplicative hash, rolled forward and back | |
| `HashChains` | `hashmap.rs`: buckets, the ring of previous positions, where a walk ends | `RollingHash` |
| `EncoderLoop` | `encode_inner`, `src_matcher.rs`, `trgt_matcher.rs` | `InnerOps`, `HashChains` |
| `PlacedOps` | operations with their places in the output | `SmdiffOps` |
| `Merger` | `Merger::new`, `merge`, `finish` and the slices they take | `PlacedOps` |
| `Transcoder` | `join_adjacent_adds`, `join_adjacent_runs`, `make_add_ops`, `make_run_ops` | `PlacedOps` |
| `VcdiffConvert` | `convert_vcdiff_to_smdiff` | `PlacedOps` |
| `MC*` | the instances that TLC checks | |
| `*_proofs` | the theorems | the module proved about, `Lemmas`, `TLAPS` |

Names are those of the code. A definition preceded by "Faulty" is not part of any
specification: it is the form a plausible bug would give to the definition after
it, kept to show that a property would notice.

**SmdiffOps.** An operation is a record. The widths of the code are constants, so
that a small instance meets the same borders: `MAX_RUN_LEN` is 62 in the code,
`MAX_INST_SIZE` 65535. `oal` wraps for an Add too long, as its cast to u16 does.

**Decoder.** `sink` and `cursor` are the caller's `Write + Read + Seek`. An action
is one operation with all its seeks, reads and writes; a failed read leaves the
cursor where it ended and the output as it was. The sink may hold bytes from the
start, since nothing in `apply_patch` truncates it. A copy of no bytes succeeds at
any address, as `seek` and `read_exact` do.

**PatchWire, PatchWriter, PatchReader, PatchPipeline.** The file is a sequence of
fields, one for each byte or word that a `write_*` function writes: a control byte,
each byte of a varint, an op byte with its flag and size indicator, a u8 or u16
size, a literal byte. A varint is laid out in groups of `VARINT_BASE` (128 in the
code) with a continuation mark, and a signed address difference by zigzag; the
reader reads them back byte by byte, so that a file may end inside a number.
A section may be compressed: it is then written as a patch of its own, nested
between a header with the compression algorithm and the next section. The nested
patch stands for one that the second encoder would find: the model takes Adds, and
copies where bytes repeat. `WriteHeader` includes the checks
that `write_ops` makes before its first operation, which come after the header is
in the file; `FinishOps` writes the held back Add bytes before it compares totals,
as the code does. `Truncate` is external: the file loses its end at any field. The
reader then runs over whatever there is, and `Deliver` hands its section to the
decoder's `BeginSection`. The sums of sizes in a header are of u32 (`wrapping_sub`,
`wrapping_add`); where a build checks them, `WriteHeaderPanics` and `ReadPanic` are what
it does instead.

What zstd and brotli make of a section is external: a frame, and of zstd a head in front
of it. Of their decoders the model says what `reader.rs:75-82` relies on. They read
when they are asked. `StreamingDecoder::new` reads the head and no more (`OpenFrame`).
The first byte of the first operation asks for the frame (`Inflate`); the operations are
all read before the last byte of it was, and with that byte the decoder has taken the
whole frame from the file, since ruzstd holds back its last window until the frame is
over and brotli is finished with its last byte. That a frame is taken in one step, and
not block by block, makes no difference, since a section that fails part way is not
handed out. A section without operations asks for nothing: the rest of its zstd frame
stays in the file, in front of whatever follows, and `into_inner` refuses its brotli
stream, which is not finished (`ReadError`).

**Sections.** One action per iteration: `Extend` if the next operation fits,
`Cut` if it does not (push, reset, take the operation), and `PushLast` after the
loop. `result` also records where in the output each section begins and ends; the
code has no such fields, the properties speak of them.

**InnerOps, OpMaker.** One action per iteration of the first pass (`Disjoint`,
`DropRedundant`, `KeepLonger`, `MeetMidway`, after its branches) and of the second
(`SkipRemoved`, `FillGap`, `StartOp`, `FillTail`), and one per operation that a
make function emits, with the loop's variables in `request`. The assertions of the
code are guards, so a state where one fails is stuck, and `AssertionsHold` says
that there is none. What the match loop promises (`TrueMatch`, `Ordered`) is the
assumption `OpMakerAssumption`.

**RollingHash, HashChains.** The hash is the code's polynomial modulo `HASH_SIZE`
(2^64 on most machines) with an odd multiplier and its inverse; a bucket keeps a
position, plus one so that 0 is empty, and the hash it was stored under.
`BucketOf` is a constant, so that buckets collide. The ring holds as many previous
positions as its capacity and is addressed by position modulo capacity, so places
are shared; what `ChainEnds` leaves is what `PrevPositionIterator::next` yields.

**EncoderLoop.** `state` is the code's `LoopState`; an action is one iteration of
the loop, except that a walk along a chain of target positions takes an action per
position (`StartWalk`, `PassOver`, `Examine`, `Advance`, `ChainEnd`). Both matchers
are kept with their hash tables, so a candidate is whatever the table holds under
the hash at hand, verified as the code verifies it. `StartNewMatchPanics` and
`BuildPanics` are the two places where a slice may be indexed past its end. The
naive tests, the lazy search, the clearing of earlier matches when a source match
reaches back and a ring of any capacity (the code asserts a power of two, or 0, at
`hashmap.rs:147`) are all there; `comp_level` only
chooses configurations, and any configuration is an instance.

**PlacedOps, Merger.** `ExtractOp` is `extract_patch_instructions`, `DerefOp` and
`PushOp` are `deref_copy_o`, `ResolveCopy` is the loop of `merge`, `ExpandOp` and
`PushOp` are `expand_to`. The errors of reading that `extract_patch_instructions`
passes on are left out: they end `new` and `merge` before anything is changed.
`get_exact_slice` is defined by the range it returns
instead of by its search. A chain carries the files as well as the patches, and its
patches the positions of their operations: the actions read neither, the properties
do.

**Transcoder.** One action per step of a joining loop and per operation that a make
function emits. The copies that `make_run_ops` would make of a Run of
`6 * MAX_RUN_LEN` bytes or more are left out: Runs come from a file in sizes up to
`MAX_RUN_LEN` and are joined in pairs, so none is as long (`TranscoderTypeOK`,
which is proved).

**VcdiffConvert.** The messages of the external VCDIFF reader are read from a file
that is valid (`ConvertAssumption`): windows in a row, each with a source segment
that exists and copies typed by where they read. The bytes that repeat in one of
type `CopyQ` end where it begins; its `len_o`, what it adds to the output, may be
smaller than their number. One action per message or per operation made of one.
`write_ops` is represented by its two refusals, of a section over the limit and of
one whose operations do not add up.

**How the parts fit.** `MatchesAsPromised` of `EncoderLoop` is `OpMakerAssumption`
word for word (`TrueMatch` and `Ordered` of `InnerOps`) with one exception, stated
in it: the naive test of an empty source gives a match of no bytes, which the
operation maker drops or skips and its model excludes. `OpsRebuildTarget` gives
operations within the size limits that `Sections` takes; its sections
(`SectionsWellFormed`, `TotalsExact`) are those `PatchWriter` does not refuse;
`PatchPipeline` takes them through the file to the decoder, and `ImplementsMeaning`
gives the bytes. `SizesFit` says that what the transcoder makes can be written.

## 3. Model checking

| run | instance | shows |
|---|---|---|
| `decoder` | sections of up to 2 of 12 operations, 3 sinks, up to 5 bytes of output before the last section, copies that reach what a reused sink held | the sink and the cursor stay in step, every step but such a copy is one of the patch's meaning (refinement), every section is finished or reported |
| `pipeline` | 1 or 2 sections of up to 2 and 1 of 7 operations, both layouts and mixed, compressed or not, without operations too, headers that are off by one, that wrap, or that deny their operations, every truncation | what is read is what was written, files accepted are readable but for an empty brotli section, no truncated or refused file passes for complete but in two cases that the property names, the output is the replay of the operations, applying ends |
| `header_reality` | the same | a counterexample: section 6 |
| `sections` | all lists of up to 5 of 6 operations, 3 limits | tiling, limits, terminal flag, exact totals, no early cut |
| `opmaker` | two pairs of files, every list of up to 3 ordered maximal matches | no assertion fails, every operation rebuilds its part of the target within its size limits, the loops end |
| `merger` | chains of 2 patches (any of up to 3 of 7 operations with some of 4 before or after) and of 3 | the merged patch is the composition, no unwrap fails, the indices stay exact, an early summary reads no file |
| `merger_new` | the same | a counterexample: section 6 |
| `encoder` | 3 sources of up to 22 bytes, targets of a piece of one between other bytes, 6 configurations: each matcher alone and both, lazy or not, the naive tests, rings of 0, 2 and the default, hashes of 16 values in 4 buckets | the matches are true, ordered, none contained; the source's hash and table are those of their windows; no index leaves its slice but where the code panics; every step moves on or down a chain |
| `encoder_panics` | one pair of files | a counterexample: section 6 |
| `encoder_walk` | one pair of files, with weak fairness | a counterexample: section 6 |
| `transcode` | patches of up to 4 operations, with Adds and Runs at their limits and copies of both kinds | the same file is made by no more operations, each size fits its field, the loops end |
| `vcdiff` | files of up to 2 windows of up to 3 instructions and some of 3 windows, each without a segment, from the source and from the target | the sections make the target, their headers are exact, only a copy that repeats more than a u16 holds fails |

*Why the bounds suffice.* The widths are small enough that each border is crossed:
with `MAX_RUN_LEN = 1` and `MAX_INST_SIZE = 3` the sizes 1, 2, 3 take the three
encodings of a size; sections of 5 or 6 bytes overflow with the third operation;
a run of six bytes is "long" and its copies are cut by the u16 limit; with
`VARINT_BASE = 2` numbers from 2 on take more than one byte, and with `U32_SIZE = 8` the
difference of a header with more Add bytes than output wraps. Two sections are enough
for anything carried from one to the next, a third section repeats the second. Two
neighbours and the one after are all that a step of the overlap pass looks at, and a
third match meets what the first two left. In the merger a second merge starts from
indices that the first computed, so three patches reach every state that more would.
All bytes of the merged files' source differ, so that a copy from a wrong address
shows. In the encoder the windows of the two hashes are 3 and 5 in place of 4 and 9
and hashes have 16 values, so that a short file has several windows, equal hashes of
different windows, shared buckets and shared places of the ring; bytes have two
values, so that matches overlap and runs occur by themselves. Four operations are
two pairs for the transcoder's loops, and an odd one. Two windows are enough for
what the VCDIFF converter keeps from one to the next.

*Limits of the instances.* `MaxOps`, `MaxOutput`, `MaxMatches`, `MinMatch` and
`MinPiece` bound the inputs; they stand in the MC modules and their cfgs.

*Fairness.* One thread runs each of these functions to its end, which is weak
fairness of its steps. It is not assumed of what callers or the world decide: that
a file is truncated, that another section exists, that a caller merges again. The
match loop's termination is stated without fairness, as a rank that every step
lowers (`EveryStepProgresses`), for every target matcher that was not prefilled.

*Deadlock* is not checked where a program ends. That none stops too early is what
`SectionFinishes`, `ApplyEnds`, `TranslationEnds`, `MergeEnds` and `Transcodes` say.
The match loop has a step for having returned, so there deadlock is checked: no
state of the loop is without a continuation.

*What is claimed of whom.* `Transcodes` is claimed of patches with operations, and
`EncoderAssertions` of every slice but the two of section 6.

## 4. Proofs

`PatchPipeline_proofs`, for any patches (`WriterAssumption`), dictionary and sinks, both
layouts, every compression, any limits and a file that ends wherever it does. The
decoder by itself comes first:

- `DecoderTypeCorrect`, `CursorCorrect`: the two invariants. Together they are inductive:
  a write ends where the output ends only if it began there, and the cursor is a
  position of the sink only because the output lies within it. The lemmas on
  `Written` say what a write leaves of the bytes before its position.
- `DecoderImplementsMeaning`: every step of the decoder is a step of `PatchMeaning` or a
  stutter, except a copy that reaches past the output into what the sink held before
  (`CopiesStayInOutput`, of the step that makes it). Without the exception the theorem is
  false, since a patch that means nothing would copy those bytes. If there never is
  such a copy, as in a fresh sink, the decoder implements `PatchMeaning` altogether
  (`DecoderRefinesMeaning`).

Then the way of a patch through the file:

- The fields of a patch are known before any is written: `File` puts the header and the
  payload of each section one after another, and `Start`, `PayloadAt` say where each
  begins. So no proof speaks of what was written when; the lemmas on reading say of a
  place of the file that `read_u_varint`, `ReadHeader` and `ReadOp` find there what
  `File` has there (`VarintRead`, `HeaderStep`, `OpRead`), that they fail exactly if the
  file ends before, and what the address registers and the place are afterwards. An
  address is written as a difference to a register, and `Registers` is what writer and
  reader both have after the first n operations.
- A reader can know of a section only what its header says, so `File` is not of the
  sections given but of `Heard`: those whose header denies their operations (none, and
  no output) have none there. For every other section the two are the same.
- `WriterInv`: what is written is `File` up to the section at hand and its operations up
  to the one at hand. What a caller sees once the writer has stopped is `WireCut`: the
  file is a beginning of `File`, whole if the writer reports no error, and it ends before
  the operations of the first section whose header the writer refuses. Of a compressed
  section nothing but the header is there unless it is sound, since it goes to a buffer
  first.
- `ReaderInv`: what was delivered are the first sections of the patch, and the reader
  stands at the beginning of the next (`Idle`), in front of a frame or behind its head
  (`Framed`), inside a section, or, at the end only, in front of a zstd frame that nothing
  asks for (`AtTail`). There three places are one (`Place`): the file, the decompressed
  window, and a section of the nested patch. `Partly` says of each that the buffer holds
  the operations read so far, Adds still without their bytes in the segregated layout,
  and that place and registers are those behind them; `Wholly` that all are there. That
  a header with other totals than its operations is never passed off as a section is
  that the file ends before its last field, or that the sizes do not add up. Of a file that
  was written without an error, what is refused is a brotli section without operations
  (`Unread`), and nothing else (`NothingRefused`).
- A nested patch is one that the encoder makes of the fields (`NestedSection`). Its
  sections are read by the same lemmas, and what they put out are those fields again.
- `PipelineTypeCorrect`, `ReadsCorrect`, `AcceptedCorrect`, `TruncationCorrect` follow from
  the three invariants together (`PipelineInv`). `TruncationCorrect` needs where a reader
  of a whole patch ends (`EndIs`): behind the last field of `File`, so that the file is
  whole, or one field before it (`AtTail`). And that a section with a header which denies
  its operations is the last one of those read, since the file of a writer that gave up
  ends with that header.
- `OutputCorrect`: `OutputInv` says that some number m of the operations of the whole
  patch are applied, those in the decoder's hands are the next ones, and what the sink
  has up to the output position is `OutputAfter` m of them, so that each operation
  applied is one more step of the recursion. It has the premise of
  `DecoderImplementsMeaning`, for the same reason.

`Sections_proofs`, for operation lists of any length:

- `InvHolds`: the inductive invariant. `SectionsTile` and `SectionsWellFormed`
  alone are not inductive: they need that the open section's own counts are within
  the limit and belong to a slice that has an operation unless the loop has only
  begun, which `OpenSection` adds.
- `TypeCorrect`, `TileCorrect`, `WellFormedCorrect` follow.
- `TotalsCorrect`, `CutsCorrect`: a header's totals are differences of the running sums
  over the whole list (`OutputBytes`, `AddBytes`), so that a cut needs no induction: the
  open section's counts are such a difference too (`Counts`), and taking one operation
  moves its end by one. `CutByNext` says of a closed section why it was closed, at a
  time when the next one is not closed yet.

`OpMaker_proofs`, for any files and any list of true, ordered matches, with any
overlaps:

- `InvCorrect`: the inductive invariant `OpMakerInv`. That no two matches overlap is
  what the second pass needs and only holds once the first is over. `PassOne` says
  how it comes about: the matches behind `one` are apart, those between `one` and
  `two` are gone, those from `two` on are ordered as the encoder left them, which
  may overlap. That a match is still true after it was cut or moved is
  `MatchesTrue`; that it can still be moved is that `MeetMidway` is only reached
  when the second match starts later than the first and the one after it does not
  reach the first. `PassTwo` adds where the output will end once the current
  request is served (`RequestEnd`), which does not reach into the next match, and
  that what is requested is true of the target. For a long run that is the heart of
  `EmitRunCopy`: the copy's address and its largest size add up to the output's end.
- `TypeCorrect`, `AssertionsCorrect` and `RebuildCorrect` follow. The last says that
  the operations, applied one after another, give the target: every step that makes
  an operation is checked against the target at the position where the one before
  ended.

`Transcoder_proofs`, for the operations of any patch and any limits:

- `InvCorrect`: the inductive invariant `TranscoderInv`. The meaning of the list is
  not inductive without what the loops have not touched yet: `NotJoinedYet` says
  which operations are still as they were in the patch while neighbours are joined
  from the first one on, and `PartConverted` how far the operation at hand is made.
  A joined Run is of two Runs of a patch at most, since the loop steps past what it
  joined; so `RUN_LIMIT` is never reached and the branch that makes copies of a long
  Run never taken.
- `TypeCorrect`, `MeaningCorrect`, `SizesCorrect` follow. The join loops take two
  operations out of a list and put one in; the row of the rest is shown place by
  place, for the part before, the joined operation and the part behind.
- `CountCorrect`: the loop that cuts may be one operation ahead, so the count alone is
  not inductive. `PiecesInv` says of an operation too long for one piece that it takes
  two and has an emptied one of its kind behind it, which the loop steps over without
  making any (`CountInv`); that a joined operation is not joined again is that the loop
  of its kind is past both.

`VcdiffConvert_proofs`, for any valid VCDIFF file (`ConvertAssumption`: windows that
follow one another, instructions that make the target's bytes by RFC 3284) and any
limits:

- `InvCorrect`: the inductive invariant `ConvertInv`. `InPlace` ties the output
  position to the window and instruction at hand, and what is remembered of a source
  segment to its window. `PartConverted` is what makes the pieces of a repeating copy
  right: the bytes to be made next are those that repeat, from their first on; each
  piece but the last is one whole period, so the next begins with the period's first
  byte again. `AddsUp` says that the open section's total is that of its operations
  unless a length wrapped in the cast, which takes a period longer than a u16 holds;
  after that it stays short until the section is refused. `Follows`: the open section
  begins where the last one written ends.
- `HeadersCorrect`: the counts of the open section are the sums over its operations
  (`SumsInv`), by one more term of a sum for each piece pushed. It needs that an Add's
  length never wraps, since the count of Add bytes is of pieces and the sum of fields.
- `TypeCorrect`, `MeaningCorrect`, `FailsCorrect` follow. One lemma for each kind of
  instruction shows that its piece makes the bytes of its place (`FitsPiece`), and
  `PushInv` that the push of such a piece keeps the invariant, whether it fits the
  open section or not.

`Merger_proofs`, for patches of any number and length that follow one another
(`MergerAssumption`), and any limits:

- `InvHolds`: the inductive invariant `MergerInv`. `MergedMeaning` is not inductive: it
  speaks of the states between two merges only, and says nothing of the lists that the
  loops of `new` and `merge` have half built. `Reading` does so phase by phase. While a
  patch is read, what is extracted and what is still in the file make the file together
  (`ExtractInv`). While copies from the output are dereferenced or the terminal patch is
  expanded, `Building` says that the list built so far makes the file up to its position,
  and that what is on its way into it makes the next bytes once it is moved, all of it by
  one distance. `Merging` says that the operations resolved for the first copies stand
  for what these copies read, and that the rest of the indices is still to be resolved.
- `UnwrapsCorrect` rests on `CoveredIn`, that two operations found by
  `find_controlling_op` span the slice asked for, and `SliceFlat`, that what
  `get_exact_slice` then cuts from a row of operations is a row that makes exactly those
  bytes and reads no output.
- `IndicesCorrect`: the shift that `merge` carries is a sum over the copies expanded so
  far (`Shifts`), and `InsertedBy` the indices of their copies at the places which they
  will only have once `expand_to` is through; `Placed` says that the list being built has
  reached those places. That the terminal patch has no other copies than those resolved
  makes the set complete, and that it was exact before the merge makes it ordered.
- `TypeCorrect`, `MeaningCorrect` and `SummaryCorrect` follow; the last needs that no
  operation extracted was a copy when the counter of their bytes is zero.

`EncoderLoop_proofs`, for any files, any configuration and any size of windows,
hashes and tables that the assumptions admit:

- `RollsForward`, `RollsBackward`: the checksum of a window is a sum of bytes times
  powers, defined by recursion, and rolling is arithmetic modulo `HASH_SIZE`. The
  proof first shows that the recursive functions are defined (by the lemmas of
  `Lemmas`), then that the sums of two neighbouring windows differ by the byte that
  leaves and the byte that enters, by induction along the window; rolling back needs
  that the inverse multiplier undoes the multiplier (`HashAssumption`).
- `LoopIsTyped`: the inductive invariant `LoopTyped`. Types alone are not inductive: a
  hash looks up a table, what it holds is an index, and the index must lie in a file.
  `SourceInStep` says so of the source matcher: each bucket of its table (`TrueBuckets`)
  leads to a whole window of the source with the bucket's hash, and its own hash is that
  of where it stands, unless the last whole window is passed. `TargetInStep` says that
  the target matcher stores only what the loop has passed, `LooksAt` that both matchers
  stand where the loop does when it looks, and `WalkTrue` that the best match of a walk
  is one. `Positions` bounds the numbers; it rests on the rest, since a match found moves
  the position. `EncoderIsTyped`, `HashesStayInStep` and `EncoderAsserts` follow.
- `LoopFindsTrueMatches`: the invariant `MatchesTrue`, which rests on the first. That
  no match is contained in another is not inductive: a match found later is longer than
  what an earlier one may reach beyond the position (`Placed`), since `min_match` grows
  with what was found, and a source match that reaches back clears those it begins
  before. `RunTrue` and `PrependTrue` say that the counted run and the matched end of the
  target are what they claim. `MatchesKeepPromise` and `NoMatchContained` follow; the
  first is what `OpMaker` assumes.
- `ChainsStayOrdered`: what the table holds and what each place of the ring leads to lies
  behind the position at hand, and a place, though shared, leads further back than the
  latest position of that place (`LeadsBack`). With it every step of the loop gets
  somewhere (`StepsProgress`). A prefilled matcher holds the position it starts from,
  which is why the property excludes it.

`Lemmas` holds what several of these share: induction over intervals, that a function
defined by recursion along an interval or the naturals exists and is unique, what
`RunningSum` computes, that an operation appended to a row begins where it ends, and,
for lists of whatever elements, how concatenating many of them (`Together`) puts each at
its place (`PartAt`). The
induction is on sets, from the least element that every set of naturals has
(`WellFoundedInduction`), which needs no operator as a parameter.

The assumptions are those named in the modules (`LimitsAssumption`,
`DecoderAssumption`, `SectionsAssumption`, `OpMakerAssumption`,
`WireAssumption`, `WriterAssumption`, `ZeroAssumption`,
`HashAssumption`, `BucketAssumption`, `EncoderAssumption`,
`TranscoderAssumption`, `ConvertAssumption`); TLC evaluates each of them on its runs.

What `WriterAssumption` asks of a patch is less than the texts of `write_section_header`
and `write_ops` ask: these want a header that matches the operations
(`smdiff-writer/src/lib.rs:32`), while here its numbers may be any u32. Excluded are an
Add longer than a u16 holds (its length is cast), a Run of no bytes (an assertion stops
it), operations that put out 2^32 bytes or more, and headers whose `more_sections` is not
that another section follows. Of a patch compressed with zstd only the last section may
be without operations: the reader leaves the rest of such a frame where it looks for the
next header, and what it makes of those bytes is not modelled. `make_sections` breaks
none of this: only the one section of an empty patch has no operations.
`ZeroAssumption` says that 0 is a byte.

Only model-checked: all liveness (`ApplyEnds` and the like), which is out of the prover's
reach.

## 5. Not modelled

- The front end `encode` itself, which reads its files whole and calls the parts in
  turn, has no module: it has no state, and what one part promises is what the next
  assumes. `EncoderConfig`'s levels only choose numbers.
- That `PatchPipeline` takes the very sections that `make_sections` cuts, and the
  operations that `OpMaker` makes, is by the stated interfaces, not by a composed run:
  a composition multiplies state spaces that meet in one list.
- zstd, brotli and the VCDIFF reader are external; their frames and messages are
  modelled from how the code uses them.
- Memory, file handles and performance; the benchmarks and file tests of
  `smdiff-testing`.
- Files damaged other than by losing their end: the format has no checksum, so any
  valid patch may be the damaged form of any other.

## 6. Where the code and its texts disagree

Four disagreements have a run that shows them:

- `header_reality`: `read_ops_no_comp` (`smdiff-reader/src/lib.rs:85`) adds the
  Add bytes to a header that already counts them, in the segregated layout, and
  leaves 0 in the interleaved one; its comment (lines 65-67) promises the converse.
- `merger_new`: `Merger::new` returns a Merger without copies, against its
  `debug_assert` (`smdiff-merger/src/lib.rs:285`), for a terminal patch whose only
  copies are from its own output.
- `encoder_panics`: after a jump over a match that ends a few bytes before the
  target's end, `encode_inner` takes a window past the end
  (`smdiff-encoder/src/encoder.rs:194`, and 191 for a short jump) and panics, where
  `encode` documents errors of reading and writing only. `MoveForwardOneByte` and
  the search itself look first; the branch that moves the hash does not.
- `encoder_walk`: a target matcher that was prefilled after a naive test may store
  the position it starts at twice, and a place of the ring then leads to itself
  (`smdiff-encoder/src/hashmap.rs:214`); a search that reaches it does not end, though
  `chain_check` is documented as the most entries it looks at.

Others were met while modelling and are stated here only:

- `StreamingDecoder::new(..).unwrap()` (`smdiff-decoder/src/reader.rs:76`) panics on a
  compressed section that lost its head, where `apply_patch` documents an error. The
  model has it as the reader's outcome "panic".
- A section without operations, as `encode` makes of an empty target, cannot be read
  back if it is compressed with brotli: `into_inner()?` (`reader.rs:81`) refuses the stream
  that no operation has read. `AcceptedIsReadable` says that this is the only file that
  the writer accepts and the reader does not. Compressed with zstd it is read, but not its
  frame: what is left of it, or whether it is there, is not noticed
  (`NoSilentTruncation`, `TailUnread`).
- `write_ops` refuses a header that counts no operations and no output for a list that is
  not empty, but the header is in the file (`smdiff-writer/src/lib.rs:38`): if it is the
  last one, a reader takes the file for a complete patch without these operations.
  `NoSilentTruncation` says that no other file that the writer gave up on passes for a
  whole one.
- A copy from the output reads what a reused sink held before, without an error, where it
  reaches past the output (`smdiff-decoder/src/lib.rs:78-86`). `ImplementsMeaning` has
  `CopiesStayInOutput` in front of the step for that reason; without it TLC finds the copy
  at once, on the instance of the run `decoder`.
- The transcoder panics on a patch without operations (`transcoder.rs:87`,
  `PanicEmpty`), joins neighbours in pairs where its text (line 16) speaks of groups,
  and never makes copies of a long Run, since pairs are too short for them.
- Filling the target matcher in advance reads `trgt[old_pos+4]` up to the start
  position (`trgt_matcher.rs:175`, `BuildPanics`): a target with fewer than four
  bytes after its naive match panics.
- The target matcher's rolling hash starts as 0 (`trgt_matcher.rs:163`), so that the
  first positions may be stored under a hash that is not theirs. Matches are
  verified, so this costs matches, not correctness (`MatchesAsPromised`).
- The window of source positions does not slide: `cur_window_end` and
  `max_match_pos` keep their first values (`src_matcher.rs:72`).
- A copy of a VCDIFF file that repeats more bytes than a u16 holds is cast
  (`smdiff-vcdiff/src/lib.rs`), and `write_ops` then refuses the section:
  `FailsOnlyOnLongPeriods` says that nothing else makes a conversion fail.
