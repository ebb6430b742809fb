-------------------------- MODULE Sections_proofs --------------------------
(* Proofs about make_sections, for every list of operations and every limit. *)
EXTENDS Sections, Lemmas, SequenceTheorems, TLAPS

(* A remainder is smaller than what one divides by. *)
LEMMA RemainderBound ==
    ASSUME NEW n \in Nat, NEW m \in Nat \ {0}
    PROVE  n % m \in 0 .. m - 1
  BY SMT

(* An operation's size is a u16. *)
LEMMA OalBound ==
    ASSUME NEW op \in Op
    PROVE  oal(op) \in 0 .. MAX_INST_SIZE
<1>1. CASE op \in AddOps
  <2>1. is_add(op) /\ Len(op.bytes) \in Nat
    BY <1>1 DEF AddOps, is_add
  <2>2. Len(op.bytes) % (MAX_INST_SIZE + 1) \in 0 .. MAX_INST_SIZE
    <3>1. MAX_INST_SIZE + 1 \in Nat \ {0} /\ (MAX_INST_SIZE + 1) - 1 = MAX_INST_SIZE
      BY LimitsAssumption
    <3> QED
      BY <2>1, <3>1, RemainderBound
  <2> QED
    BY <2>1, <2>2 DEF oal
<1>2. CASE op \in CopyOps
  BY <1>2 DEF CopyOps, oal, is_add
<1>3. CASE op \in RunOps
  BY <1>3, LimitsAssumption DEF RunOps, oal, is_add
<1> QED
  BY <1>1, <1>2, <1>3 DEF Op

(* The clamped limit lies in the range it is clamped to. *)
LEMMA ClampInRange ==
    ASSUME NEW size \in Nat
    PROVE  Clamp(size, MAX_INST_SIZE, MAX_WIN_SIZE) \in MAX_INST_SIZE .. MAX_WIN_SIZE
  BY LimitsAssumption, SectionsAssumption DEF Clamp

-----------------------------------------------------------------------------
(* What the loop keeps of the open section: its Add bytes are part of its  *)
(* output, which is within the limit and part of all the output, and it    *)
(* holds an operation as soon as one was taken.  A section that overflows  *)
(* with the next operation is therefore never empty when it is pushed.     *)
OpenSection ==
    /\ num_add_bytes <= output_size
    /\ output_size <= max_win_size
    /\ output_size <= o_pos
    /\ end_index > 0 => start_index < end_index
    /\ end_index = 0 => output_size = 0
    /\ finished => end_index = Len(list) /\ result # <<>>

SectionsInv == SectionsTypeOK /\ OpenSection /\ SectionsTile /\ SectionsWellFormed

LEMMA InvInit == SectionsInit => SectionsInv
<1> SUFFICES ASSUME SectionsInit PROVE SectionsInv
  OBVIOUS
<1>1. max_win_size \in MAX_INST_SIZE .. MAX_WIN_SIZE
  BY ClampInRange, SectionsAssumption DEF SectionsInit
<1>2. list \in Seq(Op) /\ result = <<>> /\ result \in Seq(SectionRecord)
  BY SectionsAssumption DEF SectionsInit
<1>3. SectionsTypeOK /\ OpenSection
  <2>1. /\ start_index = 0 /\ end_index = 0 /\ output_size = 0
        /\ num_add_bytes = 0 /\ o_pos = 0 /\ finished = FALSE
    BY DEF SectionsInit
  <2>2. Len(list) \in Nat /\ 0 <= max_win_size
    BY <1>1, <1>2, LimitsAssumption, SectionsAssumption
  <2>3. SectionsTypeOK
    <3>1. end_index \in 0 .. Len(list) /\ start_index \in 0 .. end_index
      BY <2>1, <2>2
    <3>2. output_size \in Nat /\ num_add_bytes \in Nat /\ o_pos \in Nat
      BY <2>1
    <3>3. finished \in BOOLEAN
      BY <2>1
    <3> QED
      BY <1>1, <1>2, <3>1, <3>2, <3>3 DEF SectionsTypeOK
  <2> QED
    BY <2>1, <2>2, <2>3 DEF OpenSection
<1>4. Len(result) = 0
  BY <1>2
<1>5. SectionsTile /\ SectionsWellFormed
  BY <1>2, <1>4 DEF SectionsInit, SectionsTile, SectionsWellFormed
<1> QED
  BY <1>3, <1>5 DEF SectionsInv

(* The next operation's size, and that of its Add bytes. *)
LEMMA SizesOfNext ==
    ASSUME SectionsTypeOK, end_index < Len(list)
    PROVE  /\ OpSize \in 0 .. MAX_INST_SIZE
           /\ AddSize \in 0 .. OpSize
<1>1. list[end_index + 1] \in Op
  BY DEF SectionsTypeOK
<1> QED
  BY <1>1, OalBound, LimitsAssumption DEF OpSize, AddSize

(* A closed section is a record of the right type. *)
LEMMA ClosedType ==
    ASSUME SectionsTypeOK, OpenSection, NEW more \in BOOLEAN
    PROVE  Closed(more) \in SectionRecord
<1>1. /\ end_index - start_index \in Nat
      /\ o_pos - output_size \in Nat
  BY DEF SectionsTypeOK, OpenSection
<1> QED
  BY <1>1 DEF SectionsTypeOK, Closed, SectionRecord

(* Pushing the open section keeps the sections in a row. *)
LEMMA PushKeepsTiles ==
    ASSUME SectionsInv, ~ finished, NEW more \in BOOLEAN,
           result' = Append(result, Closed(more))
    PROVE  /\ result' \in Seq(SectionRecord)
           /\ Len(result) \in Nat /\ Len(result') = Len(result) + 1
           /\ result' # <<>>
           /\ \A k \in 1 .. Len(result) : result'[k] = result[k]
           /\ result'[Len(result')] = Closed(more)
           /\ \A k \in 1 .. Len(result') :
                 /\ result'[k].output_size = result'[k].to - result'[k].from
                 /\ result'[k].num_operations = result'[k].end - result'[k].start
                 /\ k = 1 => result'[k].start = 0 /\ result'[k].from = 0
                 /\ k > 1 => /\ result'[k].start = result'[k - 1].end
                             /\ result'[k].from = result'[k - 1].to
<1>1. Closed(more) \in SectionRecord /\ result \in Seq(SectionRecord)
  BY ClosedType DEF SectionsInv, SectionsTypeOK
<1>2. /\ result' \in Seq(SectionRecord)
      /\ Len(result') = Len(result) + 1
      /\ \A k \in 1 .. Len(result) : result'[k] = result[k]
      /\ result'[Len(result) + 1] = Closed(more)
      /\ Len(result) \in Nat /\ result' # <<>>
  BY <1>1, AppendProperties
<1>3. ASSUME NEW k \in 1 .. Len(result)
      PROVE  /\ result'[k].output_size = result'[k].to - result'[k].from
             /\ result'[k].num_operations = result'[k].end - result'[k].start
             /\ k = 1 => result'[k].start = 0 /\ result'[k].from = 0
             /\ k > 1 => /\ result'[k].start = result'[k - 1].end
                         /\ result'[k].from = result'[k - 1].to
  <2>1. k > 1 => k - 1 \in 1 .. Len(result)
    OBVIOUS
  <2> QED
    BY <1>2, <2>1 DEF SectionsInv, SectionsTile
<1>4. /\ Closed(more).output_size = Closed(more).to - Closed(more).from
      /\ Closed(more).num_operations = Closed(more).end - Closed(more).start
  BY DEF Closed, SectionsInv, SectionsTypeOK, OpenSection
<1>5. Len(result) = 0 => Closed(more).start = 0 /\ Closed(more).from = 0
  <2>1. Len(result) = 0 => result = <<>>
    BY <1>1
  <2> QED
    BY <2>1 DEF Closed, SectionsInv, SectionsTile, SectionsTypeOK
<1>6. Len(result) > 0 => /\ Closed(more).start = result[Len(result)].end
                         /\ Closed(more).from = result[Len(result)].to
  BY <1>1 DEF Closed, SectionsInv, SectionsTile
<1> QED
  BY <1>1, <1>2, <1>3, <1>4, <1>5, <1>6

(* Each action keeps the invariant. *)
LEMMA ExtendKeepsInv == SectionsInv /\ Extend => SectionsInv'
<1> SUFFICES ASSUME SectionsInv, Extend PROVE SectionsInv'
  OBVIOUS
<1>1. /\ OpSize \in 0 .. MAX_INST_SIZE /\ AddSize \in 0 .. OpSize
      /\ ~ finished /\ end_index < Len(list)
      /\ output_size + OpSize <= max_win_size
  BY SizesOfNext DEF Extend, Overflows, SectionsInv, SectionsTypeOK
<1>2. SectionsTypeOK'
  BY <1>1 DEF Extend, TakeOp, SectionsInv, SectionsTypeOK
<1>3. OpenSection'
  BY <1>1 DEF Extend, TakeOp, SectionsInv, SectionsTypeOK, OpenSection
<1>4. SectionsTile'
  BY <1>1 DEF Extend, TakeOp, SectionsInv, SectionsTypeOK, SectionsTile
<1>5. SectionsWellFormed'
  BY DEF Extend, TakeOp, SectionsInv, SectionsWellFormed
<1> QED
  BY <1>2, <1>3, <1>4, <1>5 DEF SectionsInv

LEMMA CutKeepsInv == SectionsInv /\ Cut => SectionsInv'
<1> SUFFICES ASSUME SectionsInv, Cut PROVE SectionsInv'
  OBVIOUS
<1>1. /\ OpSize \in 0 .. MAX_INST_SIZE /\ AddSize \in 0 .. OpSize
      /\ ~ finished /\ end_index < Len(list)
      /\ output_size + OpSize > max_win_size
  BY SizesOfNext DEF Cut, Overflows, SectionsInv, SectionsTypeOK
<1>2. /\ result' \in Seq(SectionRecord)
      /\ Len(result) \in Nat /\ Len(result') = Len(result) + 1
      /\ result' # <<>>
      /\ \A k \in 1 .. Len(result) : result'[k] = result[k]
      /\ result'[Len(result')] = Closed(TRUE)
  <2>1. result' = Append(result, Closed(TRUE)) /\ TRUE \in BOOLEAN
    BY DEF Cut
  <2> QED
    BY <1>1, <2>1, PushKeepsTiles
<1>3. SectionsTypeOK'
  <2>1. end_index' \in 0 .. Len(list) /\ start_index' \in 0 .. end_index'
    BY <1>1 DEF Cut, TakeOp, SectionsInv, SectionsTypeOK
  <2>2. output_size' \in Nat /\ num_add_bytes' \in Nat /\ o_pos' \in Nat
    BY <1>1, LimitsAssumption DEF Cut, TakeOp, SectionsInv, SectionsTypeOK
  <2>3. list' = list /\ max_win_size' = max_win_size /\ finished' = finished
    BY DEF Cut, TakeOp
  <2> QED
    BY <1>2, <2>1, <2>2, <2>3 DEF SectionsInv, SectionsTypeOK
(* The limit is at least an operation's size, so what overflowed is not empty. *)
<1>4. output_size > 0 /\ start_index < end_index /\ OpSize <= max_win_size
  BY <1>1, LimitsAssumption, SectionsAssumption
  DEF SectionsInv, SectionsTypeOK, OpenSection
<1>5. OpenSection'
  <2>1. /\ num_add_bytes' = AddSize /\ output_size' = OpSize
        /\ o_pos' = o_pos + OpSize /\ max_win_size' = max_win_size
        /\ start_index' = end_index /\ end_index' = end_index + 1
        /\ finished' = finished
    BY DEF Cut, TakeOp
  <2>2. o_pos \in Nat /\ end_index \in Nat /\ OpSize \in Nat /\ AddSize \in Nat
    BY <1>1, LimitsAssumption DEF SectionsInv, SectionsTypeOK
  <2>3. AddSize <= OpSize /\ ~ finished
    BY <1>1
  <2> QED
    BY <1>4, <2>1, <2>2, <2>3 DEF OpenSection
<1>6. SectionsTile'
  <2>1. /\ Closed(TRUE).end = start_index'
        /\ Closed(TRUE).to = o_pos' - output_size'
        /\ ~ finished'
    BY <1>1 DEF Cut, TakeOp, Closed, SectionsInv, SectionsTypeOK
  <2> QED
    BY <1>1, <1>2, <2>1, PushKeepsTiles DEF Cut, SectionsTile
<1>7. SectionsWellFormed'
  <2>1. /\ Closed(TRUE).output_size <= max_win_size
        /\ Closed(TRUE).num_operations > 0
        /\ Closed(TRUE).num_add_bytes <= Closed(TRUE).output_size
        /\ Closed(TRUE).more_sections
    BY <1>4 DEF Closed, SectionsInv, SectionsTypeOK, OpenSection
  <2>2. ~ finished' /\ max_win_size' = max_win_size /\ list' = list
    BY <1>1 DEF Cut, TakeOp
  <2> QED
    <3>1. Closed(TRUE) = result'[Len(result')]
      BY <1>2
    <3>2. ASSUME NEW k \in 1 .. Len(result')
          PROVE  /\ result'[k].output_size <= max_win_size
                 /\ result'[k].num_operations > 0 \/ list = <<>>
                 /\ result'[k].num_add_bytes <= result'[k].output_size
                 /\ result'[k].more_sections <=> ~ (finished' /\ k = Len(result'))
      <4>1. CASE k = Len(result')
        BY <1>1, <2>1, <2>2, <3>1, <4>1
      <4>2. CASE k \in 1 .. Len(result)
        <5>1. result'[k] = result[k] /\ k # Len(result')
          BY <1>2, <4>2
        <5>2. ~ finished
          BY <1>1
        <5> QED
          BY <4>2, <5>1, <5>2 DEF SectionsInv, SectionsWellFormed
      <4> QED
        BY <1>2, <4>1, <4>2
    <3> QED
      BY <2>2, <3>2 DEF SectionsWellFormed
<1> QED
  BY <1>3, <1>5, <1>6, <1>7 DEF SectionsInv

LEMMA PushLastKeepsInv == SectionsInv /\ PushLast => SectionsInv'
<1> SUFFICES ASSUME SectionsInv, PushLast PROVE SectionsInv'
  OBVIOUS
<1>1. ~ finished /\ finished' /\ end_index = Len(list)
  BY DEF PushLast
<1>2. /\ result' \in Seq(SectionRecord)
      /\ Len(result) \in Nat /\ Len(result') = Len(result) + 1
      /\ result' # <<>>
      /\ \A k \in 1 .. Len(result) : result'[k] = result[k]
      /\ result'[Len(result')] = Closed(FALSE)
  <2>1. result' = Append(result, Closed(FALSE)) /\ FALSE \in BOOLEAN
    BY DEF PushLast
  <2> QED
    BY <1>1, <2>1, PushKeepsTiles
<1>3. SectionsTypeOK'
  BY <1>2 DEF PushLast, SectionsInv, SectionsTypeOK
<1>4. OpenSection'
  BY <1>2 DEF PushLast, SectionsInv, SectionsTypeOK, OpenSection
<1>5. SectionsTile'
  <2>1. Closed(FALSE).end = Len(list) /\ Closed(FALSE).to = o_pos
    BY <1>1 DEF Closed
  <2> QED
    BY <1>1, <1>2, <2>1, PushKeepsTiles DEF PushLast, SectionsTile
<1>6. SectionsWellFormed'
  <2>1. /\ Closed(FALSE).output_size <= max_win_size
        /\ Closed(FALSE).num_operations > 0 \/ list = <<>>
        /\ Closed(FALSE).num_add_bytes <= Closed(FALSE).output_size
        /\ ~ Closed(FALSE).more_sections
    <3>1. list = <<>> \/ end_index > 0
      BY <1>1 DEF SectionsInv, SectionsTypeOK
    <3> QED
      BY <3>1 DEF Closed, SectionsInv, SectionsTypeOK, OpenSection
  <2>2. max_win_size' = max_win_size /\ list' = list
    BY DEF PushLast
  <2> QED
    <3>1. Closed(FALSE) = result'[Len(result')]
      BY <1>2
    <3>2. ASSUME NEW k \in 1 .. Len(result')
          PROVE  /\ result'[k].output_size <= max_win_size
                 /\ result'[k].num_operations > 0 \/ list = <<>>
                 /\ result'[k].num_add_bytes <= result'[k].output_size
                 /\ result'[k].more_sections <=> ~ (finished' /\ k = Len(result'))
      <4>1. CASE k = Len(result')
        BY <1>1, <2>1, <2>2, <3>1, <4>1
      <4>2. CASE k \in 1 .. Len(result)
        <5>1. result'[k] = result[k] /\ k # Len(result')
          BY <1>2, <4>2
        <5>2. ~ finished
          BY <1>1
        <5> QED
          BY <4>2, <5>1, <5>2 DEF SectionsInv, SectionsWellFormed
      <4> QED
        BY <1>2, <4>1, <4>2
    <3> QED
      BY <2>2, <3>2 DEF SectionsWellFormed
<1> QED
  BY <1>3, <1>4, <1>5, <1>6 DEF SectionsInv

LEMMA InvNext == SectionsInv /\ [SectionsNext]_sectionsVars => SectionsInv'
<1>1. SectionsInv /\ UNCHANGED sectionsVars => SectionsInv'
  BY DEF sectionsVars, SectionsInv, SectionsTypeOK, OpenSection, SectionsTile,
         SectionsWellFormed
<1> QED
  BY <1>1, ExtendKeepsInv, CutKeepsInv, PushLastKeepsInv DEF SectionsNext

THEOREM InvHolds == SectionsSpec => []SectionsInv
  BY InvInit, InvNext, PTL DEF SectionsSpec

(* The state of make_sections always has its types. *)
THEOREM TypeCorrect == SectionsSpec => []SectionsTypeOK
<1>1. SectionsInv => SectionsTypeOK
  BY DEF SectionsInv
<1> QED
  BY <1>1, InvHolds, PTL

(* The sections of any list of operations tile the list and its output, and *)
(* when make_sections returns they cover all of both.                       *)
THEOREM TileCorrect == SectionsSpec => []SectionsTile
<1>1. SectionsInv => SectionsTile
  BY DEF SectionsInv
<1> QED
  BY <1>1, InvHolds, PTL

(* No section is over the clamped limit or empty, its Add bytes never exceed *)
(* its output, and only the last one is terminal, for any list and limit.    *)
THEOREM WellFormedCorrect == SectionsSpec => []SectionsWellFormed
<1>1. SectionsInv => SectionsWellFormed
  BY DEF SectionsInv
<1> QED
  BY <1>1, InvHolds, PTL

-----------------------------------------------------------------------------
(* What the counts of the open section add up to, and why a section ended: *)
(* the operation after it did not fit.                                     *)
Counts ==
    /\ output_size = OutputBytes[end_index] - OutputBytes[start_index]
    /\ num_add_bytes = AddBytes[end_index] - AddBytes[start_index]

CutByNext ==
    \A k \in 1 .. Len(result) :
        result[k].more_sections =>
            /\ result[k].end < Len(list)
            /\ result[k].output_size + oal(list[result[k].end + 1]) > max_win_size

SumsInv == Counts /\ TotalsExact /\ CutByNext

(* The sums over the list, by the operation that is taken next. *)
LEMMA ListSums ==
    ASSUME SectionsTypeOK
    PROVE  /\ \A n \in 0 .. Len(list) : OutputBytes[n] \in Nat /\ AddBytes[n] \in Nat
           /\ OutputBytes[0] = 0 /\ AddBytes[0] = 0
           /\ end_index < Len(list) =>
                 /\ OutputBytes[end_index + 1] = OutputBytes[end_index] + OpSize
                 /\ AddBytes[end_index + 1] = AddBytes[end_index] + AddSize
<1> DEFINE last == Len(list)
           size == [n \in 1 .. Len(list) |-> oal(list[n])]
           adds == [n \in 1 .. Len(list) |-> IF is_add(list[n]) THEN oal(list[n]) ELSE 0]
<1>1. last \in Nat /\ end_index \in 0 .. last
  BY DEF SectionsTypeOK
<1>2. ASSUME NEW n \in 1 .. last PROVE size[n] \in Nat /\ adds[n] \in Nat
  <2>1. oal(list[n]) \in Nat
    <3>1. list[n] \in Op
      BY DEF SectionsTypeOK
    <3> QED
      BY <3>1, OalBound, LimitsAssumption
  <2> QED
    BY <2>1
<1>3. end_index < last => /\ end_index + 1 \in 1 .. last /\ (end_index + 1) - 1 = end_index
                          /\ size[end_index + 1] = OpSize
                          /\ adds[end_index + 1] = AddSize
  BY <1>1 DEF OpSize, AddSize
<1>4. OutputBytes = RunningSum(size, last) /\ AddBytes = RunningSum(adds, last)
  BY DEF OutputBytes, AddBytes
<1> HIDE DEF last, size, adds
<1>5. /\ OutputBytes \in [0 .. last -> Nat] /\ OutputBytes[0] = 0
      /\ \A n \in 1 .. last : OutputBytes[n] = OutputBytes[n - 1] + size[n]
  BY <1>1, <1>2, <1>4, RunningSumIs
<1>6. /\ AddBytes \in [0 .. last -> Nat] /\ AddBytes[0] = 0
      /\ \A n \in 1 .. last : AddBytes[n] = AddBytes[n - 1] + adds[n]
  BY <1>1, <1>2, <1>4, RunningSumIs
<1>7. last = Len(list)
  BY DEF last
<1> QED
  BY <1>3, <1>5, <1>6, <1>7

LEMMA SumsInit == SectionsInit => SumsInv
<1> SUFFICES ASSUME SectionsInit PROVE SumsInv
  OBVIOUS
<1>1. SectionsTypeOK
  BY InvInit DEF SectionsInv
<1>2. OutputBytes[0] = 0 /\ AddBytes[0] = 0
  BY <1>1, ListSums
<1>3. Len(result) = 0 /\ start_index = 0 /\ end_index = 0 /\ output_size = 0 /\ num_add_bytes = 0
  BY DEF SectionsInit
<1> QED
  BY <1>2, <1>3 DEF SumsInv, Counts, TotalsExact, CutByNext

(* The list, and with it the sums, stay. *)
LEMMA SumsStay ==
    ASSUME list' = list
    PROVE  OutputBytes' = OutputBytes /\ AddBytes' = AddBytes
  BY DEF OutputBytes, AddBytes

(* A section that is pushed has the counts it was given. *)
LEMMA PushKeepsSums ==
    ASSUME SectionsInv, SumsInv, NEW more \in BOOLEAN,
           result' = Append(result, Closed(more)), UNCHANGED <<list, max_win_size>>,
           more => /\ end_index < Len(list)
                   /\ output_size + oal(list[end_index + 1]) > max_win_size
    PROVE  TotalsExact' /\ CutByNext'
<1> DEFINE new == Closed(more)
<1>1. OutputBytes' = OutputBytes /\ AddBytes' = AddBytes
  BY SumsStay
<1>2. result \in Seq(SectionRecord) /\ new \in SectionRecord
  BY ClosedType DEF SectionsInv, SectionsTypeOK
<1>3. /\ new.start = start_index /\ new.end = end_index /\ new.more_sections = more
      /\ new.output_size = output_size /\ new.num_add_bytes = num_add_bytes
  BY DEF Closed
<1> HIDE DEF new
<1>4. /\ Len(result) \in Nat /\ Len(result') = Len(result) + 1
      /\ result'[Len(result) + 1] = new
      /\ \A k \in 1 .. Len(result) : result'[k] = result[k]
  BY <1>2, AppendProperties DEF new
<1>5. ASSUME NEW k \in 1 .. Len(result')
      PROVE  k \in 1 .. Len(result) \/ result'[k] = new
  BY <1>4
<1>6. TotalsExact'
  <2> SUFFICES ASSUME NEW k \in 1 .. Len(result')
               PROVE  /\ result'[k].output_size
                            = OutputBytes[result'[k].end] - OutputBytes[result'[k].start]
                      /\ result'[k].num_add_bytes
                            = AddBytes[result'[k].end] - AddBytes[result'[k].start]
    BY <1>1 DEF TotalsExact
  <2>1. CASE k \in 1 .. Len(result)
    BY <1>4, <2>1 DEF SumsInv, TotalsExact
  <2>2. CASE result'[k] = new
    BY <1>3, <2>2 DEF SumsInv, Counts
  <2> QED
    BY <1>5, <2>1, <2>2
<1>7. CutByNext'
  <2> SUFFICES ASSUME NEW k \in 1 .. Len(result'), result'[k].more_sections
               PROVE  /\ result'[k].end < Len(list)
                      /\ result'[k].output_size + oal(list[result'[k].end + 1]) > max_win_size
    BY DEF CutByNext
  <2>1. CASE k \in 1 .. Len(result)
    BY <1>4, <2>1 DEF SumsInv, CutByNext
  <2>2. CASE result'[k] = new
    BY <1>3, <2>2
  <2> QED
    BY <1>5, <2>1, <2>2
<1> QED
  BY <1>6, <1>7

LEMMA ExtendKeepsSums == SectionsInv /\ SumsInv /\ Extend => SumsInv'
<1> SUFFICES ASSUME SectionsInv, SumsInv, Extend PROVE SumsInv'
  OBVIOUS
<1>1. OutputBytes' = OutputBytes /\ AddBytes' = AddBytes
  BY SumsStay DEF Extend, TakeOp
<1>2. /\ result' = result /\ list' = list /\ max_win_size' = max_win_size
      /\ start_index' = start_index /\ end_index' = end_index + 1
      /\ output_size' = output_size + OpSize /\ num_add_bytes' = num_add_bytes + AddSize
      /\ end_index < Len(list)
  BY DEF Extend, TakeOp
<1>3. Counts'
  <2> DEFINE outEnd == OutputBytes[end_index]
             outStart == OutputBytes[start_index]
             addEnd == AddBytes[end_index]
             addStart == AddBytes[start_index]
  <2>1. /\ outEnd \in Nat /\ outStart \in Nat /\ addEnd \in Nat /\ addStart \in Nat
        /\ OutputBytes[end_index + 1] = outEnd + OpSize
        /\ AddBytes[end_index + 1] = addEnd + AddSize
    <3>1. SectionsTypeOK /\ end_index \in 0 .. Len(list) /\ start_index \in 0 .. Len(list)
      BY DEF SectionsInv, SectionsTypeOK
    <3> QED
      BY <1>2, <3>1, ListSums
  <2>2. OpSize \in Nat /\ AddSize \in Nat
    BY <1>2, SizesOfNext, LimitsAssumption DEF SectionsInv
  <2>3. output_size = outEnd - outStart /\ num_add_bytes = addEnd - addStart
    BY DEF SumsInv, Counts
  <2>4. /\ OutputBytes'[end_index'] = outEnd + OpSize /\ OutputBytes'[start_index'] = outStart
        /\ AddBytes'[end_index'] = addEnd + AddSize /\ AddBytes'[start_index'] = addStart
    BY <1>1, <1>2, <2>1
  <2> HIDE DEF outEnd, outStart, addEnd, addStart
  <2>5. /\ output_size' = (outEnd + OpSize) - outStart
        /\ num_add_bytes' = (addEnd + AddSize) - addStart
    BY <1>2, <2>1, <2>2, <2>3
  <2> QED
    BY <2>4, <2>5 DEF Counts
<1>4. TotalsExact' /\ CutByNext'
  BY <1>1, <1>2 DEF SumsInv, TotalsExact, CutByNext
<1> QED
  BY <1>3, <1>4 DEF SumsInv

LEMMA CutKeepsSums == SectionsInv /\ SumsInv /\ Cut => SumsInv'
<1> SUFFICES ASSUME SectionsInv, SumsInv, Cut PROVE SumsInv'
  OBVIOUS
<1>1. OutputBytes' = OutputBytes /\ AddBytes' = AddBytes
  BY SumsStay DEF Cut, TakeOp
<1>2. /\ result' = Append(result, Closed(TRUE)) /\ UNCHANGED <<list, max_win_size>>
      /\ start_index' = end_index /\ end_index' = end_index + 1
      /\ output_size' = OpSize /\ num_add_bytes' = AddSize
      /\ end_index < Len(list) /\ output_size + OpSize > max_win_size
  BY DEF Cut, TakeOp, Overflows
<1>3. Counts'
  <2> DEFINE outEnd == OutputBytes[end_index]
             addEnd == AddBytes[end_index]
  <2>1. /\ outEnd \in Nat /\ addEnd \in Nat
        /\ OutputBytes[end_index + 1] = outEnd + OpSize
        /\ AddBytes[end_index + 1] = addEnd + AddSize
    <3>1. SectionsTypeOK /\ end_index \in 0 .. Len(list)
      BY DEF SectionsInv, SectionsTypeOK
    <3> QED
      BY <1>2, <3>1, ListSums
  <2>2. OpSize \in Nat /\ AddSize \in Nat
    BY <1>2, SizesOfNext, LimitsAssumption DEF SectionsInv
  <2>3. /\ OutputBytes'[end_index'] = outEnd + OpSize /\ OutputBytes'[start_index'] = outEnd
        /\ AddBytes'[end_index'] = addEnd + AddSize /\ AddBytes'[start_index'] = addEnd
    BY <1>1, <1>2, <2>1
  <2> HIDE DEF outEnd, addEnd
  <2>4. OpSize = (outEnd + OpSize) - outEnd /\ AddSize = (addEnd + AddSize) - addEnd
    BY <2>1, <2>2
  <2> QED
    BY <1>2, <2>3, <2>4 DEF Counts
<1>4. TotalsExact' /\ CutByNext'
  BY <1>2, PushKeepsSums DEF OpSize
<1> QED
  BY <1>3, <1>4 DEF SumsInv

LEMMA PushLastKeepsSums == SectionsInv /\ SumsInv /\ PushLast => SumsInv'
<1> SUFFICES ASSUME SectionsInv, SumsInv, PushLast PROVE SumsInv'
  OBVIOUS
<1>1. /\ result' = Append(result, Closed(FALSE)) /\ UNCHANGED <<list, max_win_size>>
      /\ UNCHANGED <<start_index, end_index, output_size, num_add_bytes>>
  BY DEF PushLast
<1>2. Counts'
  BY <1>1, SumsStay DEF SumsInv, Counts
<1>3. TotalsExact' /\ CutByNext'
  BY <1>1, PushKeepsSums
<1> QED
  BY <1>2, <1>3 DEF SumsInv

LEMMA SumsNext == SectionsInv /\ SumsInv /\ [SectionsNext]_sectionsVars => SumsInv'
<1>1. SumsInv /\ UNCHANGED sectionsVars => SumsInv'
  <2> SUFFICES ASSUME SumsInv, UNCHANGED sectionsVars PROVE SumsInv'
    OBVIOUS
  <2>1. OutputBytes' = OutputBytes /\ AddBytes' = AddBytes
    BY SumsStay DEF sectionsVars
  <2> QED
    BY <2>1 DEF sectionsVars, SumsInv, Counts, TotalsExact, CutByNext
<1> QED
  BY <1>1, ExtendKeepsSums, CutKeepsSums, PushLastKeepsSums DEF SectionsNext

LEMMA SumsHold == SectionsSpec => []SumsInv
  BY InvHolds, SumsInit, SumsNext, PTL DEF SectionsSpec

(* The header of every section says what the section's operations add up   *)
(* to, for any list of operations and any limit.                           *)
THEOREM TotalsCorrect == SectionsSpec => []TotalsExact
<1>1. SumsInv => TotalsExact
  BY DEF SumsInv
<1> QED
  BY <1>1, SumsHold, PTL

(* No section is cut before the next operation would take it over the limit. *)
THEOREM CutsCorrect == SectionsSpec => []CutsOnlyWhenFull
<1>1. SectionsInv /\ SumsInv => CutsOnlyWhenFull
  <2> SUFFICES ASSUME SectionsInv, SumsInv, NEW k \in 2 .. Len(result)
               PROVE  result[k - 1].output_size + oal(list[result[k].start + 1]) > max_win_size
    BY DEF CutsOnlyWhenFull
  <2>1. k - 1 \in 1 .. Len(result) /\ k \in 1 .. Len(result) /\ k > 1 /\ k - 1 # Len(result)
    BY DEF SectionsInv, SectionsTypeOK
  <2>2. result[k].start = result[k - 1].end
    BY <2>1 DEF SectionsInv, SectionsTile
  <2>3. result[k - 1].more_sections
    BY <2>1 DEF SectionsInv, SectionsWellFormed
  <2> QED
    BY <2>1, <2>2, <2>3 DEF SumsInv, CutByNext
<1> QED
  BY <1>1, InvHolds, SumsHold, PTL
=============================================================================
