---------------------------- MODULE EncoderLoop ----------------------------
(***************************************************************************)
(* smdiff-encoder/src/encoder.rs: encode_inner, with its source matcher    *)
(* (src_matcher.rs) and its target matcher (trgt_matcher.rs).  The loop    *)
(* moves over the target and looks at each position for a run, for a match *)
(* with the source and for a match with the target before it; both         *)
(* matchers hash a window that has to move in step with the loop.          *)
(***************************************************************************)
EXTENDS InnerOps, HashChains

CONSTANTS Files,            \* sources and targets
          Configs,          \* encoder configurations
          MIN_MATCH,        \* shortest match, and window of the target's hash: 4
          SRC_HASH_LEN,     \* window of the source's hash: 9
          DEFAULT_PREV_SIZE \* largest ring when none is configured: 2^18

NaiveTests == {"None", "Prepend", "Append", "PrependAppend", "AppendPrepend"}

(* prev_table_capacity holds at most one capacity. *)
EncoderConfig ==
    [match_src : BOOLEAN, l_step : Nat \ {0}, half_win_size : Nat \ {0},
     match_trgt : BOOLEAN, chain_check : Nat, compress_early_exit : Nat,
     prev_table_capacity : SUBSET Nat, naive_tests : NaiveTests, lazy_escape_len : Nat]

ASSUME EncoderAssumption ==
    /\ Byte \subseteq Nat /\ Byte # {}
    /\ MIN_MATCH \in Nat \ {0} /\ SRC_HASH_LEN \in Nat \ {0} /\ DEFAULT_PREV_SIZE \in Nat
    /\ Files \subseteq [src : Seq(Byte), trgt : Seq(Byte)]
    /\ Configs \subseteq EncoderConfig

VARIABLES config,
          src, trgt,
          max_trgt_match_len, \* the target up to a source prepended to
          ops,                \* the matches found
          cur_o_pos,          \* the position looked at
          min_match,          \* the length a match has to have there
          run_len, run_byte,  \* the run that ends with the window at cur_o_pos
          src_matcher, trgt_matcher,
          walk,               \* the walk along a chain of target positions
          match_len,          \* length of the match found last
          state

encoderVars == <<config, src, trgt, max_trgt_match_len, ops, cur_o_pos, min_match,
                 run_len, run_byte, src_matcher, trgt_matcher, walk, match_len, state>>
inputVars == <<config, src, trgt>>
matcherVars == <<src_matcher, trgt_matcher>>
runVars == <<run_len, run_byte>>

Smallest(m, n) == IF m < n THEN m ELSE n
Largest(m, n) == IF m > n THEN m ELSE n
Minus(m, n) == Largest(m - n, 0) \* saturating_sub
align(pos, l_step) == pos - (pos % l_step)

(* The least power of two that is no smaller. *)
PowerOfTwo[k \in Nat] == IF k = 0 THEN 1 ELSE 2 * PowerOfTwo[k - 1]
next_power_of_two(n) ==
    PowerOfTwo[CHOOSE k \in 0 .. n : /\ PowerOfTwo[k] >= n
                                     /\ \A j \in 0 .. k - 1 : PowerOfTwo[j] < n]

MatchOp(kind, start, length, o_pos) ==
    [kind |-> kind, start |-> start, byte |-> CHOOSE b \in Byte : TRUE,
     length |-> length, o_pos |-> o_pos]
RunOp(byte, length, o_pos) ==
    [kind |-> "Run", start |-> 0, byte |-> byte, length |-> length, o_pos |-> o_pos]

MatchEnd(op) == op.o_pos + op.length

(* The longest common stretch of two strings from two positions, up to a limit. *)
CommonLen(s, from, t, at, limit) ==
    CHOOSE n \in 0 .. limit :
        /\ \A i \in 1 .. n : s[from + i] = t[at + i]
        /\ n < limit => s[from + n + 1] # t[at + n + 1]

-----------------------------------------------------------------------------
(* Moving a window's hash over the target. *)
LastHashPos(window) == Minus(Len(trgt), window) \* max_fwd_hash_pos

RolledOn(hash, pos, window) ==
    update_checksum_fwd(hash, ByteAt(trgt, pos), ByteAt(trgt, pos + window), window)

(* StartNewMatch rolls over less than a window and starts afresh beyond; *)
(* at the target's end the hash stays where it is.                       *)
HashMovedTo(matcher, pos, window) ==
    LET rolled[p \in matcher.fwd_pos .. pos] ==
            IF p = matcher.fwd_pos THEN matcher.fwd_hash
            ELSE RolledOn(rolled[p - 1], p - 1, window)
    IN IF matcher.fwd_pos >= LastHashPos(window) THEN matcher
       ELSE [matcher EXCEPT
                !.fwd_hash = IF matcher.fwd_pos + window > pos THEN rolled[pos]
                             ELSE calculate_checksum(trgt, pos, window),
                !.fwd_pos = pos]

(* MoveForwardOneByte. *)
HashMovedOn(matcher, pos, window) ==
    IF matcher.fwd_pos >= LastHashPos(window) THEN matcher
    ELSE [matcher EXCEPT !.fwd_hash = RolledOn(@, pos, window), !.fwd_pos = pos + 1]

-----------------------------------------------------------------------------
(* The source matcher. *)
max_end_pos == align(Minus(Len(src), SRC_HASH_LEN), config.l_step)
cur_window_end == 0 \* is never moved
NEVER == Len(trgt) + 1 \* usize::MAX

(* calculate_window_range: at most one range of source positions to hash. *)
WindowRange(pos, max_match_pos) ==
    LET half == config.half_win_size
        scaled_src_pos == (pos * Len(src)) \div Len(trgt)
        scaled_end == align(Smallest(scaled_src_pos + half, max_end_pos), config.l_step)
        covered == Largest(cur_window_end, max_match_pos)
    IN IF pos < half THEN {[start |-> 0, end |-> Smallest(2 * half, max_end_pos)]}
       ELSE IF cur_window_end >= max_end_pos \/ scaled_end <= covered THEN {}
       ELSE {[start |-> align(Largest(covered, Minus(scaled_end, 2 * half)), config.l_step),
              end |-> scaled_end]}

(* The hashes of a range, put in from its end so that the nearest stay; a   *)
(* step shorter than the window rolls the hash back from an aligned window. *)
TableWith(table, range) ==
    LET step == config.l_step
        rolls == step < SRC_HASH_LEN
        last == IF rolls THEN align(Minus(range.end, SRC_HASH_LEN), step) ELSE range.end
        hash(later, p) ==
            IF rolls THEN update_checksum_bwd(later.hash, src[p + SRC_HASH_LEN + 1],
                                              src[p + 1], SRC_HASH_LEN)
            ELSE calculate_checksum(src, p, SRC_HASH_LEN)
        put(later, h, p) == IF p % step = 0 THEN insert(later.table, h, p \div step)
                            ELSE later.table
        back(later, p) == [hash |-> hash(later, p), table |-> put(later, hash(later, p), p)]
        filled[p \in range.start .. last] ==
            IF p = last THEN [hash |-> calculate_checksum(src, p, SRC_HASH_LEN), table |-> table]
            ELSE back(filled[p + 1], p)
    IN IF range.start < last THEN filled[range.start].table ELSE table

add_start_positions_to_matcher(matcher, pos) ==
    LET ranges == WindowRange(pos, matcher.max_match_pos)
        range == CHOOSE r \in ranges : TRUE
    IN IF pos < matcher.next_hash_pos \/ ranges = {} THEN matcher
       ELSE [matcher EXCEPT
                !.next_hash_pos = IF range.end >= max_end_pos THEN NEVER
                                  ELSE pos + config.half_win_size,
                !.table = TableWith(@, range)]

(* SrcMatcherConfig::build *)
NewSrcMatcher(trgt_start_pos) ==
    LET last == LastHashPos(SRC_HASH_LEN)
        hashable == trgt_start_pos < last
    IN add_start_positions_to_matcher(
        [fwd_hash |-> IF hashable THEN calculate_checksum(trgt, trgt_start_pos, SRC_HASH_LEN) ELSE 0,
         fwd_pos |-> IF hashable THEN trgt_start_pos ELSE last,
         table |-> NewTable, next_hash_pos |-> 0, max_match_pos |-> trgt_start_pos],
        trgt_start_pos)

(* The source positions the table has for the window's hash: at most one. *)
SrcCandidates == {p * config.l_step : p \in get(src_matcher.table, src_matcher.fwd_hash)}

(* Faulty variant: a match may be extended back to the start of a file. *)
PreMatchToStart(start) ==
    CHOOSE n \in 0 .. Smallest(start, cur_o_pos) :
        /\ \A i \in 1 .. n : src[start - i + 1] = trgt[cur_o_pos - i + 1]
        /\ n < Smallest(start, cur_o_pos) => src[start - n] # trgt[cur_o_pos - n]

(* extend_src_match: back, but never to the first byte of a file, and on. *)
PreMatch(start) ==
    LET limit == Minus(Smallest(start, cur_o_pos), 1)
    IN CHOOSE n \in 0 .. limit :
        /\ \A i \in 1 .. n : src[start - i + 1] = trgt[cur_o_pos - i + 1]
        /\ n < limit => src[start - n] # trgt[cur_o_pos - n]

PostMatch(start) ==
    CommonLen(src, start, trgt, cur_o_pos, Smallest(Len(src) - start, Len(trgt) - cur_o_pos))

-----------------------------------------------------------------------------
(* The target matcher. *)
TrgtMatcher(trgt_start_pos) ==
    LET effective_len == Len(trgt) - trgt_start_pos
        capacity == IF config.prev_table_capacity = {}
                    THEN Smallest(DEFAULT_PREV_SIZE, next_power_of_two(effective_len) \div 2)
                    ELSE CHOOSE c \in config.prev_table_capacity : TRUE
    IN [fwd_hash |-> 0, fwd_pos |-> trgt_start_pos,
        table |-> NewTable, chain |-> NewChain(capacity), capacity |-> capacity]

(* After a naive match the last positions of it are stored, its end too. *)
PrefillStart(matcher) == Minus(matcher.fwd_pos, matcher.capacity)

Prefilled(matcher) ==
    LET first == PrefillStart(matcher)
        stored(at, hash, p) == [hash |-> hash, matcher |-> store(at, hash, p)]
        on(before, p) == stored(before.matcher, RolledOn(before.hash, p - 1, MIN_MATCH), p)
        filled[p \in first .. matcher.fwd_pos] ==
            IF p = first THEN stored(matcher, calculate_checksum(trgt, p, MIN_MATCH), p)
            ELSE on(filled[p - 1], p)
    IN filled[matcher.fwd_pos].matcher

(* TrgtMatcherConfig::build; the hash of the window is not computed. *)
NewTrgtMatcher(trgt_start_pos) ==
    LET matcher == TrgtMatcher(trgt_start_pos)
    IN IF trgt_start_pos > 0 THEN Prefilled(matcher) ELSE matcher

(* Storing those positions reads a window past the end of the match. *)
PrefillPanics(trgt_start_pos) ==
    /\ PrefillStart(TrgtMatcher(trgt_start_pos)) < trgt_start_pos
    /\ trgt_start_pos + MIN_MATCH > Len(trgt)

-----------------------------------------------------------------------------
(* encode_inner before its loop. *)
OffMatcher == [table |-> NewTable] \* a matcher that is not configured

EncoderInit ==
    /\ config \in Configs
    /\ \E f \in Files : src = f.src /\ trgt = f.trgt
    /\ max_trgt_match_len = Len(trgt)
    /\ ops = <<>>
    /\ cur_o_pos = 0 /\ min_match = MIN_MATCH /\ match_len = 0
    /\ run_len = 0 /\ run_byte = 0
    /\ src_matcher = OffMatcher /\ trgt_matcher = OffMatcher
    /\ walk = [pos |-> 0, chain |-> 0, best_start |-> 0, best_len |-> 0]
    /\ state = "begin"

NothingToDo ==
    \/ ~ config.match_trgt /\ (~ config.match_src \/ src = <<>>)
    \/ trgt = <<>>

ReturnNothing ==
    /\ state = "begin" /\ NothingToDo
    /\ state' = "done"
    /\ UNCHANGED <<inputVars, max_trgt_match_len, ops, cur_o_pos, min_match, runVars,
                   matcherVars, walk, match_len>>

(* The naive tests, in the order configured: the first that succeeds counts. *)
Larger == Len(trgt) > Len(src)
StartsWithSrc == Larger /\ SameBytes(src, 0, trgt, 0, Len(src))
EndsWithSrc == Larger /\ SameBytes(src, 0, trgt, Len(trgt) - Len(src), Len(src))

Appended == /\ StartsWithSrc
            /\ \/ config.naive_tests \in {"Append", "AppendPrepend"}
               \/ config.naive_tests = "PrependAppend" /\ ~ EndsWithSrc
Prepended == /\ EndsWithSrc
             /\ \/ config.naive_tests \in {"Prepend", "PrependAppend"}
                \/ config.naive_tests = "AppendPrepend" /\ ~ StartsWithSrc

StartPos == IF Appended THEN Len(src) ELSE 0

Build ==
    /\ state = "begin" /\ ~ NothingToDo
    /\ ~ (config.match_trgt /\ PrefillPanics(StartPos))
    /\ ops' = IF Appended THEN <<MatchOp("MatchSrc", 0, Len(src), 0)>> ELSE <<>>
    /\ cur_o_pos' = StartPos
    /\ max_trgt_match_len' = Len(trgt) - (IF Prepended THEN Len(src) ELSE 0)
    /\ trgt_matcher' = IF config.match_trgt THEN NewTrgtMatcher(StartPos) ELSE OffMatcher
    /\ src_matcher' = IF config.match_src THEN NewSrcMatcher(StartPos) ELSE OffMatcher
    /\ state' = "StartNewMatch"
    /\ UNCHANGED <<inputVars, min_match, runVars, walk, match_len>>

BuildPanics ==
    /\ state = "begin" /\ ~ NothingToDo
    /\ config.match_trgt /\ PrefillPanics(StartPos)
    /\ state' = "panicked"
    /\ UNCHANGED <<inputVars, max_trgt_match_len, ops, cur_o_pos, min_match, runVars,
                   matcherVars, walk, match_len>>

-----------------------------------------------------------------------------
(* The loop. *)
OutOfData == cur_o_pos + MIN_MATCH >= max_trgt_match_len
At(s) == state = s /\ ~ OutOfData

LastEnd == IF ops = <<>> THEN 0 ELSE MatchEnd(ops[Len(ops)])

(* find_initial_run_len: the run that ends with the window. *)
InitialRunLen ==
    CHOOSE n \in 1 .. MIN_MATCH :
        LET in_run(i) == trgt[cur_o_pos + i] = trgt[cur_o_pos + MIN_MATCH]
        IN /\ \A i \in MIN_MATCH - n + 1 .. MIN_MATCH : in_run(i)
           /\ n < MIN_MATCH => ~ in_run(MIN_MATCH - n)

RefilledSrcMatcher ==
    IF src_matcher.next_hash_pos <= cur_o_pos
    THEN add_start_positions_to_matcher(src_matcher, cur_o_pos) ELSE src_matcher

(* Moving the source's hash reads a window past the target's end. *)
StartPanics ==
    /\ config.match_src
    /\ src_matcher.fwd_pos < LastHashPos(SRC_HASH_LEN)
    /\ cur_o_pos + SRC_HASH_LEN > Len(trgt)

StartNewMatch ==
    /\ At("StartNewMatch") /\ ~ StartPanics
    /\ run_len' = InitialRunLen /\ run_byte' = trgt[cur_o_pos + MIN_MATCH]
    /\ src_matcher' = IF config.match_src
                      THEN HashMovedTo(RefilledSrcMatcher, cur_o_pos, SRC_HASH_LEN)
                      ELSE src_matcher
    /\ trgt_matcher' = IF config.match_trgt
                       THEN HashMovedTo(trgt_matcher, cur_o_pos, MIN_MATCH)
                       ELSE trgt_matcher
    /\ min_match' = Largest(MIN_MATCH, LastEnd + 1 - cur_o_pos)
    /\ state' = "TryMatch"
    /\ UNCHANGED <<inputVars, max_trgt_match_len, ops, cur_o_pos, walk, match_len>>

StartNewMatchPanics ==
    /\ At("StartNewMatch") /\ StartPanics
    /\ state' = "panicked"
    /\ UNCHANGED <<inputVars, max_trgt_match_len, ops, cur_o_pos, min_match, runVars,
                   matcherVars, walk, match_len>>

(* TryMatch: a run, else the source, else the target, else nothing. *)
ExtendedRunLen ==
    IF run_len # MIN_MATCH THEN run_len
    ELSE MIN_MATCH + CHOOSE n \in 0 .. Len(trgt) - cur_o_pos - MIN_MATCH :
            LET after == cur_o_pos + MIN_MATCH
            IN /\ \A i \in 1 .. n : trgt[after + i] = run_byte
               /\ after + n < Len(trgt) => trgt[after + n + 1] # run_byte

RunFound == run_len = MIN_MATCH /\ ExtendedRunLen >= min_match

SrcFound ==
    /\ config.match_src /\ cur_o_pos + SRC_HASH_LEN <= max_trgt_match_len
    /\ \E start \in SrcCandidates :
          /\ SameBytes(src, start, trgt, cur_o_pos, SRC_HASH_LEN)
          /\ PostMatch(start) >= min_match

Chained ==
    /\ config.match_trgt /\ cur_o_pos + MIN_MATCH <= max_trgt_match_len
    /\ get(trgt_matcher.table, trgt_matcher.fwd_hash) # {}

MatchRun ==
    /\ At("TryMatch") /\ RunFound
    /\ run_len' = ExtendedRunLen
    /\ ops' = Append(ops, RunOp(run_byte, run_len', cur_o_pos))
    /\ match_len' = run_len'
    /\ state' = "FoundMatch"
    /\ UNCHANGED <<inputVars, max_trgt_match_len, cur_o_pos, min_match, run_byte,
                   matcherVars, walk>>

(* Faulty variant: a match that starts where the new one does is kept. *)
StartingByThen(pos) ==
    SubSeq(ops, 1, CHOOSE n \in 0 .. Len(ops) :
                       /\ \A i \in n + 1 .. Len(ops) : ops[i].o_pos > pos
                       /\ n > 0 => ops[n].o_pos <= pos)

(* clear_existing_ops, from the end. *)
StartingBefore(pos) ==
    SubSeq(ops, 1, CHOOSE n \in 0 .. Len(ops) :
                       /\ \A i \in n + 1 .. Len(ops) : ops[i].o_pos >= pos
                       /\ n > 0 => ops[n].o_pos < pos)

(* Faulty variant: the loop also moves over what lies before it. *)
MatchSrcWithPre ==
    /\ At("TryMatch") /\ ~ RunFound /\ SrcFound
    /\ run_len' = ExtendedRunLen
    /\ \E start \in SrcCandidates :
          LET pre_match == PreMatch(start)
              o_pos == cur_o_pos - pre_match
              kept == IF pre_match > 0 THEN StartingBefore(o_pos) ELSE ops
          IN /\ ops' = Append(kept, MatchOp("MatchSrc", start - pre_match,
                                            pre_match + PostMatch(start), o_pos))
             /\ match_len' = pre_match + PostMatch(start)
    /\ state' = "FoundMatch"
    /\ UNCHANGED <<inputVars, max_trgt_match_len, cur_o_pos, min_match, run_byte,
                   matcherVars, walk>>

MatchSrc ==
    /\ At("TryMatch") /\ ~ RunFound /\ SrcFound
    /\ run_len' = ExtendedRunLen
    /\ \E start \in SrcCandidates :
          LET pre_match == PreMatch(start)
              o_pos == cur_o_pos - pre_match
              kept == IF pre_match > 0 THEN StartingBefore(o_pos) ELSE ops
          IN /\ ops' = Append(kept, MatchOp("MatchSrc", start - pre_match,
                                            pre_match + PostMatch(start), o_pos))
             /\ match_len' = PostMatch(start)
    /\ state' = "FoundMatch"
    /\ UNCHANGED <<inputVars, max_trgt_match_len, cur_o_pos, min_match, run_byte,
                   matcherVars, walk>>

(* No match of min_match bytes; one less will do at the next position. *)
NothingHere ==
    /\ min_match' = Largest(min_match - 1, MIN_MATCH)
    /\ state' = "MoveForwardOneByte"

NoMatch ==
    /\ At("TryMatch") /\ ~ RunFound /\ ~ SrcFound /\ ~ Chained
    /\ run_len' = ExtendedRunLen
    /\ NothingHere
    /\ UNCHANGED <<inputVars, max_trgt_match_len, ops, cur_o_pos, run_byte,
                   matcherVars, walk, match_len>>

-----------------------------------------------------------------------------
(* find_best_trgt_match and the iterator it takes positions from. *)
ChainChecks ==
    IF min_match > MIN_MATCH THEN Largest(config.chain_check \div 4, 1)
    ELSE config.chain_check

StartWalk ==
    /\ At("TryMatch") /\ ~ RunFound /\ ~ SrcFound /\ Chained
    /\ run_len' = ExtendedRunLen
    /\ \E pos \in get(trgt_matcher.table, trgt_matcher.fwd_hash) :
          walk' = [pos |-> pos, chain |-> ChainChecks, best_start |-> 0, best_len |-> 0]
    /\ state' = IF ChainChecks = 0 THEN "EndWalk" ELSE "Examine"
    /\ UNCHANGED <<inputVars, max_trgt_match_len, ops, cur_o_pos, min_match, run_byte,
                   matcherVars, match_len>>

Walking == UNCHANGED <<inputVars, max_trgt_match_len, ops, cur_o_pos, min_match, runVars,
                       matcherVars, match_len>>

(* A position too near, or whose bytes differ, does not count as a check. *)
Candidate == /\ walk.pos + MIN_MATCH < cur_o_pos
             /\ SameBytes(trgt, walk.pos, trgt, cur_o_pos, MIN_MATCH)

PassOver ==
    /\ state = "Examine" /\ ~ Candidate
    /\ state' = "Advance"
    /\ UNCHANGED walk /\ Walking

Examine ==
    /\ state = "Examine" /\ Candidate
    /\ LET length == CommonLen(trgt, walk.pos, trgt, cur_o_pos,
                               Smallest(cur_o_pos - walk.pos, Len(trgt) - cur_o_pos))
           better == length > walk.best_len
           left == walk.chain - 1
       IN /\ walk' = [walk EXCEPT !.chain = left,
                         !.best_start = IF better THEN walk.pos ELSE @,
                         !.best_len = IF better THEN length ELSE @]
          /\ state' = IF left = 0 \/ (better /\ length >= config.compress_early_exit)
                       THEN "EndWalk" ELSE "Advance"
    /\ Walking

(* A place of the ring that holds another hash is only passed through. *)
Advance ==
    /\ state = "Advance" /\ ~ ChainEnds(trgt_matcher, walk.pos, cur_o_pos)
    /\ LET prev == Previous(trgt_matcher, walk.pos)
       IN /\ walk' = [walk EXCEPT !.pos = prev.value - 1]
          /\ state' = IF prev.hash = trgt_matcher.fwd_hash THEN "Examine" ELSE "Advance"
    /\ Walking

ChainEnd ==
    /\ state = "Advance" /\ ChainEnds(trgt_matcher, walk.pos, cur_o_pos)
    /\ state' = "EndWalk"
    /\ UNCHANGED walk /\ Walking

MatchTrgt ==
    /\ state = "EndWalk" /\ walk.best_len >= min_match
    /\ ops' = Append(ops, MatchOp("MatchTrgt", walk.best_start, walk.best_len, cur_o_pos))
    /\ match_len' = walk.best_len
    /\ state' = "FoundMatch"
    /\ UNCHANGED <<inputVars, max_trgt_match_len, cur_o_pos, min_match, runVars,
                   matcherVars, walk>>

NoMatchInChain ==
    /\ state = "EndWalk" /\ walk.best_len < min_match
    /\ NothingHere
    /\ UNCHANGED <<inputVars, max_trgt_match_len, ops, cur_o_pos, runVars,
                   matcherVars, walk, match_len>>

-----------------------------------------------------------------------------
(* FoundMatch: a short match that leaves something is tried to be beaten. *)
Lazy == /\ match_len < config.lazy_escape_len
        /\ cur_o_pos + match_len < max_trgt_match_len - 1

(* Faulty variant: what follows a match need only be of the least length. *)
KeepLookingForAny ==
    /\ At("FoundMatch") /\ Lazy
    /\ min_match' = MIN_MATCH
    /\ state' = "MoveForwardOneByte"
    /\ UNCHANGED <<inputVars, max_trgt_match_len, ops, cur_o_pos, runVars,
                   matcherVars, walk, match_len>>

KeepLooking ==
    /\ At("FoundMatch") /\ Lazy
    /\ min_match' = match_len
    /\ state' = "MoveForwardOneByte"
    /\ UNCHANGED <<inputVars, max_trgt_match_len, ops, cur_o_pos, runVars,
                   matcherVars, walk, match_len>>

Jump ==
    /\ At("FoundMatch") /\ ~ Lazy
    /\ cur_o_pos' = cur_o_pos + match_len
    /\ state' = "StartNewMatch"
    /\ UNCHANGED <<inputVars, max_trgt_match_len, ops, min_match, runVars,
                   matcherVars, walk, match_len>>

MoveForwardOneByte ==
    /\ At("MoveForwardOneByte")
    /\ LET next_char == trgt[cur_o_pos + MIN_MATCH + 1]
       IN /\ run_len' = IF run_byte = next_char THEN run_len + 1 ELSE 1
          /\ run_byte' = next_char
    /\ trgt_matcher' = IF config.match_trgt
                       THEN HashMovedOn(store(trgt_matcher, trgt_matcher.fwd_hash, cur_o_pos),
                                        cur_o_pos, MIN_MATCH)
                       ELSE trgt_matcher
    /\ src_matcher' = IF config.match_src
                      THEN HashMovedOn(src_matcher, cur_o_pos, SRC_HASH_LEN)
                      ELSE src_matcher
    /\ cur_o_pos' = cur_o_pos + 1
    /\ state' = "TryMatch"
    /\ UNCHANGED <<inputVars, max_trgt_match_len, ops, min_match, walk, match_len>>

LoopStates == {"StartNewMatch", "TryMatch", "FoundMatch", "MoveForwardOneByte"}

(* A source prepended to is the last match. *)
EndOfLoop ==
    /\ state \in LoopStates /\ OutOfData
    /\ ops' = IF max_trgt_match_len < Len(trgt)
              THEN Append(ops, MatchOp("MatchSrc", 0, Len(src), max_trgt_match_len))
              ELSE ops
    /\ state' = "done"
    /\ UNCHANGED <<inputVars, max_trgt_match_len, cur_o_pos, min_match, runVars,
                   matcherVars, walk, match_len>>

(* Nothing happens after it returned or panicked. *)
Returned == state \in {"done", "panicked"} /\ UNCHANGED encoderVars

EncoderNext ==
    \/ ReturnNothing \/ Build \/ BuildPanics
    \/ StartNewMatch \/ StartNewMatchPanics
    \/ MatchRun \/ MatchSrc \/ StartWalk \/ NoMatch
    \/ PassOver \/ Examine \/ Advance \/ ChainEnd \/ MatchTrgt \/ NoMatchInChain
    \/ KeepLooking \/ Jump \/ MoveForwardOneByte \/ EndOfLoop \/ Returned

EncoderSpec == EncoderInit /\ [][EncoderNext]_encoderVars

(* One thread runs encode_inner to its end. *)
FairEncoderSpec == EncoderSpec /\ WF_encoderVars(EncoderNext)

-----------------------------------------------------------------------------
SrcMatcher == [fwd_hash : Hash, fwd_pos : Nat, table : [Buckets -> BucketValue],
               next_hash_pos : Nat, max_match_pos : Nat]
TrgtMatcherSet == [fwd_hash : Hash, fwd_pos : Nat, table : [Buckets -> BucketValue],
                chain : [0 .. trgt_matcher.capacity - 1 -> BucketValue], capacity : Nat]

EncoderTypeOK ==
    /\ src \in Seq(Byte) /\ trgt \in Seq(Byte)
    /\ max_trgt_match_len \in 0 .. Len(trgt)
    /\ ops \in Seq(InnerOp)
    /\ cur_o_pos \in 0 .. Len(trgt)
    /\ min_match >= MIN_MATCH /\ run_len \in Nat /\ match_len \in Nat /\ run_byte \in Byte \cup {0}
    /\ src_matcher \in SrcMatcher \cup {OffMatcher}
    /\ trgt_matcher = OffMatcher \/ trgt_matcher \in TrgtMatcherSet
    /\ walk \in [pos : Nat, chain : Nat, best_start : Nat, best_len : Nat]
    /\ state \in LoopStates \cup {"begin", "Examine", "Advance", "EndWalk", "done", "panicked"}

(* Whatever the hashes say, lazily or not, the matches found are what       *)
(* translate_inner_ops relies on: each is true of the files, and none       *)
(* starts or ends before the one found earlier (encode_inner,               *)
(* clear_existing_ops).  Only a naive test of an empty source finds a match *)
(* of no bytes, before all others.                                          *)
MatchesAsPromised ==
    /\ \A i \in 1 .. Len(ops) :
          /\ TrueMatch(ops[i], src, trgt)
          /\ ops[i].length = 0 => i = 1 /\ ops[i].o_pos = 0 /\ src = <<>>
    /\ \A i \in 1 .. Len(ops) - 1 : Ordered(ops[i], ops[i + 1])

(* No match found in the loop is contained in another, as the head of       *)
(* encoder.rs says: it starts and ends after the one before it.             *)
NoneContained ==
    state # "done" =>
        \A i \in 1 .. Len(ops) - 1 :
            /\ ops[i].length > 0 => ops[i].o_pos < ops[i + 1].o_pos
            /\ MatchEnd(ops[i]) < MatchEnd(ops[i + 1])

(* The source's hash is that of the window it is said to be of, rolled as   *)
(* it is over the target, back over the source and across matches that are  *)
(* jumped over; so is each hash in the source's table (StartNewMatch,       *)
(* MoveForwardOneByte, add_start_positions_to_matcher).                     *)
HashesInStep ==
    config.match_src /\ src_matcher # OffMatcher =>
        /\ src_matcher.fwd_pos < LastHashPos(SRC_HASH_LEN) =>
              src_matcher.fwd_hash = calculate_checksum(trgt, src_matcher.fwd_pos, SRC_HASH_LEN)
        /\ \A b \in Buckets :
              LET bucket == src_matcher.table[b]
              IN bucket.value # 0 =>
                    bucket.hash = calculate_checksum(src, (bucket.value - 1) * config.l_step,
                                                     SRC_HASH_LEN)

(* The matchers look at the position the loop is at, and no index of the    *)
(* loop leaves its slice, but for the two that panic: moving one byte on,   *)
(* verifying and extending candidates, clearing the matches a new one       *)
(* begins before, and walking a chain (the debug_asserts of TryMatch,       *)
(* clear_existing_ops, PrevPositionIterator::next).                         *)
EncoderAssertions ==
    /\ At("TryMatch") /\ config.match_src /\ cur_o_pos + SRC_HASH_LEN <= max_trgt_match_len =>
          /\ src_matcher.fwd_pos = cur_o_pos
          /\ \A start \in SrcCandidates :
                /\ start + SRC_HASH_LEN <= Len(src)
                /\ PreMatch(start) > 0 => PreMatch(start) < cur_o_pos
    /\ At("TryMatch") /\ config.match_trgt => trgt_matcher.fwd_pos = cur_o_pos
    /\ At("MoveForwardOneByte") =>
          /\ cur_o_pos + MIN_MATCH < Len(trgt)
          /\ config.match_src /\ src_matcher.fwd_pos < LastHashPos(SRC_HASH_LEN) =>
                cur_o_pos + SRC_HASH_LEN < Len(trgt)
    /\ state = "Advance" => Previous(trgt_matcher, walk.pos).value <= cur_o_pos + 1
    /\ state = "EndWalk" => walk.best_start + walk.best_len <= cur_o_pos

(* Positions before the first are stored: what an Appended source is for. *)
Prefills == config.match_trgt /\ ~ NothingToDo /\ StartPos > 0

(* One round of the loop from its start to a move, and a walk within it. *)
Rank == [begin |-> 7, StartNewMatch |-> 6, TryMatch |-> 5, Examine |-> 4, Advance |-> 4,
         EndWalk |-> 3, FoundMatch |-> 2, MoveForwardOneByte |-> 1, done |-> 0, panicked |-> 0]

Progress ==
    \/ cur_o_pos' > cur_o_pos
    \/ cur_o_pos' = cur_o_pos /\ Rank[state'] < Rank[state]
    \/ /\ cur_o_pos' = cur_o_pos
       /\ \/ state = "Examine" /\ state' = "Advance" /\ walk'.pos = walk.pos
          \/ state = "Advance" /\ state' \in {"Examine", "Advance"} /\ walk'.pos < walk.pos

(* Every step moves the loop on, or down a chain of which each place leads  *)
(* further back although the ring's places are shared: so it ends, unless   *)
(* the target matcher was prefilled (the loop of encode_inner,              *)
(* PrevPositionIterator::next).                                             *)
EveryStepProgresses == [][~ Prefills => Progress]_encoderVars

(* The errors encode documents are those of reading and writing; the slices *)
(* of the loop never end it (encode, encode_inner).                         *)
EncodeReturns == state # "panicked"

(* chain_check is the most entries a search looks at, so that a search ends *)
(* (TrgtMatcherConfig, find_best_trgt_match).                               *)
WalksEnd == state = "Examine" ~> state = "EndWalk"
=============================================================================
