----------------------------- MODULE HashChains -----------------------------
(***************************************************************************)
(* smdiff-encoder/src/hashmap.rs: a table that keeps one position a bucket *)
(* and, for the positions it evicts, a ring where a position's place leads *)
(* to the one it evicted.  Neither resolves collisions: a bucket holds     *)
(* whatever was put there last, and a place of the ring may belong to a    *)
(* later position, or lead to one of another hash.                         *)
(***************************************************************************)
EXTENDS RollingHash

CONSTANTS Buckets, \* the indices of a table
          BucketOf \* get_bucket_idx: the bucket of each hash

ASSUME BucketAssumption == BucketOf \in [Hash -> Buckets]

(* A position is kept plus one (BUCKET_VALUE_OFFSET): 0 is an empty bucket. *)
BucketValue == [hash : Hash, value : Nat]
Empty == [hash |-> 0, value |-> 0]
BucketFor(hash, position) == [hash |-> hash, value |-> position + 1]

NewTable == [b \in Buckets |-> Empty]

(* BasicHashTable::get: at most one position. *)
get(table, hash) ==
    LET bucket == table[BucketOf[hash]]
    IN IF bucket.value # 0 /\ bucket.hash = hash THEN {bucket.value - 1} ELSE {}

insert(table, hash, position) ==
    [table EXCEPT ![BucketOf[hash]] = BucketFor(hash, position)]

(* A ring of that capacity; one of capacity 0 keeps nothing. *)
NewChain(capacity) == [i \in 0 .. capacity - 1 |-> Empty]

(* TrgtMatcher::store: what the bucket held moves to the position's place. *)
store(matcher, hash, position) ==
    LET old == matcher.table[BucketOf[hash]]
    IN [matcher EXCEPT
            !.table = insert(@, hash, position),
            !.chain = IF old.value = 0 \/ matcher.capacity = 0 THEN @
                      ELSE [@ EXCEPT ![position % matcher.capacity] = old]]

(* What the ring holds at a position's place (get_prev_pos). *)
Previous(matcher, position) ==
    IF matcher.capacity = 0 THEN Empty ELSE matcher.chain[position % matcher.capacity]

(* Faulty variant: a place the ring has come round to is followed. *)
ChainNeverWraps(matcher, position, cur_out_pos) ==
    LET prev == Previous(matcher, position)
    IN prev.value = 0 \/ prev.value - 1 > position

(* PrevPositionIterator::next ends at an empty place, at one that leads to *)
(* a later position, and at one the ring has since come round to.          *)
ChainEnds(matcher, position, cur_out_pos) ==
    LET prev == Previous(matcher, position)
    IN \/ prev.value = 0
       \/ prev.value - 1 > position
       \/ cur_out_pos - (prev.value - 1) >= matcher.capacity
=============================================================================
