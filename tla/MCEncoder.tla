----------------------------- MODULE MCEncoder -----------------------------
(* Bytes of two values, hashes of sixteen and tables of four buckets, so   *)
(* that hashes and buckets collide.  A target is a piece of the source     *)
(* between a few other bytes.                                              *)
EXTENDS EncoderLoop, FiniteSets, Bitwise

CONSTANTS Srcs,        \* the sources
          Prefixes, Suffixes,
          MinPiece     \* bound on the pieces of a source: the shortest

MC_Byte == {0, 1}
MC_Buckets == 0 .. 3

(* get_bucket_idx for four buckets: the high bits mixed with the low. *)
MC_BucketOf == [h \in Hash |-> (h \div 4) ^^ (h % 4)]

Pieces(s) == {SubSeq(s, i, j) : i \in 1 .. Len(s), j \in 0 .. Len(s)}
LongPieces(s) == {p \in Pieces(s) : Len(p) >= MinPiece} \cup {s}

MC_Files == UNION {{[src |-> s, trgt |-> p \o m \o q] :
                        p \in Prefixes, m \in LongPieces(s) \cup {<<>>}, q \in Suffixes} :
                    s \in Srcs}

MC_Srcs == {<<>>, <<0, 1, 1, 0, 0, 1, 0, 1, 1, 1, 0>>,
            <<0, 0, 1, 0, 1, 1, 1, 0, 0, 0, 1, 0, 0, 0, 0, 0, 1, 1, 1, 0, 1, 1>>}
MC_Prefixes == {<<>>, <<0, 1, 0>>, <<1, 1, 0, 1, 1, 0, 0, 1, 1, 0, 1, 0>>}
MC_Suffixes == {<<>>, <<1, 0>>, <<0, 0, 1>>, <<0, 0, 0, 0, 0>>, <<0, 0, 0, 0, 1, 0, 1>>,
                <<0, 1, 0, 1, 0, 1, 1, 0, 1, 0, 1, 0>>}

Base == [match_src |-> TRUE, l_step |-> 1, half_win_size |-> 16, match_trgt |-> FALSE,
         chain_check |-> 2, compress_early_exit |-> 6, prev_table_capacity |-> {},
         naive_tests |-> "None", lazy_escape_len |-> 4]

MC_Configs ==
    {Base,
     [Base EXCEPT !.l_step = 5, !.match_trgt = TRUE, !.lazy_escape_len = 12,
                  !.naive_tests = "PrependAppend"],
     [Base EXCEPT !.l_step = 2, !.match_trgt = TRUE, !.half_win_size = 2,
                  !.lazy_escape_len = 0, !.prev_table_capacity = {2}],
     [Base EXCEPT !.match_src = FALSE, !.match_trgt = TRUE, !.chain_check = 8,
                  !.lazy_escape_len = 12, !.naive_tests = "Append"],
     [Base EXCEPT !.match_trgt = TRUE, !.chain_check = 0, !.naive_tests = "AppendPrepend",
                  !.prev_table_capacity = {0}],
     [Base EXCEPT !.half_win_size = 4, !.lazy_escape_len = 12, !.naive_tests = "Prepend"]}

(* A source whose end is changed, and one that is appended to with zeros. *)
LongSrc == <<0, 0, 1, 0, 1, 1, 1, 0, 0, 0, 1, 0, 0, 0, 0, 0, 1, 1, 1, 0, 1, 1>>
MC_ChangedTail == {[src |-> LongSrc, trgt |-> SubSeq(LongSrc, 1, 10) \o <<0, 1, 1, 1>>]}
MC_Padded == {[src |-> <<1, 0, 1>>, trgt |-> <<1, 0, 1, 0, 0, 0, 0, 0, 1, 0, 1>>]}

MC_SrcOnly == {Base}
MC_AppendOnly == {[Base EXCEPT !.match_trgt = TRUE, !.naive_tests = "Append", !.lazy_escape_len = 12]}
=============================================================================
