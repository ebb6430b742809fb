----------------------------- MODULE MCOpMaker -----------------------------
(* Up to three matches, of any kind and overlapping in any way, on targets *)
(* of nine bytes, each extended as far as it goes, as the encoder's are.   *)
(* A Run holds one byte here, so that a run of six or more is three runs   *)
(* and copies, which the u16 of three cuts up.                        *)
EXTENDS OpMaker, SequencesExt, TLC

CONSTANTS MaxMatches, \* bound on the matches of a case
          MinMatch    \* shortest match: 4

MC_Byte == {"a", "b"}

Files == {[src |-> <<"a", "b", "a", "a", "a">>,
           trgt |-> <<"b", "a", "a", "a", "a", "a", "a", "a", "b">>],
          [src |-> <<"b", "b", "a", "b", "b">>,
           trgt |-> <<"a", "a", "a", "a", "b", "a", "b", "b", "a">>]}

MatchesOf(f) ==
    LET positions == 0 .. Len(f.trgt) - MinMatch
        spans == {s \in positions \X (MinMatch .. Len(f.trgt)) : s[1] + s[2] <= Len(f.trgt)}
        match(kind, start, s) == [kind |-> kind, start |-> start, byte |-> f.trgt[s[1] + 1],
                                  length |-> s[2], o_pos |-> s[1]]
        candidates == {match("Run", 0, s) : s \in spans}
            \cup {match(kind, start, s) : kind \in {"MatchSrc", "MatchTrgt"},
                                          start \in positions, s \in spans}
        true == {m \in candidates : TrueMatch(m, f.src, f.trgt)}
    IN {m \in true : [m EXCEPT !.length = @ + 1] \notin true}

ListsOf(f) ==
    LET extend(lists) == lists \cup
            UNION {{Append(l, m) : m \in {n \in MatchesOf(f) : l = <<>> \/ Ordered(Last(l), n)}}
                   : l \in lists}
    IN FoldLeft(LAMBDA lists, i : extend(lists), {<<>>}, [i \in 1 .. MaxMatches |-> i])

MC_Cases ==
    UNION {{[src |-> f.src, trgt |-> f.trgt, inner |-> l] : l \in ListsOf(f)} : f \in Files}
=============================================================================
