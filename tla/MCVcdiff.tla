------------------------------ MODULE MCVcdiff ------------------------------
(* VCDIFF files of one and two windows, of at most three instructions and   *)
(* one, with a Run limit of 2, a u16 of 3 and sections of at most 5 bytes:  *)
(* every instruction occurs below and above its limit, and copies repeat    *)
(* periods of 1, 3 and 4 bytes, of which the last is too long, and one has  *)
(* a period of 3 and makes only 2.                                          *)
EXTENDS VcdiffConvert, SequencesExt

MC_Byte == {"a", "b", "c", "d", "e", "x", "y", "z"}
Src == <<"a", "b", "c", "d", "e">>

AddOf(bytes) == [op |-> "Add", bytes |-> bytes]
RunOf(byte, len) == [op |-> "Run", byte |-> byte, len |-> len]
FromSegment(u_pos, len) == [op |-> "S", u_pos |-> u_pos, len |-> len]
FromBack(back, len) == [op |-> "Back", back |-> back, len |-> len]
Repeat(back, len) == [op |-> "Q", back |-> back, len |-> len]

Pool ==
    {AddOf(<<"x">>), AddOf(<<"x", "y", "z", "x">>), RunOf("z", 3), FromSegment(1, 2),
     FromSegment(0, 4), FromBack(2, 2), Repeat(1, 3), Repeat(3, 2), Repeat(3, 7), Repeat(4, 6)}

NoSource == [ssp |-> <<>>, size |-> 0, target |-> FALSE]
FromSource == [ssp |-> <<1>>, size |-> 4, target |-> FALSE]
FromTarget == [ssp |-> <<1>>, size |-> 4, target |-> TRUE]

(* The instruction as the reader hands it out, at a place of the file c. *)
Made(c, w, p) ==
    LET at == Len(c.out)
        u_start == w.size + at - w.from
        copy(type, u_pos) == [op |-> "Copy", at |-> at, type |-> type, u_pos |-> u_pos,
                              u_start |-> u_start, len |-> p.len]
    IN CASE p.op = "Add" -> [op |-> "Add", at |-> at, bytes |-> p.bytes]
         [] p.op = "Run" -> [op |-> "Run", at |-> at, byte |-> p.byte, len |-> p.len]
         [] p.op = "S" -> copy("S", p.u_pos)
         [] p.op = "Back" -> copy("T", u_start - p.back)
         [] p.op = "Q" -> copy("Q", u_start - p.back)

BytesOf(c, w, p) ==
    CASE p.op = "Add" -> p.bytes
      [] p.op = "Run" -> [j \in 1 .. p.len |-> p.byte]
      [] p.op = "S" -> SubSeq(Segment(c, w), w.ssp[1] + p.u_pos + 1, w.ssp[1] + p.u_pos + p.len)
      [] OTHER -> [j \in 1 .. p.len |-> c.out[Len(c.out) - p.back + 1 + ((j - 1) % p.back)]]

CanMake(c, w, p) ==
    /\ p.op = "S" => p.u_pos + p.len <= w.size
    /\ p.op \in {"Back", "Q"} => p.back <= Len(c.out) - w.from

(* The file with one more instruction in its last window, unchanged if that *)
(* is not possible.                                                         *)
WithInst(c, p) ==
    LET n == Len(c.windows)
        w == c.windows[n]
    IN IF CanMake(c, w, p)
       THEN [c EXCEPT !.out = @ \o BytesOf(c, w, p),
                      !.windows[n].insts = Append(@, Made(c, w, p))]
       ELSE c

WithWindow(c, source, insts) ==
    FoldLeft(WithInst,
             [c EXCEPT !.windows = Append(@, [ssp |-> source.ssp, size |-> source.size,
                                              target |-> source.target,
                                              from |-> Len(c.out), insts |-> <<>>])],
             insts)

NoWindows == [src |-> Src, out |-> <<>>, windows |-> <<>>]

OneWindow ==
    {WithWindow(NoWindows, s, insts) :
        s \in {NoSource, FromSource}, insts \in BoundedSeq(Pool, 3)}

TwoWindows ==
    {WithWindow(c, s, insts) :
        c \in {d \in OneWindow : Len(d.windows[1].insts) = 2 /\ Len(d.out) >= 5},
        s \in {NoSource, FromSource, FromTarget}, insts \in [1 .. 1 -> Pool]}

(* The kind of the segment before matters where a third window has one too. *)
ThreeWindows ==
    {WithWindow(c, FromSource, <<FromSegment(1, 2)>>) :
        c \in {d \in TwoWindows : d.windows[2].target}}

MC_Files == {NoWindows} \cup OneWindow \cup TwoWindows \cup ThreeWindows
=============================================================================
