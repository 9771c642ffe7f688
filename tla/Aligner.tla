------------------------------ MODULE Aligner ------------------------------
(***************************************************************************)
(* What cuts the bytes of a capture into packets (struct Aligner of        *)
(* tunelith-core/src/bda/mod.rs).  Bytes are numbers: 0 where the code     *)
(* looks for the byte a packet starts with, in a TLV followed by the       *)
(* length, which is two bytes further on in the code and of two bytes.     *)
(***************************************************************************)
EXTENDS Integers, SequencesExt

CONSTANT PacketLen \* TS_PACKET

ASSUME PacketLenAssumption == PacketLen \in Nat \ {0}

Sync == 0

\* Where the packet after the one at `at` starts, or 0 if none is told to.
After(format, data, at) ==
  IF at \notin DOMAIN data \/ data[at] # Sync THEN 0
  ELSE IF format = "Ts" THEN at + PacketLen
  ELSE IF at + 1 \in DOMAIN data THEN at + 2 + data[at + 1] ELSE 0

\* Mutant: a packet in a row with another is enough.
StartsTwo(format, data, at) ==
  LET two == After(format, data, at) IN two # 0 /\ After(format, data, two) # 0

StartsThree(format, data, at) ==
  LET two   == After(format, data, at)
      three == After(format, data, two)
  IN  two # 0 /\ three # 0 /\ After(format, data, three) # 0

\* packet_start: the first of three packets in a row, or 0.
PacketStart(format, data) ==
  SelectInSeq([i \in DOMAIN data |-> StartsThree(format, data, i)], LAMBDA b : b)

\* The loop of feed_ts, over what is left of the buffer.
RECURSIVE FeedTs(_, _, _)
FeedTs(aligned, buf, out) ==
  LET n == Len(buf) IN
  IF n < PacketLen \/ (~aligned /\ n < 3 * PacketLen)
  THEN [aligned |-> aligned, carry |-> buf, out |-> out]
  ELSE IF ~aligned THEN
    LET start == PacketStart("Ts", buf) IN
    IF start # 0 THEN FeedTs(TRUE, SubSeq(buf, start, n), out)
    ELSE [aligned |-> FALSE, carry |-> SubSeq(buf, n - 3 * PacketLen + 2, n), out |-> out]
  ELSE IF buf[1] # Sync THEN FeedTs(FALSE, buf, out)
  ELSE FeedTs(TRUE, SubSeq(buf, PacketLen + 1, n), out \o SubSeq(buf, 1, PacketLen))

FeedTlv(aligned, data) ==
  LET start == PacketStart("Tlv", data) IN
  IF aligned THEN [aligned |-> TRUE, carry |-> <<>>, out |-> data]
  ELSE IF start = 0 THEN [aligned |-> FALSE, carry |-> <<>>, out |-> <<>>]
  ELSE [aligned |-> TRUE, carry |-> <<>>, out |-> SubSeq(data, start, Len(data))]

\* feed, of a frame that is not the first.
Feed(format, a, data) ==
  IF format = "Ts" THEN FeedTs(a.aligned, a.carry \o data, <<>>)
  ELSE FeedTlv(a.aligned, data)

\* What comes out of frames, the first of which is left out.
Given(format, frames) ==
  FoldLeft(LAMBDA a, frame : LET b == Feed(format, a, frame)
                             IN  [b EXCEPT !.out = a.out \o @],
           [aligned |-> FALSE, carry |-> <<>>, out |-> <<>>], Tail(frames)).out

-----------------------------------------------------------------------------
(* What is to come out: of the pieces a stream is made of, some of them    *)
(* packets, those packets that come whole and with others in a row.        *)

\* The places of the packets among `pieces`, of which the bytes after `cut`
\* are looked at, with two others next to them.
Whole(pieces, cut) ==
  LET End(i) == Len(FlattenSeq(SubSeq(pieces, 1, i)))
      Is(i)  == i \in DOMAIN pieces /\ pieces[i][1] = Sync /\ End(i - 1) >= cut
  IN  {i \in DOMAIN pieces : \E j \in i - 2 .. i : Is(j) /\ Is(j + 1) /\ Is(j + 2)}

Expected(pieces, cut) ==
  FlattenSeq([i \in DOMAIN pieces |-> IF i \in Whole(pieces, cut) THEN pieces[i] ELSE <<>>])

Frames(bytes, cut, then) ==
  <<SubSeq(bytes, 1, cut), SubSeq(bytes, cut + 1, then), SubSeq(bytes, then + 1, Len(bytes))>>

\* Of a TS, cut anywhere into frames, with some bytes slipped in between
\* packets that do not look like the start of one, each packet that comes in a
\* row of three does come out, once and in order, and nothing else does
\* (mod.rs:848).
TsComesWhole(streams) ==
  \A pieces \in streams :
    LET bytes == FlattenSeq(pieces) IN
    \A cut \in 0 .. Len(bytes), then \in 0 .. Len(bytes) :
      cut <= then => Given("Ts", Frames(bytes, cut, then)) = Expected(pieces, cut)

\* Of TLV packets, what comes out begins with a packet and goes on to the end
\* (mod.rs:834).
TlvComesWhole(streams) ==
  \A pieces \in streams :
    LET bytes == FlattenSeq(pieces)
        Rest(i) == FlattenSeq(SubSeq(pieces, i, Len(pieces)))
    IN  \A cut \in 0 .. Len(bytes), then \in 0 .. Len(bytes) :
          cut <= then =>
            LET out == Given("Tlv", Frames(bytes, cut, then)) IN
            out = <<>> \/ \E i \in DOMAIN pieces : pieces[i][1] = Sync /\ out = Rest(i)

=============================================================================
