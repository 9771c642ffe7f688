---------------------------- MODULE MCBdaCapture ----------------------------
(***************************************************************************)
(* BdaCapture with two reads in flight.  The aligner is given packets of   *)
(* three bytes, some with what looks like a start inside, and bytes that   *)
(* slipped in between; and TLV packets of different lengths after a piece  *)
(* of one.                                                                 *)
(***************************************************************************)
EXTENDS BdaCapture, Aligner

Ts(n) == IF n = 2 THEN <<0, 0, n>> ELSE <<0, n, n>>
MCTsStreams ==
  {[i \in 1 .. n + 2 |-> IF i = 1 THEN [k \in 1 .. junk |-> 9]
                         ELSE IF i - 1 = slip THEN <<8, 8>>
                         ELSE Ts(IF i - 1 > slip THEN i - 2 ELSE i - 1)]
   : n \in {3, 6}, junk \in 1 .. 2, slip \in 1 .. 5}

MCTlvStreams ==
  {<<junk, <<0, 1, 7>>, <<0, 2, 6, 5>>, <<0, 0>>, <<0, 1, 4>>, <<0, 3, 3, 3, 3>>>>
   : junk \in {<<9>>, <<5, 9>>}}

Aligned == TsComesWhole(MCTsStreams) /\ TlvComesWhole(MCTlvStreams)

\* A stream is of whole packets: each that comes in a row of three does come
\* out, once and in order, wherever the frames cut the packets and bytes slip
\* in between, and nothing else does (mod.rs:801).  The bytes that slip in do
\* not look like the start of a packet.
AlignsWhole == (\E s \in Streams : stream[s] = "open") => Aligned

=============================================================================
