--------------------------- MODULE MCClientStream ---------------------------
(* Small instances of ClientStream for TLC. *)
EXTENDS ClientStream

\* Every stream with one chunk, four.
Chunks(n) == [k \in Streams |-> n]

One  == Chunks(1)
Four == Chunks(4)

=============================================================================
