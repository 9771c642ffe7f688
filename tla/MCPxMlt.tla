------------------------------ MODULE MCPxMlt ------------------------------
(***************************************************************************)
(* PxMlt with two tuners on one bus, each tuned to a terrestrial channel   *)
(* and to two streams of one transponder.                                  *)
(***************************************************************************)
EXTENDS PxMlt, TLC

CONSTANTS c1, c2, f1, f2, s1, s2

MCChips == {c1, c2}
OneBus  == [i \in MCChips |-> 3]

MCParams ==
  {[mode |-> "T", khz |-> f1, id |-> None]}
  \cup {[mode |-> "S", khz |-> f2, id |-> s] : s \in {s1, s2}}

Symmetry == Permutations(MCChips)

=============================================================================
