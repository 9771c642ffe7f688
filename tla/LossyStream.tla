---------------------------- MODULE LossyStream ----------------------------
(***************************************************************************)
(* What the client library promises of a stream (tunelith/src/lib.rs): its *)
(* bytes in order, less those it was too slow for, which are counted; and  *)
(* an end that is told only once every byte was read or counted, unless    *)
(* tunelithd is lost before that.  ClientStream is shown to implement it.  *)
(***************************************************************************)
EXTENDS Naturals

CONSTANTS Streams

VARIABLES
  made,   \* the bytes there were for each stream
  got,    \* those read
  lost,   \* dropped_bytes()
  over,   \* what the read that found the end returned
  alive   \* whether tunelithd runs

vars == <<made, got, lost, over, alive>>

Init ==
  /\ made = [k \in Streams |-> 0] /\ got = [k \in Streams |-> 0]
  /\ lost = [k \in Streams |-> 0] /\ over = [k \in Streams |-> "no"]
  /\ alive = TRUE

Make(k) ==
  /\ alive /\ over[k] = "no"
  /\ made' = [made EXCEPT ![k] = @ + 1]
  /\ UNCHANGED <<got, lost, over, alive>>

Read(k) ==
  /\ over[k] = "no" /\ got[k] + lost[k] < made[k]
  /\ got' = [got EXCEPT ![k] = @ + 1]
  /\ UNCHANGED <<made, lost, over, alive>>

Count(k) ==
  /\ over[k] = "no"
  /\ \E n \in 1..(made[k] - got[k]) :
       /\ lost[k] + n + got[k] <= made[k]
       /\ lost' = [lost EXCEPT ![k] = @ + n]
  /\ UNCHANGED <<made, got, over, alive>>

\* The source ended, or failed.
End(k) ==
  /\ over[k] = "no"
  /\ alive => got[k] + lost[k] = made[k]
  /\ \E how \in {"eof", "error"} : over' = [over EXCEPT ![k] = how]
  /\ UNCHANGED <<made, got, lost, alive>>

\* The loss of tunelithd is an end of its own.
Cut(k) ==
  /\ over[k] = "no" /\ ~alive
  /\ over' = [over EXCEPT ![k] = "cut"]
  /\ UNCHANGED <<made, got, lost, alive>>

Crash ==
  /\ alive' = FALSE
  /\ UNCHANGED <<made, got, lost, over>>

Next ==
  \/ \E k \in Streams : Make(k) \/ Read(k) \/ Count(k) \/ End(k) \/ Cut(k)
  \/ Crash

Spec == Init /\ [][Next]_vars

=============================================================================
