----------------------------- MODULE TunerPool -----------------------------
(***************************************************************************)
(* What tunelithd promises of the tuners it holds: a tuner is lent on one  *)
(* set of parameters at a time, only to streams that asked for those, and  *)
(* goes back into the pool once its last stream has left.  Module          *)
(* Tunelithd is shown to implement it.                                     *)
(***************************************************************************)

CONSTANTS Tuners, Streams, Params

VARIABLES
  use,      \* use[t]: none or one <<stream that took t, parameters>>
  clients,  \* clients[t]: the <<stream, parameters asked for>> that t serves
  served    \* the streams ever served

vars == <<use, clients, served>>

TypeOK ==
  /\ use \in [Tuners -> SUBSET (Streams \X Params)]
  /\ clients \in [Tuners -> SUBSET (Streams \X Params)]
  /\ served \subseteq Streams

Init ==
  /\ use = [t \in Tuners |-> {}]
  /\ clients = [t \in Tuners |-> {}]
  /\ served = {}

\* A free tuner is taken, to be tuned to p.
Take(t, s, p) ==
  /\ use[t] = {}
  /\ use' = [use EXCEPT ![t] = {<<s, p>>}]
  /\ UNCHANGED <<clients, served>>

\* A new stream is served by t, which is on the parameters it asked for.
Join(t, s, p) ==
  /\ s \notin served
  /\ \E u \in use[t] : u[2] = p
  /\ clients' = [clients EXCEPT ![t] = @ \cup {<<s, p>>}]
  /\ served' = served \cup {s}
  /\ UNCHANGED use

\* Streams leave t: released, gone, or told that the stream ended.
Leave(t, S) ==
  /\ S # {} /\ S \subseteq clients[t]
  /\ clients' = [clients EXCEPT ![t] = @ \ S]
  /\ UNCHANGED <<use, served>>

\* Nobody is on t any more, and it is closed.
Free(t) ==
  /\ use[t] # {} /\ clients[t] = {}
  /\ use' = [use EXCEPT ![t] = {}]
  /\ UNCHANGED <<clients, served>>

Next ==
  \E t \in Tuners :
    \/ \E s \in Streams, p \in Params : Take(t, s, p) \/ Join(t, s, p)
    \/ \E S \in SUBSET clients[t] : Leave(t, S)
    \/ Free(t)

\* A tuner nobody is on does not stay taken.
Spec == Init /\ [][Next]_vars /\ \A t \in Tuners : WF_vars(Free(t))

=============================================================================
