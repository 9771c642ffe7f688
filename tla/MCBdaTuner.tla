----------------------------- MODULE MCBdaTuner -----------------------------
(***************************************************************************)
(* BdaTuner with two satellite systems, and a frequency that is none.      *)
(***************************************************************************)
EXTENDS BdaTuner

MCParams == {[system |-> "IsdbS", low |-> FALSE], [system |-> "IsdbS3", low |-> FALSE],
             [system |-> "IsdbS3", low |-> TRUE]}

=============================================================================
