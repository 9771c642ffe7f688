------------------------------- MODULE MCR850 -------------------------------
(***************************************************************************)
(* R850 with a system of each mixer mode and amplifier setting, the one of *)
(* the boards first, and frequencies on both sides of what the driver      *)
(* decides by.                                                             *)
(***************************************************************************)
EXTENDS R850

Sys(system, bandwidth, if) == [system |-> system, bandwidth |-> bandwidth, if |-> if]

MCAsked == {Sys("IsdbT", 6, 4063), Sys("DvbT", 8, 5000), Sys("J83b", 6, 5000)}

\* 484053 and 490073 come out next to a whole divider and next to a half.
MCFreqs == {40000, 93143, 173143, 233143, 335001, 384563, 479143, 484053, 490073, 695143,
            1002000}

\* As the boards have it, and with both calibrations.
MCConfigs == {[imr |-> on, lpf |-> on] : on \in BOOLEAN}

=============================================================================
