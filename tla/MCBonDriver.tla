---------------------------- MODULE MCBonDriver ----------------------------
(***************************************************************************)
(* Small instances of BonDriver for TLC.                                   *)
(***************************************************************************)
EXTENDS BonDriver

CONSTANTS t1, t2, t3

=============================================================================
