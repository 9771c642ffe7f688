------------------------------ MODULE MCIt930x ------------------------------
(***************************************************************************)
(* It930x with two inputs, one of them serial, firmware of two blocks and  *)
(* four sequence numbers.                                                  *)
(***************************************************************************)
EXTENDS It930x, TLC

MCInputs == (1 :> 23) @@ (4 :> 87)

=============================================================================
