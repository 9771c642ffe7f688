------------------------------ MODULE MCBoard ------------------------------
(***************************************************************************)
(* Small instances of Board for TLC: tuners a1 and a2 are on one bridge,   *)
(* b1 on another, as on a Q model.                                         *)
(***************************************************************************)
EXTENDS Board

CONSTANTS a1, a2, b1, a, b

MCBridgeOf == [i \in {a1, a2, b1} |-> IF i = b1 THEN b ELSE a]

Model(m, t) == [model |-> m, tuners |-> t]

AllDevices ==
  {Model("px4", {a1, a2}), Model("px4", {a1, b1}), Model("pxmlt", {a1, a2}),
   Model("single", {a1})}

=============================================================================
