------------------------- MODULE MCBlockStructures -------------------------
(* Instances of BlockStructures for TLC.                                   *)
EXTENDS BlockStructures, TLC

CONSTANTS w1, w2, k1, k2

OneBulk == (w1 :> 1) @@ (w2 :> 1)
=============================================================================
