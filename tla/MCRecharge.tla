----------------------------- MODULE MCRecharge -----------------------------
(***************************************************************************)
(* Small instances of Recharge for TLC.                                    *)
(***************************************************************************)
EXTENDS Recharge, TLC

CONSTANTS r1, r2, h1, h2

Amounts == (r1 :> 1) @@ (r2 :> 2)
OneAmount == (r1 :> 1)
=============================================================================
