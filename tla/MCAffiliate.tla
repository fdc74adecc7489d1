---------------------------- MODULE MCAffiliate ----------------------------
(***************************************************************************)
(* A small instance of Affiliate for TLC.                                  *)
(***************************************************************************)
EXTENDS Affiliate, TLC

CONSTANTS o1, o2, h1

\* One order whose refunds do not divide its commission evenly, and a guest's.
TwoTotals == (o1 :> 3) @@ (o2 :> 1)
TwoCommissions == (o1 :> 2) @@ (o2 :> 1)
=============================================================================
