------------------------------ MODULE MCSupply ------------------------------
(***************************************************************************)
(* Small instances of Supply for TLC.                                      *)
(***************************************************************************)
EXTENDS Supply

CONSTANTS s1  \* a local order
=============================================================================
