---------------------------- MODULE MCAfterSale ----------------------------
(***************************************************************************)
(* A small instance of AfterSale for TLC: one order of two automatic       *)
(* lines, which may also be delivered by hand, and as many cards.          *)
(***************************************************************************)
EXTENDS AfterSale, TLC

CONSTANTS p1,          \* the order that was paid
          a1, a2,       \* its children
          w1, w2

MCParentOf == [c \in Children |-> p1]
OneCardEach == [c \in AutoChildren |-> 1]
MCTotal == [o \in Orders |-> IF o \in Parents THEN 2 ELSE 1]
=============================================================================
