----------------------------- MODULE MCCheckout -----------------------------
(***************************************************************************)
(* Small instances of Checkout for TLC.                                    *)
(***************************************************************************)
EXTENDS Checkout, TLC

CONSTANTS o1, o2, o3,    \* orders
          man, aut, ups, \* one SKU of each fulfilment type
          h1, h2, w1, w2 \* processes

\* One order with a manual and an automatic line, worth 2.
MixedQuantity == (o1 :> (man :> 1 @@ aut :> 1))
\* One order with an upstream line only: no stock of any kind.
UpstreamQuantity == (o1 :> (ups :> 1))
\* Two orders that share a manual SKU, the first with a card as well, and a third
\* that asks for more than there is.
SharedQuantity == (o1 :> (man :> 1 @@ aut :> 1)) @@ (o2 :> (man :> 2 @@ aut :> 0))
                    @@ (o3 :> (man :> 4 @@ aut :> 0))

One == (o1 :> 2)
Three == (o1 :> 2) @@ (o2 :> 2) @@ (o3 :> 2)

OneCard == (1 :> aut)
TwoCards == (1 :> aut) @@ (2 :> aut)
TwoUnits == (man :> 2)
ThreeUnits == (man :> 3)
NoUnits == << >>
=============================================================================
