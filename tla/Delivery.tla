------------------------------ MODULE Delivery ------------------------------
(***************************************************************************)
(* What a buyer is promised, whichever way the goods come: an order gets   *)
(* its goods once, the goods of one order are never another's, and what    *)
(* was handed over stays as it was (the row of fulfillments, unique per    *)
(* order).  Automatic delivery of card secrets and deliveries passed on    *)
(* from an upstream site both implement it.                                *)
(***************************************************************************)
CONSTANTS Orders,   \* the orders to be delivered
          Goods     \* what can be handed over: card secrets, upstream deliveries

VARIABLE delivered  \* delivered[o]: the goods handed over for o, {} before that

Init == delivered = [o \in Orders |-> {}]

Deliver(o, g) ==
  /\ delivered[o] = {}
  /\ g # {}
  /\ \A p \in Orders : delivered[p] \intersect g = {}
  /\ delivered' = [delivered EXCEPT ![o] = g]

Next == \E o \in Orders, g \in SUBSET Goods : Deliver(o, g)

Spec == Init /\ [][Next]_delivered
=============================================================================
