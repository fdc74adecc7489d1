---------------------------- MODULE OrderStatus ----------------------------
(***************************************************************************)
(* The status vocabulary of orders and the two pure functions every order  *)
(* handler consults: the transition table of order_service.go and the      *)
(* aggregation of child statuses into a parent status of order_status.go.  *)
(***************************************************************************)

\* The OrderStatus constants of constants/constants.go.
OrderStatuses ==
  {"pending_payment", "paid", "fulfilling", "partially_delivered", "delivered",
   "completed", "canceled", "partially_refunded", "refunded"}

\* allowedTransitions, as pairs; there is no way out of the statuses the table
\* has no row for (canceled, refunded).
Transitions ==
  LET refunds == {"partially_refunded", "refunded"}
  IN ({"pending_payment"} \X {"paid", "canceled"})
       \union ({"paid"} \X ({"fulfilling", "partially_delivered", "delivered"} \union refunds))
       \union ({"fulfilling"} \X ({"partially_delivered", "delivered"} \union refunds))
       \union ({"partially_delivered"} \X ({"delivered", "completed"} \union refunds))
       \union ({"delivered"} \X ({"completed"} \union refunds))
       \union ({"completed"} \X refunds)
       \union ({"partially_refunded"} \X {"refunded"})

\* Seeded fault: payment is accepted whatever the status.
PaymentAlwaysAllowed(current, target) == target = "paid" \/ <<current, target>> \in Transitions

\* isTransitionAllowed: staying put is always allowed.
IsTransitionAllowed(current, target) ==
  current = target \/ <<current, target>> \in Transitions

\* calcParentStatus over the children C, whose statuses are st. The code counts
\* the children in each status and compares the counts with their number; here
\* "all of them" and "some of them" say the same. A child that is
\* partially_delivered is counted by no case of the code's switch.
CalcParentStatus(C, st, current) ==
  LET All(S)  == \A c \in C : st[c] \in S
      Some(S) == \E c \in C : st[c] \in S
  IN IF C = {} THEN current
     ELSE IF All({"canceled"}) THEN "canceled"
     ELSE IF All({"refunded"}) THEN "refunded"
     ELSE IF Some({"refunded", "partially_refunded"}) THEN "partially_refunded"
     ELSE IF All({"completed"}) THEN "completed"
     ELSE IF All({"delivered", "completed"}) THEN "delivered"
     ELSE IF Some({"delivered", "completed"}) THEN "partially_delivered"
     ELSE IF Some({"fulfilling"}) THEN "fulfilling"
     ELSE IF Some({"paid"}) THEN "paid"
     ELSE IF Some({"pending_payment"}) THEN "pending_payment"
     ELSE current

\* shouldMarkFulfilling for a child order, which carries one item: whatever is
\* not delivered automatically waits for a person or an upstream supplier.
FulfillmentTypes == {"auto", "manual", "upstream"}
ShouldMarkFulfilling(type) == type \in {"manual", "upstream"}

\* shouldAutoFulfill for a child order, which carries one item.
ShouldAutoFulfill(type) == type = "auto"
=============================================================================
