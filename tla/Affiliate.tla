----------------------------- MODULE Affiliate -----------------------------
(***************************************************************************)
(* The commissions of one affiliate (affiliate_service.go): earned by a    *)
(* paid order, confirmed after some days, cut by refunds, rejected when    *)
(* the order is canceled, bound to a request for payment, which may split  *)
(* one, and paid or released by a review.  A transaction is one step.      *)
(* Only HandleOrderCanceled works outside a transaction, on rows it has    *)
(* read before; they are kept in canceling.                                *)
(***************************************************************************)
EXTENDS Integers, Sequences, FiniteSetsExt

CONSTANTS Orders,      \* orders that name the affiliate
          GuestOrders, \* those of buyers without an account
          Total,       \* Total[o]: total_amount, in cents
          Commission,  \* Commission[o]: what o earns, in cents
          Handlers,    \* concurrent calls of HandleOrderCanceled
          MaxRequests  \* bound: requests for payment

ASSUME AffiliateAssumption ==
  /\ GuestOrders \subseteq Orders
  /\ Total \in [Orders -> Nat \ {0}]
  /\ Commission \in [Orders -> Nat \ {0}]
  /\ MaxRequests \in Nat

VARIABLES
  refunded,   \* refunded[o]: refunded_amount
  records,    \* records[o]: how many refund records o has
  commission, \* affiliate_commissions in the order of their ids
  withdraw,   \* affiliate_withdraw_requests in the order of their ids
  canceling,  \* canceling[h]: the rows, by id, h has read and not yet saved
  overwritten \* history: requests a commission of which was saved from an old copy

affiliateVars == <<refunded, records, commission, withdraw, canceling, overwritten>>

Unbound == 0  \* withdraw_request_id is NULL
NoRows == [i \in {} |-> 0]

\* A row; share is history: what the row was worth when it was created, split or
\* released last, and what had been refunded of its order by then.
Row(o, amount, status, request) ==
  [order |-> o, amount |-> amount, status |-> status, request |-> request,
   share |-> [of |-> amount, since |-> refunded[o]]]

Init ==
  /\ refunded = [o \in Orders |-> 0]
  /\ records = [o \in Orders |-> 0]
  /\ commission = << >>
  /\ withdraw = << >>
  /\ canceling = [h \in Handlers |-> NoRows]
  /\ overwritten = {}

Ids == DOMAIN commission
Open(row) == row.status \in {"pending_confirm", "available"}
AmountOf(S) == SumFunctionOnSet([i \in Ids |-> commission[i].amount], S)
Bound(r) == {i \in Ids : commission[i].request = r}

-----------------------------------------------------------------------------
\* HandleOrderPaid, after the payment's transaction: a commission per order and
\* affiliate (idx_affiliate_commission_unique). It looks neither at the order's
\* status nor at its refunds; the setting may ask for no confirmation.
HandleOrderPaid(o) ==
  /\ \A i \in Ids : commission[i].order # o
  /\ \E status \in {"pending_confirm", "available"} :
       commission' = Append(commission, Row(o, Commission[o], status, Unbound))
  /\ UNCHANGED <<refunded, records, withdraw, canceling, overwritten>>

\* Seeded fault: whatever is not with a request becomes available.
ConfirmableByRequest(i) == commission[i].request = Unbound

\* The WHERE of MarkPendingCommissionsAvailable, but for the date.
Confirmable(i) == commission[i].status = "pending_confirm" /\ commission[i].request = Unbound

\* ConfirmDueCommissions, by its periodic task or before a request for payment, makes
\* available what has come due.
ConfirmDueCommissions ==
  /\ \E due \in SUBSET {i \in Ids : Confirmable(i)} :
       /\ due # {}
       /\ commission' = [i \in Ids |-> IF i \in due
                                         THEN [commission[i] EXCEPT !.status = "available"]
                                         ELSE commission[i]]
  /\ UNCHANGED <<refunded, records, withdraw, canceling, overwritten>>

-----------------------------------------------------------------------------
(* Taking back.                                                             *)

\* decimal's Round of x / y, half up.
Rounded(x, y) == (2 * x + y) \div (2 * y)

\* Seeded fault: the part of the whole order, not of what is left of it.
CutOfTotal(amount, delta, o) == Max({amount - Rounded(amount * delta, Total[o]), 0})

\* What delta more refunded of o leaves of a commission.
Cut(amount, delta, o) ==
  Max({amount - Rounded(amount * delta, Total[o] - refunded[o]), 0})

\* Seeded fault: commissions that are with a request are taken back too.
OpenOf(row, o) == row.order = o /\ Open(row)

\* Those of order o that may be taken back: a request keeps what it has got.
Revocable(row, o) == row.order = o /\ Open(row) /\ row.request = Unbound

AfterCut(row, amount) ==
  [row EXCEPT !.amount = amount, !.status = IF amount = 0 THEN "rejected" ELSE @]

\* Seeded fault: nobody asks what has been refunded before.
RefundableAlways(o) == Total[o]
Refundable(o) == Total[o] - refunded[o]

\* HandleOrderRefundedTx, in the transaction of AdminManualRefund or of
\* AdminRefundToWallet; a guest's refund does not call it.
Refund(o, amount) ==
  /\ amount <= Refundable(o)
  /\ refunded' = [refunded EXCEPT ![o] = @ + amount]
  /\ records' = [records EXCEPT ![o] = @ + 1]
  /\ commission' = [i \in Ids |->
       IF Revocable(commission[i], o) /\ o \notin GuestOrders
         THEN AfterCut(commission[i], Cut(commission[i].amount, amount, o))
         ELSE commission[i]]
  /\ UNCHANGED <<withdraw, canceling, overwritten>>

\* HandleOrderCanceled reads the rows of a canceled order ...
BeginCanceled(h, o) ==
  LET rows == {i \in Ids : Revocable(commission[i], o)}
  IN /\ canceling[h] = NoRows /\ rows # {}
     /\ canceling' = [canceling EXCEPT ![h] = [i \in rows |-> commission[i]]]
     /\ UNCHANGED <<refunded, records, commission, withdraw, overwritten>>

\* ... and saves each, with all its columns as they were, as rejected.
SaveRejected(h, i) ==
  /\ i \in DOMAIN canceling[h]
  /\ commission' = [commission EXCEPT ![i] = [canceling[h][i] EXCEPT !.status = "rejected"]]
  /\ overwritten' = overwritten \union ({commission[i].request} \ {Unbound})
  /\ canceling' = [canceling EXCEPT ![h] = [j \in DOMAIN @ \ {i} |-> @[j]]]
  /\ UNCHANGED <<refunded, records, withdraw>>

\* A save fails or the process dies: the rest stays as it is.
GiveUp(h) ==
  /\ canceling[h] # NoRows
  /\ canceling' = [canceling EXCEPT ![h] = NoRows]
  /\ UNCHANGED <<refunded, records, commission, withdraw, overwritten>>

-----------------------------------------------------------------------------
(* Requests for payment.                                                    *)

Available == {i \in Ids : commission[i].status = "available" /\ commission[i].request = Unbound}

\* What a request for amount takes of the available commission i: they are taken in
\* the order of their ids, and the last one only as far as needed.
Taken(i, amount) ==
  LET before == AmountOf({j \in Available : j < i})
  IN IF i \notin Available \/ before >= amount
       THEN 0
       ELSE Min({commission[i].amount, amount - before})

\* Seeded fault: what is left of a split commission keeps its amount.
RestUnreduced(i, amount) ==
  IF Taken(i, amount) \in 1..(commission[i].amount - 1) THEN commission[i].amount ELSE 0

\* What is left of commission i if the request splits it, else 0.
Rest(i, amount) ==
  IF Taken(i, amount) = 0 THEN 0 ELSE commission[i].amount - Taken(i, amount)

\* ApplyWithdraw; the rest of a split commission is a new row.
ApplyWithdraw(amount) ==
  LET r == Len(withdraw) + 1
      bound == [i \in Ids |->
                  IF Taken(i, amount) = 0 THEN commission[i]
                  ELSE Row(commission[i].order, Taken(i, amount), "available", r)]
  IN /\ Len(withdraw) < MaxRequests
     /\ amount <= AmountOf(Available)
     /\ withdraw' = Append(withdraw, [amount |-> amount, status |-> "pending_review"])
     /\ IF \A i \in Ids : Rest(i, amount) = 0
          THEN commission' = bound
          ELSE \E i \in Ids :
                 /\ Rest(i, amount) > 0
                 /\ commission' = Append(bound,
                      Row(commission[i].order, Rest(i, amount), "available", Unbound))
     /\ UNCHANGED <<refunded, records, canceling, overwritten>>

\* ReviewWithdraw pays the request, which ends its commissions, or releases them.
ReviewWithdraw(r) ==
  /\ withdraw[r].status = "pending_review"
  /\ \/ /\ withdraw' = [withdraw EXCEPT ![r].status = "paid"]
        /\ commission' = [i \in Ids |-> IF i \in Bound(r)
                                          THEN [commission[i] EXCEPT !.status = "withdrawn"]
                                          ELSE commission[i]]
     \/ /\ withdraw' = [withdraw EXCEPT ![r].status = "rejected"]
        /\ commission' = [i \in Ids |->
             LET row == commission[i]
             IN IF i \in Bound(r) THEN Row(row.order, row.amount, row.status, Unbound) ELSE row]
  /\ UNCHANGED <<refunded, records, canceling, overwritten>>

Next ==
  \/ \E o \in Orders : HandleOrderPaid(o) \/ \E amount \in 1..Total[o] : Refund(o, amount)
  \/ ConfirmDueCommissions
  \/ \E h \in Handlers :
       \/ \E o \in Orders : BeginCanceled(h, o)
       \/ \E i \in Ids : SaveRejected(h, i)
       \/ GiveUp(h)
  \/ \E amount \in 1..AmountOf(Available) : ApplyWithdraw(amount)
  \/ \E r \in DOMAIN withdraw : ReviewWithdraw(r)

Spec == Init /\ [][Next]_affiliateVars

-----------------------------------------------------------------------------
RowType ==
  [order : Orders, amount : Nat,
   status : {"pending_confirm", "available", "rejected", "withdrawn"},
   request : Nat, share : [of : Nat, since : Nat]]

TypeOK ==
  /\ refunded \in [Orders -> Nat] /\ \A o \in Orders : refunded[o] <= Total[o]
  /\ records \in [Orders -> Nat]
  /\ commission \in Seq(RowType)
  /\ withdraw \in Seq([amount : Nat, status : {"pending_review", "rejected", "paid"}])
  /\ Len(withdraw) <= MaxRequests
  /\ \A i \in Ids : commission[i].request \in 0..Len(withdraw)
  /\ \A h \in Handlers : \A i \in DOMAIN canceling[h] :
       i \in Ids /\ canceling[h][i] \in RowType /\ canceling[h][i].request = Unbound
  /\ overwritten \subseteq DOMAIN withdraw

\* What the requests that were not rejected ask for.
Requested ==
  SumFunctionOnSet([r \in DOMAIN withdraw |-> withdraw[r].amount],
                   {r \in DOMAIN withdraw : withdraw[r].status # "rejected"})
\* The commissions still to be asked for.
Free == {i \in Ids : Open(commission[i]) /\ commission[i].request = Unbound}

\* What is paid out, asked for or still to be asked for was earned: neither splits,
\* releases nor old copies make a commission twice (ApplyWithdraw, ReviewWithdraw,
\* HandleOrderCanceled).
PaidOutWasEarned ==
  Requested + AmountOf(Free) <= SumFunctionOnSet(Commission, {commission[i].order : i \in Ids})

\* A request holds commissions worth its amount until it is rejected, withdrawn ones
\* once it is paid, whatever is refunded or canceled meanwhile; except that a
\* cancellation which has read a commission before takes it out of the request
\* again (ApplyWithdraw, HandleOrderRefundedTx, HandleOrderCanceled).
RequestIsCovered ==
  \A r \in DOMAIN withdraw : withdraw[r].status # "rejected" /\ r \notin overwritten =>
    /\ AmountOf(Bound(r)) = withdraw[r].amount
    /\ \A i \in Bound(r) :
         commission[i].status = IF withdraw[r].status = "paid" THEN "withdrawn" ELSE "available"

\* A commission that was taken back never comes back, and no request gets it
\* (HandleOrderCanceled, ConfirmDueCommissions, ReviewWithdraw).
TakenBackForGood ==
  [][\A i \in Ids : commission[i].status = "rejected" =>
       commission'[i].status = "rejected" /\ commission'[i].request = Unbound]_affiliateVars

\* Refunds, in however many parts, leave of a commission the share of its order that
\* is not refunded, up to half a cent for each, and of a whole order's nothing
\* (HandleOrderRefundedTx).
ShareFollowsRefunds ==
  \A i \in Ids :
    LET o == commission[i].order
        share == commission[i].share
        kept == Total[o] - refunded[o]
        whole == Total[o] - share.since
        error == whole * commission[i].amount - share.of * kept
    IN Revocable(commission[i], o) /\ o \notin GuestOrders =>
         /\ 2 * Max({error, -error}) <= whole * records[o]
         /\ kept = 0 => whole = 0
=============================================================================
