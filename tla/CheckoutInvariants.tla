------------------------- MODULE CheckoutInvariants -------------------------
(***************************************************************************)
(* What no interleaving of the handlers of Checkout breaks, for every set  *)
(* of orders, SKUs and processes: the units of manual stock, the agreement *)
(* of parent and children, the wallet's ledger, the backing of payments,   *)
(* the watch on unpaid orders, the coupon, reservations and amounts.       *)
(* For each, a lemma says in which ways a step may move that piece of      *)
(* state; the invariant then need only be checked against those ways.      *)
(* Last, what holds as long as requests come one at a time.                *)
(***************************************************************************)
EXTENDS CheckoutProofs

-----------------------------------------------------------------------------
(* Manual stock.                                                            *)

StockMove ==
  \/ stock' = stock
  \/ \E o \in Orders :
       \/ HasStock(o) /\ stock' = StockAfter(ReserveManualStock, o)
       \/ stock' = StockAfter(ReleaseManualStock, o)
       \/ stock' = StockAfter(ConsumeManualStock, o)

\* A request in the middle of its work names an order.
LEMMA RequestOrder ==
  ASSUME TypeOK, NEW h \in Processes, request[h].op # "idle"
  PROVE  request[h].order \in Orders
BY RequestFacts DEF TypeOK, Sensible

\* Every step leaves the stock alone or applies one UPDATE to an order's SKUs.
LEMMA StockMoves ==
  ASSUME TypeOK, [Next]_vars
  PROVE  StockMove
<1>1. ASSUME NEW h \in Processes, PlaceStep(h) PROVE StockMove
  BY <1>1, RequestOrder DEF StockMove, PlaceStep, BeginPlace, PlaceOrder, RejectOrder,
     ScheduleTimeout, ScheduleTimeoutFails, stockVars
<1>2. ASSUME NEW h \in Processes, PayStep(h) PROVE StockMove
  BY <1>2 DEF StockMove, PayStep, PayByWallet, MarkOrderPaid, PayWithBalance, PayOnline,
     OpenPaymentFor, GatewayAccepts, GatewayRefuses, AnnouncePaid, stockVars
<1>3. ASSUME NEW h \in Processes, CallbackStep(h) PROVE StockMove
  BY <1>3, RequestOrder DEF StockMove, CallbackStep, ReceiveCallback, ReadOrder,
     AcknowledgeRepeat, ConfirmPayment, MarkOrderPaid, RefuseConfirmation, RecordReport,
     AnnouncePaid, stockVars
<1>4. ASSUME NEW h \in Processes, NEW o \in Orders, NEW op, StartCancel(h, o, op)
      PROVE  StockMove
  BY <1>4 DEF StockMove, StartCancel, stockVars
<1>5. ASSUME NEW h \in Processes, CommitCancel(h) PROVE StockMove
  BY <1>5, RequestOrder DEF StockMove, CommitCancel, CancelOps
<1>6. ASSUME NEW h \in Processes, CancelStep(h) PROVE StockMove
  BY <1>4, <1>5, <1>6 DEF CancelStep, BeginUserCancel, BeginLazyCancel
<1>7. ASSUME NEW h \in Processes, AdminStep(h) PROVE StockMove
  BY <1>4, <1>5, <1>7, RequestOrder DEF StockMove, AdminStep, BeginAdminPay, BeginAdminCancel,
     CommitAdminPay, stockVars
<1>8. ASSUME NEW h \in Processes, WorkerStep(h) PROVE StockMove
  BY <1>4, <1>5, <1>8 DEF StockMove, WorkerStep, RunTimeout, SkipTimeout, LoseTimeout, stockVars
<1>9. ASSUME NEW h \in Processes, Abort(h) PROVE StockMove
  BY <1>9 DEF StockMove, Abort, stockVars
<1>10. ASSUME NEW p \in PaymentIds, PayerPays(p) PROVE StockMove
  BY <1>10 DEF StockMove, PayerPays, stockVars
<1>11. ASSUME NEW o \in Orders, Expire(o) PROVE StockMove
  BY <1>11 DEF StockMove, Expire, stockVars
<1>12. ASSUME UNCHANGED vars PROVE StockMove
  BY <1>12 DEF StockMove, vars
<1> QED BY <1>1, <1>2, <1>3, <1>6, <1>7, <1>8, <1>9, <1>10, <1>11, <1>12 DEF Next, Processes

\* A stock row of an enforced SKU that accounts for n units.
Accounts(row, n) == Units(row) = n /\ row \in [total : Nat, locked : Nat, sold : Nat]

\* The rows of enforced SKUs have three natural numbers.
LEMMA EnforcedRow ==
  ASSUME NEW row
  PROVE  row \in [total : Nat, locked : Nat, sold : Nat] <=> row \in StockRow /\ IsEnforced(row)
BY DEF StockRow, IsEnforced, ManualStockUnlimited

\* None of the three UPDATEs changes the units a row accounts for.
LEMMA MoveAccounts ==
  ASSUME NEW row, NEW n, Accounts(row, n), NEW q \in Nat
  PROVE  /\ CanReserve(row, q) => Accounts(ReserveManualStock(row, q), n)
         /\ Accounts(ReleaseManualStock(row, q), n)
         /\ Accounts(ConsumeManualStock(row, q), n)
<1>1. row \in StockRow /\ IsEnforced(row)
  BY EnforcedRow DEF Accounts
<1> QED BY <1>1, EnforcedRow, ReserveKeepsUnits, ReleaseKeepsUnits, ConsumeKeepsUnits DEF Accounts

\* So no step changes the units of a SKU.
LEMMA StockStep ==
  ASSUME TypeOK, StockConserved, StockMove
  PROVE  StockConserved'
<1> SUFFICES ASSUME NEW k \in ManualSkus, ManualTotal[k] # ManualStockUnlimited
             PROVE  Accounts(stock'[k], ManualTotal[k])
  BY DEF StockConserved, Accounts, Units
<1>1. Accounts(stock[k], ManualTotal[k]) /\ IsEnforced(stock[k])
  BY EnforcedRow DEF StockConserved, Accounts
<1>2. CASE stock' = stock
  BY <1>1, <1>2
<1>3. ASSUME NEW o \in Orders, HasStock(o), stock' = StockAfter(ReserveManualStock, o)
      PROVE  Accounts(stock'[k], ManualTotal[k])
  <2>1. CASE k \in Lines(o)
    <3>1. CanReserve(stock[k], Quantity[o][k]) /\ Quantity[o][k] \in Nat
      BY <1>1, <1>3, <2>1, QuantityType DEF HasStock, Skus
    <3>2. stock'[k] = ReserveManualStock(stock[k], Quantity[o][k])
      BY <1>1, <1>3, <2>1 DEF StockAfter
    <3> QED BY <1>1, <3>1, <3>2, MoveAccounts
  <2>2. CASE k \notin Lines(o)
    BY <1>1, <1>3, <2>2 DEF StockAfter
  <2> QED BY <2>1, <2>2
<1>4. ASSUME NEW o \in Orders, \/ stock' = StockAfter(ReleaseManualStock, o)
                               \/ stock' = StockAfter(ConsumeManualStock, o)
      PROVE  Accounts(stock'[k], ManualTotal[k])
  <2>1. Quantity[o][k] \in Nat
    BY QuantityType DEF Skus
  <2>2. stock'[k] \in {stock[k], ReleaseManualStock(stock[k], Quantity[o][k]),
                       ConsumeManualStock(stock[k], Quantity[o][k])}
    BY <1>4 DEF StockAfter
  <2> QED BY <1>1, <2>1, <2>2, MoveAccounts
<1> QED BY <1>2, <1>3, <1>4 DEF StockMove

\* No interleaving of orders, payments, callbacks, overrides and cancellations,
\* of any number of orders over any SKUs, makes or loses a unit of manual stock
\* or drives a counter negative (product_sku_repository.go's three UPDATEs).
THEOREM StockIsConserved == Spec => []StockConserved
<1>1. Init => StockConserved
  BY CheckoutAssumption DEF Init, StockConserved, Units, ManualStockUnlimited
<1>2. TypeOK /\ StockConserved /\ [Next]_vars => StockConserved'
  BY StockMoves, StockStep
<1> QED BY <1>1, <1>2, TypeCorrect, PTL DEF Spec
-----------------------------------------------------------------------------
(* Parents and children.                                                    *)

\* The aggregate of o's children, should it be written to a parent showing st.
Aggregate(o, st) == CalcParentStatus(Lines(o), line'[o], st)

\* A step keeps an order's status and its lines, or makes them agree.
StatusMove ==
  \A o \in Orders :
    \/ order'[o].status = order[o].status /\ line'[o] = line[o]
    \/ order'[o].status = Aggregate(o, order'[o].status)

\* All children of an order are set to one status.
LEMMA UniformAggregate ==
  ASSUME NEW o \in Orders,
         NEW st \in {"pending_payment", "paid", "canceled"},
         line'[o] = [k \in Skus |-> IF k \in Lines(o) THEN st ELSE "none"]
  PROVE  Aggregate(o, st) = st
<1>1. Lines(o) # {} /\ Lines(o) \subseteq Skus
  BY CheckoutAssumption DEF Lines
<1>2. \A k \in Lines(o) : line'[o][k] = st
  BY <1>1
<1> QED BY <1>1, <1>2 DEF Aggregate, CalcParentStatus

\* markOrderPaid's lines: their aggregate does not depend on the parent.
LEMMA PaidAggregate ==
  ASSUME NEW o \in Orders, NEW st, line'[o] = PaidLines(o)
  PROVE  CalcParentStatus(Lines(o), PaidLines(o), "paid") = Aggregate(o, st)
<1>1. Lines(o) # {} /\ Lines(o) \subseteq Skus
  BY CheckoutAssumption DEF Lines
<1>2. \A k \in Lines(o) : PaidLines(o)[k] \in {"paid", "fulfilling"}
  BY <1>1 DEF PaidLines
<1> QED BY <1>1, <1>2 DEF Aggregate, CalcParentStatus

\* markOrderPaid writes a parent that agrees with the children it writes.
LEMMA MarkOrderPaidMove ==
  ASSUME OrderTypeOK, LineTypeOK, NEW o \in Orders, NEW row \in OrderRow, NEW seenWallet,
         MarkOrderPaid(o, row, seenWallet)
  PROVE  StatusMove
<1>1. ASSUME NEW q \in Orders, q # o PROVE order'[q] = order[q] /\ line'[q] = line[q]
  BY <1>1 DEF MarkOrderPaid, OrderTypeOK, LineTypeOK
<1>2. line'[o] = PaidLines(o) /\ order'[o] = PaidRow(o, row, seenWallet)
  BY DEF MarkOrderPaid, OrderTypeOK, LineTypeOK
<1>3. order'[o].status = CalcParentStatus(Lines(o), PaidLines(o), "paid")
  BY <1>2 DEF PaidRow, OrderRow
<1> QED BY <1>1, <1>2, <1>3, PaidAggregate DEF StatusMove

\* Actions that write an order row without its status, and no line.
LEMMA RowMove ==
  ASSUME OrderTypeOK, NEW o \in Orders, NEW row, row.status = order[o].status,
         order' = [order EXCEPT ![o] = row], line' = line
  PROVE  StatusMove
BY DEF OrderTypeOK, StatusMove

\* Actions that write one status to an order and all its lines.
LEMMA UniformMove ==
  ASSUME OrderTypeOK, LineTypeOK, NEW o \in Orders,
         NEW st \in {"pending_payment", "paid", "canceled"}, NEW row, row.status = st,
         order' = [order EXCEPT ![o] = row],
         line' = [line EXCEPT ![o] = [k \in Skus |-> IF k \in Lines(o) THEN st ELSE "none"]]
  PROVE  StatusMove
<1>1. ASSUME NEW q \in Orders, q # o PROVE order'[q] = order[q] /\ line'[q] = line[q]
  BY <1>1 DEF OrderTypeOK, LineTypeOK
<1>2. order'[o].status = st /\ Aggregate(o, st) = st
  BY UniformAggregate DEF OrderTypeOK, LineTypeOK
<1> QED BY <1>1, <1>2 DEF StatusMove

\* Steps that touch no order.
LEMMA SameMove ==
  ASSUME UNCHANGED <<order, line>>
  PROVE  StatusMove
BY DEF StatusMove

\* The wallet's part in a row leaves its status alone.
LEMMA SameStatus ==
  ASSUME OrderTypeOK, NEW o \in Orders, NEW amount, NEW row, NEW w, NEW n
  PROVE  /\ ReleasedRow(o, amount).status = order[o].status
         /\ FundedRow(o).status = order[o].status
         /\ row \in OrderRow => [row EXCEPT !.online = n].status = row.status
BY DEF OrderTypeOK, OrderRow, ReleasedRow, FundedRow

\* Every step keeps an order's statuses or makes parent and children agree.
LEMMA StatusMoves ==
  ASSUME TypeOK, [Next]_vars
  PROVE  StatusMove
<1> USE DEF TypeOK
<1>1. ASSUME NEW h \in Processes, PlaceStep(h) PROVE StatusMove
  <2>1. CASE PlaceOrder(h)
    <3> DEFINE o == request[h].order
               row == [order[o] EXCEPT !.status = "pending_payment", !.online = TotalAmount[o]]
    <3>1. o \in Orders
      BY <2>1, RequestOrder DEF PlaceOrder
    <3>2. order' = [order EXCEPT ![o] = row] /\ row.status = "pending_payment"
      BY <2>1, <3>1, OrderRowFacts DEF PlaceOrder, OrderTypeOK, OrderRow
    <3>3. line' = [line EXCEPT ![o] =
                     [k \in Skus |-> IF k \in Lines(o) THEN "pending_payment" ELSE "none"]]
      BY <2>1 DEF PlaceOrder
    <3> HIDE DEF o, row
    <3> QED BY <3>1, <3>2, <3>3, UniformMove
  <2> QED BY <1>1, <2>1, SameMove DEF PlaceStep, BeginPlace, RejectOrder, ScheduleTimeout,
            ScheduleTimeoutFails
<1>2. ASSUME NEW h \in Processes, PayStep(h) PROVE StatusMove
  <2>1. ASSUME NEW o \in Orders, NEW p \in PaymentIds, PayByWallet(h, o, p) PROVE StatusMove
    BY <2>1, FundedRowType, MarkOrderPaidMove DEF PayByWallet
  <2>2. ASSUME NEW o \in Orders, NEW p \in PaymentIds, NEW ch \in Channels,
               NEW row \in OrderRow, row.status = order[o].status,
               OpenPaymentFor(h, o, ch, p, row)
        PROVE  StatusMove
    <3>1. order' = [order EXCEPT ![o] = [row EXCEPT !.online = TotalAmount[o] - row.wallet]]
          /\ line' = line
      BY <2>2 DEF OpenPaymentFor
    <3> QED BY <2>2, <3>1, SameStatus, RowMove
  <2>3. ASSUME NEW o \in Orders, NEW p \in PaymentIds, NEW ch \in Channels,
               PayWithBalance(h, o, ch, p) \/ PayOnline(h, o, ch, p)
        PROVE  StatusMove
    <3>1. order[o].wallet \in Nat
      BY OrderRowFacts DEF OrderRow
    <3> QED BY <2>2, <2>3, <3>1, FundedRowType, ReleasedRowType, SameStatus
               DEF PayWithBalance, PayOnline
  <2>4. CASE GatewayRefuses(h)
    <3>1. request[h].order \in Orders
      BY <2>4, RequestOrder DEF GatewayRefuses
    <3> QED BY <2>4, <3>1, SameStatus, RowMove DEF GatewayRefuses
  <2> QED BY <1>2, <2>1, <2>3, <2>4, SameMove DEF PayStep, GatewayAccepts, AnnouncePaid
<1>3. ASSUME NEW h \in Processes, CallbackStep(h) PROVE StatusMove
  <2>1. CASE ConfirmPayment(h)
    <3>1. request[h].order \in Orders
      BY <2>1, RequestOrder DEF ConfirmPayment
    <3> QED BY <2>1, <3>1, OrderRowFacts, MarkOrderPaidMove DEF ConfirmPayment
  <2>2. CASE RecordReport(h)
    <3>1. request[h].order \in Orders
      BY <2>2, RequestOrder DEF RecordReport
    <3> QED BY <2>2, <3>1, SameStatus, RowMove DEF RecordReport
  <2> QED BY <1>3, <2>1, <2>2, SameMove DEF CallbackStep, ReceiveCallback, ReadOrder,
            AcknowledgeRepeat, RefuseConfirmation, AnnouncePaid
<1>4. ASSUME NEW h \in Processes, NEW o \in Orders, NEW op, StartCancel(h, o, op)
      PROVE  StatusMove
  BY <1>4, SameMove DEF StartCancel
<1>5. ASSUME NEW h \in Processes, CommitCancel(h) PROVE StatusMove
  <2> DEFINE o == request[h].order
             released == ReleasedRow(o, request[h].seenWallet)
             row == [released EXCEPT !.status = "canceled"]
  <2>1. o \in Orders /\ request[h].seenWallet \in Nat
    BY <1>5, RequestOrder, RequestFacts DEF CommitCancel, CancelOps, Request
  <2>2. row.status = "canceled"
    BY <2>1, ReleasedRowType DEF OrderRow
  <2>3. /\ order' = [order EXCEPT ![o] = row]
        /\ line' = [line EXCEPT ![o] =
                      [k \in Skus |-> IF k \in Lines(o) THEN "canceled" ELSE "none"]]
    BY <1>5 DEF CommitCancel
  <2> HIDE DEF o, row
  <2> QED BY <2>1, <2>2, <2>3, UniformMove
<1>6. ASSUME NEW h \in Processes, CancelStep(h) PROVE StatusMove
  BY <1>4, <1>5, <1>6 DEF CancelStep, BeginUserCancel, BeginLazyCancel
<1>7. ASSUME NEW h \in Processes, AdminStep(h) PROVE StatusMove
  <2>1. CASE CommitAdminPay(h)
    <3> DEFINE o == request[h].order
               row == [order[o] EXCEPT !.status = "paid", !.paid = TRUE]
    <3>1. o \in Orders
      BY <2>1, RequestOrder DEF CommitAdminPay
    <3>2. order' = [order EXCEPT ![o] = row] /\ row.status = "paid"
      BY <2>1, <3>1, OrderRowFacts DEF CommitAdminPay, OrderTypeOK, OrderRow
    <3>3. line' = [line EXCEPT ![o] =
                     [k \in Skus |-> IF k \in Lines(o) THEN "paid" ELSE "none"]]
      BY <2>1 DEF CommitAdminPay
    <3> HIDE DEF o, row
    <3> QED BY <3>1, <3>2, <3>3, UniformMove
  <2> QED BY <1>4, <1>5, <1>7, <2>1, SameMove DEF AdminStep, BeginAdminPay, BeginAdminCancel
<1>8. ASSUME NEW h \in Processes, WorkerStep(h) PROVE StatusMove
  BY <1>4, <1>5, <1>8, SameMove DEF WorkerStep, RunTimeout, SkipTimeout, LoseTimeout
<1>9. ASSUME NEW o \in Orders, Expire(o) PROVE StatusMove
  <2> DEFINE row == [order[o] EXCEPT !.expired = TRUE]
  <2>1. row.status = order[o].status
    BY OrderRowFacts DEF OrderRow
  <2>2. order' = [order EXCEPT ![o] = row] /\ line' = line
    BY <1>9 DEF Expire, OrderTypeOK
  <2> HIDE DEF row
  <2> QED BY <2>1, <2>2, RowMove
<1> QED BY <1>1, <1>2, <1>3, <1>6, <1>7, <1>8, <1>9, SameMove
        DEF Next, Processes, Abort, PayerPays, vars

\* The status a parent shows is the aggregate of its children's in every state
\* of every shop, although the handlers of payment_service_callback.go and
\* order_service_child.go overwrite each other's rows.
THEOREM ParentsAgree == Spec => []ParentAgrees
<1>1. Init => ParentAgrees
  BY DEF Init, ParentAgrees
<1>2. ParentAgrees /\ StatusMove => ParentAgrees'
  BY DEF ParentAgrees, StatusMove, Aggregate
<1>3. TypeOK /\ ParentAgrees /\ [Next]_vars => ParentAgrees'
  BY <1>2, StatusMoves
<1> QED BY <1>1, <1>3, TypeCorrect, PTL DEF Spec
-----------------------------------------------------------------------------
(* The wallet.                                                              *)

WalletMove ==
  \/ UNCHANGED <<balance, journal>>
  \/ \E o \in Orders : PostDeduction(o)
  \/ \E o \in Orders, amount \in Nat : PostCredit(o, amount)

\* Every step leaves the wallet alone or goes through one of its two operations.
LEMMA WalletMoves ==
  ASSUME TypeOK, [Next]_vars
  PROVE  WalletMove
<1> USE DEF WalletMove
<1>1. ASSUME NEW h \in Processes, PlaceStep(h) PROVE WalletMove
  BY <1>1 DEF PlaceStep, BeginPlace, PlaceOrder, RejectOrder, ScheduleTimeout,
     ScheduleTimeoutFails, moneyVars
<1>2. ASSUME NEW h \in Processes, PayStep(h) PROVE WalletMove
  <2>1. ASSUME NEW o \in Orders PROVE order[o].wallet \in Nat
    BY OrderRowFacts DEF TypeOK, OrderRow
  <2>2. CASE GatewayRefuses(h)
    BY <2>1, <2>2, RequestOrder DEF GatewayRefuses
  <2> QED BY <1>2, <2>1, <2>2 DEF PayStep, PayByWallet, PayWithBalance, PayOnline,
            GatewayAccepts, AnnouncePaid, moneyVars
<1>3. ASSUME NEW h \in Processes, CallbackStep(h) PROVE WalletMove
  <2>1. CASE RecordReport(h)
    <3>1. request[h].order \in Orders /\ request[h].seenWallet \in Nat
      BY <2>1, ApplyFacts DEF RecordReport
    <3>2. \E amount \in Nat : PostCredit(request[h].order, amount)
      BY <2>1, <3>1 DEF RecordReport
    <3> QED BY <3>1, <3>2
  <2> QED BY <1>3, <2>1 DEF CallbackStep, ReceiveCallback, ReadOrder, AcknowledgeRepeat,
            ConfirmPayment, RefuseConfirmation, AnnouncePaid, moneyVars
<1>4. ASSUME NEW h \in Processes, NEW o \in Orders, NEW op, StartCancel(h, o, op)
      PROVE  WalletMove
  BY <1>4 DEF StartCancel, moneyVars
<1>5. ASSUME NEW h \in Processes, CommitCancel(h) PROVE WalletMove
  <2>1. request[h].order \in Orders /\ request[h].seenWallet \in Nat
    BY <1>5, RequestOrder, RequestFacts DEF CommitCancel, CancelOps, Request, TypeOK
  <2> QED BY <1>5, <2>1 DEF CommitCancel
<1>6. ASSUME NEW h \in Processes, CancelStep(h) PROVE WalletMove
  BY <1>4, <1>5, <1>6 DEF CancelStep, BeginUserCancel, BeginLazyCancel
<1>7. ASSUME NEW h \in Processes, AdminStep(h) PROVE WalletMove
  BY <1>4, <1>5, <1>7 DEF AdminStep, BeginAdminPay, BeginAdminCancel, CommitAdminPay, moneyVars
<1>8. ASSUME NEW h \in Processes, WorkerStep(h) PROVE WalletMove
  BY <1>4, <1>5, <1>8 DEF WorkerStep, RunTimeout, SkipTimeout, LoseTimeout, moneyVars
<1> QED BY <1>1, <1>2, <1>3, <1>6, <1>7, <1>8
        DEF Next, Processes, Abort, PayerPays, Expire, vars, moneyVars

\* An entry under a fresh reference that does not overdraw is a posting.
LEMMA EntryIsPosting ==
  ASSUME WalletTypeOK, NEW r \in References, NEW amount \in Int, ~Posted(r),
         balance + amount \in Nat, PostEntry(r, amount)
  PROVE  Ledger!Next
<1>1. balance' - balance = amount
  BY DEF WalletTypeOK, PostEntry
<1>2. r \notin Ledger!UsedReferences(journal)
  BY DEF Posted, Ledger!UsedReferences
<1>3. Ledger!Post(r, amount)
  BY <1>2 DEF Ledger!Post, PostEntry
<1> QED BY <1>1, <1>3 DEF Ledger!Next

\* Either operation posts one entry under a fresh reference, or does nothing.
LEMMA MoveIsPosting ==
  ASSUME TypeOK, WalletMove
  PROVE  [Ledger!Next]_(Ledger!ledgerVars)
<1>1. ASSUME NEW o \in Orders, PostDeduction(o)
      PROVE  [Ledger!Next]_(Ledger!ledgerVars)
  <2>1. CASE Deduction(o) = 0
    BY <1>1, <2>1 DEF PostDeduction, Ledger!ledgerVars
  <2>2. CASE Deduction(o) # 0
    <3>1. ~Posted(PayReference(o)) /\ PayReference(o) \in References
      BY <2>2 DEF Deduction, PayReference, References
    <3>2. -Deduction(o) \in Int /\ balance + (-Deduction(o)) \in Nat
      BY DeductionBounds DEF TypeOK, WalletTypeOK
    <3> QED BY <1>1, <2>2, <3>1, <3>2, EntryIsPosting DEF PostDeduction, TypeOK
  <2> QED BY <2>1, <2>2
<1>2. ASSUME NEW o \in Orders, NEW amount \in Nat, PostCredit(o, amount)
      PROVE  [Ledger!Next]_(Ledger!ledgerVars)
  <2>1. CASE Credit(o, amount) = 0
    BY <1>2, <2>1 DEF PostCredit, Ledger!ledgerVars
  <2>2. CASE Credit(o, amount) # 0
    <3>1. ~Posted(RefundReference(o)) /\ RefundReference(o) \in References
      BY <2>2 DEF Credit, RefundReference, References
    <3>2. Credit(o, amount) \in Int /\ balance + Credit(o, amount) \in Nat
      BY CreditCases DEF TypeOK, WalletTypeOK
    <3> QED BY <1>2, <2>2, <3>1, <3>2, EntryIsPosting DEF PostCredit, TypeOK
  <2> QED BY <2>1, <2>2
<1>3. CASE UNCHANGED <<balance, journal>>
  BY <1>3 DEF Ledger!ledgerVars
<1> QED BY <1>1, <1>2, <1>3 DEF WalletMove

\* The order flow moves the wallet only as the abstract ledger does: whatever
\* handlers overlap, retry or work from stale copies, each deduction and each
\* refund of an order (wallet_service.go) is posted once and never overdraws.
THEOREM CheckoutImplementsLedger == Spec => ImplementsLedger
<1>1. Init => Ledger!Init
  BY DEF Init, Ledger!Init
<1>2. TypeOK /\ [Next]_vars => [Ledger!Next]_(Ledger!ledgerVars)
  BY WalletMoves, MoveIsPosting
<1> QED BY <1>1, <1>2, TypeCorrect, PTL DEF Spec, ImplementsLedger, Ledger!Spec

\* The facts about the ledger, for this wallet.
LedgerProofs == INSTANCE WalletLedgerProofs

\* In every state of every shop an account can be reconciled: the journal's entries
\* link up from the opening balance to the present one, each adds up, and none was
\* posted twice, although payments, refusals, late reports and cancellations move
\* the wallet concurrently (wallet_service.go).
THEOREM CheckoutReconciles == Spec => []Ledger!JournalExplainsBalance
<1>1. OpeningBalance \in Nat
  BY CheckoutAssumption DEF CheckoutAssumption
<1>2. LedgerProofs!Spec => []LedgerProofs!JournalExplainsBalance
  BY <1>1, LedgerProofs!LedgerExplains
<1>3. LedgerProofs!JournalExplainsBalance => Ledger!JournalExplainsBalance
  BY DEF LedgerProofs!JournalExplainsBalance, Ledger!JournalExplainsBalance
<1>4. Ledger!Init => LedgerProofs!Init
  BY DEF LedgerProofs!Init, Ledger!Init
<1>5. [Ledger!Next]_(Ledger!ledgerVars) => [LedgerProofs!Next]_(LedgerProofs!ledgerVars)
  BY DEF LedgerProofs!Next, Ledger!Next, LedgerProofs!ledgerVars, Ledger!ledgerVars,
         LedgerProofs!Post, Ledger!Post, LedgerProofs!UsedReferences, Ledger!UsedReferences
<1> QED BY <1>2, <1>3, <1>4, <1>5, CheckoutImplementsLedger, PTL
        DEF ImplementsLedger, Ledger!Spec, LedgerProofs!Spec
-----------------------------------------------------------------------------
(* Money for every paid order.  PaidIsBacked is not inductive: a callback   *)
(* acts on a copy, so the copies have to be backed as well.                 *)

CallbackOps == {"callback", "apply"}
BackedBy(p) == p \in settled \/ payment[p].channel = "wallet"
\* What a callback holds of its payment is true of the payment it will write to.
SoundCopy(r) ==
  /\ payment[r.payment].order = r.order
  /\ "success" \in {r.target, r.seenPayment} => BackedBy(r.payment)
CopiesSound == \A h \in Processes : request[h].op \in CallbackOps => SoundCopy(request[h])
UnusedRows == \A p \in PaymentIds : payment[p].status = "none" => payment[p].order = NoOrder

BackingInv == PaidIsBacked /\ CopiesSound /\ UnusedRows

\* What every step does, in four parts: rows of payments keep their identity, a
\* new success has its money, a newly paid order has a payment or an
\* administrator's word, and a new copy is sound.
RowsKept ==
  /\ \A p \in PaymentIds :
       /\ payment[p].status # "none" => /\ payment'[p].status # "none"
                                        /\ payment'[p].order = payment[p].order
                                        /\ payment'[p].channel = payment[p].channel
       /\ payment'[p].status = "none" => payment'[p] = payment[p]
  /\ settled \subseteq settled' /\ overridden \subseteq overridden'
SuccessBacked ==
  \A p \in PaymentIds :
    payment'[p].status = "success" => payment[p].status = "success" \/ BackedBy(p)'
NewlyPaidBacked ==
  \A o \in Orders : order'[o].paid =>
    \/ order[o].paid
    \/ o \in overridden'
    \/ \E p \in PaymentIds : payment'[p].order = o /\ BackedBy(p)'
NewCopySound ==
  \A h \in Processes : request'[h].op \in CallbackOps =>
    request'[h] = request[h] \/ SoundCopy(request[h])'

\* The four parts together keep the invariant.
LEMMA BackingStep ==
  ASSUME TypeOK, BackingInv, RowsKept, SuccessBacked, NewlyPaidBacked, NewCopySound
  PROVE  BackingInv'
<1>1. UnusedRows'
  BY DEF UnusedRows, RowsKept, BackingInv
<1>2. ASSUME NEW p \in PaymentIds, BackedBy(p), payment[p].status # "none"
      PROVE  BackedBy(p)' /\ payment'[p].order = payment[p].order
  BY <1>2 DEF BackedBy, RowsKept
<1>3. PaidIsBacked'
  <2>1. ASSUME NEW p \in PaymentIds, payment'[p].status = "success" PROVE BackedBy(p)'
    <3>1. CASE payment[p].status = "success"
      BY <1>2, <3>1 DEF BackingInv, PaidIsBacked, BackedBy
    <3> QED BY <2>1, <3>1 DEF SuccessBacked
  <2>2. ASSUME NEW o \in Orders, order'[o].paid
        PROVE  \/ o \in overridden'
               \/ \E p \in PaymentIds : payment'[p].order = o /\ BackedBy(p)'
    <3>1. CASE order[o].paid /\ o \notin overridden
      <4>1. PICK p \in PaymentIds : payment[p].order = o /\ BackedBy(p)
        BY <3>1 DEF BackingInv, PaidIsBacked, BackedBy
      <4>2. payment[p].status # "none"
        BY <4>1, CheckoutAssumption DEF BackingInv, UnusedRows
      <4> QED BY <1>2, <4>1, <4>2
    <3>2. CASE order[o].paid /\ o \in overridden
      BY <3>2 DEF RowsKept
    <3> QED BY <2>2, <3>1, <3>2 DEF NewlyPaidBacked
  <2> QED BY <2>1, <2>2 DEF PaidIsBacked, BackedBy
<1>4. CopiesSound'
  <2> SUFFICES ASSUME NEW h \in Processes, request'[h].op \in CallbackOps
               PROVE  SoundCopy(request[h])'
    BY DEF CopiesSound
  <2>1. CASE request'[h] = request[h]
    <3> DEFINE r == request[h]
    <3>1. SoundCopy(r) /\ r.payment \in PaymentIds /\ payment[r.payment].status # "none"
      BY <2>1, RequestFacts DEF BackingInv, CopiesSound, TypeOK, CallbackOps, PaymentOps
    <3>2. /\ payment'[r.payment].order = payment[r.payment].order
          /\ BackedBy(r.payment) => BackedBy(r.payment)'
      BY <1>2, <2>1, <3>1 DEF RowsKept
    <3> QED BY <2>1, <3>1, <3>2 DEF SoundCopy, BackedBy
  <2> QED BY <2>1 DEF NewCopySound
<1> QED BY <1>1, <1>3, <1>4 DEF BackingInv

\* The usual ways of not disturbing the four parts.
LEMMA PaymentsSame ==
  ASSUME payment' = payment, settled \subseteq settled', overridden \subseteq overridden'
  PROVE  RowsKept /\ SuccessBacked
BY DEF RowsKept, SuccessBacked

\* Writing a request that is no callback.
LEMMA QuietRequest ==
  ASSUME RequestTypeOK, NEW h \in Processes, NEW r, r.op \notin CallbackOps,
         request' = [request EXCEPT ![h] = r]
  PROVE  NewCopySound
BY DEF RequestTypeOK, NewCopySound

\* The requests that are no callbacks.
LEMMA QuietOps ==
  ASSUME NEW o, NEW p, NEW op, op \notin CallbackOps
  PROVE  /\ Busy(op, o).op \notin CallbackOps
         /\ BusyWithCopy(op, o).op \notin CallbackOps
         /\ [Busy(op, o) EXCEPT !.payment = p].op \notin CallbackOps
BY DEF Idle, Busy, BusyWithCopy, CallbackOps

\* An idle process is not in a callback.
LEMMA QuietIdle == Idle.op \notin CallbackOps
BY DEF Idle, CallbackOps

\* Steps that touch no request.
LEMMA SameRequests ==
  ASSUME request' = request
  PROVE  NewCopySound
BY DEF NewCopySound

\* An order row written without its paid column.
LEMMA PaidSame ==
  ASSUME OrderTypeOK, NEW o \in Orders, NEW row, row.paid = order[o].paid,
         order' = [order EXCEPT ![o] = row]
  PROVE  NewlyPaidBacked
BY DEF OrderTypeOK, NewlyPaidBacked

\* The wallet's part in a row leaves its paid column alone.
LEMMA SamePaid ==
  ASSUME OrderTypeOK, NEW o \in Orders, NEW amount
  PROVE  /\ ReleasedRow(o, amount).paid = order[o].paid
         /\ FundedRow(o).paid = order[o].paid
BY DEF OrderTypeOK, OrderRow, ReleasedRow, FundedRow

\* Saving another status into an existing payment row.
LEMMA StatusSaved ==
  ASSUME PaymentTypeOK, NEW p \in PaymentIds, payment[p].status # "none",
         NEW status \in PaymentStatuses, NEW lapsed,
         status = "success" => BackedBy(p),
         payment' = [payment EXCEPT ![p].status = status, ![p].lapsed = lapsed],
         settled' = settled, overridden' = overridden
  PROVE  RowsKept /\ SuccessBacked
<1>1. /\ payment'[p].status = status /\ payment'[p].order = payment[p].order
      /\ payment'[p].channel = payment[p].channel
      /\ \A q \in PaymentIds : q # p => payment'[q] = payment[q]
  BY DEF PaymentTypeOK, PaymentRow
<1> QED BY <1>1 DEF RowsKept, SuccessBacked, BackedBy, PaymentStatuses

\* Marking an order paid for which there is a backed payment.
LEMMA MarkOrderPaidBacked ==
  ASSUME OrderTypeOK, NEW o \in Orders, NEW row, NEW seenWallet,
         MarkOrderPaid(o, row, seenWallet),
         \E p \in PaymentIds : payment'[p].order = o /\ BackedBy(p)'
  PROVE  NewlyPaidBacked
BY DEF OrderTypeOK, MarkOrderPaid, NewlyPaidBacked

\* The four parts, together.
BackingMove == RowsKept /\ SuccessBacked /\ NewlyPaidBacked /\ NewCopySound

\* Steps that only move requests other than callbacks, queues or stock.
LEMMA QuietStep ==
  ASSUME RowsKept, SuccessBacked, NewCopySound,
         \A o \in Orders : order'[o].paid => order[o].paid \/ o \in overridden'
  PROVE  BackingMove
BY DEF BackingMove, NewlyPaidBacked

\* Placing an order pays nothing.
LEMMA PlaceBacked ==
  ASSUME TypeOK, NEW h \in Processes, PlaceStep(h)
  PROVE  BackingMove
<1>1. NewCopySound
  BY QuietRequest, QuietIdle, QuietOps DEF TypeOK, PlaceStep, BeginPlace, PlaceOrder, RejectOrder,
     ScheduleTimeout, ScheduleTimeoutFails, CallbackOps
<1>2. RowsKept /\ SuccessBacked
  BY PaymentsSame DEF PlaceStep, BeginPlace, PlaceOrder, RejectOrder, ScheduleTimeout,
     ScheduleTimeoutFails, moneyVars, envVars
<1>3. \A o \in Orders : order'[o].paid => order[o].paid
  BY DEF PlaceStep, BeginPlace, PlaceOrder, RejectOrder, ScheduleTimeout,
     ScheduleTimeoutFails, TypeOK, OrderTypeOK, OrderRow
<1> QED BY <1>1, <1>2, <1>3, QuietStep

\* A payment from the wallet is its own backing.
LEMMA PayByWalletBacked ==
  ASSUME TypeOK, BackingInv, NEW h \in Processes, NEW o \in Orders, NEW p \in PaymentIds,
         PayByWallet(h, o, p)
  PROVE  BackingMove
<1> DEFINE row == [NoPayment EXCEPT !.order = o, !.channel = "wallet",
                                    !.amount = FundedRow(o).wallet, !.status = "success"]
<1>1. row.order = o /\ row.channel = "wallet" /\ row.status = "success"
  BY DEF NoPayment
<1>2. /\ payment' = [payment EXCEPT ![p] = row] /\ payment[p].status = "none"
      /\ settled' = settled /\ overridden' = overridden
  BY DEF PayByWallet, NextPayment, envVars
<1> HIDE DEF row
<1>3. payment'[p] = row /\ \A q \in PaymentIds : q # p => payment'[q] = payment[q]
  BY <1>2 DEF TypeOK, PaymentTypeOK
<1>4. RowsKept /\ SuccessBacked
  BY <1>1, <1>2, <1>3 DEF RowsKept, SuccessBacked, BackedBy
<1>5. NewlyPaidBacked
  BY <1>1, <1>3, MarkOrderPaidBacked DEF PayByWallet, BackedBy, TypeOK
<1>6. NewCopySound
  BY QuietRequest, QuietOps DEF PayByWallet, TypeOK, CallbackOps
<1> QED BY <1>4, <1>5, <1>6 DEF BackingMove

\* Opening an online payment makes no success.
LEMMA OpenPaymentBacked ==
  ASSUME TypeOK, NEW h \in Processes, NEW o \in Orders, NEW p \in PaymentIds,
         NEW ch \in Channels, NEW paidRow, paidRow \in OrderRow, paidRow.paid = order[o].paid,
         OpenPaymentFor(h, o, ch, p, paidRow)
  PROVE  BackingMove
<1> DEFINE row == [NoPayment EXCEPT !.order = o, !.channel = ch,
                                    !.amount = TotalAmount[o] - paidRow.wallet,
                                    !.status = "initiated"]
<1>1. row.status = "initiated"
  BY DEF NoPayment
<1>2. /\ payment' = [payment EXCEPT ![p] = row] /\ payment[p].status = "none"
      /\ settled' = settled /\ overridden' = overridden
  BY DEF OpenPaymentFor, NextPayment, envVars
<1> HIDE DEF row
<1>3. payment'[p] = row /\ \A q \in PaymentIds : q # p => payment'[q] = payment[q]
  BY <1>2 DEF TypeOK, PaymentTypeOK
<1>4. RowsKept /\ SuccessBacked
  BY <1>1, <1>2, <1>3 DEF RowsKept, SuccessBacked
<1>5. NewlyPaidBacked
  <2> DEFINE new == [paidRow EXCEPT !.online = TotalAmount[o] - paidRow.wallet]
  <2>1. new.paid = order[o].paid
    BY DEF OrderRow
  <2>2. order' = [order EXCEPT ![o] = new]
    BY DEF OpenPaymentFor
  <2> HIDE DEF new
  <2> QED BY <2>1, <2>2, PaidSame DEF TypeOK
<1>6. NewCopySound
  BY QuietRequest, QuietOps DEF OpenPaymentFor, TypeOK, CallbackOps
<1> QED BY <1>4, <1>5, <1>6 DEF BackingMove

\* Neither answer of the gateway makes a success.
LEMMA GatewayAnswerBacked ==
  ASSUME TypeOK, NEW h \in Processes, GatewayAccepts(h) \/ GatewayRefuses(h)
  PROVE  BackingMove
<1> DEFINE p == request[h].payment
           o == request[h].order
<1>1. request[h].op = "gateway" /\ o \in Orders /\ p \in PaymentIds /\ payment[p].status # "none"
  BY RequestFacts DEF TypeOK, Sensible, PaymentOps, GatewayAccepts, GatewayRefuses
<1>2. settled' = settled /\ overridden' = overridden
  BY DEF GatewayAccepts, GatewayRefuses, envVars
<1>3. /\ payment'[p].status \in {"pending", "failed"} /\ payment'[p].order = payment[p].order
      /\ payment'[p].channel = payment[p].channel
      /\ \A q \in PaymentIds : q # p => payment'[q] = payment[q]
  BY <1>1 DEF TypeOK, PaymentTypeOK, PaymentRow, GatewayAccepts, GatewayRefuses
<1>4. RowsKept /\ SuccessBacked
  <2> HIDE DEF p
  <2> QED BY <1>1, <1>2, <1>3 DEF RowsKept, SuccessBacked
<1>5. NewlyPaidBacked
  <2>1. CASE GatewayAccepts(h)
    BY <2>1 DEF GatewayAccepts, NewlyPaidBacked
  <2>2. CASE GatewayRefuses(h)
    BY <1>1, <2>2, SamePaid, PaidSame DEF GatewayRefuses, TypeOK
  <2> QED BY <2>1, <2>2
<1>6. NewCopySound
  BY QuietRequest, QuietIdle DEF GatewayAccepts, GatewayRefuses, TypeOK
<1> QED BY <1>4, <1>5, <1>6 DEF BackingMove

\* What follows a payment's commit touches no payment.
LEMMA AnnounceBacked ==
  ASSUME TypeOK, NEW h \in Processes, AnnouncePaid(h)
  PROVE  BackingMove
<1>1. NewCopySound
  BY QuietRequest, QuietIdle DEF AnnouncePaid, TypeOK
<1> QED BY <1>1, PaymentsSame, QuietStep DEF AnnouncePaid, moneyVars, envVars

\* The steps of CreatePayment.
LEMMA PayBacked ==
  ASSUME TypeOK, BackingInv, NEW h \in Processes, PayStep(h)
  PROVE  BackingMove
<1>1. ASSUME NEW o \in Orders, NEW p \in PaymentIds, NEW ch \in Channels,
             PayWithBalance(h, o, ch, p) \/ PayOnline(h, o, ch, p)
      PROVE  BackingMove
  <2>1. order[o].wallet \in Nat
    BY OrderRowFacts DEF OrderRow, TypeOK
  <2>2. /\ FundedRow(o) \in OrderRow /\ FundedRow(o).paid = order[o].paid
        /\ ReleasedRow(o, order[o].wallet) \in OrderRow
        /\ ReleasedRow(o, order[o].wallet).paid = order[o].paid
    BY <2>1, FundedRowType, ReleasedRowType, SamePaid DEF TypeOK
  <2> QED BY <1>1, <2>2, OpenPaymentBacked DEF PayWithBalance, PayOnline
<1> QED BY <1>1, PayByWalletBacked, GatewayAnswerBacked, AnnounceBacked DEF PayStep
\* The steps of HandleCallback: what they write comes from a sound copy.
LEMMA CallbackBacked ==
  ASSUME TypeOK, BackingInv, NEW h \in Processes, CallbackStep(h)
  PROVE  BackingMove
<1> DEFINE r == request[h]
<1>1. ASSUME NEW p \in PaymentIds, NEW t \in PaymentStatuses, ReceiveCallback(h, p, t)
      PROVE  BackingMove
  <2> DEFINE new == [Busy("callback", payment[p].order)
                       EXCEPT !.payment = p, !.target = t,
                              !.seenPayment = payment[p].status,
                              !.seenLapsed = payment[p].lapsed]
  <2>1. /\ new.order = payment[p].order /\ new.payment = p /\ new.target = t
        /\ new.seenPayment = payment[p].status
    BY DEF Busy, Idle
  <2>2. request' = [request EXCEPT ![h] = new] /\ payment' = payment /\ settled' = settled
    BY <1>1 DEF ReceiveCallback, moneyVars, envVars
  <2>3. t = "success" => p \in settled
    BY <1>1 DEF ReceiveCallback, Reportable
  <2>4. payment[p].status = "success" => BackedBy(p)
    BY DEF BackingInv, PaidIsBacked, BackedBy
  <2> HIDE DEF new
  <2>5. request'[h] = new /\ \A g \in Processes : g # h => request'[g] = request[g]
    BY <2>2 DEF TypeOK, RequestTypeOK
  <2>6. SoundCopy(request[h])'
    BY <2>1, <2>2, <2>3, <2>4, <2>5 DEF SoundCopy, BackedBy
  <2>7. NewCopySound
    BY <2>5, <2>6 DEF NewCopySound
  <2> QED BY <1>1, <2>7, PaymentsSame, QuietStep DEF ReceiveCallback, moneyVars, envVars
<1>2. CASE ReadOrder(h)
  <2> DEFINE new == [r EXCEPT !.op = "apply", !.seenStatus = order[r.order].status,
                              !.seenWallet = order[r.order].wallet]
  <2>1. r.op = "callback" /\ SoundCopy(r) /\ r \in Request
    BY <1>2, RequestFacts DEF ReadOrder, BackingInv, CopiesSound, CallbackOps, TypeOK
  <2>2. /\ new.order = r.order /\ new.payment = r.payment /\ new.target = r.target
        /\ new.seenPayment = r.seenPayment
    BY <2>1 DEF Request
  <2>3. request' = [request EXCEPT ![h] = new] /\ payment' = payment /\ settled' = settled
    BY <1>2 DEF ReadOrder, moneyVars, envVars, TypeOK, RequestTypeOK
  <2> HIDE DEF new
  <2>4. request'[h] = new /\ \A g \in Processes : g # h => request'[g] = request[g]
    BY <2>3 DEF TypeOK, RequestTypeOK
  <2>5. SoundCopy(request[h])'
    BY <2>1, <2>2, <2>3, <2>4 DEF SoundCopy, BackedBy
  <2>6. NewCopySound
    BY <2>4, <2>5 DEF NewCopySound
  <2> QED BY <1>2, <2>6, PaymentsSame, QuietStep DEF ReadOrder, moneyVars, envVars
<1>3. ASSUME r.op = "apply"
      PROVE  /\ r.payment \in PaymentIds /\ payment[r.payment].status # "none"
             /\ payment[r.payment].order = r.order /\ r.order \in Orders
             /\ "success" \in {r.target, r.seenPayment} => BackedBy(r.payment)
             /\ r.target \in PaymentStatuses /\ r.seenPayment \in PaymentStatuses
             /\ r.seenWallet \in Nat
  BY <1>3, ApplyFacts DEF BackingInv, CopiesSound, SoundCopy, CallbackOps
<1>4. CASE AcknowledgeRepeat(h)
  <2>1. NewCopySound
    BY <1>4, QuietRequest, QuietIdle DEF AcknowledgeRepeat, TypeOK
  <2>2. RowsKept /\ SuccessBacked
    BY <1>3, <1>4, StatusSaved DEF AcknowledgeRepeat, TypeOK, envVars
  <2> QED BY <1>4, <2>1, <2>2, QuietStep DEF AcknowledgeRepeat
<1>5. ASSUME NEW status \in {"success", r.target}, r.op = "apply", SavePayment(r, status),
             status = "success" => BackedBy(r.payment), UNCHANGED envVars
      PROVE  RowsKept /\ SuccessBacked
  BY <1>3, <1>5, StatusSaved DEF SavePayment, TypeOK, envVars, PaymentStatuses
<1>6. CASE ConfirmPayment(h)
  <2>1. /\ r.op = "apply" /\ r.target = "success" /\ SavePayment(r, "success")
        /\ UNCHANGED envVars /\ MarkOrderPaid(r.order, order[r.order], r.seenWallet)
    BY <1>6 DEF ConfirmPayment, Confirms
  <2>2. RowsKept /\ SuccessBacked
    BY <1>3, <1>5, <2>1
  <2>3. PICK p \in PaymentIds : /\ p = r.payment /\ payment[p].status # "none"
                                /\ payment[p].order = r.order /\ BackedBy(p)
    BY <1>3, <2>1
  <2>4. payment'[p].order = r.order /\ BackedBy(p)'
    BY <2>2, <2>3 DEF RowsKept, BackedBy
  <2>5. NewlyPaidBacked
    BY <1>3, <2>1, <2>4, MarkOrderPaidBacked DEF TypeOK
  <2>6. NewCopySound
    BY <1>6, QuietRequest, QuietOps DEF ConfirmPayment, TypeOK, CallbackOps
  <2> QED BY <2>2, <2>5, <2>6 DEF BackingMove
<1>7. CASE RefuseConfirmation(h)
  <2>1. NewCopySound
    BY <1>7, QuietRequest, QuietIdle DEF RefuseConfirmation, TypeOK
  <2> QED BY <1>7, <2>1, PaymentsSame, QuietStep DEF RefuseConfirmation, moneyVars, envVars
<1>8. CASE RecordReport(h)
  <2>1. /\ r.op = "apply" /\ SavePayment(r, r.target) /\ UNCHANGED envVars
        /\ \E amount : order' = [order EXCEPT ![r.order] = ReleasedRow(r.order, amount)]
    BY <1>8 DEF RecordReport
  <2>2. RowsKept /\ SuccessBacked
    BY <1>3, <1>5, <2>1
  <2>3. NewlyPaidBacked
    BY <1>3, <2>1, SamePaid, PaidSame DEF TypeOK
  <2>4. NewCopySound
    BY <1>8, QuietRequest, QuietIdle DEF RecordReport, TypeOK
  <2> QED BY <2>2, <2>3, <2>4 DEF BackingMove
<1> QED BY <1>1, <1>2, <1>4, <1>6, <1>7, <1>8, AnnounceBacked DEF CallbackStep

\* The read before a cancellation.
LEMMA StartCancelBacked ==
  ASSUME TypeOK, NEW h \in Processes, NEW o \in Orders, NEW op \in CancelOps,
         StartCancel(h, o, op)
  PROVE  BackingMove
<1>1. NewCopySound
  BY QuietRequest, QuietOps DEF StartCancel, TypeOK, CallbackOps, CancelOps
<1> QED BY <1>1, PaymentsSame, QuietStep DEF StartCancel, moneyVars, envVars

\* A cancellation makes no success, and pays nothing.
LEMMA CommitCancelBacked ==
  ASSUME TypeOK, NEW h \in Processes, CommitCancel(h)
  PROVE  BackingMove
<1> DEFINE o == request[h].order
           released == ReleasedRow(o, request[h].seenWallet)
           row == [released EXCEPT !.status = "canceled"]
<1>1. o \in Orders /\ request[h].seenWallet \in Nat
  BY RequestOrder, RequestFacts DEF CommitCancel, CancelOps, Request, TypeOK
<1>2. NewlyPaidBacked
  <2>1. released \in OrderRow /\ released.paid = order[o].paid
    BY <1>1, ReleasedRowType, SamePaid DEF TypeOK
  <2>2. row.paid = order[o].paid
    BY <2>1 DEF OrderRow
  <2>3. order' = [order EXCEPT ![o] = row]
    BY DEF CommitCancel
  <2> HIDE DEF row, o
  <2> QED BY <1>1, <2>2, <2>3, PaidSame DEF TypeOK
<1>3. ASSUME NEW p \in PaymentIds
      PROVE  \/ payment'[p] = payment[p]
             \/ /\ payment[p].status # "none" /\ payment'[p].status = "expired"
                /\ payment'[p].order = payment[p].order
                /\ payment'[p].channel = payment[p].channel
  <2>1. payment[p] \in PaymentRow
    BY DEF TypeOK, PaymentTypeOK
  <2>2. payment'[p] = IF OpenFor(o, payment[p]) THEN Expired(payment[p]) ELSE payment[p]
    BY DEF CommitCancel, OpenFor, Expired
  <2>3. ASSUME NEW pay \in PaymentRow, OpenFor(o, pay)
        PROVE  /\ pay.status # "none" /\ Expired(pay).status = "expired"
               /\ Expired(pay).order = pay.order /\ Expired(pay).channel = pay.channel
    BY <2>3 DEF OpenFor, OpenPayment, Expired, PaymentRow
  <2> QED BY <2>1, <2>2, <2>3
<1>4. RowsKept /\ SuccessBacked
  <2>1. settled' = settled /\ overridden' = overridden
    BY DEF CommitCancel, envVars
  <2> QED BY <1>3, <2>1 DEF RowsKept, SuccessBacked
<1>5. NewCopySound
  BY QuietRequest, QuietIdle DEF CommitCancel, TypeOK
<1> QED BY <1>2, <1>4, <1>5 DEF BackingMove

\* The administrator's word is recorded.
LEMMA AdminPayBacked ==
  ASSUME TypeOK, NEW h \in Processes,
         (\E o \in Orders : BeginAdminPay(h, o)) \/ CommitAdminPay(h)
  PROVE  BackingMove
<1>1. NewCopySound
  BY QuietRequest, QuietIdle, QuietOps DEF BeginAdminPay, CommitAdminPay, TypeOK, CallbackOps
<1>2. RowsKept /\ SuccessBacked
  BY PaymentsSame DEF BeginAdminPay, CommitAdminPay, moneyVars, envVars
<1>3. \A o \in Orders : order'[o].paid => order[o].paid \/ o \in overridden'
  BY DEF BeginAdminPay, CommitAdminPay, TypeOK, OrderTypeOK
<1> QED BY <1>1, <1>2, <1>3, QuietStep

\* Every step has the four parts.
LEMMA BackingMoves ==
  ASSUME TypeOK, BackingInv, [Next]_vars
  PROVE  BackingMove
<1>1. ASSUME NEW h \in Processes, CancelStep(h) PROVE BackingMove
  BY <1>1, StartCancelBacked, CommitCancelBacked
     DEF CancelStep, BeginUserCancel, BeginLazyCancel, CancelOps
<1>2. ASSUME NEW h \in Processes, AdminStep(h) PROVE BackingMove
  BY <1>2, StartCancelBacked, CommitCancelBacked, AdminPayBacked
     DEF AdminStep, BeginAdminCancel, CancelOps
<1>3. ASSUME NEW h \in Processes, WorkerStep(h) PROVE BackingMove
  BY <1>3, StartCancelBacked, CommitCancelBacked, SameRequests, PaymentsSame, QuietStep
     DEF WorkerStep, RunTimeout, SkipTimeout, LoseTimeout, CancelOps, moneyVars, envVars
<1>4. ASSUME NEW h \in Processes, Abort(h) PROVE BackingMove
  <2>1. NewCopySound
    BY <1>4, QuietRequest, QuietIdle DEF Abort, TypeOK
  <2> QED BY <1>4, <2>1, PaymentsSame, QuietStep DEF Abort, moneyVars
<1>5. ASSUME NEW p \in PaymentIds, PayerPays(p) PROVE BackingMove
  BY <1>5, SameRequests, PaymentsSame, QuietStep DEF PayerPays, moneyVars
<1>6. ASSUME NEW o \in Orders, Expire(o) PROVE BackingMove
  <2>1. \A q \in Orders : order'[q].paid => order[q].paid
    BY <1>6 DEF Expire, TypeOK, OrderTypeOK, OrderRow
  <2> QED BY <1>6, <2>1, SameRequests, PaymentsSame, QuietStep DEF Expire, moneyVars, envVars
<1>7. ASSUME UNCHANGED vars PROVE BackingMove
  BY <1>7, SameRequests, PaymentsSame, QuietStep DEF vars
<1> QED BY <1>1, <1>2, <1>3, <1>4, <1>5, <1>6, <1>7, PlaceBacked, PayBacked, CallbackBacked
        DEF Next, Processes

\* No repeated, late or overlapping callback of HandleCallback, no stale copy it
\* saves and no cancellation ever lets a payment count as a success, or an order
\* as paid, for which neither a gateway nor the wallet has the money and no
\* administrator gave their word.
THEOREM PaidIsAlwaysBacked == Spec => []PaidIsBacked
<1>1. Init => BackingInv
  BY DEF Init, BackingInv, PaidIsBacked, CopiesSound, UnusedRows, NoPayment, Idle, CallbackOps
<1>2. TypeOK /\ BackingInv /\ [Next]_vars => BackingInv'
  BY BackingMoves, BackingStep DEF BackingMove
<1>3. BackingInv => PaidIsBacked
  BY DEF BackingInv
<1> QED BY <1>1, <1>2, <1>3, TypeCorrect, PTL DEF Spec

-----------------------------------------------------------------------------
(* Which orders exist.  An order is placed once, by one request, and every  *)
(* other request and every payment is about an order that was placed.       *)

\* The order row has been inserted.
Exists(o) == order[o].status # "none"

\* An order being placed does not exist yet, and one request at a time places it.
PlacedOnce ==
  \A h \in Processes : request[h].op = "place" =>
    /\ ~Exists(request[h].order)
    /\ \A g \in Processes : request[g].op = "place" /\ request[g].order = request[h].order => g = h

\* Whatever else a request does, and whatever is to be paid, is about an order that exists.
OthersExist ==
  /\ \A h \in Processes : request[h].op \notin {"idle", "place"} => Exists(request[h].order)
  /\ \A p \in PaymentIds : payment[p].status # "none" => Exists(payment[p].order)

\* An order exists once, and before anything is done about it.
ExistInv == PlacedOnce /\ OthersExist

\* What a step that neither places nor cancels does to statuses: some order that
\* exists may get a status beyond payment.
StatusLater ==
  \A o \in Orders :
    \/ order'[o].status = order[o].status
    \/ Exists(o) /\ order'[o].status \notin {"none", "pending_payment", "canceled"}

\* The kinds of steps, as far as orders, cards and the coupon can tell.
StepKind ==
  \/ \E h \in Processes : PlaceOrder(h)
  \/ \E h \in Processes : CommitCancel(h)
  \/ card' = card /\ coupon' = coupon /\ StatusLater

\* markOrderPaid takes an order that exists beyond payment.
LEMMA MarkOrderPaidLater ==
  ASSUME OrderTypeOK, NEW o \in Orders, Exists(o), NEW row \in OrderRow, NEW seenWallet,
         MarkOrderPaid(o, row, seenWallet)
  PROVE  StatusLater
<1>1. Lines(o) # {} /\ Lines(o) \subseteq Skus
  BY CheckoutAssumption DEF Lines
<1>2. \A k \in Lines(o) : PaidLines(o)[k] \in {"paid", "fulfilling"}
  BY <1>1 DEF PaidLines
<1>3. CalcParentStatus(Lines(o), PaidLines(o), "paid") \in {"paid", "fulfilling"}
  BY <1>1, <1>2 DEF CalcParentStatus
<1>4. order'[o].status = CalcParentStatus(Lines(o), PaidLines(o), "paid")
  BY DEF MarkOrderPaid, OrderTypeOK, PaidRow, OrderRow
<1>5. \A q \in Orders : q # o => order'[q] = order[q]
  BY DEF MarkOrderPaid, OrderTypeOK
<1> QED BY <1>3, <1>4, <1>5 DEF StatusLater

\* Actions that write an order row without its status.
LEMMA RowLater ==
  ASSUME OrderTypeOK, NEW o \in Orders, NEW row, row.status = order[o].status,
         order' = [order EXCEPT ![o] = row]
  PROVE  StatusLater
BY DEF OrderTypeOK, StatusLater

\* Actions that write no order row.
LEMMA SameLater ==
  ASSUME order' = order
  PROVE  StatusLater
BY DEF StatusLater

\* Every step is of one of the three kinds.
LEMMA StepKinds ==
  ASSUME TypeOK, ExistInv, [Next]_vars
  PROVE  StepKind
<1> USE DEF TypeOK
<1>1. ASSUME NEW h \in Processes, PlaceStep(h) PROVE StepKind
  BY <1>1, SameLater DEF PlaceStep, BeginPlace, RejectOrder, ScheduleTimeout,
     ScheduleTimeoutFails, StepKind, stockVars
<1>2. ASSUME NEW h \in Processes, PayStep(h) PROVE StepKind
  <2>1. ASSUME NEW o \in Orders, NEW p \in PaymentIds, PayByWallet(h, o, p) PROVE StepKind
    <3>1. Exists(o) BY <2>1 DEF PayByWallet, Payable, Exists
    <3> QED BY <2>1, <3>1, FundedRowType, MarkOrderPaidLater DEF PayByWallet, StepKind
  <2>2. ASSUME NEW o \in Orders, NEW p \in PaymentIds, NEW ch \in Channels,
               NEW row \in OrderRow, row.status = order[o].status,
               OpenPaymentFor(h, o, ch, p, row)
        PROVE  StepKind
    <3>1. order' = [order EXCEPT ![o] = [row EXCEPT !.online = TotalAmount[o] - row.wallet]]
          /\ card' = card /\ coupon' = coupon
      BY <2>2 DEF OpenPaymentFor, stockVars
    <3> QED BY <2>2, <3>1, SameStatus, RowLater DEF StepKind
  <2>3. ASSUME NEW o \in Orders, NEW p \in PaymentIds, NEW ch \in Channels,
               PayWithBalance(h, o, ch, p) \/ PayOnline(h, o, ch, p)
        PROVE  StepKind
    <3>1. order[o].wallet \in Nat
      BY OrderRowFacts DEF OrderRow
    <3> QED BY <2>2, <2>3, <3>1, FundedRowType, ReleasedRowType, SameStatus
               DEF PayWithBalance, PayOnline
  <2>4. CASE GatewayRefuses(h)
    <3>1. request[h].order \in Orders
      BY <2>4, RequestOrder DEF GatewayRefuses
    <3> QED BY <2>4, <3>1, SameStatus, RowLater DEF GatewayRefuses, StepKind, stockVars
  <2> QED BY <1>2, <2>1, <2>3, <2>4, SameLater DEF PayStep, GatewayAccepts, AnnouncePaid,
            StepKind, stockVars
<1>3. ASSUME NEW h \in Processes, CallbackStep(h) PROVE StepKind
  <2>1. CASE ConfirmPayment(h)
    <3>1. request[h].order \in Orders /\ Exists(request[h].order)
      BY <2>1, RequestOrder DEF ConfirmPayment, ExistInv, OthersExist
    <3> QED BY <2>1, <3>1, OrderRowFacts, MarkOrderPaidLater DEF ConfirmPayment, StepKind
  <2>2. CASE RecordReport(h)
    <3>1. request[h].order \in Orders
      BY <2>2, RequestOrder DEF RecordReport
    <3> QED BY <2>2, <3>1, SameStatus, RowLater DEF RecordReport, StepKind, stockVars
  <2> QED BY <1>3, <2>1, <2>2, SameLater DEF CallbackStep, ReceiveCallback, ReadOrder,
            AcknowledgeRepeat, RefuseConfirmation, AnnouncePaid, StepKind, stockVars
<1>4. ASSUME NEW h \in Processes, NEW o \in Orders, NEW op, StartCancel(h, o, op)
      PROVE  StepKind
  BY <1>4, SameLater DEF StartCancel, StepKind, stockVars
<1>6. ASSUME NEW h \in Processes, CancelStep(h) PROVE StepKind
  BY <1>4, <1>6 DEF CancelStep, BeginUserCancel, BeginLazyCancel, StepKind
<1>7. ASSUME NEW h \in Processes, AdminStep(h) PROVE StepKind
  <2>1. CASE CommitAdminPay(h)
    <3> DEFINE o == request[h].order
    <3>1. o \in Orders /\ Exists(o)
      BY <2>1, RequestOrder DEF CommitAdminPay, ExistInv, OthersExist
    <3>2. order'[o].status = "paid" /\ \A q \in Orders : q # o => order'[q] = order[q]
      BY <2>1, <3>1 DEF CommitAdminPay, OrderTypeOK, OrderRow
    <3> QED BY <2>1, <3>1, <3>2 DEF StatusLater, StepKind, CommitAdminPay
  <2> QED BY <1>4, <1>7, <2>1, SameLater DEF AdminStep, BeginAdminPay, BeginAdminCancel,
            StepKind, stockVars
<1>8. ASSUME NEW h \in Processes, WorkerStep(h) PROVE StepKind
  BY <1>4, <1>8, SameLater DEF WorkerStep, RunTimeout, SkipTimeout, LoseTimeout, StepKind, stockVars
<1>9. ASSUME NEW o \in Orders, Expire(o) PROVE StepKind
  <2> DEFINE row == [order[o] EXCEPT !.expired = TRUE]
  <2>1. row.status = order[o].status
    BY OrderRowFacts DEF OrderRow
  <2>2. order' = [order EXCEPT ![o] = row]
    BY <1>9 DEF Expire, OrderTypeOK
  <2> HIDE DEF row
  <2> QED BY <1>9, <2>1, <2>2, RowLater DEF Expire, StepKind, stockVars
<1> QED BY <1>1, <1>2, <1>3, <1>6, <1>7, <1>8, <1>9, SameLater
        DEF Next, Processes, Abort, PayerPays, vars, StepKind, stockVars

\* A cancellation writes one order, which exists, and no other.
LEMMA CanceledRow ==
  ASSUME TypeOK, ExistInv, NEW h \in Processes, CommitCancel(h)
  PROVE  /\ request[h].order \in Orders /\ Exists(request[h].order)
         /\ order'[request[h].order].status = "canceled"
         /\ \A q \in Orders : q # request[h].order => order'[q] = order[q]
<1> DEFINE o == request[h].order
           released == ReleasedRow(o, request[h].seenWallet)
           row == [released EXCEPT !.status = "canceled"]
<1>1. o \in Orders /\ Exists(o) /\ request[h].seenWallet \in Nat
  BY RequestOrder, RequestFacts DEF CommitCancel, CancelOps, Request, TypeOK, ExistInv, OthersExist
<1>2. row.status = "canceled"
  BY <1>1, ReleasedRowType DEF OrderRow, TypeOK
<1>3. order' = [order EXCEPT ![o] = row]
  BY DEF CommitCancel
<1> HIDE DEF row, o
<1>4. order'[o].status = "canceled" /\ \A q \in Orders : q # o => order'[q] = order[q]
  BY <1>1, <1>2, <1>3 DEF TypeOK, OrderTypeOK
<1> QED BY <1>1, <1>4 DEF o

\* A new order of a status is one its step has put there: none disappears.
LEMMA ExistsStays ==
  ASSUME TypeOK, ExistInv, [Next]_vars, NEW o \in Orders, Exists(o)
  PROVE  Exists(o)'
<1>1. ASSUME NEW h \in Processes, PlaceOrder(h) PROVE Exists(o)'
  <2>1. request[h].order \in Orders
    BY <1>1, RequestOrder DEF PlaceOrder
  <2> QED BY <1>1, <2>1 DEF PlaceOrder, Exists, TypeOK, OrderTypeOK, OrderRow
<1>2. ASSUME NEW h \in Processes, CommitCancel(h) PROVE Exists(o)'
  BY <1>2, CanceledRow DEF Exists
<1>3. StatusLater => Exists(o)'
  BY DEF StatusLater, Exists
<1> QED BY <1>1, <1>2, <1>3, StepKinds DEF StepKind

-----------------------------------------------------------------------------
(* ExistInv is inductive.                                                   *)

\* A request that is over, or about an order that exists after the step.
Settles(r) ==
  \/ r.op = "idle"
  \/ r.op # "place" /\ r.order \in Orders /\ order'[r.order].status # "none"

\* Process h begins to place o, which nobody has placed or is placing and which the
\* coupon allows.
Begins(h, o) ==
  /\ request' = [request EXCEPT ![h] = Busy("place", o)] /\ order' = order
  /\ ~Exists(o) /\ CouponLeft(o) /\ coupon' = coupon
  /\ \A g \in Processes : ~(request[g].op = "place" /\ request[g].order = o)

\* What a step makes of the requests: one of them begins to place an order, or
\* each goes on as it was or settles.
RequestMove ==
  \/ \E h \in Processes, o \in Orders : Begins(h, o)
  \/ \A h \in Processes : request'[h] = request[h] \/ Settles(request'[h])

\* A process moves on to a request that settles.
LEMMA MoveOn ==
  ASSUME RequestTypeOK, NEW h \in Processes, NEW r, Settles(r),
         request' = [request EXCEPT ![h] = r]
  PROVE  RequestMove
BY DEF RequestTypeOK, RequestMove

\* A process ends its request.
LEMMA MoveToIdle ==
  ASSUME RequestTypeOK, NEW h \in Processes, request' = [request EXCEPT ![h] = Idle]
  PROVE  RequestMove
BY MoveOn DEF Settles, Idle

\* A process moves on to one about an order that exists.
LEMMA MoveToBusy ==
  ASSUME TypeOK, ExistInv, [Next]_vars, NEW h \in Processes, NEW o \in Orders, Exists(o),
         NEW r, r.order = o, r.op # "place",
         request' = [request EXCEPT ![h] = r]
  PROVE  RequestMove
BY MoveOn, ExistsStays DEF Settles, Exists, TypeOK

\* The requests a step may begin about an order.
LEMMA BusyFields ==
  ASSUME NEW op, NEW o, NEW p
  PROVE  /\ Busy(op, o).op = op /\ Busy(op, o).order = o
         /\ BusyWithCopy(op, o).op = op /\ BusyWithCopy(op, o).order = o
         /\ [Busy(op, o) EXCEPT !.payment = p].op = op
         /\ [Busy(op, o) EXCEPT !.payment = p].order = o
BY DEF Busy, BusyWithCopy, Idle

\* The same for each of them.
LEMMA MoveToOp ==
  ASSUME TypeOK, ExistInv, [Next]_vars, NEW h \in Processes, NEW o \in Orders, Exists(o),
         NEW op \in Ops \ {"place"}, request' = [request EXCEPT ![h] = Busy(op, o)]
  PROVE  RequestMove
<1>1. Busy(op, o).order = o /\ Busy(op, o).op # "place"
  BY BusyFields
<1> QED BY <1>1, MoveToBusy

\* ... with a copy of the order,
LEMMA MoveToCopy ==
  ASSUME TypeOK, ExistInv, [Next]_vars, NEW h \in Processes, NEW o \in Orders, Exists(o),
         NEW op \in CancelOps, request' = [request EXCEPT ![h] = BusyWithCopy(op, o)]
  PROVE  RequestMove
<1>1. BusyWithCopy(op, o).order = o /\ BusyWithCopy(op, o).op # "place"
  BY BusyFields DEF CancelOps
<1> QED BY <1>1, MoveToBusy

\* ... or naming a payment.
LEMMA MoveToPayment ==
  ASSUME TypeOK, ExistInv, [Next]_vars, NEW h \in Processes, NEW o \in Orders, Exists(o), NEW p,
         request' = [request EXCEPT ![h] = [Busy("gateway", o) EXCEPT !.payment = p]]
  PROVE  RequestMove
<1> DEFINE r == [Busy("gateway", o) EXCEPT !.payment = p]
<1>1. r.order = o /\ r.op # "place"
  BY BusyFields
<1> HIDE DEF r
<1>2. request' = [request EXCEPT ![h] = r]
  BY DEF r
<1> QED BY <1>1, <1>2, MoveToBusy

\* An order comes to exist by being placed.
LEMMA NewlyPlaced ==
  ASSUME TypeOK, ExistInv, [Next]_vars, NEW o \in Orders, ~Exists(o), order'[o].status # "none"
  PROVE  \E h \in Processes : PlaceOrder(h) /\ request[h].order = o
<1>1. ASSUME NEW h \in Processes, PlaceOrder(h), request[h].order # o PROVE FALSE
  BY <1>1, RequestOrder DEF PlaceOrder, Exists, TypeOK, OrderTypeOK
<1>2. ASSUME NEW h \in Processes, CommitCancel(h) PROVE FALSE
  BY <1>2, CanceledRow DEF Exists
<1>3. StatusLater => FALSE
  BY DEF StatusLater, Exists
<1> QED BY <1>1, <1>2, <1>3, StepKinds DEF StepKind

\* The request that places an order goes on to schedule its timeout.
LEMMA PlacerMovesOn ==
  ASSUME TypeOK, NEW h \in Processes, PlaceOrder(h)
  PROVE  request'[h].op = "schedule"
BY BusyFields DEF PlaceOrder, TypeOK, RequestTypeOK

\* Every step moves the requests so.
LEMMA RequestMoves ==
  ASSUME TypeOK, ExistInv, [Next]_vars
  PROVE  RequestMove
<1>0. ASSUME NEW h \in Processes, request[h].op \notin {"idle", "place"}
      PROVE  request[h].order \in Orders /\ Exists(request[h].order)
  BY <1>0, RequestOrder DEF ExistInv, OthersExist
<1>1. ASSUME NEW h \in Processes, PlaceStep(h) PROVE RequestMove
  <2>1. ASSUME NEW o \in Orders, BeginPlace(h, o) PROVE RequestMove
    BY <2>1 DEF BeginPlace, RequestMove, Begins, Exists
  <2>2. CASE PlaceOrder(h)
    <3>1. request[h].order \in Orders
      BY <2>2, RequestOrder DEF PlaceOrder
    <3>2. order'[request[h].order].status = "pending_payment"
      BY <2>2, <3>1 DEF PlaceOrder, TypeOK, OrderTypeOK, OrderRow
    <3>3. Settles(Busy("schedule", request[h].order))
      BY <3>1, <3>2, BusyFields DEF Settles
    <3> QED BY <2>2, <3>3, MoveOn DEF PlaceOrder, TypeOK
  <2>3. CASE ScheduleTimeoutFails(h)
    BY <1>0, <2>3, MoveToCopy DEF ScheduleTimeoutFails, CancelOps
  <2> QED BY <1>1, <2>1, <2>2, <2>3, MoveToIdle DEF PlaceStep, RejectOrder, ScheduleTimeout, TypeOK
<1>2. ASSUME NEW h \in Processes, PayStep(h) PROVE RequestMove
  <2>1. ASSUME NEW o \in Orders, NEW p \in PaymentIds, PayByWallet(h, o, p) PROVE RequestMove
    BY <2>1, MoveToOp DEF PayByWallet, Payable, Exists, Ops
  <2>2. ASSUME NEW o \in Orders, NEW p \in PaymentIds, NEW ch \in Channels, NEW row,
               OpenPaymentFor(h, o, ch, p, row)
        PROVE  RequestMove
    BY <2>2, MoveToPayment DEF OpenPaymentFor, Payable, Exists
  <2> QED BY <1>2, <2>1, <2>2, MoveToIdle DEF PayStep, PayWithBalance, PayOnline,
            GatewayAccepts, GatewayRefuses, AnnouncePaid, TypeOK
<1>3. ASSUME NEW h \in Processes, CallbackStep(h) PROVE RequestMove
  <2>1. ASSUME NEW p \in PaymentIds, NEW t \in PaymentStatuses, ReceiveCallback(h, p, t)
        PROVE  RequestMove
    <3> DEFINE new == [Busy("callback", payment[p].order)
                         EXCEPT !.payment = p, !.target = t,
                                !.seenPayment = payment[p].status,
                                !.seenLapsed = payment[p].lapsed]
    <3>1. payment[p].order \in Orders /\ Exists(payment[p].order)
      BY <2>1 DEF ReceiveCallback, ExistInv, OthersExist, TypeOK, PaymentTypeOK
    <3>2. new.order = payment[p].order /\ new.op = "callback"
      BY DEF Busy, Idle
    <3>3. request' = [request EXCEPT ![h] = new]
      BY <2>1 DEF ReceiveCallback
    <3> HIDE DEF new
    <3> QED BY <3>1, <3>2, <3>3, MoveToBusy
  <2>2. CASE ReadOrder(h)
    <3> DEFINE o == request[h].order
               new == [request[h] EXCEPT !.op = "apply", !.seenStatus = order[o].status,
                                         !.seenWallet = order[o].wallet]
    <3>1. o \in Orders /\ Exists(o) /\ request[h] \in Request
      BY <1>0, <2>2, RequestFacts DEF ReadOrder, TypeOK
    <3>2. new.order = o /\ new.op = "apply"
      BY <3>1 DEF Request
    <3>3. request' = [request EXCEPT ![h] = new]
      BY <2>2 DEF ReadOrder, TypeOK, RequestTypeOK
    <3> HIDE DEF new, o
    <3> QED BY <3>1, <3>2, <3>3, MoveToBusy
  <2>3. CASE ConfirmPayment(h)
    BY <1>0, <2>3, MoveToOp DEF ConfirmPayment, Ops
  <2> QED BY <1>3, <2>1, <2>2, <2>3, MoveToIdle DEF CallbackStep, AcknowledgeRepeat,
            RefuseConfirmation, RecordReport, AnnouncePaid, TypeOK
<1>4. ASSUME NEW h \in Processes, NEW o \in Orders, Exists(o), NEW op \in CancelOps,
             StartCancel(h, o, op)
      PROVE  RequestMove
  BY <1>4, MoveToCopy DEF StartCancel
<1>5. ASSUME NEW h \in Processes, CommitCancel(h) PROVE RequestMove
  BY <1>5, MoveToIdle DEF CommitCancel, TypeOK
<1>6. ASSUME NEW h \in Processes, CancelStep(h) PROVE RequestMove
  BY <1>4, <1>5, <1>6 DEF CancelStep, BeginUserCancel, BeginLazyCancel, CancelOps, Exists
<1>7. ASSUME NEW h \in Processes, AdminStep(h) PROVE RequestMove
  <2>1. ASSUME NEW o \in Orders, BeginAdminPay(h, o) PROVE RequestMove
    BY <2>1, MoveToOp DEF BeginAdminPay, Exists, Ops
  <2> QED BY <1>4, <1>5, <1>7, <2>1, MoveToIdle DEF AdminStep, BeginAdminCancel, CommitAdminPay,
            CancelOps, Exists, TypeOK
<1>8. ASSUME request' = request PROVE RequestMove
  BY <1>8 DEF RequestMove
<1>9. ASSUME NEW h \in Processes, WorkerStep(h) PROVE RequestMove
  BY <1>4, <1>5, <1>8, <1>9 DEF WorkerStep, RunTimeout, SkipTimeout, LoseTimeout, CancelOps, Exists
<1>10. ASSUME NEW h \in Processes, Abort(h) PROVE RequestMove
  BY <1>10, MoveToIdle DEF Abort, TypeOK
<1> QED BY <1>1, <1>2, <1>3, <1>6, <1>7, <1>8, <1>9, <1>10
        DEF Next, Processes, PayerPays, Expire, vars


\* A payment row is kept for its order, or inserted for one that exists.
PaymentMove ==
  \A p \in PaymentIds : payment'[p].status # "none" =>
    \/ payment[p].status # "none" /\ payment'[p].order = payment[p].order
    \/ payment'[p].order \in Orders /\ Exists(payment'[p].order)

\* Writing one payment row.
LEMMA PaymentWritten ==
  ASSUME PaymentTypeOK, NEW p \in PaymentIds, NEW row, row.order \in Orders, Exists(row.order),
         payment' = [payment EXCEPT ![p] = row]
  PROVE  PaymentMove
<1>1. \A q \in PaymentIds : q # p => payment'[q] = payment[q]
  BY DEF PaymentTypeOK
<1>2. payment'[p] = row
  BY DEF PaymentTypeOK
<1> QED BY <1>1, <1>2 DEF PaymentMove

\* Writing the status of one.
LEMMA PaymentResaved ==
  ASSUME TypeOK, ExistInv, NEW p \in PaymentIds, payment[p].status # "none",
         NEW status, NEW lapsed,
         payment' = [payment EXCEPT ![p].status = status, ![p].lapsed = lapsed]
  PROVE  PaymentMove
<1> DEFINE row == [payment[p] EXCEPT !.status = status, !.lapsed = lapsed]
<1>1. row.order = payment[p].order /\ payment[p].order \in Orders /\ Exists(payment[p].order)
  BY DEF TypeOK, PaymentTypeOK, PaymentRow, ExistInv, OthersExist
<1>2. payment' = [payment EXCEPT ![p] = row]
  BY DEF TypeOK, PaymentTypeOK
<1> HIDE DEF row
<1> QED BY <1>1, <1>2, PaymentWritten DEF TypeOK

\* Every step keeps or inserts payments so.
LEMMA PaymentMoves ==
  ASSUME TypeOK, ExistInv, [Next]_vars
  PROVE  PaymentMove
<1>1. ASSUME payment' = payment PROVE PaymentMove
  BY <1>1 DEF PaymentMove
<1>2. ASSUME NEW h \in Processes, request[h].op = "apply"
      PROVE  request[h].payment \in PaymentIds /\ payment[request[h].payment].status # "none"
  BY <1>2, ApplyFacts
<1>3. ASSUME NEW h \in Processes, PlaceStep(h) PROVE PaymentMove
  BY <1>1, <1>3 DEF PlaceStep, BeginPlace, PlaceOrder, RejectOrder, ScheduleTimeout,
     ScheduleTimeoutFails, moneyVars
<1>4. ASSUME NEW h \in Processes, PayStep(h) PROVE PaymentMove
  <2>1. ASSUME NEW o \in Orders, Exists(o), NEW p \in PaymentIds, NEW ch, NEW amount, NEW status,
               payment' = [payment EXCEPT ![p] = [NoPayment EXCEPT !.order = o, !.channel = ch,
                                                     !.amount = amount, !.status = status]]
        PROVE  PaymentMove
    <3> DEFINE row == [NoPayment EXCEPT !.order = o, !.channel = ch, !.amount = amount,
                                        !.status = status]
    <3>1. row.order = o
      BY DEF NoPayment
    <3> HIDE DEF row
    <3>2. payment' = [payment EXCEPT ![p] = row]
      BY <2>1 DEF row
    <3> QED BY <2>1, <3>1, <3>2, PaymentWritten DEF TypeOK
  <2>2. ASSUME NEW o \in Orders, NEW p \in PaymentIds, PayByWallet(h, o, p) PROVE PaymentMove
    BY <2>1, <2>2 DEF PayByWallet, Payable, Exists
  <2>3. ASSUME NEW o \in Orders, NEW p \in PaymentIds, NEW ch, NEW row, OpenPaymentFor(h, o, ch, p, row)
        PROVE  PaymentMove
    BY <2>1, <2>3 DEF OpenPaymentFor, Payable, Exists
  <2>4. CASE GatewayAccepts(h)
    <3> DEFINE p == request[h].payment
               row == [payment[p] EXCEPT !.status = "pending", !.url = TRUE, !.lapsed = FALSE]
    <3>1. p \in PaymentIds /\ payment[p].status # "none"
      BY <2>4, RequestFacts DEF TypeOK, PaymentOps, GatewayAccepts
    <3>2. row.order = payment[p].order /\ payment[p].order \in Orders /\ Exists(payment[p].order)
      BY <3>1 DEF TypeOK, PaymentTypeOK, PaymentRow, ExistInv, OthersExist
    <3>3. payment' = [payment EXCEPT ![p] = row]
      BY <2>4, <3>1 DEF GatewayAccepts, TypeOK, PaymentTypeOK
    <3> HIDE DEF row, p
    <3> QED BY <3>1, <3>2, <3>3, PaymentWritten DEF TypeOK
  <2>5. CASE GatewayRefuses(h)
    <3>1. request[h].payment \in PaymentIds /\ payment[request[h].payment].status # "none"
      BY <2>5, RequestFacts DEF TypeOK, PaymentOps, GatewayRefuses
    <3> QED BY <2>5, <3>1, PaymentResaved DEF GatewayRefuses
  <2> QED BY <1>1, <1>4, <2>2, <2>3, <2>4, <2>5 DEF PayStep, PayWithBalance, PayOnline,
            AnnouncePaid, moneyVars
<1>5. ASSUME NEW h \in Processes, NEW status, request[h].op = "apply",
             SavePayment(request[h], status)
      PROVE  PaymentMove
  BY <1>2, <1>5, PaymentResaved DEF SavePayment
<1>6. ASSUME NEW h \in Processes, CallbackStep(h) PROVE PaymentMove
  <2>1. CASE AcknowledgeRepeat(h)
    BY <1>2, <2>1, PaymentResaved DEF AcknowledgeRepeat
  <2> QED BY <1>1, <1>5, <1>6, <2>1 DEF CallbackStep, ReceiveCallback, ReadOrder, ConfirmPayment,
            RefuseConfirmation, RecordReport, AnnouncePaid, moneyVars
<1>7. ASSUME NEW h \in Processes, CommitCancel(h) PROVE PaymentMove
  <2> DEFINE o == request[h].order
  <2>1. ASSUME NEW p \in PaymentIds
        PROVE  payment'[p].status # "none" =>
                 payment[p].status # "none" /\ payment'[p].order = payment[p].order
    <3>1. payment'[p] = IF OpenFor(o, payment[p]) THEN Expired(payment[p]) ELSE payment[p]
      BY <1>7 DEF CommitCancel, OpenFor, Expired
    <3>2. OpenFor(o, payment[p]) =>
            payment[p].status # "none" /\ Expired(payment[p]).order = payment[p].order
      BY DEF OpenFor, OpenPayment, Expired, TypeOK, PaymentTypeOK, PaymentRow
    <3> QED BY <3>1, <3>2
  <2> QED BY <2>1 DEF PaymentMove
<1>8. ASSUME NEW h \in Processes, NEW o \in Orders, NEW op, StartCancel(h, o, op)
      PROVE  PaymentMove
  BY <1>1, <1>8 DEF StartCancel, moneyVars
<1>9. ASSUME NEW h \in Processes, CancelStep(h) \/ AdminStep(h) \/ WorkerStep(h)
      PROVE  PaymentMove
  BY <1>1, <1>7, <1>8, <1>9 DEF CancelStep, BeginUserCancel, BeginLazyCancel,
     AdminStep, BeginAdminPay, BeginAdminCancel, CommitAdminPay,
     WorkerStep, RunTimeout, SkipTimeout, LoseTimeout, moneyVars
<1> QED BY <1>1, <1>3, <1>4, <1>6, <1>9
        DEF Next, Processes, Abort, PayerPays, Expire, vars, moneyVars

\* So no request or payment ever is about an order that is not there, and no
\* order is placed twice, however requests overlap.
LEMMA ExistStep ==
  ASSUME TypeOK, TypeOK', ExistInv, [Next]_vars
  PROVE  ExistInv'
<1>1. \A o \in Orders : Exists(o) => Exists(o)'
  BY ExistsStays
<1>2. \A p \in PaymentIds : payment'[p].status # "none" => Exists(payment[p].order)'
  BY <1>1, PaymentMoves DEF PaymentMove, ExistInv, OthersExist, Exists, TypeOK, PaymentTypeOK
<1>3. ASSUME NEW h \in Processes, NEW o \in Orders, Begins(h, o)
      PROVE  /\ PlacedOnce'
             /\ \A g \in Processes : request'[g].op \notin {"idle", "place"} =>
                  Exists(request[g].order)'
  <2>1. /\ request'[h].op = "place" /\ request'[h].order = o
        /\ \A g \in Processes : g # h => request'[g] = request[g]
    BY <1>3, BusyFields DEF Begins, TypeOK, RequestTypeOK
  <2> QED BY <1>3, <2>1 DEF PlacedOnce, Exists, Begins, ExistInv, OthersExist
<1>4. ASSUME \A h \in Processes : request'[h] = request[h] \/ Settles(request'[h])
      PROVE  /\ PlacedOnce'
             /\ \A g \in Processes : request'[g].op \notin {"idle", "place"} =>
                  Exists(request[g].order)'
  <2>1. ASSUME NEW g \in Processes, request'[g].op \notin {"idle", "place"}
        PROVE  Exists(request[g].order)'
    <3>1. CASE request'[g] = request[g]
      BY <1>1, <2>1, <3>1, RequestOrder DEF ExistInv, OthersExist, Exists
    <3>2. CASE Settles(request'[g])
      BY <2>1, <3>2 DEF Settles, Exists
    <3> QED BY <1>4, <3>1, <3>2
  <2>2. ASSUME NEW h \in Processes, request'[h].op = "place"
        PROVE  request'[h] = request[h] /\ ~Exists(request[h].order)'
    <3>1. request'[h] = request[h]
      BY <1>4, <2>2 DEF Settles
    <3>2. request[h].order \in Orders /\ ~Exists(request[h].order)
      BY <2>2, <3>1, RequestOrder DEF ExistInv, PlacedOnce
    <3>3. ASSUME Exists(request[h].order)' PROVE FALSE
      <4>1. PICK g \in Processes : PlaceOrder(g) /\ request[g].order = request[h].order
        BY <3>1, <3>2, <3>3, NewlyPlaced DEF Exists
      <4>2. g = h
        BY <2>2, <3>1, <4>1 DEF ExistInv, PlacedOnce, PlaceOrder
      <4> QED BY <2>2, <4>1, <4>2, PlacerMovesOn
    <3> QED BY <3>1, <3>3
  <2>3. PlacedOnce'
    BY <2>2 DEF PlacedOnce, ExistInv, Exists
  <2> QED BY <2>1, <2>3
<1>5. OthersExist' /\ PlacedOnce'
  BY <1>2, <1>3, <1>4, RequestMoves DEF RequestMove, OthersExist, Exists
<1> QED BY <1>5 DEF ExistInv

\* No request or payment ever is about an order that is not there, and no order is
\* placed twice, however requests overlap.
LEMMA ExistAlways == Spec => []ExistInv
<1>1. Init => ExistInv
  BY DEF Init, ExistInv, PlacedOnce, OthersExist, Idle, NoPayment
<1>2. TypeOK /\ TypeOK' /\ ExistInv /\ [Next]_vars => ExistInv'
  BY ExistStep
<1> QED BY <1>1, <1>2, TypeCorrect, PTL DEF Spec

\* An order that waits for payment after a step did so before or was just placed.
LEMMA StaysPending ==
  ASSUME TypeOK, ExistInv, [Next]_vars, NEW o \in Orders, order'[o].status = "pending_payment"
  PROVE  \/ order[o].status = "pending_payment"
         \/ \E h \in Processes : PlaceOrder(h) /\ request[h].order = o
<1>1. CASE Exists(o)
  <2>1. ASSUME NEW h \in Processes, PlaceOrder(h), request[h].order # o
        PROVE  order[o].status = "pending_payment"
    BY <2>1, RequestOrder DEF PlaceOrder, TypeOK, OrderTypeOK
  <2>2. ASSUME NEW h \in Processes, CommitCancel(h) PROVE order[o].status = "pending_payment"
    BY <2>2, CanceledRow
  <2>3. StatusLater => order[o].status = "pending_payment"
    BY DEF StatusLater
  <2> QED BY <2>1, <2>2, <2>3, StepKinds DEF StepKind
<1>2. CASE ~Exists(o)
  BY <1>2, NewlyPlaced
<1> QED BY <1>1, <1>2

-----------------------------------------------------------------------------
(* The watch over unpaid orders.                                            *)

\* A timeout task goes only when it failed, or the order needs it no longer.
TimerMove ==
  \A o \in Orders :
    \/ timer'[o] = timer[o]
    \/ timer'[o] \in {"scheduled", "lost"}
    \/ order'[o].status # "pending_payment"

\* Every step moves the timers so.
LEMMA TimerMoves ==
  ASSUME TypeOK, ExistInv, [Next]_vars
  PROVE  TimerMove
<1>1. ASSUME timer' = timer PROVE TimerMove
  BY <1>1 DEF TimerMove
<1>2. ASSUME NEW o \in Orders, NEW state, timer' = [timer EXCEPT ![o] = state],
             state \in {"scheduled", "lost"} \/ order'[o].status # "pending_payment"
      PROVE  TimerMove
  BY <1>2 DEF TimerMove, TypeOK, QueueTypeOK
<1>3. ASSUME NEW h \in Processes, PlaceStep(h) PROVE TimerMove
  BY <1>1, <1>2, <1>3, RequestOrder DEF PlaceStep, BeginPlace, PlaceOrder, RejectOrder,
     ScheduleTimeout, ScheduleTimeoutFails, queueVars
<1>4. ASSUME NEW h \in Processes, PayStep(h) \/ CallbackStep(h) PROVE TimerMove
  BY <1>1, <1>4 DEF PayStep, PayByWallet, PayWithBalance, PayOnline, OpenPaymentFor,
     GatewayAccepts, GatewayRefuses, CallbackStep, ReceiveCallback, ReadOrder,
     AcknowledgeRepeat, ConfirmPayment, RefuseConfirmation, RecordReport, AnnouncePaid, queueVars
<1>5. ASSUME NEW h \in Processes, CommitCancel(h) PROVE TimerMove
  <2>1. /\ request[h].order \in Orders
        /\ order'[request[h].order].status # "pending_payment"
    BY <1>5, CanceledRow
  <2> QED BY <1>1, <1>2, <1>5, <2>1 DEF CommitCancel
<1>6. ASSUME NEW h \in Processes, NEW o \in Orders, NEW op, StartCancel(h, o, op)
      PROVE  TimerMove
  BY <1>1, <1>6 DEF StartCancel, queueVars
<1>7. ASSUME NEW h \in Processes, CancelStep(h) \/ AdminStep(h) PROVE TimerMove
  BY <1>1, <1>5, <1>6, <1>7 DEF CancelStep, BeginUserCancel, BeginLazyCancel,
     AdminStep, BeginAdminPay, BeginAdminCancel, CommitAdminPay, queueVars
<1>8. ASSUME NEW h \in Processes, WorkerStep(h) PROVE TimerMove
  BY <1>2, <1>5, <1>6, <1>8 DEF WorkerStep, RunTimeout, SkipTimeout, LoseTimeout
<1> QED BY <1>1, <1>3, <1>4, <1>7, <1>8
        DEF Next, Processes, Abort, PayerPays, Expire, vars, queueVars

\* A createOrder that has still to queue the timeout, or to cancel, does so or dies.
WatcherMove ==
  \A h \in Processes : request[h].op \in {"schedule", "cancel"} =>
    \/ /\ request'[h].order = request[h].order
       /\ request'[h].op \in {"schedule", "cancel"}
    \/ timer'[request[h].order] = "scheduled"
    \/ order'[request[h].order].status # "pending_payment"
    \/ aborts' > 0

\* Every step treats them so.
LEMMA WatcherMoves ==
  ASSUME TypeOK, ExistInv, [Next]_vars
  PROVE  WatcherMove
<1>1. ASSUME request' = request PROVE WatcherMove
  BY <1>1 DEF WatcherMove
<1>2. ASSUME NEW h \in Processes, NEW r, request' = [request EXCEPT ![h] = r],
             request[h].op \notin {"schedule", "cancel"}
      PROVE  WatcherMove
  BY <1>2 DEF WatcherMove, TypeOK, RequestTypeOK
<1>3. ASSUME NEW h \in Processes, NEW r, request' = [request EXCEPT ![h] = r],
             \/ r.order = request[h].order /\ r.op \in {"schedule", "cancel"}
             \/ timer'[request[h].order] = "scheduled"
             \/ order'[request[h].order].status # "pending_payment"
             \/ aborts' > 0
      PROVE  WatcherMove
  BY <1>3 DEF WatcherMove, TypeOK, RequestTypeOK
<1>4. Idle.op \notin {"schedule", "cancel"}
  BY DEF Idle
<1>5. ASSUME NEW h \in Processes, PlaceStep(h) PROVE WatcherMove
  <2>1. CASE ScheduleTimeout(h)
    <3>1. timer'[request[h].order] = "scheduled"
      BY <2>1, RequestOrder DEF ScheduleTimeout, TypeOK, QueueTypeOK
    <3> QED BY <1>3, <2>1, <3>1 DEF ScheduleTimeout
  <2>2. CASE ScheduleTimeoutFails(h)
    <3> DEFINE r == BusyWithCopy("cancel", request[h].order)
    <3>1. r.order = request[h].order /\ r.op \in {"schedule", "cancel"}
      BY BusyFields
    <3>2. request' = [request EXCEPT ![h] = r]
      BY <2>2 DEF ScheduleTimeoutFails
    <3> HIDE DEF r
    <3> QED BY <1>3, <3>1, <3>2
  <2> QED BY <1>2, <1>4, <1>5, <2>1, <2>2 DEF PlaceStep, BeginPlace, PlaceOrder, RejectOrder
<1>6. ASSUME NEW h \in Processes, PayStep(h) PROVE WatcherMove
  BY <1>2, <1>4, <1>6 DEF PayStep, PayByWallet, PayWithBalance, PayOnline, OpenPaymentFor,
     GatewayAccepts, GatewayRefuses, AnnouncePaid
<1>7. ASSUME NEW h \in Processes, CallbackStep(h) PROVE WatcherMove
  <2>1. CASE ReadOrder(h)
    BY <2>1 DEF ReadOrder, WatcherMove, TypeOK, RequestTypeOK
  <2> QED BY <1>2, <1>4, <1>7, <2>1 DEF CallbackStep, ReceiveCallback,
     AcknowledgeRepeat, ConfirmPayment, RefuseConfirmation, RecordReport, AnnouncePaid
<1>8. ASSUME NEW h \in Processes, CommitCancel(h) PROVE WatcherMove
  <2>1. order'[request[h].order].status # "pending_payment"
    BY <1>8, CanceledRow
  <2> QED BY <1>3, <1>8, <2>1 DEF CommitCancel
<1>9. ASSUME NEW h \in Processes, NEW o \in Orders, NEW op, StartCancel(h, o, op)
      PROVE  WatcherMove
  BY <1>2, <1>4, <1>9 DEF StartCancel
<1>10. ASSUME NEW h \in Processes, CancelStep(h) \/ AdminStep(h) \/ WorkerStep(h)
       PROVE  WatcherMove
  BY <1>1, <1>2, <1>4, <1>8, <1>9, <1>10 DEF CancelStep, BeginUserCancel, BeginLazyCancel,
     AdminStep, BeginAdminPay, BeginAdminCancel, CommitAdminPay,
     WorkerStep, RunTimeout, SkipTimeout, LoseTimeout
<1>11. ASSUME NEW h \in Processes, Abort(h) PROVE WatcherMove
  <2>1. aborts' > 0
    BY <1>11 DEF Abort, TypeOK, EnvTypeOK
  <2> QED BY <1>3, <1>11, <2>1 DEF Abort
<1> QED BY <1>1, <1>5, <1>6, <1>7, <1>10, <1>11
        DEF Next, Processes, PayerPays, Expire, vars

\* Deaths are counted.
LEMMA AbortsGrow ==
  ASSUME TypeOK, [Next]_vars, aborts > 0
  PROVE  aborts' > 0
<1>1. ASSUME NEW h \in Processes, PlaceStep(h) \/ PayStep(h) PROVE aborts' = aborts
  BY <1>1 DEF PlaceStep, BeginPlace, PlaceOrder, RejectOrder, ScheduleTimeout,
     ScheduleTimeoutFails, PayStep, PayByWallet, PayWithBalance, PayOnline, OpenPaymentFor,
     GatewayAccepts, GatewayRefuses, AnnouncePaid, envVars
<1>2. ASSUME NEW h \in Processes, CallbackStep(h) PROVE aborts' = aborts
  BY <1>2 DEF CallbackStep, ReceiveCallback, ReadOrder,
     AcknowledgeRepeat, ConfirmPayment, RefuseConfirmation, RecordReport, AnnouncePaid, envVars
<1>3. ASSUME NEW h \in Processes, CancelStep(h) \/ AdminStep(h) \/ WorkerStep(h)
      PROVE  aborts' = aborts
  BY <1>3 DEF CancelStep, BeginUserCancel, BeginLazyCancel, StartCancel, CommitCancel,
     AdminStep, BeginAdminPay, BeginAdminCancel, CommitAdminPay,
     WorkerStep, RunTimeout, SkipTimeout, LoseTimeout, envVars
<1>4. \/ \E h \in Processes : PlaceStep(h) \/ PayStep(h) \/ CallbackStep(h) \/ CancelStep(h)
                               \/ AdminStep(h) \/ WorkerStep(h) \/ Abort(h)
      \/ \E p \in PaymentIds : PayerPays(p)
      \/ \E o \in Orders : Expire(o)
      \/ UNCHANGED vars
  BY DEF Next, Processes
<1>5. aborts \in Nat /\ (aborts' = aborts \/ aborts' = aborts + 1)
  BY <1>1, <1>2, <1>3, <1>4 DEF Abort, PayerPays, Expire, vars, envVars, TypeOK, EnvTypeOK
<1> QED BY <1>5

\* An unpaid order is never forgotten by a step.
LEMMA WatchStep ==
  ASSUME TypeOK, ExistInv, PendingIsWatched, [Next]_vars
  PROVE  PendingIsWatched'
<1> SUFFICES ASSUME NEW o \in Orders, order'[o].status = "pending_payment"
             PROVE  \/ timer'[o] \in {"scheduled", "lost"}
                    \/ \E h \in Processes : /\ request'[h].order = o
                                            /\ request'[h].op \in {"schedule", "cancel"}
                    \/ aborts' > 0
  BY DEF PendingIsWatched
<1>1. ASSUME NEW h \in Processes, PlaceOrder(h), request[h].order = o
      PROVE  request'[h].order = o /\ request'[h].op = "schedule"
  BY <1>1, BusyFields DEF PlaceOrder, TypeOK, RequestTypeOK
<1>2. CASE order[o].status = "pending_payment"
  <2>1. CASE timer[o] \in {"scheduled", "lost"}
    BY <2>1, TimerMoves DEF TimerMove
  <2>2. ASSUME NEW h \in Processes, request[h].order = o, request[h].op \in {"schedule", "cancel"}
        PROVE  \/ timer'[o] \in {"scheduled", "lost"}
               \/ request'[h].order = o /\ request'[h].op \in {"schedule", "cancel"}
               \/ aborts' > 0
    BY <2>2, WatcherMoves DEF WatcherMove
  <2>3. aborts > 0 => aborts' > 0
    BY AbortsGrow DEF TypeOK
  <2> QED BY <1>2, <2>1, <2>2, <2>3 DEF PendingIsWatched
<1> QED BY <1>1, <1>2, StaysPending

\* An order that waits for payment is never forgotten, in any number of shops'
\* overlapping requests: its timeout task is queued or its createOrder still about
\* to queue or to cancel it, unless a process died or the task was lost.
THEOREM UnpaidIsWatched == Spec => []PendingIsWatched
<1>1. Init => PendingIsWatched
  BY DEF Init, PendingIsWatched
<1>2. TypeOK /\ ExistInv /\ PendingIsWatched /\ [Next]_vars => PendingIsWatched'
  BY WatchStep
<1> QED BY <1>1, <1>2, TypeCorrect, ExistAlways, PTL DEF Spec

-----------------------------------------------------------------------------
(* The coupon.  The counter is exact because an order's usage is added once *)
(* and taken back at most once; so the usages are those of orders placed.   *)

\* The counter counts a finite set of orders that exist.
CouponInv ==
  /\ CouponCountExact
  /\ IsFiniteSet(coupon.usages)
  /\ \A o \in coupon.usages : Exists(o)

\* A usage is added when its order is placed, and removed when it is canceled.
LEMMA CouponStep ==
  ASSUME TypeOK, ExistInv, CouponInv, [Next]_vars
  PROVE  CouponInv'
<1>1. /\ coupon.usages \subseteq Orders /\ IsFiniteSet(coupon.usages)
      /\ coupon.used = Cardinality(coupon.usages) /\ coupon.used \in Nat
  BY DEF CouponInv, CouponCountExact, TypeOK, CouponTypeOK
<1>2. ASSUME coupon' = coupon, StatusLater PROVE CouponInv'
  <2>1. \A o \in Orders : order'[o].status = "pending_payment" => order[o].status = "pending_payment"
    BY <1>2 DEF StatusLater
  <2>2. \A o \in coupon'.usages : Exists(o)'
    BY <1>1, <1>2, ExistsStays DEF CouponInv, Exists
  <2> QED BY <1>1, <1>2, <2>1, <2>2, CheckoutAssumption DEF CouponInv, CouponCountExact
<1>3. ASSUME NEW h \in Processes, PlaceOrder(h) PROVE CouponInv'
  <2> DEFINE o == request[h].order
             add == [used |-> coupon.used + 1, usages |-> coupon.usages \union {o}]
  <2>1. o \in Orders /\ ~Exists(o) /\ o \notin coupon.usages
    BY <1>3, RequestOrder DEF PlaceOrder, ExistInv, PlacedOnce, CouponInv
  <2>2. order'[o].status # "none" /\ \A q \in Orders : q # o => order'[q] = order[q]
    BY <1>3, <2>1 DEF PlaceOrder, TypeOK, OrderTypeOK, OrderRow
  <2>3. coupon' = IF o \in CouponOrders THEN add ELSE coupon
    BY <1>3 DEF PlaceOrder
  <2>4. /\ IsFiniteSet(coupon.usages \union {o})
        /\ Cardinality(coupon.usages \union {o}) = coupon.used + 1
    BY <1>1, <2>1, FS_AddElement
  <2> HIDE DEF o
  <2>5. \A q \in coupon'.usages : Exists(q)'
    BY <1>1, <2>2, <2>3 DEF CouponInv, Exists
  <2>6. \A q \in CouponOrders : order'[q].status = "pending_payment" => q \in coupon'.usages
    BY <2>2, <2>3, CheckoutAssumption DEF CouponInv, CouponCountExact
  <2>7. coupon'.used = Cardinality(coupon'.usages) /\ IsFiniteSet(coupon'.usages)
    BY <1>1, <2>3, <2>4
  <2> QED BY <2>5, <2>6, <2>7 DEF CouponInv, CouponCountExact
<1>4. ASSUME NEW h \in Processes, CommitCancel(h) PROVE CouponInv'
  <2> DEFINE o == request[h].order
  <2>1. /\ o \in Orders /\ order'[o].status = "canceled"
        /\ \A q \in Orders : q # o => order'[q] = order[q]
    BY <1>4, CanceledRow
  <2>2. coupon' = coupon \/ coupon' = CouponAfterRollback(o)
    BY <1>4 DEF CommitCancel
  <2> HIDE DEF o
  <2>3. ASSUME o \in coupon.usages
        PROVE  /\ IsFiniteSet(coupon.usages \ {o})
               /\ Cardinality(coupon.usages \ {o}) = coupon.used - 1
               /\ coupon.used >= 1
    <3>1. /\ IsFiniteSet(coupon.usages \ {o})
          /\ Cardinality(coupon.usages \ {o}) = coupon.used - 1
      BY <1>1, <2>3, FS_RemoveElement
    <3>2. Cardinality(coupon.usages \ {o}) \in Nat
      BY <3>1, FS_CardinalityType
    <3> QED BY <1>1, <3>1, <3>2
  <2>4. /\ coupon'.usages \in {coupon.usages, coupon.usages \ {o}}
        /\ coupon'.used = Cardinality(coupon'.usages) /\ IsFiniteSet(coupon'.usages)
    BY <1>1, <2>2, <2>3 DEF CouponAfterRollback
  <2>5. \A q \in coupon'.usages : Exists(q)'
    BY <1>1, <2>1, <2>4 DEF CouponInv, Exists
  <2>6. \A q \in CouponOrders : order'[q].status = "pending_payment" => q \in coupon'.usages
    BY <2>1, <2>4, CheckoutAssumption DEF CouponInv, CouponCountExact
  <2> QED BY <2>4, <2>5, <2>6 DEF CouponInv, CouponCountExact
<1> QED BY <1>2, <1>3, <1>4, StepKinds DEF StepKind

\* The coupon's counter is the number of its usages in every state of every shop,
\* and every unpaid order placed with it is one of them, however many requests
\* place, cancel and time out orders at once (coupon_repository.go).
THEOREM CouponCounts == Spec => []CouponCountExact
<1>1. Init => CouponInv
  BY FS_EmptySet, CheckoutAssumption DEF Init, CouponInv, CouponCountExact
<1>2. TypeOK /\ ExistInv /\ CouponInv /\ [Next]_vars => CouponInv'
  BY CouponStep
<1>3. CouponInv => CouponCountExact
  BY DEF CouponInv
<1> QED BY <1>1, <1>2, <1>3, TypeCorrect, ExistAlways, PTL DEF Spec

-----------------------------------------------------------------------------
(* The cards an order holds.                                                *)

\* ReservationFollowsStatus, and that no card is held for an order not placed yet.
ReservationInv ==
  /\ ReservationFollowsStatus
  /\ \A o \in Orders : ~Exists(o) => \A c \in Cards : card[c].order # o

\* ListAvailableByProductForUpdate finds as many cards as were asked for.
LEMMA EnoughCards ==
  ASSUME NEW k \in AutoSkus, NEW n \in Nat, Cardinality(AvailableCards(k)) >= n
  PROVE  Cardinality(FirstCards(k, n)) = n
<1>1. AvailableCards(k) \in SUBSET Nat /\ IsFiniteSet(AvailableCards(k))
  BY CheckoutAssumption, FS_Subset DEF AvailableCards
<1>2. Cardinality(AvailableCards(k)) \in Nat
  BY <1>1, FS_CardinalityType
<1>3. FirstCards(k, n) = Firsts(AvailableCards(k), n)
  BY DEF FirstCards, Firsts, Rank
<1> QED BY <1>1, <1>2, <1>3, CountFirsts

\* Placing an order takes its cards from the available ones.
LEMMA ReservationPlaced ==
  ASSUME TypeOK, ExistInv, ReservationInv, NEW h \in Processes, PlaceOrder(h)
  PROVE  ReservationInv'
<1>1. PICK o \in Orders : o = request[h].order
  BY RequestOrder DEF PlaceOrder, TypeOK
<1>2. ~Exists(o) /\ o # NoOrder
  BY <1>1, CheckoutAssumption DEF PlaceOrder, ExistInv, PlacedOnce
<1>3. /\ card' = [c \in Cards |-> IF c \in CardsFor(o)
                                    THEN [status |-> "reserved", order |-> o] ELSE card[c]]
      /\ HasStock(o)
  BY <1>1 DEF PlaceOrder
<1>4. order'[o].status = "pending_payment" /\ \A q \in Orders : q # o => order'[q] = order[q]
  BY <1>1 DEF PlaceOrder, TypeOK, OrderTypeOK, OrderRow
<1>5. ASSUME NEW c \in CardsFor(o) PROVE c \in Cards /\ card[c].status = "available"
  BY DEF CardsFor, FirstCards, AvailableCards
<1>6. \A c \in Cards : card'[c].status = "available" <=> card'[c].order = NoOrder
  BY <1>2, <1>3 DEF ReservationInv, ReservationFollowsStatus
<1>7. ASSUME NEW q \in Orders, q # o
      PROVE  \A c \in Cards : card'[c].order = q => card'[c] = card[c]
  BY <1>3, <1>7
<1>8. ASSUME NEW q \in Orders, q # o, NEW k \in AutoSkus
      PROVE  CardsHeld(q, k)' = CardsHeld(q, k)
  <2>1. ASSUME NEW c \in Cards PROVE card'[c] = [status |-> "reserved", order |-> q]
                                     <=> card[c] = [status |-> "reserved", order |-> q]
    <3>1. CASE c \in CardsFor(o)
      <4>1. card'[c].order = o BY <1>3, <3>1
      <4> QED BY <1>5, <1>8, <3>1, <4>1
    <3>2. CASE c \notin CardsFor(o)
      BY <1>3, <3>2
    <3> QED BY <3>1, <3>2
  <2> QED BY <2>1 DEF CardsHeld
<1>9. ASSUME NEW k \in AutoSkus
      PROVE  Cardinality(CardsHeld(o, k)') = Quantity[o][k]
  <2>1. Quantity[o][k] \in Nat
    BY CheckoutAssumption DEF Skus
  <2>2. ASSUME NEW c \in Cards
        PROVE  card'[c] = [status |-> "reserved", order |-> o] <=> c \in CardsFor(o)
    BY <1>2, <1>3 DEF ReservationInv
  <2>3. ASSUME NEW c \in Cards
        PROVE  c \in CardsFor(o) /\ CardSku[c] = k <=> c \in FirstCards(k, Quantity[o][k])
    BY DEF CardsFor, FirstCards, AvailableCards
  <2>4. CardsHeld(o, k)' = FirstCards(k, Quantity[o][k])
    <3>1. CardsHeld(o, k)' \subseteq FirstCards(k, Quantity[o][k])
      BY <2>2, <2>3 DEF CardsHeld
    <3>2. FirstCards(k, Quantity[o][k]) \subseteq Cards
      BY DEF FirstCards, AvailableCards
    <3>3. FirstCards(k, Quantity[o][k]) \subseteq CardsHeld(o, k)'
      BY <2>2, <2>3, <3>2 DEF CardsHeld
    <3> QED BY <3>1, <3>3
  <2> QED BY <1>3, <2>1, <2>4, EnoughCards DEF HasStock
<1>10. ASSUME NEW q \in Orders, NEW k \in AutoSkus
       PROVE  /\ order'[q].status = "pending_payment" =>
                   Cardinality(CardsHeld(q, k)') = Quantity[q][k]
              /\ order'[q].status = "canceled" => CardsHeld(q, k)' = {}
  <2>1. CASE q = o
    BY <1>4, <1>9, <2>1
  <2>2. CASE q # o
    BY <1>4, <1>8, <2>2 DEF ReservationInv, ReservationFollowsStatus
  <2> QED BY <2>1, <2>2
<1>11. ASSUME NEW q \in Orders, order'[q].status = "none"
       PROVE  \A c \in Cards : card'[c].order # q
  BY <1>4, <1>7, <1>11 DEF ReservationInv, Exists
<1> QED BY <1>6, <1>10, <1>11 DEF ReservationInv, ReservationFollowsStatus, Exists

\* Cancelling an order frees its cards and no other's.
LEMMA ReservationCanceled ==
  ASSUME TypeOK, ExistInv, ReservationInv, NEW h \in Processes, CommitCancel(h)
  PROVE  ReservationInv'
<1>1. PICK o \in Orders : /\ o = request[h].order /\ Exists(o)
                          /\ order'[o].status = "canceled"
                          /\ \A q \in Orders : q # o => order'[q] = order[q]
  BY CanceledRow
<1>2. card' = [c \in Cards |-> IF card[c] = [status |-> "reserved", order |-> o]
                                 THEN FreeCard ELSE card[c]]
  BY <1>1 DEF CommitCancel
<1>3. o # NoOrder
  BY CheckoutAssumption
<1>4. \A c \in Cards : card'[c].status = "available" <=> card'[c].order = NoOrder
  BY <1>2 DEF ReservationInv, ReservationFollowsStatus, FreeCard
<1>5. ASSUME NEW q \in Orders, q # o, NEW k \in AutoSkus
      PROVE  CardsHeld(q, k)' = CardsHeld(q, k)
  <2>1. ASSUME NEW c \in Cards PROVE card'[c] = [status |-> "reserved", order |-> q]
                                     <=> card[c] = [status |-> "reserved", order |-> q]
    BY <1>2, <1>5 DEF FreeCard
  <2> QED BY <2>1 DEF CardsHeld
<1>6. ASSUME NEW k \in AutoSkus PROVE CardsHeld(o, k)' = {}
  BY <1>2 DEF CardsHeld, FreeCard
<1>7. ASSUME NEW q \in Orders, NEW k \in AutoSkus
      PROVE  /\ order'[q].status = "pending_payment" =>
                  Cardinality(CardsHeld(q, k)') = Quantity[q][k]
             /\ order'[q].status = "canceled" => CardsHeld(q, k)' = {}
  BY <1>1, <1>5, <1>6 DEF ReservationInv, ReservationFollowsStatus
<1>8. ASSUME NEW q \in Orders, order'[q].status = "none"
      PROVE  \A c \in Cards : card'[c].order # q
  <2>1. ~Exists(q)
    BY <1>1, <1>8 DEF Exists
  <2>2. q # NoOrder
    BY CheckoutAssumption
  <2> QED BY <1>2, <2>1, <2>2 DEF ReservationInv, FreeCard
<1> QED BY <1>4, <1>7, <1>8 DEF ReservationInv, ReservationFollowsStatus, Exists

\* ReservationInv is inductive.
LEMMA ReservationStep ==
  ASSUME TypeOK, ExistInv, ReservationInv, [Next]_vars
  PROVE  ReservationInv'
<1>1. CASE card' = card /\ StatusLater
  <2>1. \A o \in Orders, k \in AutoSkus : CardsHeld(o, k)' = CardsHeld(o, k)
    BY <1>1 DEF CardsHeld
  <2>2. \A o \in Orders : order'[o].status \in {"none", "pending_payment", "canceled"} =>
          order'[o].status = order[o].status
    BY <1>1 DEF StatusLater
  <2> QED BY <1>1, <2>1, <2>2 DEF ReservationInv, ReservationFollowsStatus, Exists
<1> QED BY <1>1, ReservationPlaced, ReservationCanceled, StepKinds DEF StepKind

\* Cards follow their orders in every state of every shop, however many requests
\* place and cancel at once: no card is held twice, an unpaid order holds exactly
\* the cards it will deliver, and a canceled one holds none.
THEOREM ReservationHolds == Spec => []ReservationFollowsStatus
<1>1. Init => ReservationInv
  BY CheckoutAssumption DEF Init, FreeCard, ReservationInv, ReservationFollowsStatus
<1>2. TypeOK /\ ExistInv /\ ReservationInv /\ [Next]_vars => ReservationInv'
  BY ReservationStep
<1>3. ReservationInv => ReservationFollowsStatus
  BY DEF ReservationInv
<1> QED BY <1>1, <1>2, <1>3, TypeCorrect, ExistAlways, PTL DEF Spec

-----------------------------------------------------------------------------
(* What an order took from the wallet.                                      *)

\* The wallet columns and the journal are left alone,
WalletKept ==
  /\ journal' = journal
  /\ \A o \in Orders : order'[o].wallet = order[o].wallet

\* or a deduction for an unpaid o is posted and recorded,
WalletTaken(o) ==
  /\ order[o].status = "pending_payment"
  /\ Deduction(o) # 0 /\ PostDeduction(o)
  /\ order'[o].wallet = Deduction(o)
  /\ \A q \in Orders : q # o => order'[q].wallet = order[q].wallet

\* A request works from a copy of o that shows amount.
Holds(o, amount) == \E h \in Processes : request[h].order = o /\ request[h].seenWallet = amount

\* or one is given back, as much as the order row or a copy of it shows.
WalletGiven(o, amount) ==
  /\ Credit(o, amount) # 0 /\ PostCredit(o, amount)
  /\ amount = order[o].wallet \/ Holds(o, amount)
  /\ order'[o].wallet = 0
  /\ \A q \in Orders : q # o => order'[q].wallet = order[q].wallet

\* Every way the wallet column of the orders moves, together with the journal.
WalletColumnMove ==
  \/ WalletKept
  \/ \E o \in Orders : WalletTaken(o)
  \/ \E o \in Orders, amount \in Nat : WalletGiven(o, amount)

\* A write of one order row that leaves its wallet column alone.
LEMMA ColumnKept ==
  ASSUME OrderTypeOK, NEW o \in Orders, NEW row, row.wallet = order[o].wallet,
         order' = [order EXCEPT ![o] = row], journal' = journal
  PROVE  WalletColumnMove
BY DEF OrderTypeOK, WalletColumnMove, WalletKept

\* A write of no order row.
LEMMA ColumnsKept ==
  ASSUME order' = order, journal' = journal
  PROVE  WalletColumnMove
BY DEF WalletColumnMove, WalletKept

\* CreatePayment with UseBalance, in either form.
LEMMA ColumnTaken ==
  ASSUME TypeOK, NEW o \in Orders, Payable(o), NEW row, row.wallet = FundedRow(o).wallet,
         order' = [order EXCEPT ![o] = row], PostDeduction(o)
  PROVE  WalletColumnMove
<1>1. CASE Deduction(o) = 0
  <2>1. FundedRow(o) = order[o] /\ journal' = journal
    BY <1>1 DEF FundedRow, PostDeduction
  <2> QED BY <2>1, ColumnKept DEF TypeOK
<1>2. CASE Deduction(o) # 0
  <2>1. FundedRow(o).wallet = Deduction(o)
    BY <1>2, OrderRowFacts DEF FundedRow, OrderRow, TypeOK
  <2>2. WalletTaken(o)
    BY <1>2, <2>1 DEF WalletTaken, TypeOK, OrderTypeOK, Payable
  <2> QED BY <2>2 DEF WalletColumnMove
<1> QED BY <1>1, <1>2

\* The releases, by a request that holds such a copy of the order or reads it anew.
LEMMA ColumnGiven ==
  ASSUME TypeOK, NEW o \in Orders, NEW amount \in Nat, NEW row,
         amount = 0 \/ amount = order[o].wallet \/ Holds(o, amount),
         row.wallet = ReleasedRow(o, amount).wallet,
         order' = [order EXCEPT ![o] = row], PostCredit(o, amount)
  PROVE  WalletColumnMove
<1>1. CASE Credit(o, amount) = 0
  <2>1. ReleasedRow(o, amount) = order[o] /\ journal' = journal
    BY <1>1 DEF ReleasedRow, PostCredit
  <2> QED BY <2>1, ColumnKept DEF TypeOK
<1>2. CASE Credit(o, amount) # 0
  <2>1. ReleasedRow(o, amount).wallet = 0 /\ amount # 0
    BY <1>2, OrderRowFacts DEF ReleasedRow, OrderRow, TypeOK, Credit
  <2>2. WalletGiven(o, amount)
    BY <1>2, <2>1 DEF WalletGiven, TypeOK, OrderTypeOK
  <2> QED BY <2>2 DEF WalletColumnMove
<1> QED BY <1>1, <1>2

\* A write of an order's status and online amount leaves its wallet column alone.
LEMMA WalletColumn ==
  ASSUME NEW row \in OrderRow, NEW o, NEW seen, NEW n, NEW st
  PROVE  /\ PaidRow(o, row, seen).wallet = row.wallet
         /\ [row EXCEPT !.online = n].wallet = row.wallet
         /\ [row EXCEPT !.status = st].wallet = row.wallet
         /\ [row EXCEPT !.expired = TRUE].wallet = row.wallet
         /\ [row EXCEPT !.status = st, !.online = n].wallet = row.wallet
         /\ [row EXCEPT !.status = st, !.paid = TRUE].wallet = row.wallet
BY DEF OrderRow, PaidRow

\* What request h holds of its order.
LEMMA HoldsCopy ==
  ASSUME TypeOK, NEW h \in Processes
  PROVE  /\ Holds(request[h].order, request[h].seenWallet)
         /\ request[h].seenWallet \in Nat
BY RequestFacts DEF Holds, TypeOK, Request

\* Every step moves the wallet columns with the journal.
LEMMA WalletColumnMoves ==
  ASSUME TypeOK, [Next]_vars
  PROVE  WalletColumnMove
<1> USE DEF TypeOK
<1>1. ASSUME NEW h \in Processes, PlaceStep(h) PROVE WalletColumnMove
  <2>1. CASE PlaceOrder(h)
    <3> DEFINE row == [order[request[h].order] EXCEPT !.status = "pending_payment",
                                         !.online = TotalAmount[request[h].order]]
    <3>1. request[h].order \in Orders
      BY <2>1, RequestOrder DEF PlaceOrder
    <3>2. row.wallet = order[request[h].order].wallet
      BY <3>1, OrderRowFacts, WalletColumn
    <3>3. order' = [order EXCEPT ![request[h].order] = row] /\ journal' = journal
      BY <2>1 DEF PlaceOrder, moneyVars
    <3> HIDE DEF row
    <3> QED BY <3>1, <3>2, <3>3, ColumnKept
  <2> QED BY <1>1, <2>1, ColumnsKept DEF PlaceStep, BeginPlace, RejectOrder, ScheduleTimeout,
            ScheduleTimeoutFails, moneyVars
<1>2. ASSUME NEW h \in Processes, PayStep(h) PROVE WalletColumnMove
  <2>1. ASSUME NEW o \in Orders, NEW p \in PaymentIds, PayByWallet(h, o, p)
        PROVE  WalletColumnMove
    <3>1. PaidRow(o, FundedRow(o), FundedRow(o).wallet).wallet = FundedRow(o).wallet
      BY FundedRowType, WalletColumn
    <3> QED BY <2>1, <3>1, ColumnTaken DEF PayByWallet, MarkOrderPaid
  <2>2. ASSUME NEW o \in Orders, NEW p \in PaymentIds, NEW ch \in Channels,
               PayWithBalance(h, o, ch, p)
        PROVE  WalletColumnMove
    <3> DEFINE row == [FundedRow(o) EXCEPT !.online = TotalAmount[o] - FundedRow(o).wallet]
    <3>1. row.wallet = FundedRow(o).wallet
      BY FundedRowType, WalletColumn
    <3>2. order' = [order EXCEPT ![o] = row] /\ PostDeduction(o) /\ Payable(o)
      BY <2>2 DEF PayWithBalance, OpenPaymentFor
    <3> HIDE DEF row
    <3> QED BY <3>1, <3>2, ColumnTaken
  <2>3. ASSUME NEW o \in Orders, NEW p \in PaymentIds, NEW ch \in Channels,
               PayOnline(h, o, ch, p)
        PROVE  WalletColumnMove
    <3> DEFINE released == ReleasedRow(o, order[o].wallet)
               row == [released EXCEPT !.online = TotalAmount[o] - released.wallet]
    <3>1. order[o].wallet \in Nat
      BY OrderRowFacts DEF OrderRow
    <3>2. row.wallet = released.wallet
      BY <3>1, ReleasedRowType, WalletColumn
    <3>3. order' = [order EXCEPT ![o] = row] /\ PostCredit(o, order[o].wallet)
      BY <2>3 DEF PayOnline, OpenPaymentFor
    <3> HIDE DEF row
    <3> QED BY <3>1, <3>2, <3>3, ColumnGiven
  <2>4. CASE GatewayRefuses(h)
    <3>1. request[h].order \in Orders
      BY <2>4, RequestOrder DEF GatewayRefuses
    <3>2. order[request[h].order].wallet \in Nat
      BY <3>1, OrderRowFacts DEF OrderRow
    <3> QED BY <2>4, <3>1, <3>2, ColumnGiven DEF GatewayRefuses
  <2> QED BY <1>2, <2>1, <2>2, <2>3, <2>4, ColumnsKept DEF PayStep, GatewayAccepts, AnnouncePaid,
            moneyVars
<1>3. ASSUME NEW h \in Processes, CallbackStep(h) PROVE WalletColumnMove
  <2>1. CASE ConfirmPayment(h)
    <3> DEFINE o == request[h].order
               row == PaidRow(o, order[o], request[h].seenWallet)
    <3>1. o \in Orders
      BY <2>1, RequestOrder DEF ConfirmPayment
    <3>2. row.wallet = order[o].wallet
      BY <3>1, OrderRowFacts, WalletColumn
    <3>3. order' = [order EXCEPT ![o] = row] /\ journal' = journal
      BY <2>1 DEF ConfirmPayment, MarkOrderPaid
    <3> HIDE DEF row
    <3> QED BY <3>1, <3>2, <3>3, ColumnKept
  <2>2. CASE RecordReport(h)
    <3> DEFINE o == request[h].order
    <3>1. o \in Orders
      BY <2>2, RequestOrder DEF RecordReport
    <3>2. PICK amount : /\ amount = 0 \/ amount = request[h].seenWallet
                        /\ order' = [order EXCEPT ![o] = ReleasedRow(o, amount)]
                        /\ PostCredit(o, amount)
      BY <2>2 DEF RecordReport
    <3>3. amount \in Nat /\ (amount = 0 \/ Holds(o, amount))
      BY <3>2, HoldsCopy
    <3> QED BY <3>1, <3>2, <3>3, ColumnGiven
  <2> QED BY <1>3, <2>1, <2>2, ColumnsKept DEF CallbackStep, ReceiveCallback, ReadOrder,
            AcknowledgeRepeat, RefuseConfirmation, AnnouncePaid, moneyVars
<1>4. ASSUME NEW h \in Processes, NEW o \in Orders, NEW op, StartCancel(h, o, op)
      PROVE  WalletColumnMove
  BY <1>4, ColumnsKept DEF StartCancel, moneyVars
<1>5. ASSUME NEW h \in Processes, CommitCancel(h) PROVE WalletColumnMove
  <2> DEFINE o == request[h].order
             amount == request[h].seenWallet
             row == [ReleasedRow(o, amount) EXCEPT !.status = "canceled"]
  <2>1. o \in Orders /\ amount \in Nat /\ Holds(o, amount)
    BY <1>5, RequestOrder, HoldsCopy DEF CommitCancel, CancelOps
  <2>2. row.wallet = ReleasedRow(o, amount).wallet
    BY <2>1, ReleasedRowType, WalletColumn
  <2>3. order' = [order EXCEPT ![o] = row] /\ PostCredit(o, amount)
    BY <1>5 DEF CommitCancel
  <2> HIDE DEF row, amount, o
  <2> QED BY <2>1, <2>2, <2>3, ColumnGiven
<1>6. ASSUME NEW h \in Processes, CancelStep(h) PROVE WalletColumnMove
  BY <1>4, <1>5, <1>6 DEF CancelStep, BeginUserCancel, BeginLazyCancel
<1>7. ASSUME NEW h \in Processes, AdminStep(h) PROVE WalletColumnMove
  <2>1. CASE CommitAdminPay(h)
    <3> DEFINE row == [order[request[h].order] EXCEPT !.status = "paid", !.paid = TRUE]
    <3>1. request[h].order \in Orders
      BY <2>1, RequestOrder DEF CommitAdminPay
    <3>2. row.wallet = order[request[h].order].wallet
      BY <3>1, OrderRowFacts, WalletColumn
    <3>3. order' = [order EXCEPT ![request[h].order] = row] /\ journal' = journal
      BY <2>1 DEF CommitAdminPay, moneyVars
    <3> HIDE DEF row
    <3> QED BY <3>1, <3>2, <3>3, ColumnKept
  <2> QED BY <1>4, <1>5, <1>7, <2>1, ColumnsKept DEF AdminStep, BeginAdminPay, BeginAdminCancel, moneyVars
<1>8. ASSUME NEW h \in Processes, WorkerStep(h) PROVE WalletColumnMove
  BY <1>4, <1>5, <1>8, ColumnsKept DEF WorkerStep, RunTimeout, SkipTimeout, LoseTimeout, moneyVars
<1>9. ASSUME NEW o \in Orders, Expire(o) PROVE WalletColumnMove
  <2> DEFINE row == [order[o] EXCEPT !.expired = TRUE]
  <2>1. row.wallet = order[o].wallet
    BY OrderRowFacts, WalletColumn
  <2>2. order' = [order EXCEPT ![o] = row] /\ journal' = journal
    BY <1>9 DEF Expire, OrderTypeOK, moneyVars
  <2> HIDE DEF row
  <2> QED BY <2>1, <2>2, ColumnKept
<1> QED BY <1>1, <1>2, <1>3, <1>6, <1>7, <1>8, <1>9, ColumnsKept
        DEF Next, Processes, Abort, PayerPays, vars, moneyVars

\* What a step makes of a copy of an order: it goes on with the same one, reads
\* the order anew, or has none.
CopyMove ==
  \A h \in Processes :
    \/ request'[h] = request[h]
    \/ request'[h].seenWallet = 0
    \/ /\ request'[h].order \in Orders
       /\ request'[h].seenWallet = order[request'[h].order].wallet

\* A process moves on to a request that shows nothing, or what order o shows.
LEMMA CopyWritten ==
  ASSUME RequestTypeOK, NEW h \in Processes, NEW r, NEW o,
         r.seenWallet = 0 \/ (o \in Orders /\ r.order = o /\ r.seenWallet = order[o].wallet),
         request' = [request EXCEPT ![h] = r]
  PROVE  CopyMove
BY DEF RequestTypeOK, CopyMove

\* The requests that hold no copy: the end of one,
LEMMA CopyNone ==
  ASSUME RequestTypeOK, NEW h \in Processes, request' = [request EXCEPT ![h] = Idle]
  PROVE  CopyMove
BY CopyWritten DEF Idle

\* one about an order,
LEMMA CopyBusy ==
  ASSUME RequestTypeOK, NEW h \in Processes, NEW op, NEW o,
         request' = [request EXCEPT ![h] = Busy(op, o)]
  PROVE  CopyMove
<1>1. Busy(op, o).seenWallet = 0
  BY DEF Idle, Busy
<1> QED BY <1>1, CopyWritten

\* and one about a payment of it.
LEMMA CopyPayment ==
  ASSUME RequestTypeOK, NEW h \in Processes, NEW op, NEW o, NEW p,
         request' = [request EXCEPT ![h] = [Busy(op, o) EXCEPT !.payment = p]]
  PROVE  CopyMove
<1>1. [Busy(op, o) EXCEPT !.payment = p].seenWallet = 0
  BY DEF Idle, Busy
<1> QED BY <1>1, CopyWritten

\* The requests that begin with one.
LEMMA CopyRead ==
  ASSUME RequestTypeOK, NEW h \in Processes, NEW o \in Orders, NEW op,
         request' = [request EXCEPT ![h] = BusyWithCopy(op, o)]
  PROVE  CopyMove
<1>1. BusyWithCopy(op, o).order = o /\ BusyWithCopy(op, o).seenWallet = order[o].wallet
  BY DEF BusyWithCopy, Busy, Idle
<1> QED BY <1>1, CopyWritten

\* Every step treats the copies so.
LEMMA CopyMoves ==
  ASSUME TypeOK, [Next]_vars
  PROVE  CopyMove
<1> USE DEF TypeOK
<1>0. ASSUME request' = request PROVE CopyMove
  BY <1>0 DEF CopyMove
<1>1. ASSUME NEW h \in Processes, PlaceStep(h) PROVE CopyMove
  <2>1. CASE ScheduleTimeoutFails(h)
    BY <2>1, CopyRead, RequestOrder DEF ScheduleTimeoutFails
  <2> QED BY <1>1, <2>1, CopyNone, CopyBusy DEF PlaceStep, BeginPlace, PlaceOrder, RejectOrder, ScheduleTimeout
<1>2. ASSUME NEW h \in Processes, PayStep(h) PROVE CopyMove
  <2>1. ASSUME NEW o \in Orders, NEW p \in PaymentIds, NEW ch \in Channels, NEW row,
               OpenPaymentFor(h, o, ch, p, row)
        PROVE  CopyMove
    BY <2>1, CopyPayment DEF OpenPaymentFor
  <2>2. ASSUME NEW o \in Orders, NEW p \in PaymentIds, PayByWallet(h, o, p) PROVE CopyMove
    BY <2>2, CopyBusy DEF PayByWallet
  <2>3. CASE GatewayAccepts(h) \/ GatewayRefuses(h) \/ AnnouncePaid(h)
    BY <2>3, CopyNone DEF GatewayAccepts, GatewayRefuses, AnnouncePaid
  <2> QED BY <1>2, <2>1, <2>2, <2>3 DEF PayStep, PayWithBalance, PayOnline
<1>3. ASSUME NEW h \in Processes, CallbackStep(h) PROVE CopyMove
  <2>1. ASSUME NEW p \in PaymentIds, NEW t \in PaymentStatuses, ReceiveCallback(h, p, t)
        PROVE  CopyMove
    <3> DEFINE new == [Busy("callback", payment[p].order)
                         EXCEPT !.payment = p, !.target = t,
                                !.seenPayment = payment[p].status,
                                !.seenLapsed = payment[p].lapsed]
    <3>1. new.seenWallet = 0
      BY DEF Busy, Idle
    <3>2. request' = [request EXCEPT ![h] = new]
      BY <2>1 DEF ReceiveCallback
    <3> HIDE DEF new
    <3> QED BY <3>1, <3>2, CopyWritten
  <2>2. CASE ReadOrder(h)
    <3> DEFINE o == request[h].order
               new == [request[h] EXCEPT !.op = "apply", !.seenStatus = order[o].status,
                                         !.seenWallet = order[o].wallet]
    <3>1. o \in Orders /\ request[h] \in Request
      BY <2>2, RequestOrder, RequestFacts DEF ReadOrder
    <3>2. new.order = o /\ new.seenWallet = order[o].wallet
      BY <3>1 DEF Request
    <3>3. request' = [request EXCEPT ![h] = new]
      BY <2>2 DEF ReadOrder, RequestTypeOK
    <3> HIDE DEF new, o
    <3> QED BY <3>1, <3>2, <3>3, CopyWritten
  <2> QED BY <1>3, <2>1, <2>2, CopyNone, CopyBusy DEF CallbackStep, AcknowledgeRepeat, ConfirmPayment,
            RefuseConfirmation, RecordReport, AnnouncePaid
<1>4. ASSUME NEW h \in Processes, NEW o \in Orders, NEW op, StartCancel(h, o, op)
      PROVE  CopyMove
  BY <1>4, CopyRead DEF StartCancel
<1>5. ASSUME NEW h \in Processes, CommitCancel(h) PROVE CopyMove
  BY <1>5, CopyNone DEF CommitCancel
<1>6. ASSUME NEW h \in Processes, CancelStep(h) PROVE CopyMove
  BY <1>4, <1>5, <1>6 DEF CancelStep, BeginUserCancel, BeginLazyCancel
<1>7. ASSUME NEW h \in Processes, AdminStep(h) PROVE CopyMove
  BY <1>4, <1>5, <1>7, CopyNone, CopyBusy DEF AdminStep, BeginAdminPay, BeginAdminCancel, CommitAdminPay
<1>8. ASSUME NEW h \in Processes, WorkerStep(h) PROVE CopyMove
  BY <1>0, <1>4, <1>5, <1>8 DEF WorkerStep, RunTimeout, SkipTimeout, LoseTimeout
<1> QED BY <1>0, <1>1, <1>2, <1>3, <1>6, <1>7, <1>8, CopyNone
        DEF Next, Processes, Abort, PayerPays, Expire, vars

-----------------------------------------------------------------------------
(* The journal against the wallet columns.                                  *)

\* No reference is posted twice.
UniqueReferences ==
  \A i, j \in DOMAIN journal : journal[i].reference = journal[j].reference => i = j

\* No entry posts nothing.
NonzeroEntries == \A i \in DOMAIN journal : journal[i].amount # 0

\* A copy of an order shows what was taken for it, or nothing.
CopiesMatch ==
  \A h \in Processes :
    \/ request[h].seenWallet = 0
    \/ /\ request[h].order \in Orders
       /\ request[h].seenWallet = -Posting(PayReference(request[h].order))

\* The wallet columns and the copies of them against the journal.
MoneyInv == UniqueReferences /\ NonzeroEntries /\ WalletPaidMatchesJournal /\ CopiesMatch

\* What is posted under a reference is the amount of its entry.
LEMMA PostingFound ==
  ASSUME UniqueReferences, NEW i \in DOMAIN journal
  PROVE  Posting(journal[i].reference) = journal[i].amount
<1> DEFINE r == journal[i].reference
           chosen == CHOOSE j \in DOMAIN journal : journal[j].reference = r
<1>1. chosen \in DOMAIN journal /\ journal[chosen].reference = r
  OBVIOUS
<1>2. chosen = i
  BY <1>1 DEF UniqueReferences
<1> QED BY <1>2 DEF Posting, Posted

\* A posting under a fresh reference adds its amount there, and nothing elsewhere.
LEMMA PostingAdded ==
  ASSUME WalletTypeOK, WalletTypeOK', UniqueReferences, NonzeroEntries, NEW r, ~Posted(r),
         NEW amount, amount # 0, PostEntry(r, amount)
  PROVE  /\ UniqueReferences' /\ NonzeroEntries'
         /\ Posting(r)' = amount
         /\ \A s : s # r => Posting(s)' = Posting(s)
<1> DEFINE n == Len(journal) + 1
           entry == [reference |-> r, amount |-> amount,
                     before |-> balance, after |-> balance + amount]
<1>1. /\ DOMAIN journal = 1..Len(journal) /\ DOMAIN journal' = 1..n /\ Len(journal) \in Nat
      /\ journal'[n].reference = r /\ journal'[n].amount = amount
      /\ \A i \in 1..Len(journal) : journal'[i] = journal[i]
  <2>1. journal' = Append(journal, entry) /\ journal \in Seq(JournalEntry)
    BY DEF PostEntry, WalletTypeOK
  <2>2. entry.reference = r /\ entry.amount = amount
    OBVIOUS
  <2> HIDE DEF entry
  <2> QED BY <2>1, <2>2
<1>2. \A i \in 1..Len(journal) : journal[i].reference # r
  BY <1>1 DEF Posted
<1> HIDE DEF n, entry
<1>3. UniqueReferences'
  BY <1>1, <1>2 DEF UniqueReferences, n
<1>8. NonzeroEntries'
  BY <1>1 DEF NonzeroEntries, n
<1>4. n \in DOMAIN journal'
  BY <1>1 DEF n
<1>5. ASSUME NEW s, NEW i \in DOMAIN journal', journal'[i].reference = s
      PROVE  Posting(s)' = journal'[i].amount
  <2>1. (i \in DOMAIN journal /\ UniqueReferences => Posting(journal[i].reference) = journal[i].amount)'
    BY PostingFound, PTL
  <2> QED BY <1>3, <1>5, <2>1
<1>6. Posting(r)' = amount
  BY <1>1, <1>4, <1>5
<1>7. ASSUME NEW s, s # r PROVE Posting(s)' = Posting(s)
  <2>1. CASE Posted(s)
    <3>1. PICK i \in DOMAIN journal : journal[i].reference = s
      BY <2>1 DEF Posted
    <3>2. Posting(s) = journal[i].amount
      BY <3>1, PostingFound
    <3>3. i \in DOMAIN journal' /\ journal'[i] = journal[i]
      BY <1>1, <3>1 DEF n
    <3>4. Posting(s)' = journal'[i].amount
      BY <1>5, <3>1, <3>3
    <3> QED BY <3>2, <3>3, <3>4
  <2>2. CASE ~Posted(s)
    <3>1. ASSUME NEW i \in DOMAIN journal' PROVE journal'[i].reference # s
      <4>1. CASE i = n
        BY <1>1, <1>7, <4>1
      <4>2. CASE i # n
        <5>1. i \in 1..Len(journal)
          BY <1>1, <3>1, <4>2 DEF n
        <5> QED BY <1>1, <2>2, <5>1 DEF Posted
      <4> QED BY <4>1, <4>2
    <3>2. ~Posted(s)'
      BY <3>1 DEF Posted
    <3> QED BY <2>2, <3>2 DEF Posting
  <2> QED BY <2>1, <2>2
<1> QED BY <1>3, <1>6, <1>7, <1>8

\* References of different kinds or orders differ.
LEMMA ReferencesDiffer ==
  ASSUME NEW o, NEW q
  PROVE  /\ PayReference(o) # RefundReference(q)
         /\ o # q => /\ PayReference(o) # PayReference(q)
                     /\ RefundReference(o) # RefundReference(q)
BY DEF PayReference, RefundReference

\* The references of an order, and what is posted under them, are of their types.
LEMMA PostingType ==
  ASSUME WalletTypeOK, NEW r
  PROVE  Posting(r) \in Int
<1>1. ASSUME NEW i \in DOMAIN journal PROVE journal[i].amount \in Int
  <2>1. journal[i] \in JournalEntry
    BY DEF WalletTypeOK
  <2> QED BY <2>1 DEF JournalEntry
<1> DEFINE chosen == CHOOSE j \in DOMAIN journal : journal[j].reference = r
<1>2. Posted(r) => chosen \in DOMAIN journal
  BY DEF Posted
<1> QED BY <1>1, <1>2 DEF Posting

\* A deduction is posted where none was: all other numbers stay.
LEMMA MoneyTaken ==
  ASSUME TypeOK, WalletTypeOK', MoneyInv, CopyMove, NEW o \in Orders, WalletTaken(o)
  PROVE  MoneyInv'
<1>1. /\ ~Posted(PayReference(o)) /\ PostEntry(PayReference(o), -Deduction(o))
      /\ order[o].wallet \in Nat /\ ~(order[o].wallet > 0)
      /\ Deduction(o) \in Nat /\ -Deduction(o) # 0
  <2>1. Deduction(o) # 0 /\ Deduction(o) \in Nat /\ order[o].wallet \in Nat
    BY DeductionBounds, OrderRowFacts DEF WalletTaken, TypeOK, OrderRow
  <2> QED BY <2>1 DEF WalletTaken, Deduction, PostDeduction
<1>2. /\ UniqueReferences' /\ NonzeroEntries' /\ Posting(PayReference(o))' = -Deduction(o)
      /\ \A s : s # PayReference(o) => Posting(s)' = Posting(s)
  BY <1>1, PostingAdded DEF TypeOK, MoneyInv
<1>3. \A q \in Orders : Posting(RefundReference(q))' = Posting(RefundReference(q))
  BY <1>2, ReferencesDiffer
<1>4. \A q \in Orders : q # o => Posting(PayReference(q))' = Posting(PayReference(q))
  BY <1>2, ReferencesDiffer
<1>5. Posting(PayReference(o)) = 0 /\ Posting(RefundReference(o)) = 0 /\ order[o].wallet = 0
  <2>1. Posting(PayReference(o)) = 0
    BY <1>1 DEF Posting
  <2> QED BY <1>1, <2>1 DEF MoneyInv, WalletPaidMatchesJournal
<1>6. WalletPaidMatchesJournal'
  <2>1. ASSUME NEW q \in Orders
        PROVE  /\ order'[q].wallet = -(Posting(PayReference(q))' + Posting(RefundReference(q))')
               /\ Posting(RefundReference(q))' \in {0, -(Posting(PayReference(q))')}
    <3>1. CASE q = o
      BY <1>1, <1>2, <1>3, <1>5, <3>1 DEF WalletTaken
    <3>2. CASE q # o
      BY <1>3, <1>4, <3>2 DEF WalletTaken, MoneyInv, WalletPaidMatchesJournal
    <3> QED BY <3>1, <3>2
  <2> QED BY <2>1 DEF WalletPaidMatchesJournal
<1>7. ASSUME NEW q \in Orders, NEW n, n = 0 \/ n = -Posting(PayReference(q))
      PROVE  n = 0 \/ n = -(Posting(PayReference(q))')
  BY <1>4, <1>5, <1>7
<1>8. \A q \in Orders : order[q].wallet = 0 \/ order[q].wallet = -Posting(PayReference(q))
  <2>1. ASSUME NEW q \in Orders
        PROVE  Posting(PayReference(q)) \in Int /\ Posting(RefundReference(q)) \in Int
    BY PostingType DEF TypeOK
  <2> QED BY <2>1 DEF MoneyInv, WalletPaidMatchesJournal
<1>9. CopiesMatch'
  <2>1. ASSUME NEW h \in Processes, NEW r, r = request'[h]
        PROVE  \/ r.seenWallet = 0
               \/ r.order \in Orders /\ r.seenWallet = -(Posting(PayReference(r.order))')
    BY <1>7, <1>8, <2>1 DEF CopyMove, MoneyInv, CopiesMatch
  <2> QED BY <2>1 DEF CopiesMatch
<1> QED BY <1>2, <1>6, <1>9 DEF MoneyInv

\* A refund gives back all of the deduction, whichever copy names the amount.
LEMMA MoneyGiven ==
  ASSUME TypeOK, WalletTypeOK', MoneyInv, CopyMove, NEW o \in Orders, NEW amount \in Nat,
         WalletGiven(o, amount)
  PROVE  MoneyInv'
<1>1. /\ ~Posted(RefundReference(o)) /\ PostEntry(RefundReference(o), amount)
      /\ order[o].wallet \in Nat /\ order[o].wallet > 0 /\ amount > 0
  <2>1. order[o].wallet \in Nat
    BY OrderRowFacts DEF TypeOK, OrderRow
  <2> QED BY <2>1 DEF WalletGiven, Credit, PostCredit
<1>2. /\ UniqueReferences' /\ NonzeroEntries' /\ Posting(RefundReference(o))' = amount
      /\ \A s : s # RefundReference(o) => Posting(s)' = Posting(s)
  BY <1>1, PostingAdded DEF TypeOK, MoneyInv
<1>3. \A q \in Orders : Posting(PayReference(q))' = Posting(PayReference(q))
  BY <1>2, ReferencesDiffer
<1>4. \A q \in Orders : q # o => Posting(RefundReference(q))' = Posting(RefundReference(q))
  BY <1>2, ReferencesDiffer
<1>5. ASSUME NEW q \in Orders
      PROVE  Posting(PayReference(q)) \in Int /\ Posting(RefundReference(q)) \in Int
  BY PostingType DEF TypeOK
<1>6. Posting(RefundReference(o)) = 0 /\ order[o].wallet = -Posting(PayReference(o))
  <2>1. Posting(RefundReference(o)) = 0
    BY <1>1 DEF Posting
  <2> QED BY <1>5, <2>1 DEF MoneyInv, WalletPaidMatchesJournal
<1>7. amount = -Posting(PayReference(o))
  <2>1. CASE amount = order[o].wallet
    BY <1>6, <2>1
  <2>2. CASE Holds(o, amount)
    BY <1>1, <2>2 DEF Holds, MoneyInv, CopiesMatch
  <2> QED BY <2>1, <2>2 DEF WalletGiven
<1>8. WalletPaidMatchesJournal'
  <2>1. ASSUME NEW q \in Orders
        PROVE  /\ order'[q].wallet = -(Posting(PayReference(q))' + Posting(RefundReference(q))')
               /\ Posting(RefundReference(q))' \in {0, -(Posting(PayReference(q))')}
    <3>1. CASE q = o
      BY <1>2, <1>3, <1>5, <1>7, <3>1 DEF WalletGiven
    <3>2. CASE q # o
      BY <1>3, <1>4, <3>2 DEF WalletGiven, MoneyInv, WalletPaidMatchesJournal
    <3> QED BY <3>1, <3>2
  <2> QED BY <2>1 DEF WalletPaidMatchesJournal
<1>9. \A q \in Orders : order[q].wallet = 0 \/ order[q].wallet = -Posting(PayReference(q))
  BY <1>5 DEF MoneyInv, WalletPaidMatchesJournal
<1>10. CopiesMatch'
  <2>1. ASSUME NEW h \in Processes, NEW r, r = request'[h]
        PROVE  \/ r.seenWallet = 0
               \/ r.order \in Orders /\ r.seenWallet = -(Posting(PayReference(r.order))')
    BY <1>3, <1>9, <2>1 DEF CopyMove, MoneyInv, CopiesMatch
  <2> QED BY <2>1 DEF CopiesMatch
<1> QED BY <1>2, <1>8, <1>10 DEF MoneyInv

\* A step that leaves the journal alone.
LEMMA MoneyKept ==
  ASSUME TypeOK, MoneyInv, CopyMove, WalletKept
  PROVE  MoneyInv'
<1>1. \A s : Posting(s)' = Posting(s)
  BY DEF WalletKept, Posting, Posted
<1>2. ASSUME NEW q \in Orders
      PROVE  Posting(PayReference(q)) \in Int /\ Posting(RefundReference(q)) \in Int
  BY PostingType DEF TypeOK
<1>3. \A q \in Orders : order[q].wallet = 0 \/ order[q].wallet = -Posting(PayReference(q))
  BY <1>2 DEF MoneyInv, WalletPaidMatchesJournal
<1>4. CopiesMatch'
  <2>1. ASSUME NEW h \in Processes, NEW r, r = request'[h]
        PROVE  \/ r.seenWallet = 0
               \/ r.order \in Orders /\ r.seenWallet = -(Posting(PayReference(r.order))')
    BY <1>1, <1>3, <2>1 DEF CopyMove, MoneyInv, CopiesMatch
  <2> QED BY <2>1 DEF CopiesMatch
<1>5. UniqueReferences' /\ NonzeroEntries'
  BY DEF WalletKept, MoneyInv, UniqueReferences, NonzeroEntries
<1>6. WalletPaidMatchesJournal'
  BY <1>1 DEF WalletKept, MoneyInv, WalletPaidMatchesJournal
<1> QED BY <1>4, <1>5, <1>6 DEF MoneyInv

\* MoneyInv is inductive.
LEMMA MoneyStep ==
  ASSUME TypeOK, TypeOK', MoneyInv, [Next]_vars
  PROVE  MoneyInv'
<1>1. WalletColumnMove /\ CopyMove /\ WalletTypeOK'
  BY WalletColumnMoves, CopyMoves DEF TypeOK
<1> QED BY <1>1, MoneyTaken, MoneyGiven, MoneyKept DEF WalletColumnMove

\* MoneyInv holds in every state of every shop.
LEMMA MoneyAlways == Spec => []MoneyInv
<1>1. Init => MoneyInv
  BY DEF Init, Idle, MoneyInv, UniqueReferences, NonzeroEntries, WalletPaidMatchesJournal,
         CopiesMatch, Posting, Posted
<1>2. TypeOK /\ TypeOK' /\ MoneyInv /\ [Next]_vars => MoneyInv'
  BY MoneyStep
<1> QED BY <1>1, <1>2, TypeCorrect, PTL DEF Spec

\* What an order shows as paid from the wallet is what the journal took for it
\* and did not give back, in every state of every shop, whatever stale copies of
\* the order its callbacks, cancellations and timeouts release it by.
THEOREM WalletMatchesJournal == Spec => []WalletPaidMatchesJournal
<1>1. MoneyInv => WalletPaidMatchesJournal
  BY DEF MoneyInv
<1> QED BY <1>1, MoneyAlways, PTL

-----------------------------------------------------------------------------
(* The two amounts of an unpaid order.                                      *)

\* An order's row that keeps its status, and its amounts or their sum.
AmountsKept(o, row) ==
  /\ row.status = order[o].status
  /\ \/ row.wallet = order[o].wallet /\ row.online = order[o].online
     \/ row.wallet + row.online = TotalAmount[o]

\* What a step does to the amounts: it keeps them so, or places the order with
\* all of it asked for online, or leaves an order that waits for no payment.
AmountsMove ==
  \A o \in Orders :
    \/ order'[o] = order[o]
    \/ Exists(o) /\ AmountsKept(o, order'[o])
    \/ order'[o].status \notin {"none", "pending_payment"}
    \/ /\ ~Exists(o) /\ order'[o].status = "pending_payment"
       /\ order'[o].wallet = order[o].wallet /\ order'[o].online = TotalAmount[o]

\* Writing one row that keeps them.
LEMMA AmountsWritten ==
  ASSUME OrderTypeOK, NEW o \in Orders, Exists(o), NEW row, AmountsKept(o, row),
         order' = [order EXCEPT ![o] = row]
  PROVE  AmountsMove
BY DEF OrderTypeOK, AmountsMove

\* ... and one that takes the order beyond payment.
LEMMA AmountsLeft ==
  ASSUME OrderTypeOK, NEW o \in Orders, NEW row, row.status \notin {"none", "pending_payment"},
         order' = [order EXCEPT ![o] = row]
  PROVE  AmountsMove
BY DEF OrderTypeOK, AmountsMove

\* ... and none.
LEMMA AmountsSame ==
  ASSUME order' = order
  PROVE  AmountsMove
BY DEF AmountsMove

\* ReleaseOrderBalance keeps them.
LEMMA ReleasedAmounts ==
  ASSUME OrderTypeOK, NEW o \in Orders, NEW amount \in Nat
  PROVE  AmountsKept(o, ReleasedRow(o, amount))
<1>1. order[o] \in OrderRow /\ TotalAmount[o] \in Nat
  BY OrderRowFacts
<1> QED BY <1>1 DEF ReleasedRow, AmountsKept, OrderRow

\* So does either form of CreatePayment that asks for the rest online.
LEMMA OpenedAmounts ==
  ASSUME NEW o \in Orders, NEW row \in OrderRow, row.status = order[o].status
  PROVE  AmountsKept(o, [row EXCEPT !.online = TotalAmount[o] - row.wallet])
<1>1. TotalAmount[o] \in Nat /\ row.wallet \in Nat
  BY CheckoutAssumption DEF OrderRow
<1> QED BY <1>1 DEF AmountsKept, OrderRow

\* markOrderPaid takes the order beyond payment.
LEMMA PaidRowLeaves ==
  ASSUME NEW o \in Orders, NEW row \in OrderRow, NEW seen
  PROVE  PaidRow(o, row, seen).status \notin {"none", "pending_payment"}
<1>1. Lines(o) # {} /\ Lines(o) \subseteq Skus
  BY CheckoutAssumption DEF Lines
<1>2. \A k \in Lines(o) : PaidLines(o)[k] \in {"paid", "fulfilling"}
  BY <1>1 DEF PaidLines
<1>3. CalcParentStatus(Lines(o), PaidLines(o), "paid") \in {"paid", "fulfilling"}
  BY <1>1, <1>2 DEF CalcParentStatus
<1> QED BY <1>3 DEF PaidRow, OrderRow

\* Every step treats the amounts so.
LEMMA AmountsMoves ==
  ASSUME TypeOK, ExistInv, [Next]_vars
  PROVE  AmountsMove
<1> USE DEF TypeOK
<1>0. ASSUME NEW h \in Processes, request[h].op \notin {"idle", "place"}
      PROVE  request[h].order \in Orders /\ Exists(request[h].order)
  BY <1>0, RequestOrder DEF ExistInv, OthersExist
<1>1. ASSUME NEW h \in Processes, PlaceStep(h) PROVE AmountsMove
  <2>1. CASE PlaceOrder(h)
    <3>1. PICK o \in Orders : o = request[h].order
      BY <2>1, RequestOrder DEF PlaceOrder
    <3>2. ~Exists(o)
      BY <2>1, <3>1 DEF PlaceOrder, ExistInv, PlacedOnce
    <3>3. /\ order'[o].status = "pending_payment" /\ order'[o].wallet = order[o].wallet
          /\ order'[o].online = TotalAmount[o]
          /\ \A q \in Orders : q # o => order'[q] = order[q]
      BY <2>1, <3>1 DEF PlaceOrder, OrderTypeOK, OrderRow
    <3> QED BY <3>2, <3>3 DEF AmountsMove
  <2> QED BY <1>1, <2>1, AmountsSame DEF PlaceStep, BeginPlace, RejectOrder, ScheduleTimeout,
            ScheduleTimeoutFails
<1>2. ASSUME NEW h \in Processes, PayStep(h) PROVE AmountsMove
  <2>1. ASSUME NEW o \in Orders, NEW p \in PaymentIds, PayByWallet(h, o, p) PROVE AmountsMove
    BY <2>1, FundedRowType, PaidRowLeaves, AmountsLeft DEF PayByWallet, MarkOrderPaid
  <2>2. ASSUME NEW o \in Orders, NEW p \in PaymentIds, NEW ch \in Channels,
               NEW row \in OrderRow, row.status = order[o].status,
               OpenPaymentFor(h, o, ch, p, row)
        PROVE  AmountsMove
    <3> DEFINE opened == [row EXCEPT !.online = TotalAmount[o] - row.wallet]
    <3>1. AmountsKept(o, opened) /\ Exists(o)
      BY <2>2, OpenedAmounts DEF OpenPaymentFor, Payable, Exists
    <3>2. order' = [order EXCEPT ![o] = opened]
      BY <2>2 DEF OpenPaymentFor
    <3> HIDE DEF opened
    <3> QED BY <3>1, <3>2, AmountsWritten
  <2>3. ASSUME NEW o \in Orders, NEW p \in PaymentIds, NEW ch \in Channels,
               PayWithBalance(h, o, ch, p) \/ PayOnline(h, o, ch, p)
        PROVE  AmountsMove
    <3>1. order[o].wallet \in Nat
      BY OrderRowFacts DEF OrderRow
    <3> QED BY <2>2, <2>3, <3>1, FundedRowType, ReleasedRowType, SameStatus
               DEF PayWithBalance, PayOnline
  <2>4. CASE GatewayRefuses(h)
    <3> DEFINE o == request[h].order
    <3>1. o \in Orders /\ Exists(o)
      BY <1>0, <2>4 DEF GatewayRefuses
    <3>2. order[o].wallet \in Nat
      BY <3>1, OrderRowFacts DEF OrderRow
    <3>3. order' = [order EXCEPT ![o] = ReleasedRow(o, order[o].wallet)]
      BY <2>4 DEF GatewayRefuses
    <3> QED BY <3>1, <3>2, <3>3, ReleasedAmounts, AmountsWritten
  <2> QED BY <1>2, <2>1, <2>3, <2>4, AmountsSame DEF PayStep, GatewayAccepts, AnnouncePaid
<1>3. ASSUME NEW h \in Processes, CallbackStep(h) PROVE AmountsMove
  <2>1. CASE ConfirmPayment(h)
    <3> DEFINE o == request[h].order
               row == PaidRow(o, order[o], request[h].seenWallet)
    <3>1. o \in Orders
      BY <2>1, RequestOrder DEF ConfirmPayment
    <3>2. row.status \notin {"none", "pending_payment"}
      BY <3>1, OrderRowFacts, PaidRowLeaves
    <3>3. order' = [order EXCEPT ![o] = row]
      BY <2>1 DEF ConfirmPayment, MarkOrderPaid
    <3> HIDE DEF row
    <3> QED BY <3>1, <3>2, <3>3, AmountsLeft
  <2>2. CASE RecordReport(h)
    <3> DEFINE o == request[h].order
    <3>1. o \in Orders /\ Exists(o)
      BY <1>0, <2>2 DEF RecordReport
    <3>2. PICK amount : /\ amount = 0 \/ amount = request[h].seenWallet
                        /\ order' = [order EXCEPT ![o] = ReleasedRow(o, amount)]
      BY <2>2 DEF RecordReport
    <3>3. amount \in Nat
      BY <3>2, HoldsCopy
    <3> QED BY <3>1, <3>2, <3>3, ReleasedAmounts, AmountsWritten
  <2> QED BY <1>3, <2>1, <2>2, AmountsSame DEF CallbackStep, ReceiveCallback, ReadOrder,
            AcknowledgeRepeat, RefuseConfirmation, AnnouncePaid
<1>4. ASSUME NEW h \in Processes, NEW o \in Orders, NEW op, StartCancel(h, o, op)
      PROVE  AmountsMove
  BY <1>4, AmountsSame DEF StartCancel
<1>5. ASSUME NEW h \in Processes, CommitCancel(h) PROVE AmountsMove
  BY <1>5, CanceledRow DEF AmountsMove
<1>6. ASSUME NEW h \in Processes, CancelStep(h) PROVE AmountsMove
  BY <1>4, <1>5, <1>6 DEF CancelStep, BeginUserCancel, BeginLazyCancel
<1>7. ASSUME NEW h \in Processes, AdminStep(h) PROVE AmountsMove
  <2>1. CASE CommitAdminPay(h)
    <3> DEFINE row == [order[request[h].order] EXCEPT !.status = "paid", !.paid = TRUE]
    <3>1. request[h].order \in Orders
      BY <2>1, RequestOrder DEF CommitAdminPay
    <3>2. row.status \notin {"none", "pending_payment"}
      BY <3>1, OrderRowFacts DEF OrderRow
    <3>3. order' = [order EXCEPT ![request[h].order] = row]
      BY <2>1 DEF CommitAdminPay
    <3> HIDE DEF row
    <3> QED BY <3>1, <3>2, <3>3, AmountsLeft
  <2> QED BY <1>4, <1>5, <1>7, <2>1, AmountsSame DEF AdminStep, BeginAdminPay, BeginAdminCancel
<1>8. ASSUME NEW h \in Processes, WorkerStep(h) PROVE AmountsMove
  BY <1>4, <1>5, <1>8, AmountsSame DEF WorkerStep, RunTimeout, SkipTimeout, LoseTimeout
<1>9. ASSUME NEW o \in Orders, Expire(o) PROVE AmountsMove
  <2> DEFINE row == [order[o] EXCEPT !.expired = TRUE]
  <2>1. AmountsKept(o, row) /\ Exists(o)
    BY <1>9, OrderRowFacts DEF OrderRow, AmountsKept, Expire, Exists
  <2>2. order' = [order EXCEPT ![o] = row]
    BY <1>9 DEF Expire, OrderTypeOK
  <2> HIDE DEF row
  <2> QED BY <2>1, <2>2, AmountsWritten
<1> QED BY <1>1, <1>2, <1>3, <1>6, <1>7, <1>8, <1>9, AmountsSame
        DEF Next, Processes, Abort, PayerPays, vars

\* The amounts of unpaid orders add up, and those of orders not placed are nothing.
AmountsInv ==
  /\ PendingAmountsAddUp
  /\ \A o \in Orders : ~Exists(o) => order[o].wallet = 0

\* However often the buyer turns from the balance to paying online and back, and
\* however many gateway calls fail or report late, the two amounts of an unpaid
\* order add up to its total, in every state of every shop.
THEOREM AmountsAddUp == Spec => []PendingAmountsAddUp
<1>1. Init => AmountsInv
  BY DEF Init, AmountsInv, PendingAmountsAddUp
<1>2. ASSUME TypeOK, ExistInv, AmountsInv, [Next]_vars PROVE AmountsInv'
  <2>1. AmountsMove
    BY <1>2, AmountsMoves
  <2>2. ASSUME NEW o \in Orders
        PROVE  /\ order'[o].status = "pending_payment" =>
                    order'[o].wallet + order'[o].online = TotalAmount[o]
               /\ order'[o].status = "none" => order'[o].wallet = 0
    <3>1. TotalAmount[o] \in Nat
      BY CheckoutAssumption
    <3> QED BY <1>2, <2>1, <3>1 DEF AmountsMove, AmountsKept, AmountsInv, PendingAmountsAddUp, Exists
  <2> QED BY <2>2 DEF AmountsInv, PendingAmountsAddUp, Exists
<1>3. AmountsInv => PendingAmountsAddUp
  BY DEF AmountsInv
<1> QED BY <1>1, <1>2, <1>3, TypeCorrect, ExistAlways, PTL DEF Spec

-----------------------------------------------------------------------------
(* Requests that come one at a time.                                        *)

\* There is one process, which does all the work.
OneAtATime == \A g, h \in Processes : g = h

\* What a request has read is what the tables ord and pay hold.
FreshIn(r, ord, pay) ==
  /\ r.op \in CancelOps \union {"apply"} =>
       r.seenStatus = ord[r.order].status /\ r.seenWallet = ord[r.order].wallet
  /\ r.op \in {"callback", "apply"} => r.seenPayment = pay[r.payment].status
  /\ r.op = "gateway" => pay[r.payment].status = "initiated"
  /\ r.op = "adminPay" => ord[r.order].status = "pending_payment"

\* What it has read is still so when it writes.
CopiesFresh == \A h \in Processes : FreshIn(request[h], order, payment)

\* A step revives no canceled order and revokes no success.
FinalMove ==
  /\ \A o \in Orders : order[o].status = "canceled" => order'[o].status = "canceled"
  /\ \A p \in PaymentIds : payment[p].status = "success" => payment'[p].status = "success"

\* The one process moves on to a request that is fresh.
LEMMA FreshWritten ==
  ASSUME OneAtATime, RequestTypeOK, NEW h \in Processes, NEW r, FreshIn(r, order', payment'),
         request' = [request EXCEPT ![h] = r]
  PROVE  CopiesFresh'
<1>1. ASSUME NEW g \in Processes PROVE request'[g] = r
  <2>1. g = h
    BY DEF OneAtATime
  <2> QED BY <2>1 DEF RequestTypeOK
<1> QED BY <1>1 DEF CopiesFresh

\* It stays idle, or busy with what needs no copy.
LEMMA FreshIdle ==
  ASSUME OneAtATime, RequestTypeOK, NEW h \in Processes, request' = [request EXCEPT ![h] = Idle]
  PROVE  CopiesFresh'
<1>1. FreshIn(Idle, order', payment')
  BY DEF FreshIn, Idle, CancelOps
<1> QED BY <1>1, FreshWritten

\* Busy with what needs no copy.
LEMMA FreshBusy ==
  ASSUME OneAtATime, RequestTypeOK, NEW h \in Processes, NEW o,
         NEW op \in {"place", "schedule", "announce"},
         request' = [request EXCEPT ![h] = Busy(op, o)]
  PROVE  CopiesFresh'
<1>1. FreshIn(Busy(op, o), order', payment')
  BY BusyFields DEF FreshIn, CancelOps
<1> QED BY <1>1, FreshWritten

\* It begins with a copy of an order that it does not change.
LEMMA FreshCopy ==
  ASSUME OneAtATime, RequestTypeOK, NEW h \in Processes, NEW o, NEW op \in CancelOps,
         order' = order, request' = [request EXCEPT ![h] = BusyWithCopy(op, o)]
  PROVE  CopiesFresh'
<1>1. BusyWithCopy(op, o).order = o /\ BusyWithCopy(op, o).op = op
      /\ BusyWithCopy(op, o).seenStatus = order[o].status
      /\ BusyWithCopy(op, o).seenWallet = order[o].wallet
  BY DEF BusyWithCopy, Busy, Idle
<1>2. FreshIn(BusyWithCopy(op, o), order', payment')
  BY <1>1 DEF FreshIn, CancelOps
<1> QED BY <1>2, FreshWritten

\* A step that no request notices.
LEMMA FreshKept ==
  ASSUME CopiesFresh, TypeOK, request' = request, payment' = payment,
         \A o \in Orders : order'[o].status = order[o].status /\ order'[o].wallet = order[o].wallet
  PROVE  CopiesFresh'
<1>1. ASSUME NEW h \in Processes PROVE FreshIn(request[h], order', payment')
  <2>1. request[h].op # "idle" => request[h].order \in Orders
    BY RequestOrder
  <2> QED BY <2>1 DEF CopiesFresh, FreshIn, CancelOps
<1> QED BY <1>1 DEF CopiesFresh

\* Writing one order row revives it only if it was canceled and the row is not.
LEMMA FinalRow ==
  ASSUME OrderTypeOK, NEW o \in Orders, NEW row,
         order[o].status = "canceled" => row.status = "canceled",
         order' = [order EXCEPT ![o] = row],
         \A p \in PaymentIds : payment[p].status = "success" => payment'[p].status = "success"
  PROVE  FinalMove
BY DEF OrderTypeOK, FinalMove

\* Writing one payment row revokes nothing but a success.
LEMMA FinalPayment ==
  ASSUME PaymentTypeOK, NEW p \in PaymentIds, payment[p].status # "success",
         \/ \E row : payment' = [payment EXCEPT ![p] = row]
         \/ \E st, lapsed : payment' = [payment EXCEPT ![p].status = st, ![p].lapsed = lapsed]
         \/ \E st, lapsed, url :
              payment' = [payment EXCEPT ![p].status = st, ![p].url = url, ![p].lapsed = lapsed]
  PROVE  \A q \in PaymentIds : payment[q].status = "success" => payment'[q].status = "success"
BY DEF PaymentTypeOK

\* Writing neither table.
LEMMA FinalSame ==
  ASSUME order' = order, payment' = payment
  PROVE  FinalMove
BY DEF FinalMove

\* What a step of the one process keeps.
SerialKept == CopiesFresh' /\ FinalMove

\* Placing orders.
LEMMA SerialPlace ==
  ASSUME OneAtATime, TypeOK, ExistInv, CopiesFresh, NEW h \in Processes, PlaceStep(h)
  PROVE  SerialKept
<1> USE DEF SerialKept, TypeOK
<1>1. CASE PlaceOrder(h)
  <2>1. PICK o \in Orders : o = request[h].order
    BY <1>1, RequestOrder DEF PlaceOrder
  <2>2. order[o].status = "none" /\ \A q \in Orders : q # o => order'[q] = order[q]
    BY <1>1, <2>1 DEF PlaceOrder, ExistInv, PlacedOnce, Exists, OrderTypeOK
  <2>3. FinalMove
    BY <1>1, <2>2 DEF FinalMove, PlaceOrder, moneyVars
  <2> QED BY <1>1, <2>3, FreshBusy DEF PlaceOrder
<1>2. CASE ScheduleTimeoutFails(h)
  BY <1>2, FreshCopy, FinalSame DEF ScheduleTimeoutFails, CancelOps, moneyVars
<1> QED BY <1>1, <1>2, FreshIdle, FreshBusy, FinalSame DEF PlaceStep, BeginPlace, RejectOrder,
        ScheduleTimeout, PlaceStep, moneyVars

\* Paying.
LEMMA SerialPay ==
  ASSUME OneAtATime, TypeOK, ExistInv, CopiesFresh, NEW h \in Processes, PayStep(h)
  PROVE  SerialKept
<1> USE DEF SerialKept, TypeOK
<1>1. ASSUME NEW o \in Orders, NEW p \in PaymentIds, PayByWallet(h, o, p) PROVE SerialKept
  <2> DEFINE row == PaidRow(o, FundedRow(o), FundedRow(o).wallet)
             new == [NoPayment EXCEPT !.order = o, !.channel = "wallet",
                                      !.amount = FundedRow(o).wallet, !.status = "success"]
  <2>1. /\ order' = [order EXCEPT ![o] = row] /\ payment' = [payment EXCEPT ![p] = new]
        /\ order[o].status = "pending_payment" /\ payment[p].status = "none"
    BY <1>1 DEF PayByWallet, MarkOrderPaid, Payable, NextPayment
  <2> HIDE DEF row, new
  <2>2. \A q \in PaymentIds : payment[q].status = "success" => payment'[q].status = "success"
    BY <2>1, FinalPayment
  <2>3. FinalMove
    BY <2>1, <2>2, FinalRow
  <2> QED BY <1>1, <2>3, FreshBusy DEF PayByWallet
<1>2. ASSUME NEW o \in Orders, NEW p \in PaymentIds, NEW ch \in Channels, NEW row,
             OpenPaymentFor(h, o, ch, p, row), row.status = order[o].status, row \in OrderRow
      PROVE  SerialKept
  <2> DEFINE opened == [row EXCEPT !.online = TotalAmount[o] - row.wallet]
             new == [NoPayment EXCEPT !.order = o, !.channel = ch,
                                      !.amount = TotalAmount[o] - row.wallet,
                                      !.status = "initiated"]
             r == [Busy("gateway", o) EXCEPT !.payment = p]
  <2>1. /\ order' = [order EXCEPT ![o] = opened] /\ payment' = [payment EXCEPT ![p] = new]
        /\ request' = [request EXCEPT ![h] = r]
        /\ payment[p].status = "none"
    BY <1>2 DEF OpenPaymentFor, NextPayment
  <2>2. opened.status = order[o].status
    BY <1>2, SameStatus
  <2>3. new.status = "initiated"
    BY DEF NoPayment
  <2>4. r.op = "gateway" /\ r.payment = p
    BY DEF Busy, Idle
  <2> HIDE DEF opened, new, r
  <2>5. \A q \in PaymentIds : payment[q].status = "success" => payment'[q].status = "success"
    BY <2>1, FinalPayment
  <2>6. FinalMove
    BY <2>1, <2>2, <2>5, FinalRow
  <2>7. payment'[p].status = "initiated"
    BY <2>1, <2>3 DEF PaymentTypeOK
  <2>8. FreshIn(r, order', payment')
    BY <2>4, <2>7 DEF FreshIn, CancelOps
  <2> QED BY <2>1, <2>6, <2>8, FreshWritten
<1>3. ASSUME NEW o \in Orders, NEW p \in PaymentIds, NEW ch \in Channels,
             PayWithBalance(h, o, ch, p) \/ PayOnline(h, o, ch, p)
      PROVE  SerialKept
  <2>1. order[o].wallet \in Nat
    BY OrderRowFacts DEF OrderRow
  <2> QED BY <1>2, <1>3, <2>1, FundedRowType, ReleasedRowType, SameStatus
             DEF PayWithBalance, PayOnline
<1>4. CASE GatewayAccepts(h)
  <2>1. request[h].payment \in PaymentIds /\ payment[request[h].payment].status # "success"
    BY <1>4, RequestFacts DEF GatewayAccepts, PaymentOps, CopiesFresh, FreshIn
  <2>2. \A q \in PaymentIds : payment[q].status = "success" => payment'[q].status = "success"
    BY <1>4, <2>1 DEF GatewayAccepts, PaymentTypeOK
  <2> QED BY <1>4, <2>2, FreshIdle DEF GatewayAccepts, FinalMove
<1>5. CASE GatewayRefuses(h)
  <2>1. request[h].payment \in PaymentIds /\ payment[request[h].payment].status # "success"
    BY <1>5, RequestFacts DEF GatewayRefuses, PaymentOps, CopiesFresh, FreshIn
  <2>2. \A q \in PaymentIds : payment[q].status = "success" => payment'[q].status = "success"
    BY <1>5, <2>1 DEF GatewayRefuses, PaymentTypeOK
  <2> DEFINE o == request[h].order
             row == ReleasedRow(o, order[o].wallet)
  <2>3. o \in Orders /\ row.status = order[o].status /\ order' = [order EXCEPT ![o] = row]
    BY <1>5, RequestOrder, SameStatus DEF GatewayRefuses
  <2> HIDE DEF row
  <2>4. FinalMove
    BY <2>2, <2>3, FinalRow
  <2> QED BY <1>5, <2>4, FreshIdle DEF GatewayRefuses
<1>6. CASE AnnouncePaid(h)
  BY <1>6, FreshIdle, FinalSame DEF AnnouncePaid, moneyVars
<1> QED BY <1>1, <1>3, <1>4, <1>5, <1>6 DEF PayStep

\* Callbacks.
LEMMA SerialCallback ==
  ASSUME OneAtATime, TypeOK, ExistInv, CopiesFresh, NEW h \in Processes, CallbackStep(h)
  PROVE  SerialKept
<1> USE DEF SerialKept, TypeOK
<1>0. request[h].op = "apply" =>
        /\ request[h].order \in Orders /\ request[h].payment \in PaymentIds
        /\ request[h].seenStatus = order[request[h].order].status
        /\ request[h].seenPayment = payment[request[h].payment].status
  BY RequestOrder, RequestFacts DEF PaymentOps, CopiesFresh, FreshIn
<1>1. ASSUME NEW p \in PaymentIds, NEW t \in PaymentStatuses, ReceiveCallback(h, p, t)
      PROVE  SerialKept
  <2> DEFINE new == [Busy("callback", payment[p].order)
                       EXCEPT !.payment = p, !.target = t,
                              !.seenPayment = payment[p].status,
                              !.seenLapsed = payment[p].lapsed]
  <2>1. new.op = "callback" /\ new.payment = p /\ new.seenPayment = payment[p].status
    BY DEF Busy, Idle
  <2>2. request' = [request EXCEPT ![h] = new] /\ order' = order /\ payment' = payment
    BY <1>1 DEF ReceiveCallback, moneyVars
  <2> HIDE DEF new
  <2>3. FreshIn(new, order', payment')
    BY <2>1, <2>2 DEF FreshIn, CancelOps
  <2> QED BY <2>2, <2>3, FreshWritten, FinalSame
<1>2. CASE ReadOrder(h)
  <2> DEFINE o == request[h].order
             new == [request[h] EXCEPT !.op = "apply", !.seenStatus = order[o].status,
                                       !.seenWallet = order[o].wallet]
  <2>1. /\ request[h] \in Request /\ request[h].payment \in PaymentIds
        /\ request[h].seenPayment = payment[request[h].payment].status
    BY <1>2, RequestFacts DEF ReadOrder, PaymentOps, CopiesFresh, FreshIn
  <2>2. /\ new.op = "apply" /\ new.order = o /\ new.payment = request[h].payment
        /\ new.seenStatus = order[o].status /\ new.seenWallet = order[o].wallet
        /\ new.seenPayment = request[h].seenPayment
    BY <2>1 DEF Request
  <2>3. request' = [request EXCEPT ![h] = new] /\ order' = order /\ payment' = payment
    BY <1>2 DEF ReadOrder, RequestTypeOK, moneyVars
  <2> HIDE DEF new, o
  <2>4. FreshIn(new, order', payment')
    BY <2>1, <2>2, <2>3 DEF FreshIn, CancelOps
  <2> QED BY <2>3, <2>4, FreshWritten, FinalSame
<1>3. CASE AcknowledgeRepeat(h)
  <2>1. \A q \in PaymentIds : payment[q].status = "success" => payment'[q].status = "success"
    BY <1>0, <1>3 DEF AcknowledgeRepeat, PaymentTypeOK
  <2> QED BY <1>3, <2>1, FreshIdle DEF AcknowledgeRepeat, FinalMove
<1>4. CASE ConfirmPayment(h)
  <2> DEFINE o == request[h].order
             row == PaidRow(o, order[o], request[h].seenWallet)
  <2>1. /\ o \in Orders /\ order' = [order EXCEPT ![o] = row]
        /\ IsTransitionAllowed(order[o].status, "paid")
    BY <1>0, <1>4 DEF ConfirmPayment, MarkOrderPaid
  <2>2. order[o].status # "canceled"
    BY <2>1 DEF IsTransitionAllowed, Transitions
  <2>3. \A q \in PaymentIds : payment[q].status = "success" => payment'[q].status = "success"
    BY <1>0, <1>4 DEF ConfirmPayment, SavePayment, PaymentTypeOK
  <2> HIDE DEF row
  <2>4. FinalMove
    BY <2>1, <2>2, <2>3, FinalRow
  <2> QED BY <1>4, <2>4, FreshBusy DEF ConfirmPayment
<1>5. CASE RefuseConfirmation(h)
  BY <1>5, FreshIdle, FinalSame DEF RefuseConfirmation, moneyVars
<1>6. CASE RecordReport(h)
  <2> DEFINE o == request[h].order
  <2>1. o \in Orders /\ request[h].payment \in PaymentIds
        /\ payment[request[h].payment].status # "success"
    BY <1>0, <1>6 DEF RecordReport, IsRepeat
  <2>2. \A q \in PaymentIds : payment[q].status = "success" => payment'[q].status = "success"
    BY <1>6, <2>1 DEF RecordReport, SavePayment, PaymentTypeOK
  <2>3. PICK amount : order' = [order EXCEPT ![o] = ReleasedRow(o, amount)]
    BY <1>6 DEF RecordReport
  <2>4. FinalMove
    BY <2>1, <2>2, <2>3, SameStatus, FinalRow
  <2> QED BY <1>6, <2>4, FreshIdle DEF RecordReport
<1>7. CASE AnnouncePaid(h)
  BY <1>7, FreshIdle, FinalSame DEF AnnouncePaid, moneyVars
<1> QED BY <1>1, <1>2, <1>3, <1>4, <1>5, <1>6, <1>7 DEF CallbackStep

\* The read before a cancellation, whoever cancels.
LEMMA SerialStart ==
  ASSUME OneAtATime, TypeOK, NEW h \in Processes, NEW o \in Orders, NEW op \in CancelOps,
         StartCancel(h, o, op)
  PROVE  SerialKept
BY FreshCopy, FinalSame DEF StartCancel, SerialKept, TypeOK, moneyVars

\* The commit of one.
LEMMA SerialCommit ==
  ASSUME OneAtATime, TypeOK, ExistInv, CopiesFresh, NEW h \in Processes, CommitCancel(h)
  PROVE  SerialKept
<1>1. \A o \in Orders : order[o].status = "canceled" => order'[o].status = "canceled"
  BY CanceledRow
<1>2. \A p \in PaymentIds : payment[p].status = "success" => payment'[p].status = "success"
  BY DEF CommitCancel, OpenPayment
<1> QED BY <1>1, <1>2, FreshIdle DEF CommitCancel, FinalMove, SerialKept, TypeOK

\* The administrator.
LEMMA SerialAdmin ==
  ASSUME OneAtATime, TypeOK, ExistInv, CopiesFresh, NEW h \in Processes, AdminStep(h)
  PROVE  SerialKept
<1>1. ASSUME NEW o \in Orders, BeginAdminPay(h, o) PROVE SerialKept
  <2>1. FreshIn(Busy("adminPay", o), order', payment')
    BY <1>1, BusyFields DEF BeginAdminPay, FreshIn, CancelOps
  <2> QED BY <1>1, <2>1, FreshWritten, FinalSame DEF BeginAdminPay, SerialKept, TypeOK, moneyVars
<1>2. CASE CommitAdminPay(h)
  <2> DEFINE o == request[h].order
             row == [order[o] EXCEPT !.status = "paid", !.paid = TRUE]
  <2>1. /\ o \in Orders /\ order[o].status = "pending_payment"
        /\ order' = [order EXCEPT ![o] = row] /\ payment' = payment
    BY <1>2, RequestOrder DEF CommitAdminPay, CopiesFresh, FreshIn, moneyVars
  <2> HIDE DEF row
  <2>2. FinalMove
    BY <2>1, FinalRow DEF TypeOK
  <2> QED BY <1>2, <2>2, FreshIdle DEF CommitAdminPay, SerialKept, TypeOK
<1> QED BY <1>1, <1>2, SerialStart, SerialCommit DEF AdminStep, BeginAdminCancel, CancelOps

\* The worker.
LEMMA SerialWorker ==
  ASSUME OneAtATime, TypeOK, ExistInv, CopiesFresh, NEW h \in Processes, WorkerStep(h)
  PROVE  SerialKept
<1>1. ASSUME NEW o \in Orders, SkipTimeout(h, o) \/ LoseTimeout(h, o) PROVE SerialKept
  BY <1>1, FreshKept, FinalSame DEF SkipTimeout, LoseTimeout, SerialKept, moneyVars
<1> QED BY <1>1, SerialStart, SerialCommit DEF WorkerStep, RunTimeout, CancelOps

\* Every step of the one process, and every step of the world around it.
LEMMA SerialSteps ==
  ASSUME OneAtATime, TypeOK, ExistInv, CopiesFresh, [Next]_vars
  PROVE  SerialKept
<1>1. ASSUME NEW h \in Processes, CancelStep(h) PROVE SerialKept
  BY <1>1, SerialStart, SerialCommit DEF CancelStep, BeginUserCancel, BeginLazyCancel, CancelOps
<1>2. ASSUME NEW h \in Processes, Abort(h) PROVE SerialKept
  BY <1>2, FreshIdle, FinalSame DEF Abort, SerialKept, TypeOK, moneyVars
<1>3. ASSUME NEW o \in Orders, Expire(o) PROVE SerialKept
  <2> DEFINE row == [order[o] EXCEPT !.expired = TRUE]
  <2>1. row.status = order[o].status /\ row.wallet = order[o].wallet
    BY OrderRowFacts DEF OrderRow, TypeOK
  <2>2. order' = [order EXCEPT ![o] = row] /\ payment' = payment /\ request' = request
    BY <1>3 DEF Expire, TypeOK, OrderTypeOK, moneyVars
  <2> HIDE DEF row
  <2>3. \A q \in Orders : order'[q].status = order[q].status /\ order'[q].wallet = order[q].wallet
    BY <2>1, <2>2 DEF TypeOK, OrderTypeOK
  <2> QED BY <2>2, <2>3, FreshKept DEF SerialKept, FinalMove
<1>4. ASSUME NEW p \in PaymentIds, PayerPays(p) PROVE SerialKept
  BY <1>4, FreshKept, FinalSame DEF PayerPays, SerialKept, moneyVars
<1>5. CASE UNCHANGED vars
  BY <1>5, FreshKept, FinalSame DEF vars, SerialKept
<1> QED BY <1>1, <1>2, <1>3, <1>4, <1>5, SerialPlace, SerialPay, SerialCallback, SerialAdmin,
        SerialWorker DEF Next, Processes

\* What one process has read is still so when it writes.
LEMMA FreshAlways ==
  ASSUME OneAtATime
  PROVE  Spec => []CopiesFresh
<1>1. Init => CopiesFresh
  BY DEF Init, Idle, CopiesFresh, FreshIn, CancelOps
<1>2. TypeOK /\ ExistInv /\ CopiesFresh /\ [Next]_vars => CopiesFresh'
  BY SerialSteps DEF SerialKept
<1> QED BY <1>1, <1>2, TypeCorrect, ExistAlways, PTL DEF Spec

\* One at a time, no request revives a canceled order: that one does when they
\* overlap is for want of a second look at the status in the transactions of
\* payment_service_core.go and order_service_child.go.
THEOREM SerialCancelIsFinal ==
  ASSUME OneAtATime
  PROVE  Spec => CanceledIsFinal
<1>1. TypeOK /\ ExistInv /\ CopiesFresh /\ [Next]_vars =>
        [\A o \in Orders : order[o].status = "canceled" => order'[o].status = "canceled"]_vars
  BY SerialSteps DEF SerialKept, FinalMove
<1> QED BY <1>1, TypeCorrect, ExistAlways, FreshAlways, PTL DEF Spec, CanceledIsFinal

\* One at a time, no callback and no answer of a gateway moves a payment that
\* has succeeded to another status.
THEOREM SerialSuccessIsFinal ==
  ASSUME OneAtATime
  PROVE  Spec => SuccessIsFinal
<1>1. TypeOK /\ ExistInv /\ CopiesFresh /\ [Next]_vars =>
        [\A p \in PaymentIds : payment[p].status = "success" => payment'[p].status = "success"]_vars
  BY SerialSteps DEF SerialKept, FinalMove
<1> QED BY <1>1, TypeCorrect, ExistAlways, FreshAlways, PTL DEF Spec, SuccessIsFinal

\* An order that was given its balance back has none of it left.
LEMMA RefundedHoldsNothing ==
  ASSUME TypeOK, MoneyInv, NEW o \in Orders, Posted(RefundReference(o))
  PROVE  order[o].wallet = 0
<1>1. PICK i \in DOMAIN journal : journal[i].reference = RefundReference(o)
  BY DEF Posted
<1>2. Posting(RefundReference(o)) # 0
  BY <1>1, PostingFound DEF MoneyInv, NonzeroEntries
<1>3. Posting(PayReference(o)) \in Int /\ Posting(RefundReference(o)) \in Int
  BY PostingType DEF TypeOK
<1> QED BY <1>2, <1>3 DEF MoneyInv, WalletPaidMatchesJournal

\* A cancellation that has read the order it cancels gives all of its balance back.
LEMMA CancelGivesAllBack ==
  ASSUME TypeOK, ExistInv, MoneyInv, CopiesFresh, NEW h \in Processes, CommitCancel(h)
  PROVE  order'[request[h].order].wallet = 0
<1> DEFINE o == request[h].order
           amount == request[h].seenWallet
           row == [ReleasedRow(o, amount) EXCEPT !.status = "canceled"]
<1>1. o \in Orders /\ amount = order[o].wallet /\ order[o].wallet \in Nat
  BY CanceledRow, OrderRowFacts DEF CommitCancel, CopiesFresh, FreshIn, TypeOK, OrderRow
<1>2. order' = [order EXCEPT ![o] = row]
  BY DEF CommitCancel
<1>3. row.wallet = ReleasedRow(o, amount).wallet
  BY <1>1, ReleasedRowType, WalletColumn DEF TypeOK
<1> HIDE DEF o, amount, row
<1>4. ReleasedRow(o, amount).wallet = 0
  <2>1. CASE order[o].wallet = 0
    BY <1>1, <2>1 DEF ReleasedRow, Credit
  <2>2. CASE order[o].wallet > 0
    <3>1. ~Posted(RefundReference(o))
      BY <1>1, <2>2, RefundedHoldsNothing
    <3>2. Credit(o, amount) # 0
      BY <1>1, <2>2, <3>1 DEF Credit
    <3> QED BY <1>1, <3>2, OrderRowFacts DEF ReleasedRow, TypeOK, OrderRow
  <2> QED BY <1>1, <2>1, <2>2
<1>5. order'[o] = row
  BY <1>1, <1>2 DEF TypeOK, OrderTypeOK
<1> QED BY <1>3, <1>4, <1>5 DEF o

\* One at a time, a canceled order keeps nothing of the buyer's balance.
THEOREM SerialCancelReturnsBalance ==
  ASSUME OneAtATime
  PROVE  Spec => []CanceledHoldsNoBalance
<1>1. Init => CanceledHoldsNoBalance
  BY DEF Init, CanceledHoldsNoBalance
<1>2. ASSUME TypeOK, ExistInv, MoneyInv, CopiesFresh, CanceledHoldsNoBalance, [Next]_vars
      PROVE  CanceledHoldsNoBalance'
  <2>1. ASSUME NEW o \in Orders, order'[o].status = "canceled" PROVE order'[o].wallet = 0
    <3>1. CASE order[o].status = "canceled"
      <4>1. order[o].wallet = 0
        BY <1>2, <3>1 DEF CanceledHoldsNoBalance
      <4> QED BY <1>2, <3>1, <4>1, WalletColumnMoves
              DEF WalletColumnMove, WalletKept, WalletTaken, WalletGiven
    <3>2. CASE order[o].status # "canceled"
      <4>1. ASSUME NEW h \in Processes, PlaceOrder(h) PROVE FALSE
        BY <1>2, <2>1, <3>2, <4>1, RequestOrder DEF PlaceOrder, TypeOK, OrderTypeOK, OrderRow
      <4>2. ASSUME NEW h \in Processes, CommitCancel(h) PROVE order'[o].wallet = 0
        BY <1>2, <2>1, <3>2, <4>2, CanceledRow, CancelGivesAllBack
      <4>3. ~StatusLater
        BY <2>1, <3>2 DEF StatusLater
      <4> QED BY <1>2, <4>1, <4>2, <4>3, StepKinds DEF StepKind
    <3> QED BY <3>1, <3>2
  <2> QED BY <2>1 DEF CanceledHoldsNoBalance
<1> QED BY <1>1, <1>2, TypeCorrect, ExistAlways, MoneyAlways, FreshAlways, PTL DEF Spec

-----------------------------------------------------------------------------
(* The coupon's limit, when requests come one at a time.                    *)

\* The limit is kept, and an order that is being placed may still use the coupon.
LimitInv ==
  /\ CouponWithinLimit
  /\ \A h \in Processes : request[h].op = "place" => CouponLeft(request[h].order)

\* Uses given back, or left alone, keep both.
LEMMA LimitKept ==
  ASSUME TypeOK, TypeOK', ExistInv, LimitInv, [Next]_vars, coupon'.used <= coupon.used
  PROVE  LimitInv'
<1>1. coupon.used \in Nat /\ coupon'.used \in Nat /\ UsageLimit \in Nat
  BY CheckoutAssumption DEF TypeOK, CouponTypeOK
<1>2. CouponWithinLimit' BY <1>1 DEF LimitInv, CouponWithinLimit
<1>3. ASSUME NEW h \in Processes, request'[h].op = "place"
      PROVE  request'[h].order \in CouponOrders /\ UsageLimit > 0 => coupon'.used < UsageLimit
  <2>1. CASE request'[h] = request[h]
    <3>1. CouponLeft(request[h].order) BY <1>3, <2>1 DEF LimitInv
    <3> QED BY <1>1, <2>1, <3>1 DEF CouponLeft
  <2>2. ASSUME NEW g \in Processes, NEW o \in Orders, Begins(g, o), request'[h] # request[h]
        PROVE  request'[h].order = o /\ CouponLeft(o)
    <3>1. request'[h] = Busy("place", o) BY <2>2 DEF Begins, TypeOK, RequestTypeOK
    <3> QED BY <2>2, <3>1, BusyFields DEF Begins
  <2>3. ~Settles(request'[h]) BY <1>3 DEF Settles
  <2>4. CASE request'[h] # request[h]
    <3>1. PICK g \in Processes, o \in Orders : Begins(g, o)
      BY <2>3, <2>4, RequestMoves DEF RequestMove
    <3>2. request'[h].order = o /\ CouponLeft(o) BY <2>2, <2>4, <3>1
    <3> QED BY <1>1, <3>2 DEF CouponLeft
  <2> QED BY <2>1, <2>4
<1> QED BY <1>2, <1>3 DEF LimitInv, CouponLeft

\* The one request that places an order has seen a use left, and nobody else waits.
LEMMA LimitPlaced ==
  ASSUME OneAtATime, TypeOK, TypeOK', LimitInv, NEW h \in Processes, PlaceOrder(h)
  PROVE  LimitInv'
<1>1. coupon.used \in Nat /\ UsageLimit \in Nat
  BY CheckoutAssumption DEF TypeOK, CouponTypeOK
<1>2. CouponLeft(request[h].order) BY DEF LimitInv, PlaceOrder
<1>3. \/ request[h].order \in CouponOrders /\ coupon'.used = coupon.used + 1
      \/ coupon' = coupon
  BY DEF PlaceOrder
<1>4. CouponWithinLimit' BY <1>1, <1>2, <1>3 DEF CouponLeft, CouponWithinLimit, LimitInv
<1>5. \A g \in Processes : request'[g].op # "place" BY PlacerMovesOn DEF OneAtATime
<1> QED BY <1>4, <1>5 DEF LimitInv

\* One at a time, a coupon is used no more often than it may be, although cancelled
\* orders give their use back: that it can be is for want of a look at the counter
\* in createOrder's transaction (coupon_service.go, order_service_validate.go).
THEOREM SerialCouponLimit ==
  ASSUME OneAtATime
  PROVE  Spec => []CouponWithinLimit
<1>1. Init => LimitInv
  BY CheckoutAssumption DEF Init, Idle, LimitInv, CouponWithinLimit
<1>2. ASSUME TypeOK, TypeOK', ExistInv, LimitInv, [Next]_vars PROVE LimitInv'
  <2>1. ASSUME NEW h \in Processes, CommitCancel(h) PROVE coupon'.used <= coupon.used
    <3>1. coupon.used \in Nat BY <1>2 DEF TypeOK, CouponTypeOK
    <3>2. coupon' = coupon \/ coupon' = CouponAfterRollback(request[h].order)
      BY <2>1 DEF CommitCancel
    <3> QED BY <3>1, <3>2 DEF CouponAfterRollback
  <2>2. coupon' = coupon => coupon'.used <= coupon.used BY <1>2 DEF TypeOK, CouponTypeOK
  <2> QED BY <1>2, <2>1, <2>2, LimitKept, LimitPlaced, StepKinds DEF StepKind
<1>3. LimitInv => CouponWithinLimit BY DEF LimitInv
<1> QED BY <1>1, <1>2, <1>3, TypeCorrect, ExistAlways, PTL DEF Spec

-----------------------------------------------------------------------------
(* Stock, when requests come one at a time and no administrator intervenes. *)

\* A request that is about to schedule or to cancel is about an unpaid order.
WorkIn(r, ord) ==
  r.op \in {"schedule"} \union CancelOps => ord[r.order].status = "pending_payment"

\* Every request is so.
WorkOnPending == \A h \in Processes : WorkIn(request[h], order)

\* No status changes.
SameStatuses == \A o \in Orders : order'[o].status = order[o].status

\* Order o alone takes the status st.
OnlyTakes(o, st) ==
  /\ order'[o].status = st
  /\ \A q \in Orders : q # o => order'[q].status = order[q].status

\* The stock follows the statuses: units are reserved for an order being placed,
\* consumed for one being paid, released for an unpaid one being canceled.
StockFollows ==
  \/ stock' = stock /\ SameStatuses
  \/ \E o \in Orders :
       \/ /\ order[o].status = "none" /\ OnlyTakes(o, "pending_payment")
          /\ HasStock(o) /\ stock' = StockAfter(ReserveManualStock, o)
       \/ /\ order[o].status = "pending_payment"
          /\ OnlyTakes(o, "paid") \/ OnlyTakes(o, "fulfilling")
          /\ stock' = StockAfter(ConsumeManualStock, o)
       \/ /\ order[o].status = "pending_payment" /\ OnlyTakes(o, "canceled")
          /\ stock' = StockAfter(ReleaseManualStock, o)

\* What a step of the one process keeps of stock and work.
StockTracked == WorkOnPending' /\ StockFollows

\* The one process moves on to a request about an unpaid order, or to none such.
LEMMA WorkWritten ==
  ASSUME OneAtATime, RequestTypeOK, NEW h \in Processes, NEW r, WorkIn(r, order'),
         request' = [request EXCEPT ![h] = r]
  PROVE  WorkOnPending'
<1>1. ASSUME NEW g \in Processes PROVE request'[g] = r
  <2>1. g = h
    BY DEF OneAtATime
  <2> QED BY <2>1 DEF RequestTypeOK
<1> QED BY <1>1 DEF WorkOnPending

\* It ends its request, or begins one that is no such work.
LEMMA WorkElse ==
  ASSUME OneAtATime, RequestTypeOK, NEW h \in Processes,
         \/ request' = [request EXCEPT ![h] = Idle]
         \/ \E o \in Orders : \/ request' = [request EXCEPT ![h] = Busy("place", o)]
                              \/ request' = [request EXCEPT ![h] = Busy("announce", o)]
  PROVE  WorkOnPending'
<1>1. ASSUME NEW o
      PROVE  /\ WorkIn(Idle, order') /\ WorkIn(Busy("place", o), order')
             /\ WorkIn(Busy("announce", o), order')
  BY DEF WorkIn, Idle, Busy, CancelOps
<1>2. ASSUME NEW r, WorkIn(r, order'), request' = [request EXCEPT ![h] = r] PROVE WorkOnPending'
  BY <1>2, WorkWritten
<1> QED BY <1>1, <1>2

\* It begins to cancel an unpaid order.
LEMMA WorkBegun ==
  ASSUME OneAtATime, TypeOK, NEW h \in Processes, NEW o \in Orders, NEW op \in CancelOps,
         order[o].status = "pending_payment", StartCancel(h, o, op)
  PROVE  StockTracked
<1>1. order' = order /\ stock' = stock
  BY DEF StartCancel, stockVars
<1>2. WorkIn(BusyWithCopy(op, o), order')
  BY <1>1, BusyFields DEF WorkIn
<1> QED BY <1>1, <1>2, WorkWritten DEF StartCancel, StockTracked, StockFollows, SameStatuses, TypeOK

\* Requests as they were, and statuses too.
LEMMA WorkKept ==
  ASSUME WorkOnPending, TypeOK, request' = request, stock' = stock, SameStatuses
  PROVE  StockTracked
<1>1. ASSUME NEW h \in Processes PROVE WorkIn(request[h], order')
  <2>1. request[h].op # "idle" => request[h].order \in Orders
    BY RequestOrder
  <2> QED BY <2>1 DEF WorkOnPending, WorkIn, CancelOps, SameStatuses
<1> QED BY <1>1 DEF WorkOnPending, StockTracked, StockFollows

\* markOrderPaid of an unpaid order.
LEMMA PaidFollows ==
  ASSUME OrderTypeOK, NEW o \in Orders, NEW row \in OrderRow, NEW seen,
         order[o].status = "pending_payment", MarkOrderPaid(o, row, seen)
  PROVE  StockFollows
<1>1. Lines(o) # {} /\ Lines(o) \subseteq Skus
  BY CheckoutAssumption DEF Lines
<1>2. \A k \in Lines(o) : PaidLines(o)[k] \in {"paid", "fulfilling"}
  BY <1>1 DEF PaidLines
<1>3. CalcParentStatus(Lines(o), PaidLines(o), "paid") \in {"paid", "fulfilling"}
  BY <1>1, <1>2 DEF CalcParentStatus
<1>4. order'[o].status = CalcParentStatus(Lines(o), PaidLines(o), "paid")
  BY DEF MarkOrderPaid, OrderTypeOK, PaidRow, OrderRow
<1>5. \A q \in Orders : q # o => order'[q] = order[q]
  BY DEF MarkOrderPaid, OrderTypeOK
<1> QED BY <1>3, <1>4, <1>5 DEF StockFollows, OnlyTakes, MarkOrderPaid

\* Placing orders.
LEMMA StockPlace ==
  ASSUME OneAtATime, TypeOK, ExistInv, WorkOnPending, NEW h \in Processes, PlaceStep(h)
  PROVE  StockTracked
<1> USE DEF TypeOK
<1>1. CASE PlaceOrder(h)
  <2>1. PICK o \in Orders : o = request[h].order
    BY <1>1, RequestOrder DEF PlaceOrder
  <2>2. order[o].status = "none" /\ OnlyTakes(o, "pending_payment")
    BY <1>1, <2>1 DEF PlaceOrder, ExistInv, PlacedOnce, Exists, OrderTypeOK, OrderRow, OnlyTakes
  <2>3. WorkIn(Busy("schedule", o), order')
    BY <2>2, BusyFields DEF WorkIn, OnlyTakes
  <2>4. WorkOnPending'
    BY <1>1, <2>1, <2>3, WorkWritten DEF PlaceOrder
  <2> QED BY <1>1, <2>1, <2>2, <2>4 DEF PlaceOrder, StockTracked, StockFollows
<1>2. CASE ScheduleTimeoutFails(h)
  <2>1. PICK o \in Orders : o = request[h].order
    BY <1>2, RequestOrder DEF ScheduleTimeoutFails
  <2>2. order[o].status = "pending_payment" /\ order' = order /\ stock' = stock
    BY <1>2, <2>1 DEF ScheduleTimeoutFails, WorkOnPending, WorkIn, stockVars
  <2>3. WorkIn(BusyWithCopy("cancel", o), order')
    BY <2>2, BusyFields DEF WorkIn
  <2>4. WorkOnPending'
    BY <1>2, <2>1, <2>3, WorkWritten DEF ScheduleTimeoutFails
  <2> QED BY <2>2, <2>4 DEF StockTracked, StockFollows, SameStatuses
<1>3. CASE (\E o \in Orders : BeginPlace(h, o)) \/ RejectOrder(h) \/ ScheduleTimeout(h)
  <2>1. order' = order /\ stock' = stock
    BY <1>3 DEF BeginPlace, RejectOrder, ScheduleTimeout, stockVars
  <2>2. WorkOnPending'
    BY <1>3, WorkElse DEF BeginPlace, RejectOrder, ScheduleTimeout
  <2> QED BY <2>1, <2>2 DEF StockTracked, StockFollows, SameStatuses
<1> QED BY <1>1, <1>2, <1>3 DEF PlaceStep

\* Paying.
LEMMA StockPay ==
  ASSUME OneAtATime, TypeOK, NEW h \in Processes, PayStep(h)
  PROVE  StockTracked
<1> USE DEF TypeOK
<1>1. ASSUME NEW o \in Orders, NEW p \in PaymentIds, PayByWallet(h, o, p) PROVE StockTracked
  <2>1. StockFollows
    BY <1>1, FundedRowType, PaidFollows DEF PayByWallet, Payable
  <2>2. WorkOnPending'
    BY <1>1, WorkElse DEF PayByWallet
  <2> QED BY <2>1, <2>2 DEF StockTracked
<1>2. ASSUME NEW o \in Orders, NEW p \in PaymentIds, NEW ch \in Channels, NEW row,
             OpenPaymentFor(h, o, ch, p, row), row.status = order[o].status, row \in OrderRow
      PROVE  StockTracked
  <2> DEFINE opened == [row EXCEPT !.online = TotalAmount[o] - row.wallet]
             r == [Busy("gateway", o) EXCEPT !.payment = p]
  <2>1. /\ order' = [order EXCEPT ![o] = opened] /\ stock' = stock
        /\ request' = [request EXCEPT ![h] = r]
    BY <1>2 DEF OpenPaymentFor, stockVars
  <2>2. opened.status = order[o].status
    BY <1>2, SameStatus
  <2>3. WorkIn(r, order')
    BY BusyFields DEF WorkIn, CancelOps
  <2> HIDE DEF opened, r
  <2>4. SameStatuses
    BY <2>1, <2>2 DEF SameStatuses, OrderTypeOK
  <2> QED BY <2>1, <2>3, <2>4, WorkWritten DEF StockTracked, StockFollows
<1>3. ASSUME NEW o \in Orders, NEW p \in PaymentIds, NEW ch \in Channels,
             PayWithBalance(h, o, ch, p) \/ PayOnline(h, o, ch, p)
      PROVE  StockTracked
  <2>1. order[o].wallet \in Nat
    BY OrderRowFacts DEF OrderRow
  <2> QED BY <1>2, <1>3, <2>1, FundedRowType, ReleasedRowType, SameStatus
             DEF PayWithBalance, PayOnline
<1>4. CASE GatewayRefuses(h)
  <2> DEFINE o == request[h].order
             row == ReleasedRow(o, order[o].wallet)
  <2>1. /\ o \in Orders /\ row.status = order[o].status /\ order' = [order EXCEPT ![o] = row]
        /\ stock' = stock
    BY <1>4, RequestOrder, SameStatus DEF GatewayRefuses, stockVars
  <2> HIDE DEF row
  <2>2. SameStatuses
    BY <2>1 DEF SameStatuses, OrderTypeOK
  <2> QED BY <1>4, <2>1, <2>2, WorkElse DEF GatewayRefuses, StockTracked, StockFollows
<1>5. CASE GatewayAccepts(h) \/ AnnouncePaid(h)
  <2>1. order' = order /\ stock' = stock /\ request' = [request EXCEPT ![h] = Idle]
    BY <1>5 DEF GatewayAccepts, AnnouncePaid, stockVars
  <2> QED BY <2>1, WorkElse DEF StockTracked, StockFollows, SameStatuses
<1> QED BY <1>1, <1>3, <1>4, <1>5 DEF PayStep

\* It goes on to a step of a callback.
LEMMA WorkCallback ==
  ASSUME OneAtATime, RequestTypeOK, NEW h \in Processes, NEW r,
         r.op = "callback" \/ r.op = "apply",
         request' = [request EXCEPT ![h] = r], order' = order, stock' = stock
  PROVE  StockTracked
<1>1. WorkIn(r, order')
  BY DEF WorkIn, CancelOps
<1> QED BY <1>1, WorkWritten DEF StockTracked, StockFollows, SameStatuses

\* Callbacks.
LEMMA StockCallback ==
  ASSUME OneAtATime, TypeOK, CopiesFresh, NEW h \in Processes, CallbackStep(h)
  PROVE  StockTracked
<1> USE DEF TypeOK
<1>2. ASSUME NEW p \in PaymentIds, NEW t \in PaymentStatuses, ReceiveCallback(h, p, t)
      PROVE  StockTracked
  <2> DEFINE new == [Busy("callback", payment[p].order)
                       EXCEPT !.payment = p, !.target = t,
                              !.seenPayment = payment[p].status,
                              !.seenLapsed = payment[p].lapsed]
  <2>1. new.op = "callback"
    BY DEF Busy, Idle
  <2>2. request' = [request EXCEPT ![h] = new] /\ order' = order /\ stock' = stock
    BY <1>2 DEF ReceiveCallback, stockVars
  <2> HIDE DEF new
  <2> QED BY <2>1, <2>2, WorkCallback
<1>3. CASE ReadOrder(h)
  <2> DEFINE o == request[h].order
             new == [request[h] EXCEPT !.op = "apply", !.seenStatus = order[o].status,
                                       !.seenWallet = order[o].wallet]
  <2>1. new.op = "apply"
    BY RequestFacts DEF Request
  <2>2. request' = [request EXCEPT ![h] = new] /\ order' = order /\ stock' = stock
    BY <1>3 DEF ReadOrder, RequestTypeOK, stockVars
  <2> HIDE DEF new, o
  <2> QED BY <2>1, <2>2, WorkCallback
<1>4. CASE ConfirmPayment(h)
  <2> DEFINE o == request[h].order
  <2>1. /\ o \in Orders /\ order[o] \in OrderRow
        /\ request[h].seenStatus = order[o].status
        /\ order[o].status # "paid" /\ IsTransitionAllowed(order[o].status, "paid")
    BY <1>4, RequestOrder, OrderRowFacts DEF ConfirmPayment, CopiesFresh, FreshIn, Confirms
  <2>2. order[o].status = "pending_payment"
    BY <2>1 DEF IsTransitionAllowed, Transitions, OrderRow, OrderStatuses
  <2>3. StockFollows
    BY <1>4, <2>1, <2>2, PaidFollows DEF ConfirmPayment
  <2>4. WorkOnPending'
    BY <1>4, <2>1, WorkElse DEF ConfirmPayment
  <2> QED BY <2>3, <2>4 DEF StockTracked
<1>5. CASE RecordReport(h)
  <2> DEFINE o == request[h].order
  <2>1. PICK amount : order' = [order EXCEPT ![o] = ReleasedRow(o, amount)]
    BY <1>5 DEF RecordReport
  <2>2. o \in Orders /\ stock' = stock
    BY <1>5, RequestOrder DEF RecordReport, stockVars
  <2>3. SameStatuses
    BY <2>1, <2>2, SameStatus DEF SameStatuses, OrderTypeOK
  <2> QED BY <1>5, <2>2, <2>3, WorkElse DEF RecordReport, StockTracked, StockFollows
<1>6. CASE AcknowledgeRepeat(h) \/ RefuseConfirmation(h) \/ AnnouncePaid(h)
  <2>1. order' = order /\ stock' = stock /\ request' = [request EXCEPT ![h] = Idle]
    BY <1>6 DEF AcknowledgeRepeat, RefuseConfirmation, AnnouncePaid, stockVars
  <2> QED BY <2>1, WorkElse DEF StockTracked, StockFollows, SameStatuses
<1> QED BY <1>2, <1>3, <1>4, <1>5, <1>6 DEF CallbackStep

\* Cancellations of unpaid orders.
LEMMA StockCancel ==
  ASSUME OneAtATime, TypeOK, ExistInv, WorkOnPending, NEW h \in Processes, CommitCancel(h)
  PROVE  StockTracked
<1>1. PICK o \in Orders : /\ o = request[h].order
                          /\ order'[o].status = "canceled"
                          /\ \A q \in Orders : q # o => order'[q] = order[q]
  BY CanceledRow
<1>2. order[o].status = "pending_payment"
  BY <1>1 DEF CommitCancel, WorkOnPending, WorkIn
<1>3. StockFollows
  BY <1>1, <1>2 DEF CommitCancel, StockFollows, OnlyTakes
<1> QED BY <1>3, WorkElse DEF CommitCancel, StockTracked, TypeOK

\* Every step, when there is no administrator.
LEMMA StockSteps ==
  ASSUME OneAtATime, Admins = {}, TypeOK, ExistInv, CopiesFresh, WorkOnPending, [Next]_vars
  PROVE  StockTracked
<1>1. ASSUME NEW h \in Processes, CancelStep(h) PROVE StockTracked
  BY <1>1, WorkBegun, StockCancel DEF CancelStep, BeginUserCancel, BeginLazyCancel, CancelOps
<1>2. ASSUME NEW h \in Processes, WorkerStep(h) PROVE StockTracked
  <2>1. ASSUME NEW o \in Orders, SkipTimeout(h, o) \/ LoseTimeout(h, o) PROVE StockTracked
    BY <2>1, WorkKept DEF SkipTimeout, LoseTimeout, SameStatuses, stockVars
  <2> QED BY <1>2, <2>1, WorkBegun, StockCancel DEF WorkerStep, RunTimeout, CancelOps
<1>3. ASSUME NEW h \in Processes, Abort(h) PROVE StockTracked
  BY <1>3, WorkElse DEF Abort, StockTracked, StockFollows, SameStatuses, stockVars, TypeOK
<1>4. ASSUME NEW o \in Orders, Expire(o) PROVE StockTracked
  <2> DEFINE row == [order[o] EXCEPT !.expired = TRUE]
  <2>1. row.status = order[o].status
    BY OrderRowFacts DEF OrderRow, TypeOK
  <2>2. order' = [order EXCEPT ![o] = row] /\ stock' = stock /\ request' = request
    BY <1>4 DEF Expire, TypeOK, OrderTypeOK, stockVars
  <2> HIDE DEF row
  <2>3. SameStatuses
    BY <2>1, <2>2 DEF SameStatuses, TypeOK, OrderTypeOK
  <2> QED BY <2>2, <2>3, WorkKept
<1>5. ASSUME NEW p \in PaymentIds, PayerPays(p) PROVE StockTracked
  BY <1>5, WorkKept DEF PayerPays, SameStatuses, stockVars
<1>6. CASE UNCHANGED vars
  BY <1>6, WorkKept DEF vars, SameStatuses
<1> QED BY <1>1, <1>2, <1>3, <1>4, <1>5, <1>6, StockPlace, StockPay, StockCallback
        DEF Next, Processes

-----------------------------------------------------------------------------
(* The sums behind StockMatchesOrders.                                      *)

\* The orders that hold a reservation, and those that have consumed theirs.
Unpaid == {o \in Orders : InStatus(o, {"pending_payment"})}
PaidFor == {o \in Orders : InStatus(o, {"paid", "fulfilling"})}

\* The invariant: both are finite, whatever the number of orders there could be.
StockInv == StockMatchesOrders /\ IsFiniteSet(Unpaid) /\ IsFiniteSet(PaidFor)

\* What an order adds to a sum of quantities.
LEMMA OrderedSums ==
  ASSUME NEW k \in ManualSkus, NEW S \in SUBSET Orders, IsFiniteSet(S), NEW o \in Orders
  PROVE  /\ Ordered(S, k) \in Nat
         /\ Quantity[o][k] \in Nat
         /\ o \notin S => Ordered(S \union {o}, k) = Ordered(S, k) + Quantity[o][k]
         /\ o \in S => Ordered(S, k) = Quantity[o][k] + Ordered(S \ {o}, k)
         /\ o \in S => Quantity[o][k] <= Ordered(S, k)
<1> DEFINE f == [q \in Orders |-> Quantity[q][k]]
<1>1. \A q \in Orders : f[q] \in Nat /\ f[q] = Quantity[q][k]
  BY QuantityType DEF Skus
<1>2. f[o] = Quantity[o][k] /\ \A q \in S : f[q] \in Nat /\ f[q] \in Int
  BY <1>1
<1>3. f[o] \in Nat /\ f[o] \in Int
  BY <1>1
<1>4. Ordered(S, k) = SumFunctionOnSet(f, S)
      /\ Ordered(S \union {o}, k) = SumFunctionOnSet(f, S \union {o})
      /\ Ordered(S \ {o}, k) = SumFunctionOnSet(f, S \ {o})
  BY DEF Ordered
<1> HIDE DEF f
<1>5. Ordered(S, k) \in Nat
  BY <1>2, <1>4, SumNat
<1>6. o \notin S => Ordered(S \union {o}, k) = Ordered(S, k) + Quantity[o][k]
  BY <1>2, <1>3, <1>4, SumAdd
<1>7. o \in S => Ordered(S, k) = Quantity[o][k] + Ordered(S \ {o}, k)
  BY <1>2, <1>4, SumTake
<1>8. o \in S => Quantity[o][k] <= Ordered(S, k)
  BY <1>2, <1>4, SumNat
<1> QED BY <1>2, <1>3, <1>5, <1>6, <1>7, <1>8

\* How the two sets of orders move with the status of o.
LEMMA OnlyTakesSets ==
  ASSUME OrderTypeOK, NEW o \in Orders, NEW st, OnlyTakes(o, st)
  PROVE  /\ Unpaid' = IF st = "pending_payment" THEN Unpaid \union {o} ELSE Unpaid \ {o}
         /\ PaidFor' = IF st \in {"paid", "fulfilling"} THEN PaidFor \union {o} ELSE PaidFor \ {o}
<1>1. \A q \in Orders : (q \in Unpaid' <=> order'[q].status = "pending_payment")
                        /\ (q \in Unpaid <=> order[q].status = "pending_payment")
  BY DEF Unpaid, InStatus
<1>2. \A q \in Orders : (q \in PaidFor' <=> order'[q].status \in {"paid", "fulfilling"})
                        /\ (q \in PaidFor <=> order[q].status \in {"paid", "fulfilling"})
  BY DEF PaidFor, InStatus
<1>3. Unpaid \subseteq Orders /\ PaidFor \subseteq Orders
      /\ Unpaid' \subseteq Orders /\ PaidFor' \subseteq Orders
  BY DEF Unpaid, PaidFor
<1>4. ASSUME NEW q \in Orders
      PROVE  q \in Unpaid' <=> IF st = "pending_payment" THEN q \in Unpaid \/ q = o
                                                         ELSE q \in Unpaid /\ q # o
  BY <1>1 DEF OnlyTakes
<1>5. ASSUME NEW q \in Orders
      PROVE  q \in PaidFor' <=> IF st \in {"paid", "fulfilling"} THEN q \in PaidFor \/ q = o
                                                                 ELSE q \in PaidFor /\ q # o
  BY <1>2 DEF OnlyTakes
<1>6. Unpaid' = IF st = "pending_payment" THEN Unpaid \union {o} ELSE Unpaid \ {o}
  BY <1>3, <1>4
<1>7. PaidFor' = IF st \in {"paid", "fulfilling"} THEN PaidFor \union {o} ELSE PaidFor \ {o}
  BY <1>3, <1>5
<1> QED BY <1>6, <1>7

\* A SKU whose stock is kept, and the sums it is compared with.
LEMMA StockAt ==
  ASSUME TypeOK, StockConserved, StockInv, NEW k \in ManualSkus,
         ManualTotal[k] # ManualStockUnlimited
  PROVE  /\ IsEnforced(stock[k])
         /\ stock[k].total \in Nat /\ stock[k].locked \in Nat /\ stock[k].sold \in Nat
         /\ stock[k].locked = Ordered(Unpaid, k)
         /\ stock[k].sold = Ordered(PaidFor, k)
<1>1. Accounts(stock[k], ManualTotal[k])
  BY DEF StockConserved, Accounts, Units
<1>2. stock[k] \in StockRow /\ IsEnforced(stock[k])
  BY <1>1, EnforcedRow DEF Accounts
<1> QED BY <1>2 DEF StockInv, StockMatchesOrders, Unpaid, PaidFor, StockRow, IsEnforced

\* Units move from the free stock to a new order, from an unpaid order to the
\* buyer, or back: each column follows its sum.
LEMMA StockKeepsUp ==
  ASSUME TypeOK, StockConserved, StockInv, StockFollows
  PROVE  StockInv'
<1> USE DEF TypeOK
<1>1. CASE stock' = stock /\ SameStatuses
  <2>1. \A o \in Orders : order'[o].status = order[o].status
    BY <1>1 DEF SameStatuses
  <2>2. Unpaid' = Unpaid /\ PaidFor' = PaidFor
    BY <2>1 DEF Unpaid, PaidFor, InStatus
  <2> QED BY <1>1, <2>2 DEF StockInv, StockMatchesOrders, Unpaid, PaidFor
<1>2. ASSUME NEW o \in Orders, NEW st \in {"pending_payment", "paid", "fulfilling", "canceled"},
             OnlyTakes(o, st),
             \/ /\ st = "pending_payment" /\ order[o].status = "none" /\ HasStock(o)
                /\ stock' = StockAfter(ReserveManualStock, o)
             \/ /\ st = "canceled" /\ order[o].status = "pending_payment"
                /\ stock' = StockAfter(ReleaseManualStock, o)
             \/ /\ st \in {"paid", "fulfilling"} /\ order[o].status = "pending_payment"
                /\ stock' = StockAfter(ConsumeManualStock, o)
      PROVE  StockInv'
  <2>1. /\ Unpaid' = IF st = "pending_payment" THEN Unpaid \union {o} ELSE Unpaid \ {o}
        /\ PaidFor' = IF st \in {"paid", "fulfilling"} THEN PaidFor \union {o} ELSE PaidFor \ {o}
    BY <1>2, OnlyTakesSets
  <2>2. IsFiniteSet(Unpaid') /\ IsFiniteSet(PaidFor')
    BY <2>1, FS_AddElement, FS_RemoveElement DEF StockInv
  <2>3. /\ o \notin PaidFor /\ Unpaid \subseteq Orders /\ PaidFor \subseteq Orders
        /\ o \in Unpaid <=> order[o].status = "pending_payment"
    BY <1>2 DEF Unpaid, PaidFor, InStatus
  <2>4. ASSUME NEW k \in ManualSkus, ManualTotal[k] # ManualStockUnlimited
        PROVE  stock'[k].locked = Ordered(Unpaid', k) /\ stock'[k].sold = Ordered(PaidFor', k)
    <3> DEFINE q == Quantity[o][k]
    <3>1. /\ IsEnforced(stock[k])
          /\ stock[k].total \in Nat /\ stock[k].locked \in Nat /\ stock[k].sold \in Nat
          /\ stock[k].locked = Ordered(Unpaid, k) /\ stock[k].sold = Ordered(PaidFor, k)
      BY <2>4, StockAt
    <3>2. q \in Nat /\ (k \notin Lines(o) => q = 0)
      BY QuantityType DEF Lines, Skus
    <3>3. /\ o \notin PaidFor => Ordered(PaidFor \union {o}, k) = Ordered(PaidFor, k) + q
          /\ o \notin Unpaid => Ordered(Unpaid \union {o}, k) = Ordered(Unpaid, k) + q
          /\ o \in Unpaid => Ordered(Unpaid, k) = q + Ordered(Unpaid \ {o}, k)
          /\ o \in Unpaid => q <= Ordered(Unpaid, k)
      BY <2>3, OrderedSums DEF StockInv
    <3>4. /\ PaidFor \ {o} = PaidFor
          /\ IsFiniteSet(Unpaid \ {o}) /\ Unpaid \ {o} \subseteq Orders
      BY <2>3, FS_RemoveElement DEF StockInv
    <3>5. Ordered(Unpaid \ {o}, k) \in Nat
      BY <3>4, OrderedSums
    <3>6. CASE st = "pending_payment"
      <4>1. Unpaid' = Unpaid \union {o} /\ PaidFor' = PaidFor /\ o \notin Unpaid
        BY <1>2, <2>1, <2>3, <3>4, <3>6
      <4>2. stock'[k] = IF k \in Lines(o) THEN ReserveManualStock(stock[k], q) ELSE stock[k]
        BY <1>2, <3>1, <3>6 DEF StockAfter
      <4> QED BY <3>1, <3>2, <3>3, <4>1, <4>2 DEF ReserveManualStock
    <3>7. CASE st = "canceled"
      <4>1. Unpaid' = Unpaid \ {o} /\ PaidFor' = PaidFor /\ o \in Unpaid
        BY <1>2, <2>1, <2>3, <3>4, <3>7
      <4>2. stock'[k] = IF k \in Lines(o) THEN ReleaseManualStock(stock[k], q) ELSE stock[k]
        BY <1>2, <3>1, <3>7 DEF StockAfter
      <4> QED BY <3>1, <3>2, <3>3, <3>5, <4>1, <4>2 DEF ReleaseManualStock
    <3>8. CASE st \in {"paid", "fulfilling"}
      <4>1. Unpaid' = Unpaid \ {o} /\ PaidFor' = PaidFor \union {o} /\ o \in Unpaid
        BY <1>2, <2>1, <2>3, <3>8
      <4>2. stock'[k] = IF k \in Lines(o) THEN ConsumeManualStock(stock[k], q) ELSE stock[k]
        BY <1>2, <3>1, <3>8 DEF StockAfter
      <4> QED BY <2>3, <3>1, <3>2, <3>3, <3>5, <4>1, <4>2 DEF ConsumeManualStock
    <3> QED BY <3>6, <3>7, <3>8
  <2> QED BY <2>2, <2>4 DEF StockInv, StockMatchesOrders, Unpaid, PaidFor
<1> QED BY <1>1, <1>2 DEF StockFollows

\* Requests one at a time and no administrator: for any number of orders sharing
\* SKUs, manual stock is locked for the unpaid orders and sold to the paid ones,
\* no more and no less (manual_stock.go).
THEOREM SerialStockMatches ==
  ASSUME OneAtATime, Admins = {}
  PROVE  Spec => []StockMatchesOrders
<1>1. Init => StockInv /\ WorkOnPending
  <2> SUFFICES ASSUME Init PROVE StockInv /\ WorkOnPending
    OBVIOUS
  <2>1. Unpaid = {} /\ PaidFor = {}
    BY DEF Init, Unpaid, PaidFor, InStatus
  <2>2. ASSUME NEW k \in ManualSkus PROVE Ordered({}, k) = 0
    <3>1. IsFiniteSet({})
      BY FS_EmptySet
    <3> QED BY <3>1, SumPick DEF Ordered
  <2>3. StockMatchesOrders
    BY <2>1, <2>2 DEF Init, StockMatchesOrders, Unpaid, PaidFor
  <2>4. WorkOnPending
    BY DEF Init, WorkOnPending, WorkIn, Idle, CancelOps
  <2> QED BY <2>1, <2>3, <2>4, FS_EmptySet DEF StockInv
<1>2. TypeOK /\ ExistInv /\ CopiesFresh /\ StockConserved /\ StockInv /\ WorkOnPending
        /\ [Next]_vars => (StockInv /\ WorkOnPending)'
  BY StockSteps, StockKeepsUp DEF StockTracked
<1>3. StockInv => StockMatchesOrders
  BY DEF StockInv
<1> QED BY <1>1, <1>2, <1>3, TypeCorrect, ExistAlways, FreshAlways, StockIsConserved, PTL DEF Spec
=============================================================================
