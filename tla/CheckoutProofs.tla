--------------------------- MODULE CheckoutProofs ---------------------------
(***************************************************************************)
(* Type correctness of Checkout, for every set of orders, SKUs, cards and  *)
(* processes, every price and quantity, and every bound.  The lemmas give, *)
(* for each operator the actions are built from, the type of what it       *)
(* yields; the step lemmas, one per action, use them.                      *)
(***************************************************************************)
EXTENDS Checkout, OperatorProofs

-----------------------------------------------------------------------------
(* Requests.                                                                *)

\* A process with nothing to do.
LEMMA IdleRequest == Idle \in Request /\ Sensible(Idle)
BY DEF Idle, Request, Ops, CancelOps, Sensible

\* The requests that name a payment.
PaymentOps == {"gateway", "callback", "apply"}

\* No payment row disappears.
PaymentsKept ==
  \A p \in PaymentIds : payment[p].status # "none" => payment'[p].status # "none"

\* A request that has only read which order it is about.
LEMMA BusyRequest ==
  ASSUME NEW op \in Ops, NEW o \in Orders
  PROVE  /\ Busy(op, o) \in Request
         /\ Busy(op, o).op = op /\ Busy(op, o).order = o
         /\ op \notin PaymentOps => Sensible(Busy(op, o))
BY DEF Busy, PaymentOps, Idle, Request, Sensible

\* A request that has read the order row.
LEMMA CopyRequest ==
  ASSUME OrderTypeOK, NEW op \in Ops \ PaymentOps, NEW o \in Orders
  PROVE  /\ BusyWithCopy(op, o) \in Request /\ Sensible(BusyWithCopy(op, o))
         /\ BusyWithCopy(op, o).op = op
<1>1. order[o].status \in {"none"} \union OrderStatuses /\ order[o].wallet \in Nat
  BY DEF OrderTypeOK, OrderRow
<1> QED BY <1>1 DEF BusyWithCopy, Busy, Idle, Request, Sensible, PaymentOps

\* A process moves on to another request.
LEMMA RequestUpdate ==
  ASSUME RequestTypeOK, PaymentsKept, NEW h \in Processes, NEW r \in Request, Sensible(r),
         r.op \in PaymentOps => payment'[r.payment].status # "none",
         request' = [request EXCEPT ![h] = r]
  PROVE  RequestTypeOK'
BY DEF RequestTypeOK, PaymentsKept, Sensible, PaymentOps

\* The others go on.
LEMMA RequestSame ==
  ASSUME RequestTypeOK, PaymentsKept, request' = request
  PROVE  RequestTypeOK'
BY DEF RequestTypeOK, PaymentsKept, Sensible, PaymentOps

\* What the type of the requests says of one of them.
LEMMA RequestFacts ==
  ASSUME RequestTypeOK, NEW h \in Processes
  PROVE  /\ request[h] \in Request /\ Sensible(request[h])
         /\ request[h].op \in PaymentOps =>
              /\ request[h].payment \in PaymentIds
              /\ payment[request[h].payment].status # "none"
BY DEF RequestTypeOK, Sensible, PaymentOps

-----------------------------------------------------------------------------
(* The wallet.                                                              *)

\* An entry that does not overdraw keeps the wallet well-typed.
LEMMA PostEntryType ==
  ASSUME WalletTypeOK, NEW r \in References, NEW amount \in Int, balance + amount \in Nat,
         PostEntry(r, amount)
  PROVE  WalletTypeOK'
BY DEF WalletTypeOK, PostEntry, JournalEntry

\* ApplyOrderBalance in wallet_service.go takes no more than there is, nor than is due.
LEMMA DeductionBounds ==
  ASSUME WalletTypeOK, NEW o \in Orders
  PROVE  Deduction(o) \in Nat /\ Deduction(o) <= balance /\ Deduction(o) <= TotalAmount[o]
<1>1. TotalAmount[o] \in Nat /\ balance \in Nat
  BY CheckoutAssumption DEF WalletTypeOK
<1> QED BY <1>1 DEF Deduction

\* Paying from the balance keeps the wallet well-typed.
LEMMA PostDeductionType ==
  ASSUME WalletTypeOK, NEW o \in Orders, PostDeduction(o)
  PROVE  WalletTypeOK'
<1>1. CASE Deduction(o) = 0
  BY <1>1 DEF PostDeduction, WalletTypeOK
<1>2. CASE Deduction(o) # 0
  <2>1. /\ -Deduction(o) \in Int /\ balance + (-Deduction(o)) \in Nat
        /\ PayReference(o) \in References
    BY DeductionBounds DEF WalletTypeOK, PayReference, References
  <2> QED BY <1>2, <2>1, PostEntryType DEF PostDeduction
<1> QED BY <1>1, <1>2

\* A refund of an order gives the whole amount or, the second time, nothing.
LEMMA CreditCases ==
  ASSUME NEW o \in Orders, NEW amount \in Nat
  PROVE  Credit(o, amount) \in {0, amount}
BY DEF Credit

\* Giving a deduction back keeps the wallet well-typed.
LEMMA PostCreditType ==
  ASSUME WalletTypeOK, NEW o \in Orders, NEW amount \in Nat, PostCredit(o, amount)
  PROVE  WalletTypeOK'
<1>1. CASE Credit(o, amount) = 0
  BY <1>1 DEF PostCredit, WalletTypeOK
<1>2. CASE Credit(o, amount) # 0
  <2>1. /\ Credit(o, amount) \in Int /\ balance + Credit(o, amount) \in Nat
        /\ RefundReference(o) \in References
    BY CreditCases DEF WalletTypeOK, RefundReference, References
  <2> QED BY <1>2, <2>1, PostEntryType DEF PostCredit
<1> QED BY <1>1, <1>2

-----------------------------------------------------------------------------
(* Order rows and lines.                                                    *)

\* What the type of the orders says of one of them.
LEMMA OrderRowFacts ==
  ASSUME OrderTypeOK, NEW o \in Orders
  PROVE  order[o] \in OrderRow /\ TotalAmount[o] \in Nat \ {0}
BY CheckoutAssumption DEF OrderTypeOK

\* Writing the two amounts of an order row.
LEMMA AmountsUpdate ==
  ASSUME NEW row \in OrderRow, NEW w \in Nat, NEW n \in Int
  PROVE  [row EXCEPT !.wallet = w, !.online = n] \in OrderRow
BY DEF OrderRow

\* The order row after its balance was given back.
LEMMA ReleasedRowType ==
  ASSUME OrderTypeOK, NEW o \in Orders, NEW amount \in Nat
  PROVE  ReleasedRow(o, amount) \in OrderRow
<1>1. order[o] \in OrderRow /\ TotalAmount[o] \in Int
  BY OrderRowFacts
<1> QED BY <1>1, AmountsUpdate DEF ReleasedRow

\* The order row after its balance was taken.
LEMMA FundedRowType ==
  ASSUME OrderTypeOK, WalletTypeOK, NEW o \in Orders
  PROVE  FundedRow(o) \in OrderRow
<1>1. Deduction(o) \in Nat /\ TotalAmount[o] \in Nat /\ order[o] \in OrderRow
  BY DeductionBounds, OrderRowFacts
<1>2. TotalAmount[o] - Deduction(o) \in Int
  BY <1>1
<1> QED BY <1>1, <1>2, AmountsUpdate DEF FundedRow

\* The children of a paid order.
LEMMA PaidLinesType ==
  ASSUME NEW o \in Orders
  PROVE  PaidLines(o) \in [Skus -> {"none"} \union OrderStatuses]
BY DEF PaidLines, OrderStatuses

\* The parent row of a paid order.
LEMMA PaidRowType ==
  ASSUME NEW o \in Orders, NEW row \in OrderRow, NEW seenWallet \in Nat
  PROVE  PaidRow(o, row, seenWallet) \in OrderRow
<1>1. CalcParentStatus(Lines(o), PaidLines(o), "paid") \in OrderStatuses
  BY AggregateType DEF OrderStatuses
<1>2. TotalAmount[o] - seenWallet \in Int
  BY CheckoutAssumption
<1> QED BY <1>1, <1>2 DEF PaidRow, OrderRow

\* Writing one order row.
LEMMA OrderUpdate ==
  ASSUME OrderTypeOK, NEW o \in Orders, NEW row \in OrderRow,
         order' = [order EXCEPT ![o] = row]
  PROVE  OrderTypeOK'
BY DEF OrderTypeOK

\* Writing the children of one order.
LEMMA LineUpdate ==
  ASSUME LineTypeOK, NEW o \in Orders,
         NEW rows \in [Skus -> {"none"} \union OrderStatuses],
         line' = [line EXCEPT ![o] = rows]
  PROVE  LineTypeOK'
BY DEF LineTypeOK

-----------------------------------------------------------------------------
(* Stock.                                                                   *)

\* An order asks for a number of units of each SKU.
LEMMA QuantityType ==
  ASSUME NEW o \in Orders, NEW k \in Skus
  PROVE  Quantity[o][k] \in Nat
BY CheckoutAssumption

\* Releasing an order's units keeps the stock rows well-typed.
LEMMA ReleaseType ==
  ASSUME StockTypeOK, NEW o \in Orders
  PROVE  StockAfter(ReleaseManualStock, o) \in [ManualSkus -> StockRow]
<1>1. ASSUME NEW k \in ManualSkus
      PROVE  stock[k] \in StockRow /\ ReleaseManualStock(stock[k], Quantity[o][k]) \in StockRow
  BY QuantityType, ReleaseKeepsUnits DEF StockTypeOK, Skus
<1> QED BY <1>1 DEF StockAfter

\* Consuming an order's units keeps the stock rows well-typed.
LEMMA ConsumeType ==
  ASSUME StockTypeOK, NEW o \in Orders
  PROVE  StockAfter(ConsumeManualStock, o) \in [ManualSkus -> StockRow]
<1>1. ASSUME NEW k \in ManualSkus
      PROVE  stock[k] \in StockRow /\ ConsumeManualStock(stock[k], Quantity[o][k]) \in StockRow
  BY QuantityType, ConsumeKeepsUnits DEF StockTypeOK, Skus
<1> QED BY <1>1 DEF StockAfter

\* A reservation succeeds only where there is stock.
LEMMA ReserveType ==
  ASSUME StockTypeOK, NEW o \in Orders, HasStock(o)
  PROVE  StockAfter(ReserveManualStock, o) \in [ManualSkus -> StockRow]
<1>1. ASSUME NEW k \in ManualSkus, k \in Lines(o), IsEnforced(stock[k])
      PROVE  ReserveManualStock(stock[k], Quantity[o][k]) \in StockRow
  BY <1>1, QuantityType, ReserveKeepsUnits DEF StockTypeOK, Skus, HasStock
<1>2. \A k \in ManualSkus : stock[k] \in StockRow
  BY DEF StockTypeOK
<1> QED BY <1>1, <1>2 DEF StockAfter

\* What markOrderPaid leaves behind.
LEMMA MarkOrderPaidType ==
  ASSUME OrderTypeOK, LineTypeOK, StockTypeOK, NEW o \in Orders, NEW row \in OrderRow,
         NEW seenWallet \in Nat, MarkOrderPaid(o, row, seenWallet), card' = card
  PROVE  OrderTypeOK' /\ LineTypeOK' /\ StockTypeOK'
<1>1. OrderTypeOK'
  BY PaidRowType, OrderUpdate DEF MarkOrderPaid
<1>2. LineTypeOK'
  BY PaidLinesType, LineUpdate DEF MarkOrderPaid
<1>3. StockTypeOK'
  BY ConsumeType DEF MarkOrderPaid, StockTypeOK
<1> QED BY <1>1, <1>2, <1>3

-----------------------------------------------------------------------------
(* One lemma per action: first those that change nothing but a request.     *)

\* A step that moves only the requests.
LEMMA OnlyRequest ==
  ASSUME TypeOK, RequestTypeOK',
         UNCHANGED <<order, line, moneyVars, stockVars, coupon, queueVars, envVars>>
  PROVE  TypeOK'
BY DEF TypeOK, OrderTypeOK, LineTypeOK, PaymentTypeOK, WalletTypeOK, StockTypeOK,
       CouponTypeOK, QueueTypeOK, EnvTypeOK, moneyVars, stockVars, queueVars, envVars

\* A step that leaves the money alone removes no payment row.
LEMMA KeptIfUnchanged ==
  ASSUME UNCHANGED moneyVars
  PROVE  PaymentsKept
BY DEF moneyVars, PaymentsKept

\* A process ends its request.
LEMMA ToIdle ==
  ASSUME RequestTypeOK, PaymentsKept, NEW h \in Processes, request' = [request EXCEPT ![h] = Idle]
  PROVE  RequestTypeOK'
BY IdleRequest, RequestUpdate DEF Idle, PaymentOps

\* A process begins a request.
LEMMA ToBusy ==
  ASSUME RequestTypeOK, PaymentsKept, NEW h \in Processes, NEW o \in Orders,
         NEW op \in Ops \ PaymentOps,
         request' = [request EXCEPT ![h] = Busy(op, o)]
  PROVE  RequestTypeOK'
BY BusyRequest, RequestUpdate

\* A process begins a request and copies the order row.
LEMMA ToCopy ==
  ASSUME OrderTypeOK, RequestTypeOK, PaymentsKept, NEW h \in Processes, NEW o \in Orders,
         NEW op \in Ops \ PaymentOps,
         request' = [request EXCEPT ![h] = BusyWithCopy(op, o)]
  PROVE  RequestTypeOK'
BY CopyRequest, RequestUpdate

\* BeginPlace keeps the types.
LEMMA BeginPlaceType ==
  ASSUME TypeOK, NEW h \in Processes, NEW o \in Orders, BeginPlace(h, o)
  PROVE  TypeOK'
BY ToBusy, KeptIfUnchanged, OnlyRequest DEF TypeOK, BeginPlace, Ops, PaymentOps

\* RejectOrder keeps the types.
LEMMA RejectOrderType ==
  ASSUME TypeOK, NEW h \in Processes, RejectOrder(h)
  PROVE  TypeOK'
BY ToIdle, KeptIfUnchanged, OnlyRequest DEF TypeOK, RejectOrder

\* ScheduleTimeoutFails keeps the types.
LEMMA ScheduleTimeoutFailsType ==
  ASSUME TypeOK, NEW h \in Processes, ScheduleTimeoutFails(h)
  PROVE  TypeOK'
<1>1. request[h].order \in Orders
  BY RequestFacts DEF TypeOK, Sensible, ScheduleTimeoutFails
<1> QED BY <1>1, ToCopy, KeptIfUnchanged, OnlyRequest DEF TypeOK, ScheduleTimeoutFails, Ops, PaymentOps, CancelOps

\* ReceiveCallback keeps the types.
LEMMA ReceiveCallbackType ==
  ASSUME TypeOK, NEW h \in Processes, NEW p \in PaymentIds, NEW target \in PaymentStatuses,
         ReceiveCallback(h, p, target)
  PROVE  TypeOK'
<1> DEFINE r == [Busy("callback", payment[p].order)
                   EXCEPT !.payment = p, !.target = target,
                          !.seenPayment = payment[p].status,
                          !.seenLapsed = payment[p].lapsed]
<1>1. /\ payment[p].order \in Orders
      /\ payment[p].status \in {"none"} \union PaymentStatuses
      /\ payment[p].lapsed \in BOOLEAN
      /\ payment[p].status # "none" /\ payment' = payment
  BY DEF TypeOK, PaymentTypeOK, PaymentRow, ReceiveCallback, moneyVars
<1>2. r \in Request /\ Sensible(r) /\ r.payment = p
  BY <1>1 DEF Busy, Idle, Request, Sensible, Ops, PaymentStatuses
<1> QED BY <1>1, <1>2, RequestUpdate, KeptIfUnchanged, OnlyRequest DEF TypeOK, ReceiveCallback

\* ReadOrder keeps the types.
LEMMA ReadOrderType ==
  ASSUME TypeOK, NEW h \in Processes, ReadOrder(h)
  PROVE  TypeOK'
<1> DEFINE o == request[h].order
           r == [request[h] EXCEPT !.op = "apply", !.seenStatus = order[o].status,
                                   !.seenWallet = order[o].wallet]
<1>1. /\ request[h] \in Request /\ o \in Orders /\ request[h].payment \in PaymentIds
      /\ order[o].status \in {"none"} \union OrderStatuses /\ order[o].wallet \in Nat
      /\ request[h].target # "none" /\ request[h].seenPayment # "none"
      /\ payment[request[h].payment].status # "none" /\ payment' = payment
  BY RequestFacts, OrderRowFacts DEF TypeOK, Sensible, ReadOrder, OrderRow, PaymentOps, moneyVars
<1>2. r \in Request /\ Sensible(r) /\ r.payment = request[h].payment
  BY <1>1 DEF Request, Sensible, Ops
<1>3. request' = [request EXCEPT ![h] = r]
  BY DEF ReadOrder, TypeOK, RequestTypeOK
<1> QED BY <1>1, <1>2, <1>3, RequestUpdate, KeptIfUnchanged, OnlyRequest DEF TypeOK, ReadOrder

\* RefuseConfirmation keeps the types.
LEMMA RefuseConfirmationType ==
  ASSUME TypeOK, NEW h \in Processes, RefuseConfirmation(h)
  PROVE  TypeOK'
BY ToIdle, KeptIfUnchanged, OnlyRequest DEF TypeOK, RefuseConfirmation

\* The read before a cancellation keeps the types, whoever cancels.
LEMMA StartCancelType ==
  ASSUME TypeOK, NEW h \in Processes, NEW o \in Orders, NEW op \in CancelOps,
         StartCancel(h, o, op)
  PROVE  TypeOK'
BY ToCopy, KeptIfUnchanged, OnlyRequest DEF TypeOK, StartCancel, Ops, PaymentOps, CancelOps

\* BeginAdminPay keeps the types.
LEMMA BeginAdminPayType ==
  ASSUME TypeOK, NEW h \in Processes, NEW o \in Orders, BeginAdminPay(h, o)
  PROVE  TypeOK'
BY ToBusy, KeptIfUnchanged, OnlyRequest DEF TypeOK, BeginAdminPay, Ops, PaymentOps

-----------------------------------------------------------------------------
(* The actions that change tables.                                          *)

\* Writing an existing status into one payment row.
LEMMA PaymentUpdate ==
  ASSUME PaymentTypeOK, NEW p \in PaymentIds, NEW row \in PaymentRow,
         row.status # "none", row.order \in Orders,
         payment' = [payment EXCEPT ![p] = row]
  PROVE  PaymentTypeOK' /\ PaymentsKept /\ payment'[p].status # "none"
BY DEF PaymentTypeOK, PaymentsKept

\* Saving a payment's status leaves the rest of its row alone.
LEMMA PaymentStatusUpdate ==
  ASSUME PaymentTypeOK, NEW p \in PaymentIds, payment[p].status # "none",
         NEW status \in PaymentStatuses, NEW lapsed \in BOOLEAN,
         payment' = [payment EXCEPT ![p].status = status, ![p].lapsed = lapsed]
  PROVE  PaymentTypeOK' /\ PaymentsKept
<1> DEFINE row == [payment[p] EXCEPT !.status = status, !.lapsed = lapsed]
<1>1. payment[p] \in PaymentRow /\ payment[p].order \in Orders
  BY DEF PaymentTypeOK
<1>2. row \in PaymentRow /\ row.status # "none" /\ row.order \in Orders
  BY <1>1 DEF PaymentRow, PaymentStatuses
<1>3. payment' = [payment EXCEPT ![p] = row]
  BY DEF PaymentTypeOK
<1> QED BY <1>2, <1>3, PaymentUpdate

\* The row CreatePayment inserts.
LEMMA NewPaymentRow ==
  ASSUME NEW o \in Orders, NEW ch \in Channels \union {"wallet"}, NEW n \in Int,
         NEW status \in PaymentStatuses
  PROVE  LET row == [NoPayment EXCEPT !.order = o, !.channel = ch, !.amount = n,
                                      !.status = status]
         IN row \in PaymentRow /\ row.status # "none" /\ row.order \in Orders
BY DEF NoPayment, PaymentRow, PaymentStatuses

\* PlaceOrder keeps the types.
LEMMA PlaceOrderType ==
  ASSUME TypeOK, NEW h \in Processes, PlaceOrder(h)
  PROVE  TypeOK'
<1> DEFINE o == request[h].order
           row == [order[o] EXCEPT !.status = "pending_payment", !.online = TotalAmount[o]]
           rows == [k \in Skus |-> IF k \in Lines(o) THEN "pending_payment" ELSE "none"]
<1>1. o \in Orders
  BY RequestFacts DEF TypeOK, Sensible, PlaceOrder
<1>2. OrderTypeOK'
  <2>1. row \in OrderRow
    <3>1. order[o] \in OrderRow /\ TotalAmount[o] \in Int
      BY <1>1, OrderRowFacts DEF TypeOK
    <3> HIDE DEF o
    <3> QED BY <3>1 DEF OrderRow, OrderStatuses
  <2>2. order' = [order EXCEPT ![o] = row]
    BY <1>1 DEF PlaceOrder, TypeOK, OrderTypeOK
  <2> QED BY <1>1, <2>1, <2>2, OrderUpdate DEF TypeOK
<1>3. LineTypeOK'
  <2>1. rows \in [Skus -> {"none"} \union OrderStatuses]
    BY DEF OrderStatuses
  <2>2. line' = [line EXCEPT ![o] = rows]
    BY DEF PlaceOrder
  <2> QED BY <1>1, <2>1, <2>2, LineUpdate DEF TypeOK
<1>4. StockTypeOK'
  <2>1. stock' \in [ManualSkus -> StockRow]
    BY <1>1, ReserveType DEF PlaceOrder, TypeOK
  <2>2. card' \in [Cards -> CardRow]
    BY <1>1 DEF PlaceOrder, TypeOK, StockTypeOK, CardRow
  <2> QED BY <2>1, <2>2 DEF StockTypeOK
<1>5. CouponTypeOK'
  BY <1>1 DEF PlaceOrder, TypeOK, CouponTypeOK
<1>6. RequestTypeOK'
  BY <1>1, ToBusy, KeptIfUnchanged DEF PlaceOrder, TypeOK, Ops, PaymentOps
<1>7. PaymentTypeOK' /\ WalletTypeOK' /\ QueueTypeOK' /\ EnvTypeOK'
  BY DEF PlaceOrder, TypeOK, PaymentTypeOK, WalletTypeOK, QueueTypeOK, EnvTypeOK,
         moneyVars, queueVars, envVars
<1> QED BY <1>2, <1>3, <1>4, <1>5, <1>6, <1>7 DEF TypeOK

\* ScheduleTimeout keeps the types.
LEMMA ScheduleTimeoutType ==
  ASSUME TypeOK, NEW h \in Processes, ScheduleTimeout(h)
  PROVE  TypeOK'
<1>1. QueueTypeOK'
  BY DEF ScheduleTimeout, TypeOK, QueueTypeOK
<1>2. RequestTypeOK'
  BY ToIdle, KeptIfUnchanged DEF ScheduleTimeout, TypeOK
<1> QED BY <1>1, <1>2 DEF ScheduleTimeout, TypeOK, OrderTypeOK, LineTypeOK, PaymentTypeOK,
             WalletTypeOK, StockTypeOK, CouponTypeOK, EnvTypeOK, moneyVars, stockVars, envVars

\* PayByWallet keeps the types.
LEMMA PayByWalletType ==
  ASSUME TypeOK, NEW h \in Processes, NEW o \in Orders, NEW p \in PaymentIds, PayByWallet(h, o, p)
  PROVE  TypeOK'
<1> DEFINE n == FundedRow(o).wallet
           row == [NoPayment EXCEPT !.order = o, !.channel = "wallet", !.amount = n,
                                    !.status = "success"]
<1>1. FundedRow(o) \in OrderRow /\ FundedRow(o).wallet \in Nat
  BY FundedRowType DEF TypeOK, OrderRow
<1>2. PaymentTypeOK' /\ PaymentsKept
  <2>1. n \in Int /\ "success" \in PaymentStatuses
    BY <1>1 DEF PaymentStatuses
  <2>2. row \in PaymentRow /\ row.status # "none" /\ row.order \in Orders
    <3> HIDE DEF n
    <3> QED BY <2>1, NewPaymentRow
  <2> QED BY <2>2, PaymentUpdate DEF PayByWallet, TypeOK
<1>3. WalletTypeOK'
  BY PostDeductionType DEF PayByWallet, TypeOK
<1>4. OrderTypeOK' /\ LineTypeOK' /\ StockTypeOK'
  BY <1>1, MarkOrderPaidType DEF PayByWallet, TypeOK
<1>5. RequestTypeOK'
  BY <1>2, ToBusy DEF PayByWallet, TypeOK, Ops, PaymentOps
<1> QED BY <1>2, <1>3, <1>4, <1>5 DEF PayByWallet, TypeOK, CouponTypeOK, QueueTypeOK, EnvTypeOK,
             queueVars, envVars

\* Opening a payment, whichever way the wallet's part is settled before.
LEMMA OpenPaymentForType ==
  ASSUME TypeOK, WalletTypeOK', NEW h \in Processes, NEW o \in Orders, NEW ch \in Channels,
         NEW p \in PaymentIds, NEW row \in OrderRow, OpenPaymentFor(h, o, ch, p, row)
  PROVE  TypeOK'
<1> DEFINE n == TotalAmount[o] - row.wallet
           new == [NoPayment EXCEPT !.order = o, !.channel = ch, !.amount = n,
                                    !.status = "initiated"]
           r == [Busy("gateway", o) EXCEPT !.payment = p]
<1>1. n \in Int
  BY CheckoutAssumption DEF OrderRow
<1>2. PaymentTypeOK' /\ PaymentsKept /\ payment'[p].status # "none"
  <2>1. new \in PaymentRow /\ new.status # "none" /\ new.order \in Orders
    BY <1>1, NewPaymentRow DEF PaymentStatuses
  <2> QED BY <2>1, PaymentUpdate DEF OpenPaymentFor, TypeOK
<1>3. OrderTypeOK'
  <2>1. [row EXCEPT !.online = n] \in OrderRow
    BY <1>1 DEF OrderRow
  <2> QED BY <2>1, OrderUpdate DEF OpenPaymentFor, TypeOK
<1>4. RequestTypeOK'
  <2>1. r \in Request /\ Sensible(r) /\ r.payment = p
    BY DEF Busy, Idle, Request, Sensible, Ops
  <2> QED BY <1>2, <2>1, RequestUpdate DEF OpenPaymentFor, TypeOK
<1> QED BY <1>2, <1>3, <1>4 DEF OpenPaymentFor, TypeOK, LineTypeOK, StockTypeOK, CouponTypeOK,
             QueueTypeOK, EnvTypeOK, stockVars, queueVars, envVars

\* PayWithBalance keeps the types.
LEMMA PayWithBalanceType ==
  ASSUME TypeOK, NEW h \in Processes, NEW o \in Orders, NEW ch \in Channels,
         NEW p \in PaymentIds, PayWithBalance(h, o, ch, p)
  PROVE  TypeOK'
<1>1. FundedRow(o) \in OrderRow /\ WalletTypeOK'
  BY FundedRowType, PostDeductionType DEF PayWithBalance, TypeOK
<1> QED BY <1>1, OpenPaymentForType DEF PayWithBalance

\* PayOnline keeps the types.
LEMMA PayOnlineType ==
  ASSUME TypeOK, NEW h \in Processes, NEW o \in Orders, NEW ch \in Channels,
         NEW p \in PaymentIds, PayOnline(h, o, ch, p)
  PROVE  TypeOK'
<1>1. order[o].wallet \in Nat
  BY OrderRowFacts DEF TypeOK, OrderRow
<1>2. ReleasedRow(o, order[o].wallet) \in OrderRow /\ WalletTypeOK'
  BY <1>1, ReleasedRowType, PostCreditType DEF PayOnline, TypeOK
<1> QED BY <1>2, OpenPaymentForType DEF PayOnline

\* GatewayAccepts keeps the types.
LEMMA GatewayAcceptsType ==
  ASSUME TypeOK, NEW h \in Processes, GatewayAccepts(h)
  PROVE  TypeOK'
<1> DEFINE p == request[h].payment
           row == [payment[p] EXCEPT !.status = "pending", !.url = TRUE, !.lapsed = FALSE]
<1>1. p \in PaymentIds /\ payment[p].status # "none"
  BY RequestFacts DEF TypeOK, PaymentOps, GatewayAccepts
<1>2. PaymentTypeOK' /\ PaymentsKept
  <2>1. payment[p] \in PaymentRow /\ payment[p].order \in Orders
    BY <1>1 DEF TypeOK, PaymentTypeOK
  <2>2. row \in PaymentRow /\ row.status # "none" /\ row.order \in Orders
    BY <2>1 DEF PaymentRow, PaymentStatuses
  <2>3. payment' = [payment EXCEPT ![p] = row]
    BY <1>1 DEF GatewayAccepts, TypeOK, PaymentTypeOK
  <2> QED BY <1>1, <2>2, <2>3, PaymentUpdate DEF TypeOK
<1>3. RequestTypeOK'
  BY <1>2, ToIdle DEF GatewayAccepts, TypeOK
<1> QED BY <1>2, <1>3 DEF GatewayAccepts, TypeOK, OrderTypeOK, LineTypeOK, WalletTypeOK,
             StockTypeOK, CouponTypeOK, QueueTypeOK, EnvTypeOK, stockVars, queueVars, envVars

\* GatewayRefuses keeps the types.
LEMMA GatewayRefusesType ==
  ASSUME TypeOK, NEW h \in Processes, GatewayRefuses(h)
  PROVE  TypeOK'
<1> DEFINE o == request[h].order
           p == request[h].payment
<1>1. /\ o \in Orders /\ p \in PaymentIds /\ payment[p].status # "none"
      /\ order[o].wallet \in Nat
  BY RequestFacts, OrderRowFacts DEF TypeOK, Sensible, PaymentOps, GatewayRefuses, OrderRow
<1>2. PaymentTypeOK' /\ PaymentsKept
  BY <1>1, PaymentStatusUpdate DEF GatewayRefuses, TypeOK, PaymentStatuses
<1>3. OrderTypeOK'
  BY <1>1, ReleasedRowType, OrderUpdate DEF GatewayRefuses, TypeOK
<1>4. WalletTypeOK'
  BY <1>1, PostCreditType DEF GatewayRefuses, TypeOK
<1>5. RequestTypeOK'
  BY <1>2, ToIdle DEF GatewayRefuses, TypeOK
<1> QED BY <1>2, <1>3, <1>4, <1>5 DEF GatewayRefuses, TypeOK, LineTypeOK, StockTypeOK,
             CouponTypeOK, QueueTypeOK, EnvTypeOK, stockVars, queueVars, envVars

\* PayerPays keeps the types.
LEMMA PayerPaysType ==
  ASSUME TypeOK, NEW p \in PaymentIds, PayerPays(p)
  PROVE  TypeOK'
<1>1. RequestTypeOK'
  BY RequestSame, KeptIfUnchanged DEF PayerPays, TypeOK
<1> QED BY <1>1 DEF PayerPays, TypeOK, OrderTypeOK, LineTypeOK, PaymentTypeOK, WalletTypeOK,
             StockTypeOK, CouponTypeOK, QueueTypeOK, EnvTypeOK, moneyVars, stockVars, queueVars

\* What a callback about to be applied has read.
LEMMA ApplyFacts ==
  ASSUME TypeOK, NEW h \in Processes, request[h].op = "apply"
  PROVE  LET r == request[h]
         IN /\ r.order \in Orders /\ r.payment \in PaymentIds
            /\ payment[r.payment].status # "none"
            /\ r.target \in PaymentStatuses /\ r.seenPayment \in PaymentStatuses
            /\ r.seenLapsed \in BOOLEAN /\ r.seenWallet \in Nat
BY RequestFacts DEF TypeOK, Sensible, PaymentOps, Request

\* AcknowledgeRepeat keeps the types.
LEMMA AcknowledgeRepeatType ==
  ASSUME TypeOK, NEW h \in Processes, AcknowledgeRepeat(h)
  PROVE  TypeOK'
<1>1. PaymentTypeOK' /\ PaymentsKept
  BY ApplyFacts, PaymentStatusUpdate DEF AcknowledgeRepeat, TypeOK
<1>2. RequestTypeOK'
  BY <1>1, ToIdle DEF AcknowledgeRepeat, TypeOK
<1> QED BY <1>1, <1>2 DEF AcknowledgeRepeat, TypeOK, OrderTypeOK, LineTypeOK, WalletTypeOK,
             StockTypeOK, CouponTypeOK, QueueTypeOK, EnvTypeOK, stockVars, queueVars, envVars

\* Saving a callback's whole copy of the payment row.
LEMMA SavePaymentType ==
  ASSUME TypeOK, NEW h \in Processes, request[h].op = "apply",
         NEW status \in PaymentStatuses, SavePayment(request[h], status)
  PROVE  PaymentTypeOK' /\ PaymentsKept
<1> DEFINE r == request[h]
           lapsed == r.seenLapsed \/ status = "expired"
<1>1. r.payment \in PaymentIds /\ payment[r.payment].status # "none" /\ lapsed \in BOOLEAN
  BY ApplyFacts
<1>2. payment' = [payment EXCEPT ![r.payment].status = status, ![r.payment].lapsed = lapsed]
  BY DEF SavePayment
<1> HIDE DEF r, lapsed
<1> QED BY <1>1, <1>2, PaymentStatusUpdate DEF TypeOK

\* ConfirmPayment keeps the types.
LEMMA ConfirmPaymentType ==
  ASSUME TypeOK, NEW h \in Processes, ConfirmPayment(h)
  PROVE  TypeOK'
<1> DEFINE r == request[h]
<1>1. r.op = "apply" /\ r.order \in Orders /\ r.seenWallet \in Nat
  BY ApplyFacts DEF ConfirmPayment
<1>2. PaymentTypeOK' /\ PaymentsKept
  BY SavePaymentType DEF ConfirmPayment, PaymentStatuses
<1>3. OrderTypeOK' /\ LineTypeOK' /\ StockTypeOK'
  <2>1. order[r.order] \in OrderRow
    BY <1>1, OrderRowFacts DEF TypeOK
  <2> QED BY <1>1, <2>1, MarkOrderPaidType DEF ConfirmPayment, TypeOK
<1>4. RequestTypeOK'
  BY <1>1, <1>2, ToBusy DEF ConfirmPayment, TypeOK, Ops, PaymentOps
<1> QED BY <1>2, <1>3, <1>4 DEF ConfirmPayment, TypeOK, WalletTypeOK, CouponTypeOK,
             QueueTypeOK, EnvTypeOK, queueVars, envVars

\* RecordReport keeps the types.
LEMMA RecordReportType ==
  ASSUME TypeOK, NEW h \in Processes, RecordReport(h)
  PROVE  TypeOK'
<1> DEFINE r == request[h]
           o == r.order
           released == IF r.target \in {"failed", "expired"} /\ r.seenStatus = "pending_payment"
                         THEN r.seenWallet ELSE 0
<1>1. r.op = "apply" /\ o \in Orders /\ released \in Nat /\ r.target \in PaymentStatuses
  BY ApplyFacts DEF RecordReport
<1>2. PaymentTypeOK' /\ PaymentsKept
  BY <1>1, SavePaymentType DEF RecordReport
<1>3. /\ order' = [order EXCEPT ![o] = ReleasedRow(o, released)]
      /\ PostCredit(o, released)
  BY DEF RecordReport
<1>4. OrderTypeOK' /\ WalletTypeOK'
  <2> HIDE DEF o, released
  <2> QED BY <1>1, <1>3, ReleasedRowType, OrderUpdate, PostCreditType DEF TypeOK
<1>5. RequestTypeOK'
  BY <1>2, ToIdle DEF RecordReport, TypeOK
<1> QED BY <1>2, <1>4, <1>5 DEF RecordReport, TypeOK, LineTypeOK, StockTypeOK, CouponTypeOK,
             QueueTypeOK, EnvTypeOK, stockVars, queueVars, envVars

\* AnnouncePaid keeps the types.
LEMMA AnnouncePaidType ==
  ASSUME TypeOK, NEW h \in Processes, AnnouncePaid(h)
  PROVE  TypeOK'
<1>1. request[h].order \in Orders
  BY RequestFacts DEF TypeOK, Sensible, AnnouncePaid
<1>2. QueueTypeOK'
  BY <1>1 DEF AnnouncePaid, TypeOK, QueueTypeOK, Lines
<1>3. RequestTypeOK'
  BY ToIdle, KeptIfUnchanged DEF AnnouncePaid, TypeOK
<1> QED BY <1>2, <1>3 DEF AnnouncePaid, TypeOK, OrderTypeOK, LineTypeOK, PaymentTypeOK,
             WalletTypeOK, StockTypeOK, CouponTypeOK, EnvTypeOK, moneyVars, stockVars, envVars

\* A timeout task that is over without a cancellation.
LEMMA TimerType ==
  ASSUME TypeOK, NEW o \in Orders, NEW state \in {"done", "lost"},
         timer' = [timer EXCEPT ![o] = state],
         UNCHANGED <<order, line, moneyVars, stockVars, coupon, autoTask, envVars, request>>
  PROVE  TypeOK'
<1>1. QueueTypeOK'
  BY DEF TypeOK, QueueTypeOK
<1>2. RequestTypeOK'
  BY RequestSame, KeptIfUnchanged DEF TypeOK
<1> QED BY <1>1, <1>2 DEF TypeOK, OrderTypeOK, LineTypeOK, PaymentTypeOK,
             WalletTypeOK, StockTypeOK, CouponTypeOK, EnvTypeOK, moneyVars, stockVars, envVars

\* Giving back the coupon of an order.
LEMMA RollbackType ==
  ASSUME CouponTypeOK, NEW o \in Orders
  PROVE  CouponAfterRollback(o) \in [used : Nat, usages : SUBSET Orders]
<1>1. coupon.used \in Nat /\ coupon.usages \subseteq Orders
  BY DEF CouponTypeOK
<1>2. coupon.used >= 1 => coupon.used - 1 \in Nat
  BY <1>1
<1> QED BY <1>1, <1>2 DEF CouponTypeOK, CouponAfterRollback

\* Expiring the open payments of a canceled order.
Expired(row) == [row EXCEPT !.status = "expired", !.lapsed = TRUE]
OpenFor(o, row) == row.order = o /\ row.status \in OpenPayment
ExpiredPayments(o) ==
  [p \in PaymentIds |-> IF OpenFor(o, payment[p]) THEN Expired(payment[p]) ELSE payment[p]]

RowOK(row) ==
  /\ row \in PaymentRow
  /\ row.url => row.status # "none"
  /\ row.status # "none" => row.order \in Orders

\* Expiring the open payments of an order.
LEMMA ExpirePaymentsType ==
  ASSUME PaymentTypeOK, NEW o \in Orders, payment' = ExpiredPayments(o)
  PROVE  PaymentTypeOK' /\ PaymentsKept
<1>1. ASSUME NEW row, RowOK(row), OpenFor(o, row)
      PROVE  RowOK(Expired(row)) /\ Expired(row).status = "expired"
  BY <1>1 DEF RowOK, Expired, PaymentRow, PaymentStatuses, OpenFor
<1>2. ASSUME NEW p \in PaymentIds
      PROVE  /\ RowOK(payment'[p])
             /\ payment[p].status # "none" => payment'[p].status # "none"
  <2>1. RowOK(payment[p])
    BY DEF PaymentTypeOK, RowOK
  <2>2. CASE OpenFor(o, payment[p])
    <3>1. payment'[p] = Expired(payment[p])
      BY <2>2 DEF ExpiredPayments
    <3>2. Expired(payment[p]).status # "none"
      BY <1>1, <2>1, <2>2
    <3> QED BY <1>1, <2>1, <2>2, <3>1, <3>2
  <2>3. CASE ~OpenFor(o, payment[p])
    <3>1. payment'[p] = payment[p]
      BY <2>3 DEF ExpiredPayments
    <3> QED BY <2>1, <3>1
  <2> QED BY <2>2, <2>3
<1>3. payment' \in [PaymentIds -> PaymentRow]
  BY <1>2 DEF ExpiredPayments, RowOK
<1> QED BY <1>2, <1>3 DEF PaymentTypeOK, PaymentsKept, RowOK

\* CommitCancel keeps the types.
LEMMA CommitCancelType ==
  ASSUME TypeOK, NEW h \in Processes, CommitCancel(h)
  PROVE  TypeOK'
<1> DEFINE r == request[h]
           o == r.order
           released == ReleasedRow(o, r.seenWallet)
           rows == [k \in Skus |-> IF k \in Lines(o) THEN "canceled" ELSE "none"]
<1>1. o \in Orders /\ r.seenWallet \in Nat
  BY RequestFacts DEF TypeOK, Sensible, CommitCancel, CancelOps, Request
<1>2. OrderTypeOK'
  <2>1. released \in OrderRow
    BY <1>1, ReleasedRowType DEF TypeOK
  <2>2. order' = [order EXCEPT ![o] = [released EXCEPT !.status = "canceled"]]
    BY DEF CommitCancel
  <2> HIDE DEF released, o
  <2>3. [released EXCEPT !.status = "canceled"] \in OrderRow
    BY <2>1 DEF OrderRow, OrderStatuses
  <2> QED BY <1>1, <2>2, <2>3, OrderUpdate DEF TypeOK
<1>3. LineTypeOK'
  <2>1. rows \in [Skus -> {"none"} \union OrderStatuses]
    BY DEF OrderStatuses
  <2> QED BY <1>1, <2>1, LineUpdate DEF CommitCancel, TypeOK
<1>4. StockTypeOK'
  <2>1. stock' \in [ManualSkus -> StockRow]
    BY <1>1, ReleaseType DEF CommitCancel, TypeOK
  <2>2. card' \in [Cards -> CardRow]
    BY <1>1 DEF CommitCancel, TypeOK, StockTypeOK, CardRow, FreeCard
  <2> QED BY <2>1, <2>2 DEF StockTypeOK
<1>5. CouponTypeOK'
  BY <1>1, RollbackType DEF CommitCancel, TypeOK, CouponTypeOK
<1>6. WalletTypeOK'
  BY <1>1, PostCreditType DEF CommitCancel, TypeOK
<1>7. PaymentTypeOK' /\ PaymentsKept
  <2>1. payment' = ExpiredPayments(o)
    BY DEF CommitCancel, ExpiredPayments, OpenFor, Expired
  <2> QED BY <1>1, <2>1, ExpirePaymentsType DEF TypeOK
<1>8. QueueTypeOK'
  BY <1>1 DEF CommitCancel, TypeOK, QueueTypeOK
<1>9. RequestTypeOK'
  BY <1>7, ToIdle DEF CommitCancel, TypeOK
<1> QED BY <1>2, <1>3, <1>4, <1>5, <1>6, <1>7, <1>8, <1>9
        DEF CommitCancel, TypeOK, EnvTypeOK, envVars

\* CommitAdminPay keeps the types.
LEMMA CommitAdminPayType ==
  ASSUME TypeOK, NEW h \in Processes, CommitAdminPay(h)
  PROVE  TypeOK'
<1> DEFINE o == request[h].order
           row == [order[o] EXCEPT !.status = "paid", !.paid = TRUE]
           rows == [k \in Skus |-> IF k \in Lines(o) THEN "paid" ELSE "none"]
<1>1. o \in Orders /\ order[o] \in OrderRow
  BY RequestFacts, OrderRowFacts DEF TypeOK, Sensible, CommitAdminPay
<1>2. OrderTypeOK'
  <2>1. row \in OrderRow
    BY <1>1 DEF OrderRow, OrderStatuses
  <2>2. order' = [order EXCEPT ![o] = row]
    BY <1>1 DEF CommitAdminPay, TypeOK, OrderTypeOK
  <2> QED BY <1>1, <2>1, <2>2, OrderUpdate DEF TypeOK
<1>3. LineTypeOK'
  <2>1. rows \in [Skus -> {"none"} \union OrderStatuses]
    BY DEF OrderStatuses
  <2> QED BY <1>1, <2>1, LineUpdate DEF CommitAdminPay, TypeOK
<1>4. StockTypeOK'
  BY <1>1, ConsumeType DEF CommitAdminPay, TypeOK, StockTypeOK
<1>5. RequestTypeOK'
  BY ToIdle, KeptIfUnchanged DEF CommitAdminPay, TypeOK
<1>6. EnvTypeOK'
  BY <1>1 DEF CommitAdminPay, TypeOK, EnvTypeOK
<1> QED BY <1>2, <1>3, <1>4, <1>5, <1>6 DEF CommitAdminPay, TypeOK, PaymentTypeOK, WalletTypeOK,
             CouponTypeOK, QueueTypeOK, moneyVars, queueVars

\* Expire keeps the types.
LEMMA ExpireType ==
  ASSUME TypeOK, NEW o \in Orders, Expire(o)
  PROVE  TypeOK'
<1> DEFINE row == [order[o] EXCEPT !.expired = TRUE]
<1>1. OrderTypeOK'
  <2>1. row \in OrderRow
    BY OrderRowFacts DEF OrderRow, TypeOK
  <2>2. order' = [order EXCEPT ![o] = row]
    BY DEF Expire, TypeOK, OrderTypeOK
  <2> QED BY <2>1, <2>2, OrderUpdate DEF TypeOK
<1>2. RequestTypeOK'
  BY RequestSame, KeptIfUnchanged DEF Expire, TypeOK
<1> QED BY <1>1, <1>2 DEF Expire, TypeOK, LineTypeOK, PaymentTypeOK, WalletTypeOK,
             StockTypeOK, CouponTypeOK, QueueTypeOK, EnvTypeOK, moneyVars, stockVars, queueVars, envVars

\* Abort keeps the types.
LEMMA AbortType ==
  ASSUME TypeOK, NEW h \in Processes, Abort(h)
  PROVE  TypeOK'
<1>1. EnvTypeOK'
  BY CheckoutAssumption DEF Abort, TypeOK, EnvTypeOK
<1>2. RequestTypeOK'
  BY ToIdle, KeptIfUnchanged DEF Abort, TypeOK
<1> QED BY <1>1, <1>2 DEF Abort, TypeOK, OrderTypeOK, LineTypeOK, PaymentTypeOK,
             WalletTypeOK, StockTypeOK, CouponTypeOK, QueueTypeOK, moneyVars, stockVars, queueVars

-----------------------------------------------------------------------------
\* The initial state is well-typed.
LEMMA InitType == Init => TypeOK
<1> SUFFICES ASSUME Init PROVE TypeOK
  OBVIOUS
<1>1. OrderTypeOK /\ LineTypeOK
  BY DEF Init, OrderTypeOK, LineTypeOK, OrderRow
<1>2. PaymentTypeOK
  BY DEF Init, PaymentTypeOK, PaymentRow, NoPayment
<1>3. WalletTypeOK
  BY CheckoutAssumption DEF Init, WalletTypeOK
<1>4. StockTypeOK
  BY CheckoutAssumption DEF Init, StockTypeOK, StockRow, CardRow, FreeCard, ManualStockUnlimited
<1>5. CouponTypeOK /\ QueueTypeOK /\ EnvTypeOK
  BY CheckoutAssumption DEF Init, CouponTypeOK, QueueTypeOK, EnvTypeOK
<1>6. RequestTypeOK
  BY IdleRequest DEF Init, RequestTypeOK, Idle
<1> QED BY <1>1, <1>2, <1>3, <1>4, <1>5, <1>6 DEF TypeOK

\* Every step keeps the types.
LEMMA StepType == TypeOK /\ [Next]_vars => TypeOK'
<1> SUFFICES ASSUME TypeOK, [Next]_vars PROVE TypeOK'
  OBVIOUS
<1>1. ASSUME NEW h \in Processes, PlaceStep(h) PROVE TypeOK'
  BY <1>1, BeginPlaceType, PlaceOrderType, RejectOrderType, ScheduleTimeoutType,
     ScheduleTimeoutFailsType DEF PlaceStep
<1>2. ASSUME NEW h \in Processes, PayStep(h) PROVE TypeOK'
  BY <1>2, PayByWalletType, PayWithBalanceType, PayOnlineType, GatewayAcceptsType,
     GatewayRefusesType, AnnouncePaidType DEF PayStep
<1>3. ASSUME NEW h \in Processes, CallbackStep(h) PROVE TypeOK'
  BY <1>3, ReceiveCallbackType, ReadOrderType, AcknowledgeRepeatType, ConfirmPaymentType,
     RefuseConfirmationType, RecordReportType, AnnouncePaidType DEF CallbackStep
<1>4. ASSUME NEW h \in Processes, CancelStep(h) PROVE TypeOK'
  BY <1>4, StartCancelType, CommitCancelType
     DEF CancelStep, BeginUserCancel, BeginLazyCancel, CancelOps
<1>5. ASSUME NEW h \in Processes, AdminStep(h) PROVE TypeOK'
  BY <1>5, BeginAdminPayType, StartCancelType, CommitAdminPayType, CommitCancelType
     DEF AdminStep, BeginAdminCancel, CancelOps
<1>6. ASSUME NEW h \in Processes, WorkerStep(h) PROVE TypeOK'
  BY <1>6, StartCancelType, TimerType, CommitCancelType
     DEF WorkerStep, RunTimeout, SkipTimeout, LoseTimeout, CancelOps
<1>7. ASSUME UNCHANGED vars PROVE TypeOK'
  <2>1. RequestTypeOK'
    BY <1>7, RequestSame, KeptIfUnchanged DEF TypeOK, vars, moneyVars
  <2> QED BY <1>7, <2>1, OnlyRequest DEF vars, moneyVars, stockVars, queueVars, envVars
<1>8. Buyers \subseteq Processes /\ Gateways \subseteq Processes
      /\ Admins \subseteq Processes /\ Workers \subseteq Processes
  BY DEF Processes
<1> QED BY <1>1, <1>2, <1>3, <1>4, <1>5, <1>6, <1>7, <1>8,
           AbortType, PayerPaysType, ExpireType DEF Next

\* The tables of the shop hold rows of their types, and no request names a row
\* that does not exist, in every state of every shop: for any orders, quantities,
\* prices, cards and channels, and any number of overlapping requests.
THEOREM TypeCorrect == Spec => []TypeOK
BY InitType, StepType, PTL DEF Spec
=============================================================================
