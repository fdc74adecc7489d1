------------------------------ MODULE Checkout ------------------------------
(***************************************************************************)
(* Placing, paying and cancelling orders: order_service.go,                *)
(* order_service_child.go, payment_service*.go and the wallet, stock, card *)
(* secret, coupon and queue operations they call.                          *)
(*                                                                         *)
(* A database transaction is one step.  A handler that first reads rows    *)
(* outside a transaction and then commits takes a step for each, and what  *)
(* it read is kept in request[h]: between the two, every other handler may *)
(* act.  A call to a payment gateway is a step of its own.                 *)
(***************************************************************************)
EXTENDS Integers, Sequences, FiniteSets, Functions, OrderStatus, ManualStock

CONSTANTS
  Orders,         \* the parent orders a buyer will try to place
  NoOrder,        \* the order of an idle request or a free card
  ManualSkus, AutoSkus, UpstreamSkus,
  Quantity,       \* Quantity[o][k]: units of SKU k in order o, 0 if absent
  TotalAmount,    \* TotalAmount[o]: what is to be paid after discounts
  CouponOrders,   \* the orders placed with the (one) coupon
  UsageLimit,     \* Coupon.UsageLimit, 0 meaning no limit
  Cards,          \* card secrets, numbered in the order of their ids
  CardSku,        \* CardSku[c]: the SKU a card secret belongs to
  ManualTotal,    \* ManualTotal[k]: manual_stock_total before any order
  OpeningBalance, \* the buyer's wallet balance at the start
  Channels,       \* payment channels
  Buyers,         \* concurrent HTTP requests of buyers
  Gateways,       \* concurrent HTTP requests of payment gateways (callbacks)
  Admins,         \* concurrent HTTP requests of administrators
  Workers,        \* concurrent queue workers
  MaxPayments,    \* bound: payment rows created
  MaxAborts       \* bound: requests that die halfway (crash, panic, lost database)

Skus == ManualSkus \union AutoSkus \union UpstreamSkus
FulfillmentType(k) == IF k \in AutoSkus THEN "auto"
                      ELSE IF k \in ManualSkus THEN "manual" ELSE "upstream"

\* createOrder makes one child order per SKU (mergeCreateOrderItems joins equal
\* items first), so a child is named by its parent and its SKU.
Lines(o) == {k \in Skus : Quantity[o][k] > 0}
PaymentIds == 1..MaxPayments
\* One process may serve several kinds of request, one after the other.
Processes == Buyers \union Gateways \union Admins \union Workers

ASSUME CheckoutAssumption ==
  /\ NoOrder \notin Orders
  /\ Quantity \in [Orders -> [Skus -> Nat]]
  /\ \A o \in Orders : Lines(o) # {}
  /\ TotalAmount \in [Orders -> Nat \ {0}]
  /\ CouponOrders \subseteq Orders
  /\ UsageLimit \in Nat
  /\ Cards \subseteq Nat /\ IsFiniteSet(Cards)
  /\ CardSku \in [Cards -> AutoSkus]
  /\ ManualTotal \in [ManualSkus -> Nat \union {ManualStockUnlimited}]
  /\ OpeningBalance \in Nat
  /\ MaxPayments \in Nat
  /\ MaxAborts \in Nat

VARIABLES
  order,      \* parent order rows
  line,       \* line[o][k]: status of the child order of o for SKU k
  payment,    \* payment rows
  balance,    \* the buyer's wallet account
  journal,    \* wallet transactions
  stock,      \* manual stock rows
  card,       \* card secret rows
  coupon,     \* the coupon's used_count and its coupon_usages rows
  timer,      \* timer[o]: the queued order:timeout_cancel task
  autoTask,   \* queued order:auto_fulfill tasks, as <<order, SKU>>
  settled,    \* environment: payments the gateway has collected the money of
  overridden, \* history: orders an administrator marked as paid
  request,    \* what each process is in the middle of, with what it has read
  aborts      \* number of requests that died halfway

moneyVars == <<payment, balance, journal>>
stockVars == <<stock, card>>
queueVars == <<timer, autoTask>>
envVars   == <<settled, overridden, aborts>>
vars == <<order, line, payment, balance, journal, stock, card, coupon, timer,
          autoTask, settled, overridden, request, aborts>>

PaymentStatuses == {"initiated", "pending", "success", "failed", "expired"}
OpenPayment == {"initiated", "pending"}
CancelOps == {"userCancel", "cancel", "timeout"}
Ops == {"idle", "place", "schedule", "gateway", "callback", "apply", "announce",
        "adminPay"} \union CancelOps

Idle == [op |-> "idle", order |-> NoOrder, payment |-> 0, target |-> "none",
         seenPayment |-> "none", seenLapsed |-> FALSE,
         seenStatus |-> "none", seenWallet |-> 0]
\* A request for order o; the fields it has not read yet stay as in Idle.
Busy(op, o) == [Idle EXCEPT !.op = op, !.order = o]
\* Seeded fault: the copy lacks wallet_paid_amount.
BusyWithoutWallet(op, o) == [Busy(op, o) EXCEPT !.seenStatus = order[o].status]
\* A request that holds a copy of order o's row.
BusyWithCopy(op, o) == [Busy(op, o) EXCEPT !.seenStatus = order[o].status,
                                           !.seenWallet = order[o].wallet]

NoPayment == [order |-> NoOrder, channel |-> "none", amount |-> 0,
              status |-> "none", url |-> FALSE, lapsed |-> FALSE]
FreeCard == [status |-> "available", order |-> NoOrder]

Init ==
  /\ order = [o \in Orders |-> [status |-> "none", paid |-> FALSE, expired |-> FALSE,
                                wallet |-> 0, online |-> 0]]
  /\ line = [o \in Orders |-> [k \in Skus |-> "none"]]
  /\ payment = [p \in PaymentIds |-> NoPayment]
  /\ balance = OpeningBalance
  /\ journal = << >>
  /\ stock = [k \in ManualSkus |-> [total |-> ManualTotal[k], locked |-> 0, sold |-> 0]]
  /\ card = [c \in Cards |-> FreeCard]
  /\ coupon = [used |-> 0, usages |-> {}]
  /\ timer = [o \in Orders |-> "none"]
  /\ autoTask = {}
  /\ settled = {}
  /\ overridden = {}
  /\ request = [h \in Processes |-> Idle]
  /\ aborts = 0

-----------------------------------------------------------------------------
(* The wallet: ApplyOrderBalance and ReleaseOrderBalance.                   *)

PayReference(o)    == <<"order_pay", o>>
RefundReference(o) == <<"order_refund", o>>
Posted(r) == \E i \in DOMAIN journal : journal[i].reference = r

\* The account row and the wallet_transactions row, written together.
PostEntry(r, amount) ==
  /\ balance' = balance + amount
  /\ journal' = Append(journal, [reference |-> r, amount |-> amount,
                                 before |-> balance, after |-> balance + amount])

\* Seeded fault: an earlier deduction for o is not looked for.
RepeatedDeduction(o) ==
  IF order[o].wallet > 0 \/ balance <= 0 THEN 0
  ELSE IF balance > TotalAmount[o] THEN TotalAmount[o] ELSE balance

\* What ApplyOrderBalance deducts for o: nothing if o already carries a wallet
\* payment, the account is empty, or a deduction was ever posted for o.
Deduction(o) ==
  IF order[o].wallet > 0 \/ balance <= 0 \/ Posted(PayReference(o)) THEN 0
  ELSE IF balance > TotalAmount[o] THEN TotalAmount[o] ELSE balance

\* What ReleaseOrderBalance credits when called with a copy of o that shows
\* amount: nothing if a refund was ever posted for o, or the UPDATE guarded by
\* wallet_paid_amount > 0 finds no row.
Credit(o, amount) ==
  IF amount > 0 /\ ~Posted(RefundReference(o)) /\ order[o].wallet > 0 THEN amount ELSE 0

\* The wallet side of a release; the order side is ReleasedRow.
PostCredit(o, amount) ==
  IF Credit(o, amount) = 0
    THEN UNCHANGED <<balance, journal>>
    ELSE PostEntry(RefundReference(o), Credit(o, amount))

\* Seeded faults: one column of the order is left as it was.
ReleasedKeepingWallet(o, amount) ==
  IF Credit(o, amount) = 0 THEN order[o] ELSE [order[o] EXCEPT !.online = TotalAmount[o]]
ReleasedKeepingOnline(o, amount) ==
  IF Credit(o, amount) = 0 THEN order[o] ELSE [order[o] EXCEPT !.wallet = 0]

ReleasedRow(o, amount) ==
  IF Credit(o, amount) = 0 THEN order[o]
  ELSE [order[o] EXCEPT !.wallet = 0, !.online = TotalAmount[o]]

-----------------------------------------------------------------------------
(* Stock, cards and coupon.                                                 *)

\* The stock rows after applying update to every manual line of o.
StockAfter(update(_, _), o) ==
  [k \in ManualSkus |-> IF k \in Lines(o) /\ IsEnforced(stock[k])
                          THEN update(stock[k], Quantity[o][k]) ELSE stock[k]]

AvailableCards(k) == {c \in Cards : CardSku[c] = k /\ card[c].status = "available"}
\* Seeded fault: one card too many.
FirstCardsAndOne(k, n) ==
  {c \in AvailableCards(k) : Cardinality({d \in AvailableCards(k) : d < c}) <= n}
\* ListAvailableByProductForUpdate: the n available cards with the lowest ids.
FirstCards(k, n) ==
  {c \in AvailableCards(k) : Cardinality({d \in AvailableCards(k) : d < c}) < n}
CardsFor(o) == UNION {FirstCards(k, Quantity[o][k]) : k \in AutoSkus}

HasStock(o) ==
  /\ \A k \in AutoSkus : Cardinality(AvailableCards(k)) >= Quantity[o][k]
  /\ \A k \in ManualSkus \intersect Lines(o) :
       IsEnforced(stock[k]) => CanReserve(stock[k], Quantity[o][k])

\* The coupon part of ApplyCoupon that looks at used_count.
CouponLeft(o) ==
  o \in CouponOrders /\ UsageLimit > 0 => coupon.used < UsageLimit

\* Seeded fault: the usage row is deleted and the counter forgotten.
CouponRowOnly(o) == [coupon EXCEPT !.usages = @ \ {o}]

\* rollbackCoupon: DecrementUsedCount by the usages deleted with the order.
CouponAfterRollback(o) ==
  IF o \in coupon.usages
    THEN [used |-> IF coupon.used >= 1 THEN coupon.used - 1 ELSE coupon.used,
          usages |-> coupon.usages \ {o}]
    ELSE coupon

-----------------------------------------------------------------------------
(* createOrder.                                                             *)

\* buildOrderResult prices the order and checks the coupon before, and outside,
\* the transaction that will use it up.
BeginPlace(h, o) ==
  /\ request[h] = Idle
  /\ order[o].status = "none"
  /\ \A g \in Processes : ~(request[g].op = "place" /\ request[g].order = o)
  /\ CouponLeft(o)
  /\ request' = [request EXCEPT ![h] = Busy("place", o)]
  /\ UNCHANGED <<order, line, moneyVars, stockVars, coupon, queueVars, envVars>>

PlaceOrder(h) ==
  LET o == request[h].order
  IN /\ request[h].op = "place"
     /\ HasStock(o)
     /\ order' = [order EXCEPT ![o].status = "pending_payment",
                               ![o].online = TotalAmount[o]]
     /\ line' = [line EXCEPT ![o] =
                   [k \in Skus |-> IF k \in Lines(o) THEN "pending_payment" ELSE "none"]]
     /\ card' = [c \in Cards |-> IF c \in CardsFor(o)
                                   THEN [status |-> "reserved", order |-> o] ELSE card[c]]
     /\ stock' = StockAfter(ReserveManualStock, o)
     /\ coupon' = IF o \in CouponOrders
                    THEN [used |-> coupon.used + 1, usages |-> coupon.usages \union {o}]
                    ELSE coupon
     /\ request' = [request EXCEPT ![h] = Busy("schedule", o)]
     /\ UNCHANGED <<moneyVars, queueVars, envVars>>

\* ErrCardSecretInsufficient or ErrManualStockInsufficient rolls everything back.
RejectOrder(h) ==
  /\ request[h].op = "place"
  /\ ~HasStock(request[h].order)
  /\ request' = [request EXCEPT ![h] = Idle]
  /\ UNCHANGED <<order, line, moneyVars, stockVars, coupon, queueVars, envVars>>

ScheduleTimeout(h) ==
  LET o == request[h].order
  IN /\ request[h].op = "schedule"
     /\ timer' = [timer EXCEPT ![o] = "scheduled"]
     /\ request' = [request EXCEPT ![h] = Idle]
     /\ UNCHANGED <<order, line, moneyVars, stockVars, coupon, autoTask, envVars>>

\* Seeded fault: the order is kept although nothing will time it out.
ScheduleFailureIgnored(h) ==
  /\ request[h].op = "schedule"
  /\ request' = [request EXCEPT ![h] = Idle]
  /\ UNCHANGED <<order, line, moneyVars, stockVars, coupon, queueVars, envVars>>

\* The queue refuses the task: the order just placed is read back, to be
\* cancelled, whatever its status is by then.
ScheduleTimeoutFails(h) ==
  /\ request[h].op = "schedule"
  /\ request' = [request EXCEPT ![h] = BusyWithCopy("cancel", request[h].order)]
  /\ UNCHANGED <<order, line, moneyVars, stockVars, coupon, queueVars, envVars>>

-----------------------------------------------------------------------------
(* markOrderPaid, shared by CreatePayment and HandleCallback.               *)

PaidLines(o) ==
  [k \in Skus |-> IF k \notin Lines(o) THEN "none"
                  ELSE IF ShouldMarkFulfilling(FulfillmentType(k)) THEN "fulfilling"
                  ELSE "paid"]

\* Seeded fault: the parent is "paid" whatever its lines are.
PaidRowUnaggregated(o, row, seenWallet) ==
  [row EXCEPT !.status = "paid", !.paid = TRUE, !.online = TotalAmount[o] - seenWallet]

\* row is the order row as the transaction has left it so far; seenWallet is
\* the wallet_paid_amount of the copy of the order markOrderPaid was given.
PaidRow(o, row, seenWallet) ==
  [row EXCEPT !.status = CalcParentStatus(Lines(o), PaidLines(o), "paid"),
              !.paid = TRUE,
              !.online = TotalAmount[o] - seenWallet]

MarkOrderPaid(o, row, seenWallet) ==
  /\ order' = [order EXCEPT ![o] = PaidRow(o, row, seenWallet)]
  /\ line' = [line EXCEPT ![o] = PaidLines(o)]
  /\ stock' = StockAfter(ConsumeManualStock, o)

-----------------------------------------------------------------------------
(* CreatePayment.                                                           *)

NextPayment(p) ==
  /\ payment[p].status = "none"
  /\ \A q \in PaymentIds : q < p => payment[q].status # "none"

\* The checks of CreatePayment on the locked order.
Payable(o) == order[o].status = "pending_payment" /\ ~order[o].expired

\* GetLatestPendingByOrderChannel finds a row with a provider result, which is
\* handed out again.
Reusable(o, ch) ==
  \E p \in PaymentIds :
    /\ payment[p].order = o /\ payment[p].channel = ch
    /\ payment[p].status \in OpenPayment
    /\ payment[p].url /\ ~payment[p].lapsed

\* Order o after ApplyOrderBalance.
FundedRow(o) ==
  IF Deduction(o) = 0 THEN order[o]
  ELSE [order[o] EXCEPT !.wallet = Deduction(o), !.online = TotalAmount[o] - Deduction(o)]

PostDeduction(o) ==
  IF Deduction(o) = 0 THEN UNCHANGED <<balance, journal>>
  ELSE PostEntry(PayReference(o), -Deduction(o))

\* The balance covers the whole order: a wallet payment is recorded as a success
\* and the order marked paid, all in the one transaction.
PayByWallet(h, o, p) ==
  /\ request[h] = Idle
  /\ Payable(o)
  /\ NextPayment(p)
  /\ FundedRow(o).wallet >= TotalAmount[o]
  /\ PostDeduction(o)
  /\ payment' = [payment EXCEPT ![p] =
                   [NoPayment EXCEPT !.order = o, !.channel = "wallet",
                                     !.amount = FundedRow(o).wallet, !.status = "success"]]
  /\ MarkOrderPaid(o, FundedRow(o), FundedRow(o).wallet)
  /\ request' = [request EXCEPT ![h] = Busy("announce", o)]
  /\ UNCHANGED <<card, coupon, queueVars, envVars>>

\* Something is left to pay online once the wallet's part is row.wallet: a payment
\* row is created for the rest, and the gateway called after the commit.
OpenPaymentFor(h, o, ch, p, row) ==
  /\ request[h] = Idle
  /\ Payable(o)
  /\ ~Reusable(o, ch)
  /\ NextPayment(p)
  /\ row.wallet < TotalAmount[o]
  /\ payment' = [payment EXCEPT ![p] =
                   [NoPayment EXCEPT !.order = o, !.channel = ch,
                                     !.amount = TotalAmount[o] - row.wallet,
                                     !.status = "initiated"]]
  /\ order' = [order EXCEPT ![o] = [row EXCEPT !.online = TotalAmount[o] - row.wallet]]
  /\ request' = [request EXCEPT ![h] = [Busy("gateway", o) EXCEPT !.payment = p]]
  /\ UNCHANGED <<line, stockVars, coupon, queueVars, envVars>>

\* CreatePayment with UseBalance.
PayWithBalance(h, o, ch, p) ==
  /\ OpenPaymentFor(h, o, ch, p, FundedRow(o))
  /\ PostDeduction(o)

\* CreatePayment without it gives back what an earlier one took.
PayOnline(h, o, ch, p) ==
  /\ OpenPaymentFor(h, o, ch, p, ReleasedRow(o, order[o].wallet))
  /\ PostCredit(o, order[o].wallet)

\* The gateway answers with a pay URL or QR code; applyProviderPayment saves the
\* whole row as it was created, plus that answer.
GatewayAccepts(h) ==
  /\ request[h].op = "gateway"
  /\ payment' = [payment EXCEPT ![request[h].payment].status = "pending",
                                ![request[h].payment].url = TRUE,
                                ![request[h].payment].lapsed = FALSE]
  /\ request' = [request EXCEPT ![h] = Idle]
  /\ UNCHANGED <<order, line, balance, journal, stockVars, coupon, queueVars, envVars>>

\* The gateway refuses: the row is saved as failed and the wallet payment of the
\* order, read afresh, is given back.
GatewayRefuses(h) ==
  LET o == request[h].order
  IN /\ request[h].op = "gateway"
     /\ payment' = [payment EXCEPT ![request[h].payment].status = "failed",
                                   ![request[h].payment].lapsed = FALSE]
     /\ order' = [order EXCEPT ![o] = ReleasedRow(o, order[o].wallet)]
     /\ PostCredit(o, order[o].wallet)
     /\ request' = [request EXCEPT ![h] = Idle]
     /\ UNCHANGED <<line, stockVars, coupon, queueVars, envVars>>

\* The buyer pays at the gateway, which neither knows nor cares what has become
\* of the order meanwhile.
PayerPays(p) ==
  /\ payment[p].url
  /\ p \notin settled
  /\ settled' = settled \union {p}
  /\ UNCHANGED <<order, line, moneyVars, stockVars, coupon, queueVars, overridden,
                 request, aborts>>

-----------------------------------------------------------------------------
(* HandleCallback (webhooks, and CapturePayment's query of the gateway).    *)

\* What may be reported of payment p: success only once the gateway has the money,
\* then any number of times; that it is being processed or that an attempt failed
\* also later, for such reports may be delayed; that the session expired only
\* while nothing was collected.  A report may overtake the answer to the call
\* that opened the payment, or come although that answer was lost.
Reportable(p) ==
  {"pending", "failed"} \union (IF p \in settled THEN {"success"} ELSE {"expired"})

ReceiveCallback(h, p, target) ==
  /\ request[h] = Idle
  /\ payment[p].status # "none" /\ payment[p].channel # "wallet"
  /\ target \in Reportable(p)
  /\ request' = [request EXCEPT ![h] =
                   [Busy("callback", payment[p].order)
                      EXCEPT !.payment = p, !.target = target,
                             !.seenPayment = payment[p].status,
                             !.seenLapsed = payment[p].lapsed]]
  /\ UNCHANGED <<order, line, moneyVars, stockVars, coupon, queueVars, envVars>>

\* The order is read after the payment, in a query of its own.
ReadOrder(h) ==
  LET o == request[h].order
  IN /\ request[h].op = "callback"
     /\ request' = [request EXCEPT ![h].op = "apply",
                                   ![h].seenStatus = order[o].status,
                                   ![h].seenWallet = order[o].wallet]
     /\ UNCHANGED <<order, line, moneyVars, stockVars, coupon, queueVars, envVars>>

\* paymentRepo.Update saves every column of the copy, with its status set. (A copy
\* older than the gateway's answer also erases pay_url, so that the payment is handed
\* out no more; url stays here, for the buyer has it.)
SavePayment(r, status) ==
  payment' = [payment EXCEPT ![r.payment].status = status,
                             ![r.payment].lapsed = r.seenLapsed \/ status = "expired"]

\* Seeded fault: a success is processed again when something else is reported.
IsSameStatus(r) == r.seenPayment = r.target
\* The copy already is a success, or already in the reported status.
IsRepeat(r) == r.seenPayment \in {"success", r.target}

\* updateCallbackMeta: only the callback's metadata is new, yet the whole copy
\* is saved.
AcknowledgeRepeat(h) ==
  /\ request[h].op = "apply"
  /\ IsRepeat(request[h])
  /\ payment' = [payment EXCEPT ![request[h].payment].status = request[h].seenPayment,
                                ![request[h].payment].lapsed = request[h].seenLapsed]
  /\ request' = [request EXCEPT ![h] = Idle]
  /\ UNCHANGED <<order, line, balance, journal, stockVars, coupon, queueVars, envVars>>

\* Seeded fault: any report marks the order paid.
ConfirmsAnyReport(r) == r.seenStatus # "paid"
\* The report that makes applyPaymentUpdate call markOrderPaid.
Confirms(r) == r.target = "success" /\ r.seenStatus # "paid"

\* applyPaymentUpdate: a success for an order seen unpaid marks it paid.
ConfirmPayment(h) ==
  LET r == request[h]
  IN /\ r.op = "apply"
     /\ ~IsRepeat(r) /\ Confirms(r)
     /\ IsTransitionAllowed(r.seenStatus, "paid")
     /\ SavePayment(r, "success")
     /\ MarkOrderPaid(r.order, order[r.order], r.seenWallet)
     /\ request' = [request EXCEPT ![h] = Busy("announce", r.order)]
     /\ UNCHANGED <<balance, journal, card, coupon, queueVars, envVars>>

\* ... unless it was seen in a status that cannot become paid: then the payment
\* update is rolled back with it, and the gateway is told of an error.
RefuseConfirmation(h) ==
  LET r == request[h]
  IN /\ r.op = "apply"
     /\ ~IsRepeat(r) /\ Confirms(r)
     /\ ~IsTransitionAllowed(r.seenStatus, "paid")
     /\ request' = [request EXCEPT ![h] = Idle]
     /\ UNCHANGED <<order, line, moneyVars, stockVars, coupon, queueVars, envVars>>

\* ... and for an order seen paid, or any other report, the payment is saved; a
\* failure gives back the wallet payment of an order seen pending.
RecordReport(h) ==
  LET r == request[h]
      o == r.order
      released == IF r.target \in {"failed", "expired"} /\ r.seenStatus = "pending_payment"
                    THEN r.seenWallet ELSE 0
  IN /\ r.op = "apply"
     /\ ~IsRepeat(r) /\ ~Confirms(r)
     /\ SavePayment(r, r.target)
     /\ order' = [order EXCEPT ![o] = ReleasedRow(o, released)]
     /\ PostCredit(o, released)
     /\ request' = [request EXCEPT ![h] = Idle]
     /\ UNCHANGED <<line, stockVars, coupon, queueVars, envVars>>

\* enqueueOrderPaidAsync: each automatic line is queued for delivery, after the
\* commit and one by one; a task the queue refuses is logged and forgotten.
AnnouncePaid(h) ==
  LET o == request[h].order
      auto == {k \in Lines(o) : ShouldAutoFulfill(FulfillmentType(k))}
  IN /\ request[h].op = "announce"
     /\ \E sent \in SUBSET auto : autoTask' = autoTask \union ({o} \X sent)
     /\ request' = [request EXCEPT ![h] = Idle]
     /\ UNCHANGED <<order, line, moneyVars, stockVars, coupon, timer, envVars>>

-----------------------------------------------------------------------------
(* Cancelling: by the buyer, by whoever reads an expired order, by an       *)
(* administrator, by the timeout task.                                      *)

StartCancel(h, o, op) ==
  /\ request[h] = Idle
  /\ request' = [request EXCEPT ![h] = BusyWithCopy(op, o)]
  /\ UNCHANGED <<order, line, moneyVars, stockVars, coupon, queueVars, envVars>>

\* CancelOrder.
BeginUserCancel(h, o) ==
  /\ order[o].status = "pending_payment"
  /\ StartCancel(h, o, "userCancel")

\* ensureOrderCanceledIfExpired, run by every handler that shows an order.
BeginLazyCancel(h, o) ==
  /\ order[o].status = "pending_payment" /\ order[o].expired
  /\ StartCancel(h, o, "cancel")

\* UpdateOrderStatus to canceled of a parent: every other status will do.
BeginAdminCancel(h, o) ==
  /\ order[o].status \notin {"none", "canceled"}
  /\ StartCancel(h, o, "cancel")

\* Seeded fault: the due time is compared the wrong way round.
DeliverableBeforeDue(w, o) ==
  /\ request[w] = Idle
  /\ timer[o] = "scheduled" /\ ~order[o].expired
  /\ \A v \in Processes : ~(request[v].op = "timeout" /\ request[v].order = o)

\* The queue hands the due timeout task of o to worker w; it is delivered again
\* until a handler has returned, but to one worker at a time.
Deliverable(w, o) ==
  /\ request[w] = Idle
  /\ timer[o] = "scheduled" /\ order[o].expired
  /\ \A v \in Processes : ~(request[v].op = "timeout" /\ request[v].order = o)

\* CancelExpiredOrder, run by the timeout task.
RunTimeout(w, o) ==
  /\ Deliverable(w, o)
  /\ order[o].status = "pending_payment"
  /\ StartCancel(w, o, "timeout")

\* The task finds the order already paid or canceled.
SkipTimeout(w, o) ==
  /\ Deliverable(w, o)
  /\ order[o].status # "pending_payment"
  /\ timer' = [timer EXCEPT ![o] = "done"]
  /\ UNCHANGED <<order, line, moneyVars, stockVars, coupon, autoTask, envVars, request>>

\* The order cannot be read: handleOrderTimeoutCancel swallows ErrOrderFetchFailed,
\* so the task is over and will not be tried again.
LoseTimeout(w, o) ==
  /\ Deliverable(w, o)
  /\ timer' = [timer EXCEPT ![o] = "lost"]
  /\ UNCHANGED <<order, line, moneyVars, stockVars, coupon, autoTask, envVars, request>>

\* cancelOrderWithChildren: it does not look at the status again.
CommitCancel(h) ==
  LET r == request[h]
      o == r.order
  IN /\ r.op \in CancelOps
     /\ order' = [order EXCEPT ![o] = [ReleasedRow(o, r.seenWallet) EXCEPT !.status = "canceled"]]
     /\ line' = [line EXCEPT ![o] = [k \in Skus |-> IF k \in Lines(o) THEN "canceled" ELSE "none"]]
     /\ card' = [c \in Cards |-> IF card[c] = [status |-> "reserved", order |-> o]
                                   THEN FreeCard ELSE card[c]]
     /\ stock' = StockAfter(ReleaseManualStock, o)
     /\ coupon' = IF r.op = "userCancel" THEN coupon ELSE CouponAfterRollback(o)
     /\ PostCredit(o, r.seenWallet)
     /\ payment' = [p \in PaymentIds |->
                      IF payment[p].order = o /\ payment[p].status \in OpenPayment
                        THEN [payment[p] EXCEPT !.status = "expired", !.lapsed = TRUE]
                        ELSE payment[p]]
     /\ timer' = IF r.op = "timeout" THEN [timer EXCEPT ![o] = "done"] ELSE timer
     /\ request' = [request EXCEPT ![h] = Idle]
     /\ UNCHANGED <<autoTask, envVars>>

-----------------------------------------------------------------------------
(* UpdateOrderStatus to paid of a parent, by an administrator.              *)

BeginAdminPay(h, o) ==
  /\ request[h] = Idle
  /\ order[o].status = "pending_payment"
  /\ request' = [request EXCEPT ![h] = Busy("adminPay", o)]
  /\ UNCHANGED <<order, line, moneyVars, stockVars, coupon, queueVars, envVars>>

\* updateOrderToPaidInTx for the parent and each child; nothing is queued for
\* automatic delivery.
CommitAdminPay(h) ==
  LET o == request[h].order
  IN /\ request[h].op = "adminPay"
     /\ order' = [order EXCEPT ![o].status = "paid", ![o].paid = TRUE]
     /\ line' = [line EXCEPT ![o] = [k \in Skus |-> IF k \in Lines(o) THEN "paid" ELSE "none"]]
     /\ stock' = StockAfter(ConsumeManualStock, o)
     /\ overridden' = overridden \union {o}
     /\ request' = [request EXCEPT ![h] = Idle]
     /\ UNCHANGED <<moneyVars, card, coupon, queueVars, settled, aborts>>

-----------------------------------------------------------------------------
(* Time and failure.                                                        *)

\* The clock passes the order's expires_at.
Expire(o) ==
  /\ order[o].status # "none" /\ ~order[o].expired
  /\ order' = [order EXCEPT ![o].expired = TRUE]
  /\ UNCHANGED <<line, moneyVars, stockVars, coupon, queueVars, envVars, request>>

\* The process dies, panics or loses the database between two of its steps.
Abort(h) ==
  /\ request[h] # Idle
  /\ aborts < MaxAborts
  /\ aborts' = aborts + 1
  /\ request' = [request EXCEPT ![h] = Idle]
  /\ UNCHANGED <<order, line, moneyVars, stockVars, coupon, queueVars, settled, overridden>>

-----------------------------------------------------------------------------
PlaceStep(h) ==
  \/ \E o \in Orders : BeginPlace(h, o)
  \/ PlaceOrder(h) \/ RejectOrder(h)
  \/ ScheduleTimeout(h) \/ ScheduleTimeoutFails(h)

PayStep(h) ==
  \/ \E o \in Orders, p \in PaymentIds :
       \/ PayByWallet(h, o, p)
       \/ \E ch \in Channels : PayWithBalance(h, o, ch, p) \/ PayOnline(h, o, ch, p)
  \/ GatewayAccepts(h) \/ GatewayRefuses(h)
  \/ AnnouncePaid(h)

CallbackStep(h) ==
  \/ \E p \in PaymentIds, t \in PaymentStatuses : ReceiveCallback(h, p, t)
  \/ ReadOrder(h)
  \/ AcknowledgeRepeat(h) \/ ConfirmPayment(h) \/ RefuseConfirmation(h) \/ RecordReport(h)
  \/ AnnouncePaid(h)

CancelStep(h) ==
  \/ \E o \in Orders : BeginUserCancel(h, o) \/ BeginLazyCancel(h, o)
  \/ CommitCancel(h)

AdminStep(a) ==
  \/ \E o \in Orders : BeginAdminPay(a, o) \/ BeginAdminCancel(a, o)
  \/ CommitAdminPay(a)
  \/ CommitCancel(a)

WorkerStep(w) ==
  \/ \E o \in Orders : RunTimeout(w, o) \/ SkipTimeout(w, o) \/ LoseTimeout(w, o)
  \/ CommitCancel(w)

Next ==
  \/ \E b \in Buyers : PlaceStep(b) \/ PayStep(b) \/ CancelStep(b)
  \/ \E g \in Gateways : CallbackStep(g)
  \/ \E a \in Admins : AdminStep(a)
  \/ \E w \in Workers : WorkerStep(w)
  \/ \E h \in Processes : Abort(h)
  \/ \E p \in PaymentIds : PayerPays(p)
  \/ \E o \in Orders : Expire(o)

Spec == Init /\ [][Next]_vars

\* The queue delivers a due timeout task until a handler has returned, and a
\* worker finishes the transaction it started unless it dies.  Nothing is
\* assumed of buyers, gateways or administrators.
TimeoutFairness ==
  \A w \in Workers :
    /\ WF_vars(\E o \in Orders : RunTimeout(w, o) \/ SkipTimeout(w, o))
    /\ WF_vars(CommitCancel(w))

FairSpec == Spec /\ TimeoutFairness

-----------------------------------------------------------------------------
(* Types.                                                                   *)

References == {"order_pay", "order_refund"} \X Orders

OrderRow == [status : {"none"} \union OrderStatuses, paid : BOOLEAN, expired : BOOLEAN,
             wallet : Nat, online : Int]
PaymentRow == [order : Orders \union {NoOrder}, channel : Channels \union {"none", "wallet"},
               amount : Int, status : {"none"} \union PaymentStatuses,
               url : BOOLEAN, lapsed : BOOLEAN]
JournalEntry == [reference : References, amount : Int, before : Nat, after : Nat]
CardRow == [status : {"available", "reserved"}, order : Orders \union {NoOrder}]
Request == [op : Ops, order : Orders \union {NoOrder}, payment : {0} \union PaymentIds,
            target : {"none"} \union PaymentStatuses,
            seenPayment : {"none"} \union PaymentStatuses, seenLapsed : BOOLEAN,
            seenStatus : {"none"} \union OrderStatuses, seenWallet : Nat]

OrderTypeOK == order \in [Orders -> OrderRow]
LineTypeOK == line \in [Orders -> [Skus -> {"none"} \union OrderStatuses]]
PaymentTypeOK ==
  /\ payment \in [PaymentIds -> PaymentRow]
  /\ \A p \in PaymentIds :
       /\ payment[p].url => payment[p].status # "none"
       /\ payment[p].status # "none" => payment[p].order \in Orders
WalletTypeOK == balance \in Nat /\ journal \in Seq(JournalEntry)
StockTypeOK == stock \in [ManualSkus -> StockRow] /\ card \in [Cards -> CardRow]
CouponTypeOK == coupon \in [used : Nat, usages : SUBSET Orders]
QueueTypeOK ==
  /\ timer \in [Orders -> {"none", "scheduled", "done", "lost"}]
  /\ autoTask \subseteq Orders \X Skus
EnvTypeOK == settled \subseteq PaymentIds /\ overridden \subseteq Orders /\ aborts \in 0..MaxAborts
\* A request in the middle of its work names its order; after a gateway was
\* called, or has called, it names the payment, of which a callback holds a copy.
Sensible(r) ==
  /\ r.op # "idle" => r.order \in Orders
  /\ r.op \in {"gateway", "callback", "apply"} => r.payment \in PaymentIds
  /\ r.op \in {"callback", "apply"} => r.target # "none" /\ r.seenPayment # "none"
RequestTypeOK ==
  /\ request \in [Processes -> Request]
  /\ \A h \in Processes :
       /\ Sensible(request[h])
       /\ request[h].op \in {"gateway", "callback", "apply"} =>
            payment[request[h].payment].status # "none"

\* The tables hold rows of their types, and requests name rows that exist.
TypeOK ==
  /\ OrderTypeOK /\ LineTypeOK /\ PaymentTypeOK /\ WalletTypeOK
  /\ StockTypeOK /\ CouponTypeOK /\ QueueTypeOK /\ EnvTypeOK /\ RequestTypeOK

-----------------------------------------------------------------------------
(* Money.                                                                   *)

Ledger == INSTANCE WalletLedger

\* Every handler, in any interleaving, moves the wallet only by postings of the
\* abstract ledger: one entry under a fresh reference, never an overdraft
\* (wallet_service.go's changes to wallet_accounts and wallet_transactions).
ImplementsLedger == Ledger!Spec

Posting(r) == IF Posted(r)
                THEN LET i == CHOOSE j \in DOMAIN journal : journal[j].reference = r
                     IN journal[i].amount
                ELSE 0

\* An order's wallet_paid_amount is what the journal says was taken for it and
\* not given back, and what is given back is all of it or nothing, whatever
\* copies of the order the concurrent handlers of wallet_service.go work from.
WalletPaidMatchesJournal ==
  \A o \in Orders :
    /\ order[o].wallet = -(Posting(PayReference(o)) + Posting(RefundReference(o)))
    /\ Posting(RefundReference(o)) \in {0, -Posting(PayReference(o))}

\* While an order waits for payment, the part paid from the wallet and the part
\* asked for online add up to its total, through every change of mind between
\* CreatePayment's two ways of paying and every failed gateway call.
PendingAmountsAddUp ==
  \A o \in Orders : order[o].status = "pending_payment" =>
    order[o].wallet + order[o].online = TotalAmount[o]

\* A payment counts as a success only when its gateway has collected the money or
\* the wallet paid it, and an order is paid only with such a payment or by an
\* administrator: no repeated, late or failing callback of HandleCallback, and no
\* stale copy it saves, makes money out of nothing.
PaidIsBacked ==
  /\ \A p \in PaymentIds : payment[p].status = "success" =>
       p \in settled \/ payment[p].channel = "wallet"
  /\ \A o \in Orders : order[o].paid =>
       \/ o \in overridden
       \/ \E p \in PaymentIds : /\ payment[p].order = o
                                /\ p \in settled \/ payment[p].channel = "wallet"

-----------------------------------------------------------------------------
(* Orders, stock, cards and coupon.                                         *)

\* The status a parent order shows is the aggregate of its children's statuses,
\* though markOrderPaid, the administrator's override and the cancellations each
\* write the two on their own, over rows others have written since they read them.
ParentAgrees ==
  \A o \in Orders : order[o].status # "none" =>
    order[o].status = CalcParentStatus(Lines(o), line[o], order[o].status)

CardsHeld(o, k) == {c \in Cards : card[c] = [status |-> "reserved", order |-> o] /\ CardSku[c] = k}

\* A card secret is reserved for one order or none; an order waiting for payment
\* holds exactly the cards it will deliver, and a canceled one holds none
\* (createOrder's reservation against cancelOrderWithChildren's release).
ReservationFollowsStatus ==
  /\ \A c \in Cards : card[c].status = "available" <=> card[c].order = NoOrder
  /\ \A o \in Orders, k \in AutoSkus :
       /\ order[o].status = "pending_payment" =>
            Cardinality(CardsHeld(o, k)) = Quantity[o][k]
       /\ order[o].status = "canceled" => CardsHeld(o, k) = {}

\* No interleaving of reserving, consuming and releasing makes or loses a unit of
\* manual stock, or drives a counter of product_sku_repository.go negative.
StockConserved ==
  \A k \in ManualSkus : ManualTotal[k] # ManualStockUnlimited =>
    Units(stock[k]) = ManualTotal[k] /\ stock[k] \in [total : Nat, locked : Nat, sold : Nat]

\* The coupon's used_count is the number of its usage rows, though each is
\* written by a statement of its own, and an order waiting for payment that was
\* placed with the coupon is one of them (coupon_repository.go).
CouponCountExact ==
  /\ coupon.used = Cardinality(coupon.usages)
  /\ \A o \in CouponOrders : order[o].status = "pending_payment" => o \in coupon.usages

\* An unpaid order cannot be forgotten: its timeout task is queued, or its
\* createOrder is still about to queue or to cancel it; unless a request died
\* halfway, or the task was lost to a failed read of the order.
PendingIsWatched ==
  \A o \in Orders : order[o].status = "pending_payment" =>
    \/ timer[o] \in {"scheduled", "lost"}
    \/ \E h \in Processes : request[h].order = o /\ request[h].op \in {"schedule", "cancel"}
    \/ aborts > 0

\* An expired order whose timeout task is queued is closed in the end, whichever
\* workers die on the way: paid, canceled, or lost to a failed read.
TimedOutOrderIsClosed ==
  \A o \in Orders :
    timer[o] = "scheduled" /\ order[o].expired
      ~> order[o].status # "pending_payment" \/ timer[o] = "lost"

-----------------------------------------------------------------------------
(* What holds when requests come one at a time (one process in the sets   *)
(* of processes), and not when they overlap.                                *)

InStatus(o, S) == order[o].status \in S
\* The units of SKU k in the orders of O.
Ordered(O, k) == SumFunctionOnSet([o \in Orders |-> Quantity[o][k]], O)

\* Manual stock is locked for the unpaid orders and sold to the paid ones, no
\* more and no less, across orders sharing a SKU (manual_stock.go).
StockMatchesOrders ==
  \A k \in ManualSkus : ManualTotal[k] # ManualStockUnlimited =>
    /\ stock[k].locked = Ordered({o \in Orders : InStatus(o, {"pending_payment"})}, k)
    /\ stock[k].sold = Ordered({o \in Orders : InStatus(o, {"paid", "fulfilling"})}, k)

\* Requests one at a time: a canceled order stays canceled; a gateway's late success,
\* an administrator's override or a timeout cannot revive it, nor give its stock away
\* twice (markOrderPaid, UpdateOrderStatus).
CanceledIsFinal ==
  [][\A o \in Orders : order[o].status = "canceled" => order'[o].status = "canceled"]_vars

\* A canceled order keeps nothing of the buyer's balance.
CanceledHoldsNoBalance ==
  \A o \in Orders : order[o].status = "canceled" => order[o].wallet = 0

\* What gateways collected for o, as far as the payment rows know.
Collected(o) == SumFunctionOnSet([p \in PaymentIds |-> payment[p].amount],
                  {p \in PaymentIds : /\ payment[p].order = o
                                      /\ payment[p].status = "success"
                                      /\ payment[p].channel # "wallet"})

\* The online_paid_amount of a paid order was paid online (models/order.go).
OnlinePaidWasCollected ==
  \A o \in Orders : order[o].paid /\ o \notin overridden => order[o].online <= Collected(o)

\* Coupon.UsageLimit bounds the orders placed with the coupon (models/coupon.go), when
\* requests do not overlap: uses given back may be taken again, and no more than those.
\* BeginPlace looks at the counter and PlaceOrder counts, so overlapping orders may both
\* take the last use.
CouponWithinLimit == UsageLimit > 0 => coupon.used <= UsageLimit

\* A payment that succeeded is never moved to another status by a repeated or
\* delayed callback (HandleCallback's idempotency).
SuccessIsFinal ==
  [][\A p \in PaymentIds : payment[p].status = "success" => payment'[p].status = "success"]_vars
=============================================================================
