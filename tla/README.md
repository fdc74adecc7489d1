# Verification of the shop: orders, payments, delivery and money

TLA+ models of the part of this repository that must not go wrong: how an order is
placed, paid, cancelled and timed out, delivered from stock or bought from another
site, and refunded, and how it moves stock, card secrets, coupons, the buyer's wallet and
an affiliate's commissions while payment gateways, queue workers, other sites,
administrators and the buyer act at the same time. TLC checks small instances; TLAPS
proves what is stated for every instance.

All paths below are under `src/internal/`.

## 1. The system

A Go service over one SQL database (SQLite or PostgreSQL) and a Redis queue (asynq).
HTTP handlers call services; services read rows, open a transaction, and after the
commit queue tasks, which workers of the same program run.

| Component | Source | State | Operations | What makes it correct |
|---|---|---|---|---|
| Order status rules | `service/order_status.go`, `allowedTransitions` in `order_service.go` | none | transition table, aggregate of child statuses | the parent shows the aggregate of its children |
| Order lifecycle | `service/order_service*.go`, `repository/order_repository.go` | `orders` (parent and one child per SKU) | create; cancel by buyer, administrator, timeout, on reading; pay by override; complete; refund statuses | a canceled order stays canceled and holds nothing; an expired one is closed |
| Stock and card secrets | `service/manual_stock.go`, `repository/product_sku_repository.go`, `card_secret_repository.go` | total, locked and sold units per SKU; status and order per card | reserve, release, consume; mark used | no unit made or lost, no card for two orders |
| Order payments | `service/payment_service*.go` | `payments` | create (from the wallet, online, both, reuse), callback, capture | a success is backed by money and final; amounts add up |
| Wallet and recharge | `service/wallet_service.go` | `wallet_accounts`, `wallet_transactions`, `wallet_recharge_orders` | deduct, release, credit, recharge, expire, refund, adjust | every change is one journal entry; nothing is credited twice |
| Coupons | `service/coupon_service.go` | `used_count`, `coupon_usages` | check, use, roll back | counter equals usages, within the limit |
| Queue and workers | `queue/client.go`, `worker/asynq_worker.go` | delayed tasks | timeout, recharge expiry, automatic delivery | a task runs in the end, at least once |
| Fulfilment | `service/fulfillment_service.go` | `fulfillments` | manual, automatic, upstream delivery | delivered once, never after a refund |
| Refunds | `service/order_service_refund.go`, `AdminRefundToWallet` | `refunded_amount`, refund records | refund to wallet or by hand | never more than was paid |
| Affiliates | `service/affiliate_service.go` | commissions, withdrawals | earn, confirm, withdraw, reverse | a commission is paid once, or reversed |
| Procurement | `service/procurement_order_service.go` | procurement orders | submit, retry, poll, callback, roll back | the local order follows the upstream one |
| Downstream callbacks | `service/downstream_callback_service.go` | order references | queue, send, retry | the last status arrives |
| Gift cards | `service/gift_card_service.go` | cards | redeem | redeemed once |
| Everything else | accounts, settings, catalogue, notifications, gateways' protocols, handlers, web | rows and files | read, write, send | no protocol between concurrent parts |

How they interact. Services share tables, and call each other inside a transaction
(payments call the wallet and the stock; cancellation calls stock, cards, coupon, wallet
and payments) or after it (payments queue deliveries, notify, credit affiliates). Gateways
call back over HTTP whenever they like and as often as they like.

What is hard here:

* **Reads outside the transaction.** `HandleCallback` reads the payment, then the order,
  and only then opens the transaction that decides on these copies and saves the whole
  payment row. All cancellations read the order first and never look again.
  `createOrder` checks the coupon before its transaction.
* **Calls between transactions.** `CreatePayment` commits, calls the gateway, and saves the
  answer or undoes what it did; the order may be paid or canceled meanwhile.
* **Reports of gateways** come late, repeated, out of order, and overlap.
* **Crashes and refused tasks** between a commit and the queueing that should follow.
* **Status writes that do not look**: deliveries, procurement updates and the back office
  write a status decided on what they read before a slow call or a transaction.
* **Two sites**: an order request, its answer, callbacks and polls may be lost, late,
  repeated and out of order; the side that gives up waiting does not know what it has bought.
* **Shared counters**: stock rows of several orders, the last card, the coupon's limit, the
  one wallet of a buyer.

`PROJECT.json` lists these hazards one by one at the lines where they bite.

## 2. The modules

| Module | Models | Kind |
|---|---|---|
| `OrderStatus` | transition table, `calcParentStatus`, what paying does to a child | operators |
| `ManualStock` | a SKU's stock row and its three guarded UPDATEs | operators |
| `WalletLedger` | what every change of a wallet promises | abstract specification |
| `Checkout` | orders, payments, stock, cards, coupon, wallet, queue: the composition | state machine, implements `WalletLedger` |
| `Recharge` | wallet recharges | state machine, implements `WalletLedger` |
| `Delivery` | what a buyer is promised, however the goods come | abstract specification |
| `AfterSale` | delivery, refunds, status changes and readers of a paid order | state machine, implements `Delivery` |
| `SiteLink` | the requests and callbacks between two sites | state of the link |
| `UpstreamSite` | the site that is bought from | actions |
| `Procurement` | the site that buys | actions |
| `Supply` | the composition of the two, and the calls that touch both | state machine, implements `Delivery` |
| `Affiliate` | commissions and requests for payment | state machine |
| `MCCheckout`, `MCRecharge`, `MCAfterSale`, `MCSupply`, `MCAffiliate` | small instances | for TLC |
| `OperatorProofs` | lemmas about `OrderStatus` and `ManualStock`, about counting and about sums over finite sets | for TLAPS |
| `WalletLedgerProofs` | theorem about the ledger | for TLAPS |
| `CheckoutProofs`, `CheckoutInvariants` | type correctness, then the other theorems, of `Checkout` | for TLAPS |
| `RechargeProofs`, `AfterSaleProofs`, `SupplyProofs`, `AffiliateProofs` | theorems about `Recharge`, `AfterSale`, `Supply` and `Affiliate` | for TLAPS |

### How the code becomes actions

*A database transaction is one step.* Its rows are locked (`FOR UPDATE`) or the
whole database is (`models/db.go` opens SQLite with one connection), and its guarded UPDATEs
are atomic. *What a handler reads before its transaction is a step of its own*, and the
values it read wait in `request[h]`. *A call to a gateway is a step of its own.* A process
`h` of `Buyers`, `Gateways`, `Admins` or `Workers` is in the middle of at most one request;
a process that is in two of these sets serves both, one request after the other, so the
sets decide what may overlap.

State of `Checkout`: `order[o]` is the parent row (status, `paid_at` set, past `expires_at`,
`wallet_paid_amount`, `online_paid_amount`), `line[o][k]` the status of the child order for
SKU `k` (`mergeCreateOrderItems` makes one child per SKU), `payment[p]` a payment row
(`url`: the gateway has answered; `lapsed`: `expired_at` is set), `balance` and `journal` the
wallet, `stock`, `card` and `coupon` the rows of these names, `timer` and `autoTask` queued
tasks. `settled` (payments whose money the gateway has) belongs to the environment;
`overridden` and `aborts` are history.

| Code | Actions of `Checkout` |
|---|---|
| `createOrder` | `BeginPlace` (price, coupon check), `PlaceOrder` or `RejectOrder` (transaction), `ScheduleTimeout` or `ScheduleTimeoutFails` (queue), in the latter case then `CommitCancel` |
| `CreatePayment` | `PayByWallet`, `PayWithBalance`, `PayOnline` (transaction), `GatewayAccepts`, `GatewayRefuses`; a reusable payment is handed out again and changes nothing |
| `HandleCallback`, `CapturePayment` | `ReceiveCallback` (reads the payment), `ReadOrder`, then `AcknowledgeRepeat`, `ConfirmPayment`, `RefuseConfirmation` or `RecordReport` |
| `enqueueOrderPaidAsync` | `AnnouncePaid` |
| `CancelOrder`, `ensureOrderCanceledIfExpired`, `UpdateOrderStatus` to canceled, `CancelExpiredOrder` | `BeginUserCancel`, `BeginLazyCancel`, `BeginAdminCancel`, `RunTimeout` (each reads), then `CommitCancel`; `SkipTimeout`, `LoseTimeout` for tasks that end otherwise |
| `UpdateOrderStatus` to paid | `BeginAdminPay`, `CommitAdminPay` |
| the world | `PayerPays`, `Expire`, `Abort` |

`Recharge` does the same for `CreateWalletRechargePayment` (`CreateRecharge`,
`GatewayAccepts`/`GatewayRefuses`, `ScheduleExpire`/`ScheduleExpireFails`), the recharge branch
of `HandleCallback` (`ReceiveCallback`, `ReadRecharge`, `AcknowledgeCallback`, `ApplyCallback`)
and `ExpireWalletRechargePayment` (`ExpireRecharge`).

`AfterSale` takes over where `Checkout` ends. `status[o]` is the status of a parent or child
order, `refunded[o]` its refunded amount, `fulfillment[c]` the goods of a child's one
fulfillment row, `card[k]` a card secret, `autoTasks[c]` queued deliveries, and `job[w]` what
handler `w` has read and is about to write.

| Code | Actions of `AfterSale` |
|---|---|
| `enqueueOrderPaidAsync` | `PayOrder`, which also stands for the reservation made when the order was placed |
| `CreateAuto`, `handleOrderAutoFulfill` | `BeginAuto` (reads the order), `TakeCards` (picks cards), `UseCards` (`MarkUsed`, row, status), `ReadParent`, `Mend` (`syncParentStatus`); `TaskFailed` |
| `CreateManual` | `BeginManual`, `CommitManual`, `ReadParent`, `Mend` |
| `AdminManualRefund`, `AdminRefundToWallet` | `Refund` |
| `ensureOrderRefundStatusSynced` | `ReadOrder`, then one `Mend` per row it writes |
| `UpdateOrderStatus` of a paid order | `AdminCancel`; `BeginAdminParent` or `BeginAdminChild`, then `WriteStatus`, and for a child `ReadParent`, `Mend` |

`Supply` has one selling site (`local`, `goods`, `proc` and the order `rows` of the procurements,
queued submit and poll tasks, the query and the back-office request under way) and the site it
buys from (`upstream`, `delivery`, `refs`, `callback`, queued callbacks), joined by `request` (one
order request after the other, with how far each side has got) and `notice` (the callback under
way). Neither side uses transactions across tables here, so *every statement is a step*:
after a handler of the selling site has written the procurement, what it has still to do to
the local order waits in `work`, by the handler that does it, and anything may come in between.

| Code | Actions |
|---|---|
| `CreateForOrder` | `CreateForOrder` |
| `SubmitToUpstream` | `SubmitToUpstream` (up to the request), `SubmitAccepted` (the row, line 281), `MarkFulfilling` (the local order and the first poll, lines 292 to 298); `SubmitInvalid` |
| `handleSubmitFailure`, `rejectProcurement` | `SubmitFailed`, `SubmitRejected`, then the rollback |
| `rollbackLocalOrderOnProcurementFailure` | `LookBack` (reads the local order), `PutBack` (writes paid) |
| upstream handler `CreateOrder` | `ReceiveOrder` (looks for an earlier order), `CreateOrder`, `CreateRef`, `PayFromWallet`, with `HandlerDies` and `ExpireOrder` |
| `CreateManual`, `CreateAuto` upstream | `StoreDelivery` (transaction), `SyncDelivery` (`syncParentStatus`), `AnnounceDelivery` (`EnqueueCallback`); `DeliveryDies` |
| `UpdateOrderStatus`, refunds upstream | `MarkDelivered` (a delivery without goods), `CancelByAdmin`, `RefundUpstream` |
| `EnqueueCallback`, `SendCallback`, `handleCallbackFailure` | part of `PayFromWallet` and `AnnounceDelivery`; `SendCallback`, `CallbackAnswered`, `CallbackFailed` |
| `HandleCallback`, `HandleUpstreamCallback` | `ReceiveCallback` or `EndPoll` (the procurement row, line 458), `StoreGoods` (line 464), `Deliver` (line 475), or the rollback; `WriteFails` (a write fails or the handler dies) |
| `PollUpstreamStatus`, `requeuePoll`, `SyncAcceptedOrders` | `BeginPoll` or `BeginSync`, `AnswerPoll` or `PollUnanswered`, `EndPoll` |
| `RetryManual`, `CancelManual` | `BeginManual`, then `RetryManual`, or `AskCancel` and `CancelManual` |
| `fillUpstreamRefundRecordsForProcurementOrder` | `ShowProcurement` |

`Affiliate` has one action for each transaction of `affiliate_service.go` (`HandleOrderPaid`,
`ConfirmDueCommissions`, `Refund` for `HandleOrderRefundedTx` inside a refund, `ApplyWithdraw`,
`ReviewWithdraw`), and two for `HandleOrderCanceled`, which reads rows (`BeginCanceled`) and
saves them one by one (`SaveRejected`).

### What is abstracted

* One buyer with a wallet and one coupon. Money is a natural number; channel fees are 0, so
  a payment's amount is what the order asks for online. Totals are constants.
* The early returns of a callback whose channel, number, currency or amount do not match, and
  the validations of a request, change nothing and are left out. So is the mode in which
  only the wallet may pay, which forbids some of the modelled requests.
* Callbacks carry a payload, so `updateCallbackMeta` always finds something to save.
* The gateway reports success only of a payment it has the money of, and from then on never
  that the session expired; "pending" and "failed" may be reported at any time, since such
  reports may be delayed. It knows the payment from the moment it is called: a report may
  overtake its answer to that call, or come although the answer was lost. It offers a way to pay as long as it exists.
* A timeout task comes due after `expires_at`: `createOrder` fixes that date before it queues
  the task with the same delay.
* A database that fails before a transaction makes a request end (`Abort`); one that fails
  inside a transaction rolls it back, which is the same.
* Notifications, e-mails, affiliates, member levels and procurement, called after a
  payment's commit, change none of the state of `Checkout`.
* `AfterSale` knows orders from their payment on. What a cancellation does to money and stock
  is `Checkout`'s; here it matters that it releases cards and overwrites statuses. What a
  refund to the wallet posts has a reference of its own and is not repeated here. `MaxEvents`
  bounds everything that is neither the queue's work nor a reader's.
* `Checkout` keeps a payment's `url` when a stale copy is saved (`SavePayment`), although
  `paymentRepo.Update` writes that column too; no property depends on it. `AfterSale.PayOrder` queues the
  deliveries of any of the children, for a crash may come between two of them.
* `Supply` buys one product per order and follows orders without a parent; the upstream order
  has a parent, whose status the selling site sees, and one child. The decision to deliver and
  the transaction that does are one step here; what comes in between, and a parent's
  aggregate that overwrites a refund, is `AfterSale`'s. Of a status query the steps are the
  reading of the row, the answer and what is done with it; there is one at a time per order,
  and of the callbacks about an upstream order one is sent and one is handled at a time. A
  callback that arrives only after its sender has stopped waiting is left out; one that
  is being handled by then goes on. A submit task whose handler dies between the answer and
  the row is not delivered again. The clock of retries is not modelled: a queued task may run
  at once. A site that is itself both bought from and buying is two instances.
* `Affiliate` has one affiliate, amounts in cents, and orders that are paid; the rows of a
  parent and of its children are not related, as in the code, where only paid parents (and
  children an administrator marks paid) earn a commission.
* Seeded faults (named so where they are defined) are alternatives of single definitions.
  Nothing uses them; putting one in its definition's place must break a property, which
  shows that the property depends on that piece of the code.

## 3. What TLC checks

`tlc -config X.cfg M`, with the `MC` module of the component as `M`. Deadlock is not an error: once every order is
closed and every payment made, a bounded instance has nothing left to do.

| Run | Instance | Question |
|---|---|---|
| `checkout_race` | one order with a manual and an automatic line and a coupon, 2 cards, 2 units, a balance that covers the order, 1 payment; a buyer (who is the administrator too), 2 gateway processes, a worker, 1 request that dies; about 1.3 million states | does any interleaving of payment, callbacks, override, cancellation and timeout break stock, cards, coupon, status or payment; is an expired order closed in the end |
| `checkout_money` | one upstream order worth 2, balance 1, 2 payments over 2 channels, 2 overlapping requests; about 2.7 million states | does the wallet move only by ledger postings; do the order's amounts follow |
| `checkout_serial` | three orders over 3 units of one SKU and one card, one of them too large to place, balance 3, 2 payments, requests one at a time; about 1.6 million states | what holds as long as requests do not overlap, across orders |
| `recharge` | one recharge, 2 overlapping callbacks, expiry, one request that dies; about 47 thousand states | credited once, exactly if successful, and in the end |
| `supply` | one order, 1 order request, 1 mishap (a failed write, crash or lost task; a refund, a cancellation or a delivery without goods upstream; a back-office retry or cancellation), 1 poll and 2 tries of each callback, the synchronisation; about 0.12 million states | is a delivery announced, does it arrive, and is it shown, once and in the end |
| `supply_callbacks` | one order, 2 order requests, both of which may be bought, a cancellation by the back office, callbacks and polls about either, no synchronisation; about 1.4 million states | does a procurement remember an upstream order that is not its own; are the goods paid for upstream, given once and kept |
| `aftersale` | one order with 2 automatic lines, 2 cards, 2 handlers, 2 events; about 0.2 million states | is a card used twice, a delivery lost, a refund or the parent's status wrong for ever |
| `affiliate` | an order worth 3 with a commission of 2, a guest's worth 1 with 1, 2 requests for payment, 1 cancellation working on copies; every split and partial refund | is a commission paid twice, or without being earned; do refunds cut it in proportion |
| `checkout_stale_payment`, `checkout_underpaid`, `supply_bought_twice`, `supply_set_back` | the smallest instance that shows each | violations, section 5 |

Safety under every interleaving: `ParentAgrees`, `ReservationFollowsStatus`, `StockConserved`,
`CouponCountExact`, `PendingIsWatched`, `PaidIsBacked`, `WalletPaidMatchesJournal`,
`PendingAmountsAddUp`, `ImplementsLedger`; for recharges `CreditedIffSuccessful` and
`RechargeSuccessIsFinal`. These are not obvious: a stale cancellation does overwrite a paid
order, and a stale success does revive a canceled one; what the runs show is that the
damage stops short of these properties. `SuccessIsFinal`, `CanceledIsFinal`,
`CanceledHoldsNoBalance` and `StockMatchesOrders` do **not** survive overlapping requests, nor
does a coupon's limit (`CouponWithinLimit`): two overlapping orders may both take the last use,
for `BeginPlace` looks at the counter and `PlaceOrder` counts.
`checkout_serial` shows that they hold without overlap, so that the reads outside
transactions are what breaks them, and nothing else. That instance has no administrator, for
an administrator may cancel an order that is already paid, which releases units that are
sold, at the cost of other orders' locks. Section 4 proves the four, and the
limit, which needs two orders with the coupon and is in no run, for every instance of that kind.

Of recharges it is not claimed that a failed or expired one stays so until a success, although
`service/payment_service_callback.go:328` says so ("非成功回调不允许改变任何终态"): two overlapping
callbacks break that in the model, for `ReadRecharge` takes a copy, and a late "pending" then
reopens the row. No money depends on it (`CreditedIffSuccessful`).

`RequestIsCovered` leaves out, by name, the requests whose commission a cancellation has saved
from an old copy (`overwritten`): that race takes commissions out of a request although
`HandleOrderCanceled` says that it does not touch what is with a request
("已进入提现流程，按业务规则不影响用户提现"); without the exception TLC finds it in four steps.
`FulfilledHasGoods` and `DeliveryIsAnnounced` likewise name the failures after which the
code has nothing left that would repeat the work. `FulfilledHasGoods` also says that the handler
that is to store the goods may still be at work, between the two statements, and excepts
(`mishaps.marked`) upstream orders that an administrator marked delivered without a
fulfillment row: `HandleUpstreamCallback` then has no goods to store, fulfils the procurement and
delivers nothing. `GoodsReachBuyer` excepts the orders that a late write has set back for good
(`setBack`, which `supply_set_back` is about): the write of `SubmitToUpstream`
or of a rollback came after the delivery, when the procurement was accepted no more. If it is
accepted still, or again (`requeuePoll`), the synchronisation delivers a second time, and the
property says so.

**Bounds.** Two overlapping handlers suffice for a race between a copy and a commit, and every
handler here holds one copy. Two payments are needed for two channels, two callbacks for a
stale save, a balance of half the total for mixed payment. A third order, or a second
coupon, adds more of the same. `MaxPayments` and `MaxAborts` cap what is otherwise
unbounded. `checkout_money` leaves out stock and `checkout_race` a second payment
because the actions that touch both appear in each of them with one side trivial.
In the runs of `Supply` two requests are what buying twice, late answers and answers about an
earlier order need (`supply_callbacks`, whose one mishap, a cancellation by the back office, is the kind
that is asked of the other site); a callback, a poll and the handler of an answer overlap with one
already (`supply`, with each kind of mishap once, chosen by `Mishaps`). What two mishaps do
together is left to the proofs, which hold for any number of them. Orders share nothing there
but the page of the synchronisation: `SyncLimit` is its size, 200 in the code (0: it never runs).
`BeginSync` models the page, but one order never fills it, so that no run shows an older order
held back by newer ones. `MaxTasks`, `MaxPolls` and `MaxNotices` bound the queue per order: a task
beyond them is never run, which is one of the things the queue may do to any task, or, where a retry
or a request of the back office would queue it, waits. A second delivery of the same callback task adds nothing, for
`SendCallback` reads the row and the order when it runs. In `aftersale` two lines and
two cards let each delivery take the other's card, two handlers let a delivery overlap a
delivery, a reader or the back office, and two events let a refund meet a cancellation or
a second refund. In `affiliate` 2 of 3 cents is a commission no part of a refund divides
evenly, and two requests let one split what the other has left.

**Fairness.** `TimeoutFairness`: asynq delivers a due task until its handler returns, and a
worker goes on with the transaction it has begun; a worker that dies leaves the task to
be delivered again. Nothing is assumed of buyers, administrators and gateways, and a read
failure that ends the task is allowed to happen (`LoseTimeout`), so
`TimedOutOrderIsClosed` says: closed, or lost to that. `CallbackFairness`: a handler goes on,
and a gateway repeats its report of a collected payment until it is answered with success
(strong fairness, because the processes that take it are shared). `AfterSaleFairness`: handlers
go on, the queue hands out its tasks, and an order whose statuses are not in order is
looked at sometime (the lists of buyers and administrators synchronise every order they
show). `UpstreamFairness` and `SyncFairness`: the upstream site goes on with what it has begun, delivers
what is paid and sends its callbacks; the synchronisation runs every half hour and gets an
answer if it asks again and again. The page lists the newest accepted procurements, so an older
one is asked about when fewer newer ones are accepted; nothing keeps one accepted for ever,
but the code has no bound on the newer ones that may come, and an instance has finitely many.
`HandlerFairness`: a handler that has begun to write goes on, unless it dies. Submit and poll tasks and the arrival of callbacks
are not fair: `AcceptedIsSettled` and `GoodsReachBuyer` hold by the synchronisation alone.

## 4. What is proved

TLAPS checks every proof from the assumptions named in the modules
(`CheckoutAssumption` types the constants and says that no order is empty or free, and that
there are finitely many cards; the other modules likewise type theirs). Every safety
property of the passing runs, invariant, action property or refinement, is stated by a
theorem for all values of the constants.

* `TypeCorrect` (`CheckoutProofs`): `Spec => []TypeOK`. `TypeOK` is inductive because it also
  says that a request in the middle of its work names an existing order and payment, that a
  callback's copy has a status, and that payment rows are never removed; without that a
  stale save could write a payment into a row that does not exist. One lemma per action, over
  lemmas that give each operator's type. That stock counters stay natural numbers in spite
  of double releases is part of it.
* `ReserveKeepsUnits`, `ReleaseKeepsUnits`, `ConsumeKeepsUnits` (`OperatorProofs`): each of the
  three UPDATEs keeps the number of units and the row's type, for any quantity.
* `AggregateIgnoresCurrent`, `AggregateStepAllowed` (`OperatorProofs`): the aggregate depends
  only on the children, and takes only steps of the transition table when a child
  does, as long as no child is partially delivered.
* `LedgerExplains` (`WalletLedgerProofs`): the journal of the abstract ledger explains its
  balance in every state; entries link up from the opening balance, each adds up, and no
  reference occurs twice. An inductive invariant that says the same of the last entry.
  `CheckoutReconciles` and `RechargeReconciles` carry this over to the two flows along
  their refinements of the ledger.
* `StockIsConserved`, `ParentsAgree` and `CheckoutImplementsLedger` (`CheckoutInvariants`)
  follow one plan. A lemma says in which ways any step may move the piece of state in
  question (`StockMoves`: not at all, or one of the three UPDATEs over an order's SKUs;
  `StatusMoves`: a parent and its children stay, or are written so that they agree;
  `WalletMoves`: not at all, a deduction or a credit), and the property need only be checked
  against those ways. The refinement then says that a deduction or a credit posts under a
  reference that is not in the journal yet, and never overdraws.
* `PaidIsAlwaysBacked` (`CheckoutInvariants`). `PaidIsBacked` is not inductive: a callback
  writes what it copied before its transaction. `BackingInv` adds that every copy names
  the order of its payment and is backed if it reports or has seen a success
  (`CopiesSound`), and that unused payment rows name no order (`UnusedRows`). Each step keeps it
  because it keeps the identity of payment rows, makes no success without its money, marks
  no order paid without one, and takes no unsound copy (`BackingMove`).
* `CreditedExactly`, `SuccessStays` (`RechargeProofs`). `CreditInv` adds to
  `CreditedIffSuccessful` why a recharge cannot succeed behind the back of the request that
  fails it: no money is collected before there is a pay URL (`CollectedByUrl`), success is
  reported only of collected money (`ReportsTrue`), and the one request that may fail the
  recharge is the one that has not got the URL yet (`CallingAlone`). With `RechargeTypeCorrect`
  and, for the wallet, `RechargeImplementsLedger`.

* `AfterSaleTypes`, `NoCardTwice`, `Reservations`, `DeliveryKept` (`AfterSaleProofs`). The inductive
  invariant `IInv` is `Typed /\ UsedCardsAreDelivered`; `Typed` strengthens the types by what a
  job in the middle of its work relies on (`JobOK`) and by who may hold a card. The types have a
  lemma per action. For the goods, `StepIsGoodsStep` says that a step leaves cards and
  fulfillment rows alone or does one of four things to them (reserve free cards, release reserved
  ones, deliver a usable set of cards or something written by hand into a row that was
  empty), and the three properties are read off that. What makes it
  work is that `MarkUsed` asks for the card's order and status again, in the transaction that
  writes the row, so that what was picked unlocked does no harm.

* `SupplyTypes`, `RememberedIsOwn`, `GoodsArePaidFor`, `FulfilledMeansGoods`,
  `NoDeliveryIsForgotten`, `PromiseKept` (`SupplyProofs`), the safety properties of the runs
  of `Supply` for any orders, requests, retries and failures; the runs of these have one local order,
  so that an order's goods never become another's rests on the proof. The inductive invariant
  `IInv` follows an upstream order from hand to hand: the handler that creates it, the row that
  remembers it, the answer, the procurement, polls, callbacks and the goods all name an order
  that was bought for the same local order (`BoughtFor`), and what was handed over was paid
  for, though it may be canceled since; what handlers are about to store (`WorkOK`) is part of
  that chain. `Grows` is what makes it stable: requests, upstream orders and deliveries are never
  removed, so that only what a step writes needs a look; each action has a lemma.
  `FulfilledMeansGoods` adds that who is told "delivered" is told the goods (`Honest`), unless an
  upstream order was marked delivered without them (`Marked`): `Marked \/ Honest` is inductive, and
  so is, with it, that a fulfilled procurement has goods or work to store them until a handler fails.
  `NoDeliveryIsForgotten` adds `News`: until something fails, an order has its row before it is
  paid (`Recorded`), an accepted callback has brought the goods it told of, and one that is handled
  is going to (`Taken`), and when a callback under way was sent before the delivery, a newer one
  waits behind it (`Announced`). It assumes `MaxNotices # 0`, a queue that holds a callback task
  at all. `PromiseKept` is the refinement of `Delivery`.

* `UnpaidIsWatched`, `CouponCounts`, `ReservationHolds`, `WalletMatchesJournal`, `AmountsAddUp`
  (`CheckoutInvariants`). They rest on `ExistInv`: an order is placed once, by one request, and
  nothing else is ever about an order that does not exist, so that placing an order cannot
  meet what a stale request left behind. `CouponInv` adds that only orders that exist have a
  usage, and `ReservationInv` that only they hold cards (`EnoughCards`, by counting: as many
  cards are taken as were asked for). `MoneyInv` is what `WalletPaidMatchesJournal` needs:
  references are unique, no entry is zero, and a copy a handler holds shows of the wallet
  column either nothing or all that was ever taken for that order (`CopiesMatch`); this is why a
  cancellation that works from an old copy never gives back more or less than was taken.
  `AmountsInv` adds that an order that does not exist yet has taken nothing.
* `SerialCancelIsFinal`, `SerialSuccessIsFinal`, `SerialCancelReturnsBalance`, `SerialCouponLimit`,
  `SerialStockMatches` (`CheckoutInvariants`): what overlapping requests break and section 3 checks without overlap.
  The hypothesis `OneAtATime` says that there is one process; it may have any role and serve
  any number of orders, payments and SKUs. Then every copy is fresh (`CopiesFresh`), and a
  step that decides on copies decides on the tables. `SerialCouponLimit` adds that an order that is
  being placed has seen a use left (`LimitInv`). `SerialStockMatches` assumes `Admins = {}` as
  well, for the reason given in section 3. Its invariant says also that work in progress is about
  orders that are still unpaid (`WorkOnPending`) and that finitely many orders are unpaid or
  paid at a time, although there may be infinitely many: sums over orders make sense only
  then. The run `checkout_serial` satisfies both hypotheses.
* `AffiliateTypeCorrect`, `RejectedStaysRejected`, `RequestsAreCovered`, `PayoutsAreEarned`,
  `SharesFollowRefunds` (`AffiliateProofs`), every safety property of the run `affiliate`.
  `StructInv` adds to the types which rows may be bound to which request (`RowsInv`) and that what
  a cancellation has read is about the row it will be saved to (`CopiesInv`). `RequestIsFilled`
  is the algorithm of `ApplyWithdraw`: taking commissions in order, the last one in part, adds up
  to what was asked for. `RequestsAreCovered` and `PayoutsAreEarned` follow how
  each action moves the two sums, with the laws of sums in `OperatorProofs` (an element
  more, less or changed). For `SharesFollowRefunds`, `ShareErrorGrows` bounds what one rounded cut adds
  to the error, so that after `records` refunds it is at most that many half cents.

The laws of sums concern `SumFunctionOnSet`, whose definition recurs over a set. They are
proved without an induction rule: of the finite sets that would violate a law one is
smallest (`OperatorProofs`), and one unfolding of the sum leads from it to a smaller.

Before each proof TLC checked its strengthened invariant on the run of the property; the
passing runs check the properties themselves.

Only model-checked: liveness (`TimedOutOrderIsClosed`, `SettledIsCredited`, `AcceptedIsSettled`,
`GoodsReachBuyer`, `QueuedIsDelivered`, `RefundIsShown`, `ParentFollowsChildren`), for
fairness is beyond the prover; and the violations of section 5, each of which is a
counterexample. No module declares a recursive operator.

## 5. What the code does otherwise than it says

1. `checkout_stale_payment`: two overlapping callbacks, one a success. The other saves the row
   it read before and takes the success back, against "已成功的不再回退状态".
2. `checkout_underpaid`: no overlap is needed. The balance pays 1 of 2 and a payment for 1 is
   opened; a second channel refuses, which gives the 1 back; the first payment then
   succeeds and the order counts as paid online with 2.
3. `supply_bought_twice`: the buying site gives up after 30 seconds and asks again at once
   while the upstream handler is still at work; both look for an earlier order before either has
   written the row that would be found, and both are paid from the wallet, against "幂等性检查：同一
   credential 的相同 downstream_order_no 不允许重复创建".
4. `supply_set_back`: no failure is needed. `SubmitToUpstream` writes the procurement accepted
   (line 281) and then the local order fulfilling (line 292); a callback handled in between
   delivers the order and is overwritten. Polls and the synchronisation leave a fulfilled
   procurement alone, so the order stays fulfilling although its goods are stored, where the tests expect
   "验证采购单状态 = fulfilled" together with "验证本地订单状态 = delivered"
   (`service/procurement_order_service_test.go:246`, `:255`). A rollback (lines 336 to 342) can do
   the same with paid.

## 6. Plan

In this order; what is done is marked.

1. *(done)* `OrderStatus`, `ManualStock`, `WalletLedger`, `Checkout`, `Recharge` and their runs; type
   correctness, the ledger refinements, and the safety theorems of section 4.
2. *(done)* `AfterSale` with `Delivery`, and the theorems about them.
3. *(done)* `SiteLink`, `UpstreamSite`, `Procurement`, `Supply`, which implement `Delivery` too.
4. *(done)* `Affiliate`.
5. `Procurement` with a parent order of several lines, composed with `AfterSale`.
6. *(done)* Theorems about every safety property of the runs.

## 7. Not modelled

Gift cards: redemption is one transaction that locks the card and posts under a
reference that is unique per card, so that nothing of it interleaves; an edit of the card from
an old copy may put a redeemed card back to active, and the wallet is still credited once.
The refund window, affiliate accounts and clicks, and an administrator's edits of stock are
single reads or writes. Nothing ever picks up a submit task or callback the queue has lost
(`ListRetriable`, `ListPendingCallbacks` have no caller), which the models show as tasks that
are lost.

Left out altogether, with reasons in `PROJECT.json`: gateways' protocols (formats and signatures),
settings, catalogue, notifications, authentication, the web layer.
