------------------------------- MODULE Supply -------------------------------
(***************************************************************************)
(* A site that sells what it buys from another: Procurement on one side,   *)
(* UpstreamSite on the other, and the two calls that touch both at once.   *)
(***************************************************************************)
EXTENDS Procurement, UpstreamSite

supplyVars == <<linkVars, procVars, upstreamVars>>

Init == LinkInit /\ ProcurementInit /\ UpstreamInit

\* GetOrder answers a poll with the order as it is now, after it has brought its
\* status up to date.
AnswerPoll(o) ==
  /\ poll[o].phase = "asked"
  /\ LET u == poll[o].found
     IN /\ u # NoUpstream
        /\ poll' = [poll EXCEPT ![o] = [@ EXCEPT !.phase = "answered", !.status = Synced(u),
                                                 !.goods = u \in handedOver]]
        /\ upstream' = [upstream EXCEPT ![u] = Synced(u)]
  /\ UNCHANGED <<localVars, proc, rows, work, taskVars, admin, linkVars>>
  /\ UNCHANGED <<delivery, refs, callback, noticeTasks>>

\* CancelManual asks the upstream site to cancel an accepted order; CancelOrder
\* there cancels only one that is not paid yet.
AskCancel(o) ==
  /\ admin[o] = "cancel" /\ proc[o].status = "accepted" /\ proc[o].found # NoUpstream
  /\ upstream[proc[o].found] = "pending_payment"
  /\ upstream' = [upstream EXCEPT ![proc[o].found] = "canceled"]
  /\ UNCHANGED <<delivery, refs, callback, noticeTasks, procVars, linkVars>>

\* Looking at a procurement in the back office brings its refund status up to date
\* (fillUpstreamRefundRecordsForProcurementOrder).
ShowProcurement(o) ==
  /\ proc[o].status \in {"fulfilled", "partially_refunded", "refunded"}
  /\ proc[o].found # NoUpstream
  /\ upstream[proc[o].found] \in {"partially_refunded", "refunded"} \ {proc[o].status}
  /\ SetStatus(o, upstream[proc[o].found])
  /\ UNCHANGED <<localVars, rows, work, taskVars, poll, admin, upstreamVars, linkVars>>

Next ==
  \/ ProcurementNext /\ UNCHANGED upstreamVars
  \/ UpstreamNext /\ UNCHANGED procVars
  \/ \E o \in LocalOrders : AnswerPoll(o) \/ AskCancel(o) \/ ShowProcurement(o)

Spec == Init /\ [][Next]_supplyVars

\* A step of one site alone.
Buying(A) == A /\ UNCHANGED upstreamVars
Upstream(A) == A /\ UNCHANGED procVars

\* The upstream site works: its handlers go on unless they die, an order left
\* unpaid times out, a paid one is delivered.
UpstreamFairness ==
  \A u \in Attempts :
    /\ WF_supplyVars(Upstream(CreateRef(u) \/ PayFromWallet(u) \/ ExpireOrder(u)
                                \/ StoreDelivery(u) \/ SyncDelivery(u)))
    /\ WF_supplyVars(Upstream(SendCallback(u)))

\* The buying site asks about accepted orders every 30 minutes, and an answer it
\* keeps asking for comes in the end. Nothing is assumed of submit or poll tasks,
\* which the queue may drop, nor of callbacks.
SyncFairness ==
  \A o \in LocalOrders :
    WF_supplyVars(Buying(BeginSync(o) \/ EndPoll(o))) /\ SF_supplyVars(AnswerPoll(o))

\* A handler that has begun to write goes on, unless it dies.
HandlerFairness ==
  \A h \in Handlers :
    WF_supplyVars(\E w \in work : w.by = h /\ Buying(WriteLocal(w) \/ MarkFulfilling(w)))

FairSpec == Spec /\ UpstreamFairness /\ SyncFairness /\ HandlerFairness

-----------------------------------------------------------------------------
TypeOK ==
  /\ request \in Seq(Request) /\ Len(request) <= MaxAttempts
  /\ notice \in [Attempts -> Notice]
  /\ mishaps \in [MishapKinds -> 0..MaxMishaps]
  /\ local \in [LocalOrders -> {"fulfilling", "paid", "delivered"}]
  /\ goods \in [LocalOrders -> Attempts \union {NoUpstream}]
  /\ setBack \subseteq LocalOrders
  /\ proc \in [LocalOrders -> ProcRow]
  /\ rows \in Seq(LocalOrders)
  /\ work \subseteq Work
  /\ submitTasks \in [LocalOrders -> Nat]
  /\ pollTasks \in [LocalOrders -> Nat]
  /\ poll \in [LocalOrders -> PollStep]
  /\ admin \in [LocalOrders -> {"idle", "retry", "cancel"}]
  /\ upstream \in [Attempts -> UpstreamStatuses]
  /\ delivery \in [Attempts -> DeliverySteps]
  /\ refs \in Seq(Attempts)
  /\ callback \in [Attempts -> CallbackRow]
  /\ noticeTasks \in [Attempts -> Nat]

\* The upstream order a procurement remembers exists and was bought for it,
\* though an answer may be about the order of an earlier request, and though
\* retries, callbacks and polls write the row without looking at it
\* (SubmitToUpstream, upstream_handler.go CreateOrder).
AcceptedPointsToItsOrder ==
  \A o \in LocalOrders : proc[o].found # NoUpstream =>
    /\ proc[o].found \in DOMAIN request
    /\ request[proc[o].found].order = o
    /\ upstream[proc[o].found] # "none"

\* What a buyer is given was handed over upstream, for this very order, by an
\* order that had been paid, though it may have been cancelled since (HandleCallback
\* finds the order by a number from outside).
GoodsWerePaidUpstream ==
  \A o \in LocalOrders : goods[o] # NoUpstream =>
    goods[o] \in handedOver /\ request[goods[o]].order = o /\ PaidFor(goods[o])

\* A fulfilled procurement has brought its goods to the local order, whoever was
\* first, callback or poll, or the handler that is to store them is at work; unless
\* that handler failed, or an upstream order was marked delivered without goods
\* (HandleUpstreamCallback).
FulfilledHasGoods ==
  \A o \in LocalOrders : proc[o].status = "fulfilled" =>
    \/ goods[o] # NoUpstream
    \/ \E w \in work : w.order = o /\ w.step = "goods"
    \/ mishaps.failure > 0 \/ mishaps.marked > 0

\* Goods handed over upstream are announced: the buyer has goods, or the delivery is
\* still to queue its callback, or one is queued or under way, or the retries are used
\* up; unless a write or the queue failed or a refund or a cancellation, announced
\* instead, came in between (EnqueueCallback, handleCallbackFailure).
DeliveryIsAnnounced ==
  \A u \in handedOver :
    \/ goods[request[u].order] # NoUpstream
    \/ delivery[u] # "done"
    \/ noticeTasks[u] > 0 \/ notice[u].phase # "idle" \/ callback[u].state = "failed"
    \/ upstream[u] # "delivered" \/ mishaps.failure > 0

\* An order gets its goods once and keeps them (createUpstreamFulfillment).
Promised == INSTANCE Delivery WITH
  Orders <- LocalOrders, Goods <- Attempts,
  delivered <- [o \in LocalOrders |-> IF goods[o] = NoUpstream THEN {} ELSE {goods[o]}]
ImplementsDelivery == Promised!Spec

\* An accepted procurement does not stay accepted for ever, whatever callbacks were
\* lost and though a poll may write "accepted" over a later status (requeuePoll,
\* SyncAcceptedOrders).
AcceptedIsSettled == \A o \in LocalOrders : <>[](proc[o].status # "accepted")

\* Once the goods are stored the order becomes delivered, and so it does again when
\* it is set back while the procurement is accepted; unless it was set back for good
\* (setBack), the back office retried or cancelled the procurement, the upstream order
\* was refunded or cancelled or a write failed (SubmitToUpstream, HandleUpstreamCallback).
GoodsReachBuyer ==
  \A o \in LocalOrders :
    (goods[o] # NoUpstream) ~>
      \/ local[o] = "delivered" \/ o \in setBack
      \/ proc[o].status \in {"pending", "failed", "canceled", "partially_refunded", "refunded"}
      \/ mishaps.failure > 0

\* "验证采购单状态 = fulfilled", "验证本地订单状态 = delivered"
\* (procurement_order_service_test.go): when all handlers of an order are done and its
\* procurement is fulfilled, the order is delivered.
FulfilledIsDelivered ==
  \A o \in LocalOrders :
    proc[o].status = "fulfilled" /\ (\A w \in work : w.order # o) => local[o] = "delivered"

\* "同一 credential 的相同 downstream_order_no 不允许重复创建" (upstream_handler.go):
\* one local order is never bought twice.
BoughtOnce ==
  \A u, v \in DOMAIN request :
    /\ request[u].order = request[v].order
    /\ {upstream[u], upstream[v]} \intersect {"none", "pending_payment", "canceled"} = {}
    => u = v
=============================================================================
