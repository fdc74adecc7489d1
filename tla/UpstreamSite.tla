---------------------------- MODULE UpstreamSite ----------------------------
(***************************************************************************)
(* The site that is bought from: http/handlers/upstream/upstream_handler.go *)
(* and downstream_callback_service.go.  CreateOrder is not a transaction:  *)
(* it looks for an earlier order of the same number, creates the order,    *)
(* then the row that remembers its number, then pays from the wallet, and  *)
(* other requests may run between those steps.                             *)
(***************************************************************************)
EXTENDS SiteLink

CONSTANTS RefundKinds,        \* statuses a refund may lead to here; {} for no refunds
          MaxCallbackRetries, \* maxRetries of handleCallbackFailure
          MaxNotices          \* bound: callback tasks of one order in the queue; one more is never run

ASSUME UpstreamAssumption ==
  /\ RefundKinds \subseteq {"partially_refunded", "refunded"}
  /\ MaxCallbackRetries \in Nat \ {0}
  /\ MaxNotices \in Nat

VARIABLES
  upstream,   \* upstream[u]: status of the order created for request u
  delivery,   \* delivery[u]: how far CreateAuto or CreateManual has come with u
  refs,       \* downstream_order_refs, oldest first
  callback,   \* callback[u]: the callback columns of the row of u
  noticeTasks \* noticeTasks[u]: callback tasks of u in the queue

upstreamVars == <<upstream, delivery, refs, callback, noticeTasks>>

\* The fulfillment row is stored, the parent's status brought up to date, the
\* callback queued; "done" also after a crash in between.
DeliverySteps == {"none", "stored", "synced", "done"}

\* The upstream orders that have a fulfillment row.
handedOver == {u \in Attempts : delivery[u] # "none"}

CallbackRow == [state : {"pending", "sent", "failed"}, retry : Nat]

UpstreamInit ==
  /\ upstream = [u \in Attempts |-> "none"]
  /\ delivery = [u \in Attempts |-> "none"]
  /\ refs = << >>
  /\ callback = [u \in Attempts |-> [state |-> "pending", retry |-> 0]]
  /\ noticeTasks = [u \in Attempts |-> 0]

HasRef(u) == \E n \in DOMAIN refs : refs[n] = u

\* GetByCredentialAndDownstreamNo: the oldest row for a local order, if any.
EarlierOrder(o) ==
  LET same == {n \in DOMAIN refs : request[refs[n]].order = o}
  IN IF same = {} THEN NoUpstream
     ELSE refs[CHOOSE n \in same : \A m \in same : n <= m]

\* Seeded fault: a callback that is still pending is not sent again.
QuietWhilePending(u, queued) ==
  IF HasRef(u) /\ callback[u].state # "pending" /\ queued
    THEN /\ callback' = [callback EXCEPT ![u] = [state |-> "pending", retry |-> 0]]
         /\ noticeTasks' = [noticeTasks EXCEPT ![u] = IF @ < MaxNotices THEN @ + 1 ELSE @]
    ELSE UNCHANGED <<callback, noticeTasks>>

\* EnqueueCallback: nothing without a row; a row that is no longer pending
\* starts anew. Whether the task could be queued is only logged.
EnqueueCallback(u, queued) ==
  IF HasRef(u)
    THEN /\ callback' = [callback EXCEPT ![u] =
                           IF @.state = "pending" THEN @ ELSE [state |-> "pending", retry |-> 0]]
         /\ noticeTasks' = [noticeTasks EXCEPT ![u] = IF queued /\ @ < MaxNotices THEN @ + 1 ELSE @]
    ELSE UNCHANGED <<callback, noticeTasks>>

\* syncParentStatus, and ensureOrderRefundStatusSynced whenever a user's order is
\* read: a paid order whose goods are stored is shown as delivered.
Synced(u) == IF upstream[u] = "paid" /\ u \in handedOver THEN "delivered" ELSE upstream[u]

\* CreateOrder answers ok with an order of its own only once that is paid.
PaidFor(u) == u \in DOMAIN request /\ request[u].answer = "ok" /\ request[u].found = u

\* CreateOrder, up to the look for an earlier order: one that has the same number
\* is the answer, whatever its status; one that cannot be looked up or read is
\* taken for none.
ReceiveOrder(i) ==
  /\ i \in DOMAIN request /\ request[i].server = "unread"
  /\ LET earlier == EarlierOrder(request[i].order)
     IN \/ /\ earlier # NoUpstream
           /\ request' = [request EXCEPT ![i] = [@ EXCEPT !.server = "done", !.answer = "ok",
                                                          !.found = earlier]]
           /\ upstream' = [upstream EXCEPT ![earlier] = Synced(earlier)]
           /\ UNCHANGED mishaps
        \/ /\ IF earlier = NoUpstream THEN UNCHANGED mishaps ELSE Fail
           /\ request' = [request EXCEPT ![i].server = "checked"]
           /\ UNCHANGED upstream
  /\ UNCHANGED <<delivery, refs, callback, noticeTasks, notice>>

\* OrderService.CreateOrder commits the order, or refuses (stock, SKU) with an
\* HTTP status that is not 200.
CreateOrder(i) ==
  /\ i \in DOMAIN request /\ request[i].server = "checked"
  /\ \/ /\ upstream' = [upstream EXCEPT ![i] = "pending_payment"]
        /\ request' = [request EXCEPT ![i].server = "ordered"]
     \/ /\ request' = [request EXCEPT ![i] = [@ EXCEPT !.server = "done", !.answer = "error"]]
        /\ UNCHANGED upstream
  /\ UNCHANGED <<delivery, refs, callback, noticeTasks, notice, mishaps>>

\* The row that remembers the number; a failure to write it is only logged.
CreateRef(i) ==
  /\ i \in DOMAIN request /\ request[i].server = "ordered"
  /\ request' = [request EXCEPT ![i].server = "noted"]
  /\ \/ refs' = Append(refs, i) /\ UNCHANGED mishaps
     \/ UNCHANGED refs /\ Fail
  /\ UNCHANGED <<upstream, delivery, callback, noticeTasks, notice>>

\* CreatePayment from the wallet, with the hooks of a paid order; when the wallet
\* does not cover it, or the buying site has cancelled it, the order is cancelled (again).
PayFromWallet(i) ==
  /\ i \in DOMAIN request /\ request[i].server = "noted"
  /\ \/ /\ upstream[i] = "pending_payment"
        /\ upstream' = [upstream EXCEPT ![i] = "paid"]
        /\ request' = [request EXCEPT ![i] = [@ EXCEPT !.server = "done", !.answer = "ok", !.found = i]]
        /\ \/ EnqueueCallback(i, TRUE) /\ UNCHANGED mishaps
           \/ EnqueueCallback(i, FALSE) /\ Fail
     \/ /\ upstream' = [upstream EXCEPT ![i] = "canceled"]
        /\ request' = [request EXCEPT ![i] = [@ EXCEPT !.server = "done", !.answer = "refused"]]
        /\ UNCHANGED <<callback, noticeTasks, mishaps>>
  /\ UNCHANGED <<delivery, refs, notice>>

\* The handler dies and never answers.
HandlerDies(i) ==
  /\ i \in DOMAIN request /\ request[i].server \in {"checked", "ordered", "noted"}
  /\ request' = [request EXCEPT ![i].server = "died"]
  /\ Fail
  /\ UNCHANGED <<upstreamVars, notice>>

\* The order such a handler leaves unpaid is cancelled by its timeout.
ExpireOrder(u) ==
  /\ upstream[u] = "pending_payment" /\ request[u].server = "died"
  /\ upstream' = [upstream EXCEPT ![u] = "canceled"]
  /\ UNCHANGED <<delivery, refs, callback, noticeTasks, linkVars>>

\* CreateAuto or CreateManual: one transaction stores the goods of a paid order and
\* marks the child order delivered; the row keeps a second delivery away.
StoreDelivery(u) ==
  /\ upstream[u] = "paid" /\ delivery[u] = "none"
  /\ delivery' = [delivery EXCEPT ![u] = "stored"]
  /\ UNCHANGED <<upstream, refs, callback, noticeTasks, linkVars>>

\* Then the parent order, which the other site sees, becomes delivered ...
SyncDelivery(u) ==
  /\ delivery[u] = "stored"
  /\ delivery' = [delivery EXCEPT ![u] = "synced"]
  /\ upstream' = [upstream EXCEPT ![u] = Synced(u)]
  /\ UNCHANGED <<refs, callback, noticeTasks, linkVars>>

\* ... and a callback is queued.
AnnounceDelivery(u) ==
  /\ delivery[u] = "synced"
  /\ delivery' = [delivery EXCEPT ![u] = "done"]
  /\ \/ EnqueueCallback(u, TRUE) /\ UNCHANGED mishaps
     \/ EnqueueCallback(u, FALSE) /\ Fail
  /\ UNCHANGED <<upstream, refs, request, notice>>

\* A crash in between; the task that is run again finds the row and stops.
DeliveryDies(u) ==
  /\ delivery[u] \in {"stored", "synced"}
  /\ delivery' = [delivery EXCEPT ![u] = "done"]
  /\ Fail
  /\ UNCHANGED <<upstream, refs, callback, noticeTasks, request, notice>>

\* UpdateOrderStatus: an administrator marks the child order delivered, which needs
\* no fulfillment row, lets none be made afterwards and queues no callback.
MarkDelivered(u) ==
  /\ upstream[u] = "paid" /\ delivery[u] = "none"
  /\ upstream' = [upstream EXCEPT ![u] = "delivered"]
  /\ Mishap("marked")
  /\ UNCHANGED <<delivery, refs, callback, noticeTasks, request, notice>>

\* UpdateOrderStatus: an administrator cancels the parent order, whatever its status.
CancelByAdmin(u) ==
  /\ upstream[u] \notin {"none", "canceled"}
  /\ upstream' = [upstream EXCEPT ![u] = "canceled"]
  /\ Mishap("voided")
  /\ UNCHANGED <<delivery, refs, callback, noticeTasks, request, notice>>

\* A refund at this site; nothing tells the other one.
RefundUpstream(u) ==
  /\ upstream[u] \in {"paid", "delivered", "partially_refunded"}
  /\ Mishap("refund")
  /\ \E s \in RefundKinds \ {upstream[u]} : upstream' = [upstream EXCEPT ![u] = s]
  /\ UNCHANGED <<delivery, refs, callback, noticeTasks, request, notice>>

\* SendCallback reads the row and the order as they are now, not as they were
\* when the task was queued. One callback per order is under way at a time.
SendCallback(u) ==
  /\ noticeTasks[u] > 0 /\ notice[u].phase = "idle"
  /\ noticeTasks' = [noticeTasks EXCEPT ![u] = @ - 1]
  /\ notice' = [notice EXCEPT ![u] =
                  [phase |-> "sent", status |-> upstream[u], goods |-> u \in handedOver,
                   state |-> callback[u].state, retry |-> callback[u].retry]]
  /\ UNCHANGED <<upstream, delivery, refs, callback, request, mishaps>>

\* The other side said ok: the row the sender read is saved as sent.
CallbackAnswered(u) ==
  /\ notice[u].phase = "answered"
  /\ callback' = [callback EXCEPT ![u] = [state |-> "sent", retry |-> notice[u].retry]]
  /\ notice' = [notice EXCEPT ![u] = NoNotice]
  /\ UNCHANGED <<upstream, delivery, refs, noticeTasks, request, mishaps>>

\* handleCallbackFailure, when the other side said no, or the callback or the
\* answer to it was lost: another task, until the retries are used up.
CallbackFailed(u) ==
  /\ notice[u].phase # "idle"
  /\ LET tries == notice[u].retry + 1
         givenUp == tries >= MaxCallbackRetries
     IN /\ callback' = [callback EXCEPT ![u] =
                          [state |-> IF givenUp THEN "failed" ELSE notice[u].state, retry |-> tries]]
        /\ noticeTasks' = [noticeTasks EXCEPT ![u] = IF givenUp THEN @ ELSE @ + 1]
  /\ notice' = [notice EXCEPT ![u] = NoNotice]
  /\ UNCHANGED <<upstream, delivery, refs, request, mishaps>>

UpstreamNext ==
  \/ \E i \in Attempts : \/ ReceiveOrder(i) \/ CreateOrder(i) \/ CreateRef(i)
                         \/ PayFromWallet(i) \/ HandlerDies(i)
  \/ \E u \in Attempts : \/ ExpireOrder(u) \/ RefundUpstream(u)
                         \/ StoreDelivery(u) \/ SyncDelivery(u) \/ AnnounceDelivery(u)
                         \/ DeliveryDies(u) \/ MarkDelivered(u) \/ CancelByAdmin(u)
                         \/ SendCallback(u)
                         \/ CallbackAnswered(u) \/ CallbackFailed(u)
=============================================================================
