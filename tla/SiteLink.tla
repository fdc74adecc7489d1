------------------------------ MODULE SiteLink ------------------------------
(***************************************************************************)
(* What passes between a site and the site it buys from, both running this *)
(* program: the order request of internal/upstream/dujiao_next.go and its  *)
(* answer, and the callback of downstream_callback_service.go.  Either may *)
(* be late, or never arrive; the asking side gives up after a while and    *)
(* what it asked for may still happen.                                     *)
(***************************************************************************)
EXTENDS Integers, Sequences, FiniteSets

CONSTANTS LocalOrders,   \* the paid orders of the buying site with upstream goods
          MaxAttempts,   \* bound: order requests sent
          MaxMishaps,    \* bound: failures inside a site, refunds and acts of administrators
          Mishaps        \* bound: the kinds of those that may happen

\* An upstream order has the number of the request that created it.
Attempts == 1..MaxAttempts
NoUpstream == 0

\* A failure, a refund upstream; the back office retries or cancels a procurement; an
\* upstream administrator marks an order delivered, or cancels one.
MishapKinds == {"failure", "refund", "retry", "cancel", "marked", "voided"}

ASSUME SiteLinkAssumption ==
  /\ MaxAttempts \in Nat
  /\ MaxMishaps \in Nat
  /\ Mishaps \subseteq MishapKinds

VARIABLES
  request,  \* request[i]: the i-th order request and its answer
  notice,   \* notice[u]: the callback under way about upstream order u
  mishaps   \* how often each kind has happened

linkVars == <<request, notice, mishaps>>

\* The statuses an upstream order may have; "none": there is no such order.
UpstreamStatuses == {"none", "pending_payment", "paid", "delivered", "canceled",
                     "partially_refunded", "refunded"}

\* The buying side (client) waits for an answer or has closed the connection;
\* the answering side (server) has reached some point of its handler. retry is
\* the retry_count the client read before it sent the request.
Request == [order  : LocalOrders,
            client : {"waiting", "closed"},
            retry  : Nat,
            server : {"unread", "checked", "ordered", "noted", "died", "done"},
            answer : {"none", "ok", "refused", "error"},
            found  : Attempts \union {NoUpstream}]

\* A callback carries the status and the goods of the upstream order as they were
\* when it was sent; retry and state are the sender's copy of its row. The phases
\* from "handling" on are the receiver's.
Notice == [phase  : {"idle", "sent", "handling", "answered", "refused"},
           status : UpstreamStatuses, goods : BOOLEAN,
           state  : {"none", "pending", "sent", "failed"}, retry : Nat]

NoNotice == [phase |-> "idle", status |-> "none", goods |-> FALSE,
             state |-> "none", retry |-> 0]

LinkInit ==
  /\ request = << >>
  /\ notice = [u \in Attempts |-> NoNotice]
  /\ mishaps = [kind \in MishapKinds |-> 0]

\* One more thing that need not happen.
Mishap(kind) ==
  /\ kind \in Mishaps
  /\ mishaps.failure + mishaps.refund + mishaps.retry + mishaps.cancel + mishaps.marked
       + mishaps.voided < MaxMishaps
  /\ mishaps' = [mishaps EXCEPT ![kind] = @ + 1]

\* A call dies halfway, or a write or the queue fails.
Fail == Mishap("failure")
=============================================================================
