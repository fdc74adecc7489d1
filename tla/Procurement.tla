---------------------------- MODULE Procurement ----------------------------
(***************************************************************************)
(* The site that buys: procurement_order_service.go, the worker tasks that *)
(* call it and the callback it receives.  No status update here looks at   *)
(* the status it replaces, so a task that read the row before a slow call  *)
(* writes over whatever happened in between; what it read is kept in       *)
(* request (orders), poll (status queries) and admin (back office).  The   *)
(* procurement row, the goods and the local order are written one after    *)
(* the other, each on its own; what is still to be written is in work.     *)
(***************************************************************************)
EXTENDS SiteLink

CONSTANTS RetryMax,  \* SiteConnection.RetryMax
          PollLimit, \* len(pollIntervals)
          SyncLimit, \* PageSize of SyncAcceptedOrders; 0: it never runs
          MaxTasks,  \* bound: submit tasks of one order in the queue
          MaxPolls   \* bound: poll tasks of one order in the queue; one more is never run

ASSUME ProcurementAssumption ==
  /\ RetryMax \in Nat
  /\ PollLimit \in Nat
  /\ SyncLimit \in Nat
  /\ MaxTasks \in Nat
  /\ MaxPolls \in Nat

VARIABLES
  local,       \* local[o]: status of the local order
  goods,       \* goods[o]: the upstream order its fulfillment row is from
  proc,        \* proc[o]: its procurement order
  rows,        \* the orders that have one, in the order of their created_at
  work,        \* what handlers have still to write on the local orders
  submitTasks, \* submitTasks[o]: submit tasks in the queue
  pollTasks,   \* pollTasks[o]: poll tasks in the queue
  poll,        \* poll[o]: the status query under way
  admin,       \* admin[o]: the back-office request under way
  setBack      \* history: the delivered orders a late write has set back (PutBack, MarkFulfilling)

localVars == <<local, goods, setBack>>
taskVars == <<submitTasks, pollTasks>>
procVars == <<localVars, proc, rows, work, taskVars, poll, admin>>

ProcStatuses == {"none", "pending", "failed", "accepted", "rejected", "fulfilled",
                 "canceled", "partially_refunded", "refunded"}
ProcRow == [status : ProcStatuses, retry : Nat, found : Attempts \union {NoUpstream}]
PollStep == [phase : {"idle", "asked", "answered"}, kind : {"poll", "sync"}, retry : Nat,
             found : Attempts \union {NoUpstream}, status : UpstreamStatuses, goods : BOOLEAN]
Idle == [phase |-> "idle", kind |-> "poll", retry |-> 0, found |-> NoUpstream,
         status |-> "none", goods |-> FALSE]

\* Who writes: the answer to a request, a callback, a status query or a submit task
\* that needs no request.
Handlers == ({"submit", "callback"} \X Attempts) \union ({"query", "task"} \X LocalOrders)

\* The next thing the handler does with a local order: store the goods of upstream
\* order from, write delivered, read the status, write paid, write fulfilling.
Steps == {"goods", "deliver", "look", "paid", "fulfilling"}
Work == [by : Handlers, step : Steps, order : LocalOrders, from : Attempts \union {NoUpstream}]

\* An order with upstream items is fulfilling from its payment on.
ProcurementInit ==
  /\ local = [o \in LocalOrders |-> "fulfilling"]
  /\ goods = [o \in LocalOrders |-> NoUpstream]
  /\ proc = [o \in LocalOrders |-> [status |-> "none", retry |-> 0, found |-> NoUpstream]]
  /\ rows = << >>
  /\ work = {}
  /\ submitTasks = [o \in LocalOrders |-> 0]
  /\ pollTasks = [o \in LocalOrders |-> 0]
  /\ poll = [o \in LocalOrders |-> Idle]
  /\ admin = [o \in LocalOrders |-> "idle"]
  /\ setBack = {}

\* A handler has something to write, and goes on to the next thing.
Begin(by, step, o, u) == work' = work \union {[by |-> by, step |-> step, order |-> o, from |-> u]}
GoOn(w, step) == work' = (work \ {w}) \union {[w EXCEPT !.step = step]}

\* A task more; beyond the bound it is never run.
OneMore(tasks, o, max) == [tasks EXCEPT ![o] = IF @ < max THEN @ + 1 ELSE @]

\* The client gets its answer or stops waiting; what it had read is of no more use.
Closed(r) == [r EXCEPT !.client = "closed", !.retry = 0]

SetStatus(o, s) == proc' = [proc EXCEPT ![o].status = s]

\* CreateForOrder, once the order is paid: one row per order, and a submit task
\* unless it cannot be queued, which is only logged.
CreateForOrder(o) ==
  /\ proc[o].status = "none"
  /\ SetStatus(o, "pending")
  /\ rows' = Append(rows, o)
  /\ \/ submitTasks' = [submitTasks EXCEPT ![o] = @ + 1] /\ UNCHANGED mishaps
     \/ UNCHANGED submitTasks /\ Fail
  /\ UNCHANGED <<localVars, work, pollTasks, poll, admin, request, notice>>

\* SubmitToUpstream up to the request it sends.
SubmitToUpstream(o) ==
  /\ submitTasks[o] > 0
  /\ proc[o].status \in {"pending", "failed"}
  /\ Len(request) < MaxAttempts
  /\ submitTasks' = [submitTasks EXCEPT ![o] = @ - 1]
  /\ request' = Append(request, [order |-> o, client |-> "waiting", retry |-> proc[o].retry,
                                 server |-> "unread", answer |-> "none", found |-> NoUpstream])
  /\ UNCHANGED <<localVars, proc, rows, work, pollTasks, poll, admin, notice, mishaps>>

\* A submit task that comes too late: ErrProcurementStatusInvalid.
SubmitInvalid(o) ==
  /\ submitTasks[o] > 0
  /\ proc[o].status \notin {"pending", "failed"}
  /\ submitTasks' = [submitTasks EXCEPT ![o] = @ - 1]
  /\ UNCHANGED <<localVars, proc, rows, work, pollTasks, poll, admin, linkVars>>

\* rejectProcurement: the connection or the SKU mapping is gone.
SubmitRejected(o) ==
  /\ submitTasks[o] > 0
  /\ proc[o].status \in {"pending", "failed"}
  /\ submitTasks' = [submitTasks EXCEPT ![o] = @ - 1]
  /\ SetStatus(o, "rejected")
  /\ Begin(<<"task", o>>, "look", o, NoUpstream)
  /\ Fail
  /\ UNCHANGED <<localVars, rows, pollTasks, poll, admin, request, notice>>

\* Seeded fault: the order is taken to be the one this request asked for.
RequestedRow(i) == [status |-> "accepted", retry |-> 0, found |-> i]

\* The row takes the upstream order of the answer and starts counting polls.
AcceptedRow(i) == [status |-> "accepted", retry |-> 0, found |-> request[i].found]

\* The answer is ok: accepted, with the number of the upstream order; the local
\* order is written after that.
SubmitAccepted(i) ==
  /\ i \in DOMAIN request /\ request[i].client = "waiting" /\ request[i].answer = "ok"
  /\ LET o == request[i].order
     IN /\ proc' = [proc EXCEPT ![o] = AcceptedRow(i)]
        /\ Begin(<<"submit", i>>, "fulfilling", o, NoUpstream)
  /\ request' = [request EXCEPT ![i] = Closed(@)]
  /\ UNCHANGED <<localVars, rows, taskVars, poll, admin, notice, mishaps>>

\* handleSubmitFailure: another task while retries are left (at once: the delay
\* it computes is only written down), else rejected. A refusal for want of money
\* is not retried; no answer, and any other HTTP status, is.
SubmitFailed(i) ==
  /\ i \in DOMAIN request /\ request[i].client = "waiting" /\ request[i].answer # "ok"
  /\ LET o == request[i].order
         retryable == request[i].answer # "refused" /\ request[i].retry < RetryMax
     IN IF retryable
          THEN /\ proc' = [proc EXCEPT ![o] = [@ EXCEPT !.status = "failed",
                                                        !.retry = request[i].retry + 1]]
               /\ submitTasks[o] < MaxTasks
               /\ submitTasks' = [submitTasks EXCEPT ![o] = @ + 1]
               /\ UNCHANGED work
          ELSE /\ SetStatus(o, "rejected")
               /\ Begin(<<"submit", i>>, "look", o, NoUpstream)
               /\ UNCHANGED submitTasks
  /\ request' = [request EXCEPT ![i] = Closed(@)]
  /\ UNCHANGED <<localVars, rows, pollTasks, poll, admin, notice, mishaps>>

\* HandleUpstreamCallback, called with status s and, if given, the goods of
\* upstream order u, up to its first write. It asks neither what the procurement's
\* status was nor whether u is the order it bought. A delivery without goods goes
\* straight on to the local order.
HandleUpstreamCallback(by, o, s, u, given) ==
  \/ /\ s = "delivered"
     /\ SetStatus(o, "fulfilled")
     /\ Begin(by, IF given THEN "goods" ELSE "deliver", o, u)
  \/ /\ s = "canceled"
     /\ SetStatus(o, "canceled")
     /\ Begin(by, "look", o, u)
  \/ /\ s \in {"refunded", "partially_refunded"}
     /\ SetStatus(o, s)
     /\ UNCHANGED work
  \/ /\ s \notin {"delivered", "canceled", "refunded", "partially_refunded"}
     /\ UNCHANGED <<proc, work>>

\* HandleCallback finds the procurement by the local order number alone. One callback
\* about an upstream order is handled at a time.
ReceiveCallback(u) ==
  /\ notice[u].phase = "sent"
  /\ \A w \in work : w.by # <<"callback", u>>
  /\ LET o == request[u].order
     IN /\ proc[o].status # "none"
        /\ HandleUpstreamCallback(<<"callback", u>>, o, notice[u].status, u, notice[u].goods)
  /\ notice' = [notice EXCEPT ![u].phase = IF work' = work THEN "answered" ELSE "handling"]
  /\ UNCHANGED <<localVars, rows, taskVars, poll, admin, request, mishaps>>

\* A callback's handler answers, which its sender may no longer wait for.
Replied(w, answer) ==
  notice' = [u \in Attempts |->
               IF w.by = <<"callback", u>> /\ notice[u].phase = "handling"
                 THEN [notice[u] EXCEPT !.phase = answer] ELSE notice[u]]

\* The handler is done.
Finished(w) == work' = work \ {w} /\ Replied(w, "answered")

\* Seeded fault: a later delivery replaces the fulfillment row.
ReplaceGoods(o, u) == [goods EXCEPT ![o] = u]

\* Seeded fault: goods are taken only for an order that still waits for them.
GoodsIfFulfilling(o, u) ==
  IF goods[o] = NoUpstream /\ local[o] = "fulfilling" THEN [goods EXCEPT ![o] = u] ELSE goods

\* Seeded fault: the goods of the wrong order, the one asked for last, are taken.
GoodsUnseen(o, u) == IF goods[o] = NoUpstream THEN [goods EXCEPT ![o] = Len(request)] ELSE goods

\* createUpstreamFulfillment: an order that has a fulfillment row keeps it.
GoodsAfter(o, u) == IF goods[o] = NoUpstream THEN [goods EXCEPT ![o] = u] ELSE goods

\* The goods are stored in a transaction of their own.
StoreGoods(w) ==
  /\ w.step = "goods"
  /\ goods' = GoodsAfter(w.order, w.from)
  /\ GoOn(w, "deliver")
  /\ UNCHANGED <<local, setBack, submitTasks, notice>>

\* Seeded fault: a delivery reaches only a local order that still waits for it.
DeliverIfFulfilling(w) ==
  /\ w.step = "deliver"
  /\ local' = [local EXCEPT ![w.order] = IF @ = "fulfilling" THEN "delivered" ELSE @]
  /\ setBack' = setBack \ {w.order}
  /\ Finished(w)
  /\ UNCHANGED <<goods, submitTasks>>

\* The local order becomes delivered, whatever it was.
Deliver(w) ==
  /\ w.step = "deliver"
  /\ local' = [local EXCEPT ![w.order] = "delivered"]
  /\ setBack' = setBack \ {w.order}
  /\ Finished(w)
  /\ UNCHANGED <<goods, submitTasks>>

\* A rejection returns an error, so the queue may deliver the submit task again.
Redelivered(w) ==
  \/ UNCHANGED submitTasks
  \/ w.by[1] = "submit" /\ submitTasks' = OneMore(submitTasks, w.order, MaxTasks)

\* rollbackLocalOrderOnProcurementFailure reads the local order, and writes only if
\* it saw it fulfilling ...
LookBack(w) ==
  /\ w.step = "look"
  /\ \/ local[w.order] = "fulfilling" /\ GoOn(w, "paid") /\ UNCHANGED <<submitTasks, notice>>
     \/ local[w.order] # "fulfilling" /\ Finished(w) /\ Redelivered(w)
  /\ UNCHANGED localVars

\* History: a delivered order is set back and its procurement, which is accepted no
\* more, will be asked about no more.
SetBackAfter(o) ==
  IF local[o] = "delivered" /\ proc[o].status # "accepted" THEN setBack \union {o} ELSE setBack

\* Seeded fault: a failed purchase cancels the local order.
CanceledInstead == "canceled"

\* A failed purchase leaves the local order paid.
RolledBack == "paid"

\* ... when it is no longer that, perhaps.
PutBack(w) ==
  /\ w.step = "paid"
  /\ local' = [local EXCEPT ![w.order] = RolledBack]
  /\ setBack' = SetBackAfter(w.order)
  /\ Finished(w)
  /\ Redelivered(w)
  /\ UNCHANGED goods

\* What a handler does with a local order; it queues no poll.
WriteLocal(w) ==
  /\ StoreGoods(w) \/ Deliver(w) \/ LookBack(w) \/ PutBack(w)
  /\ UNCHANGED <<proc, rows, pollTasks, poll, admin, request, mishaps>>

\* After an accepted request the local order is fulfilling, whatever it was, and
\* the first poll is queued.
MarkFulfilling(w) ==
  /\ w.step = "fulfilling"
  /\ local' = [local EXCEPT ![w.order] = "fulfilling"]
  /\ setBack' = SetBackAfter(w.order)
  /\ pollTasks' = OneMore(pollTasks, w.order, MaxPolls)
  /\ Finished(w)
  /\ UNCHANGED <<goods, proc, rows, submitTasks, poll, admin, request, mishaps>>

\* The handler dies, or a write of the local order fails, which is not noticed; if
\* the goods cannot be stored, the callback is answered ok:false.
WriteFails(w) ==
  /\ work' = work \ {w}
  /\ Replied(w, IF w.step = "goods" THEN "refused" ELSE "answered")
  /\ Fail
  /\ UNCHANGED <<localVars, proc, rows, taskVars, poll, admin, request>>

\* A status query about the upstream order of the row, as it is now.
Asked(o, kind, retry) ==
  [phase |-> "asked", kind |-> kind, retry |-> retry, found |-> proc[o].found,
   status |-> "none", goods |-> FALSE]

\* PollUpstreamStatus reads the row; only an accepted one is asked about.
BeginPoll(o) ==
  /\ pollTasks[o] > 0 /\ poll[o].phase = "idle"
  /\ pollTasks' = [pollTasks EXCEPT ![o] = @ - 1]
  /\ poll' = IF proc[o].status = "accepted"
               THEN [poll EXCEPT ![o] = Asked(o, "poll", proc[o].retry)]
               ELSE poll
  /\ UNCHANGED <<localVars, proc, rows, work, submitTasks, admin, linkVars>>

\* The orders whose row is as new as that of o, or newer; the accepted ones of them.
RowsFrom(o) == {p \in LocalOrders : \E m, n \in DOMAIN rows : rows[m] = o /\ rows[n] = p /\ m <= n}
AcceptedFrom(o) == {p \in RowsFrom(o) : proc[p].status = "accepted"}

\* Seeded fault: an order that has its goods is no longer asked about.
SyncUndelivered(o) ==
  /\ proc[o].status = "accepted" /\ proc[o].found # NoUpstream /\ poll[o].phase = "idle"
  /\ goods[o] = NoUpstream
  /\ poll' = [poll EXCEPT ![o] = Asked(o, "sync", 0)]
  /\ UNCHANGED <<localVars, proc, rows, work, taskVars, admin, linkVars>>

\* SyncAcceptedOrders, every 30 minutes: the newest accepted orders, a page of them.
BeginSync(o) ==
  /\ proc[o].status = "accepted" /\ proc[o].found # NoUpstream /\ poll[o].phase = "idle"
  /\ Cardinality(AcceptedFrom(o)) <= SyncLimit
  /\ poll' = [poll EXCEPT ![o] = Asked(o, "sync", 0)]
  /\ UNCHANGED <<localVars, proc, rows, work, taskVars, admin, linkVars>>

\* requeuePoll writes back the status the poll had read, "accepted".
RequeuePoll(o) ==
  IF poll[o].kind = "poll" /\ poll[o].retry < PollLimit
    THEN /\ proc' = [proc EXCEPT ![o] = [@ EXCEPT !.status = "accepted",
                                                  !.retry = poll[o].retry + 1]]
         /\ pollTasks' = OneMore(pollTasks, o, MaxPolls)
    ELSE UNCHANGED <<proc, pollTasks>>

\* GetOrder failed or timed out.
PollUnanswered(o) ==
  /\ poll[o].phase = "asked"
  /\ RequeuePoll(o)
  /\ poll' = [poll EXCEPT ![o] = Idle]
  /\ UNCHANGED <<localVars, rows, work, submitTasks, admin, linkVars>>

\* The answer has come: it is handled like a callback, or the poll is queued again.
\* The goods of a cancelled order are not passed on.
EndPoll(o) ==
  /\ poll[o].phase = "answered"
  /\ IF poll[o].status \in {"delivered", "canceled", "refunded", "partially_refunded"}
       THEN /\ HandleUpstreamCallback(<<"query", o>>, o, poll[o].status, poll[o].found, poll[o].goods)
            /\ UNCHANGED pollTasks
       ELSE RequeuePoll(o) /\ UNCHANGED work
  /\ poll' = [poll EXCEPT ![o] = Idle]
  /\ UNCHANGED <<localVars, rows, submitTasks, admin, linkVars>>

\* RetryManual and CancelManual check the status they read ...
BeginManual(o, what) ==
  /\ admin[o] = "idle"
  /\ \/ what = "retry" /\ proc[o].status \in {"failed", "rejected"}
     \/ what = "cancel" /\ proc[o].status \in {"pending", "failed", "rejected", "accepted"}
  /\ admin' = [admin EXCEPT ![o] = what]
  /\ Mishap(what)
  /\ UNCHANGED <<localVars, proc, rows, work, taskVars, poll, request, notice>>

\* ... and write without looking again.
RetryManual(o) ==
  /\ admin[o] = "retry"
  /\ admin' = [admin EXCEPT ![o] = "idle"]
  /\ proc' = [proc EXCEPT ![o] = [@ EXCEPT !.status = "pending", !.retry = 0]]
  /\ submitTasks[o] < MaxTasks
  /\ submitTasks' = [submitTasks EXCEPT ![o] = @ + 1]
  /\ UNCHANGED <<localVars, rows, work, pollTasks, poll, linkVars>>

\* The upstream site is asked to cancel as well, but cancels no paid order.
CancelManual(o) ==
  /\ admin[o] = "cancel"
  /\ admin' = [admin EXCEPT ![o] = "idle"]
  /\ SetStatus(o, "canceled")
  /\ UNCHANGED <<localVars, rows, work, taskVars, poll, linkVars>>

ProcurementNext ==
  \/ \E o \in LocalOrders :
       \/ CreateForOrder(o) \/ SubmitToUpstream(o) \/ SubmitInvalid(o) \/ SubmitRejected(o)
       \/ BeginPoll(o) \/ BeginSync(o) \/ PollUnanswered(o) \/ EndPoll(o)
       \/ RetryManual(o) \/ CancelManual(o)
       \/ \E what \in {"retry", "cancel"} : BeginManual(o, what)
  \/ \E w \in work : WriteLocal(w) \/ MarkFulfilling(w) \/ WriteFails(w)
  \/ \E i \in Attempts : SubmitAccepted(i) \/ SubmitFailed(i) \/ ReceiveCallback(i)
=============================================================================
