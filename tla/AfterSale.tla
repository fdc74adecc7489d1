----------------------------- MODULE AfterSale -----------------------------
(***************************************************************************)
(* What happens to an order after its payment: delivery                    *)
(* (fulfillment_service.go), refunds (order_service_refund.go and          *)
(* wallet_service.go), the back office's status changes, and the statuses  *)
(* that are put right when an order is read (order_service_query.go).  The *)
(* orders of the goods are children of the order that was paid.  Every     *)
(* handler but a refund reads the order first, outside a transaction, and  *)
(* those about a child sync the parent when theirs has ended; what a       *)
(* handler has read and is about to write is kept in its job.              *)
(***************************************************************************)
EXTENDS OrderStatus, Integers, FiniteSets

CONSTANTS Parents, Children,
          ParentOf,      \* ParentOf[c]: the order that child c belongs to
          AutoChildren,  \* the children whose goods are card secrets
          Quantity,      \* Quantity[c]: cards an automatic child needs
          Total,         \* Total[o]: total_amount of a parent or child
          Cards,         \* card secrets of the one product, by id
          Workers,       \* queue workers, back-office and buyers' requests
          NoOrder,
          MaxEvents      \* bound: all that is not the queue's work or a reader's

Orders == Parents \union Children
ChildrenOf(p) == {c \in Children : ParentOf[c] = p}

ASSUME AfterSaleAssumption ==
  /\ ParentOf \in [Children -> Parents]
  /\ AutoChildren \subseteq Children
  /\ Parents \intersect Children = {} /\ NoOrder \notin Orders
  /\ Quantity \in [AutoChildren -> Nat \ {0}]
  /\ Total \in [Orders -> Nat \ {0}]
  /\ Cards \subseteq Nat /\ IsFiniteSet(Cards) /\ Cards \intersect Orders = {}
  /\ MaxEvents \in Nat

VARIABLES
  status,      \* status[o]; "none" until p is paid
  refunded,    \* refunded[o]: refunded_amount
  fulfillment, \* fulfillment[c]: the goods of its fulfillment row, {} without one
  card,        \* card[k]: status and order_id
  autoTasks,   \* autoTasks[c]: automatic delivery tasks in the queue
  job,         \* job[w]: the handler w is in
  events

afterSaleVars == <<status, refunded, fulfillment, card, autoTasks, job, events>>

NoWrites == [o \in {} |-> "none"]
FreeCard == [status |-> "available", order |-> NoOrder]
Idle == [op |-> "idle", order |-> NoOrder, cards |-> {}, writes |-> NoWrites]
Busy(op, o) == [Idle EXCEPT !.op = op, !.order = o]
\* The statuses st, for the orders of S.
For(S, st) == [o \in S |-> st]

Init ==
  /\ status = [o \in Orders |-> "none"]
  /\ refunded = [o \in Orders |-> 0]
  /\ fulfillment = [c \in Children |-> {}]
  /\ card = [k \in Cards |-> FreeCard]
  /\ autoTasks = [c \in AutoChildren |-> 0]
  /\ job = [w \in Workers |-> Idle]
  /\ events = 0

Event == events < MaxEvents /\ events' = events + 1

\* A handler about to write statuses of order o (and of its children): all at once,
\* or one after another as they were read.
Writing(o, writes) == [Busy("write", o) EXCEPT !.writes = writes]
Mending(p, writes) == IF writes = NoWrites THEN Idle ELSE [Busy("mend", p) EXCEPT !.writes = writes]

\* The statuses once those that writes speaks of are written.
Written(writes) == [o \in Orders |-> IF o \in DOMAIN writes THEN writes[o] ELSE status[o]]

-----------------------------------------------------------------------------
(* The statuses a refund leads to.                                          *)

\* The status AdminManualRefund and AdminRefundToWallet give an order of which
\* amount has been refunded in all.
RefundStatus(o, amount) == IF amount >= Total[o] THEN "refunded" ELSE "partially_refunded"

\* expectedRefundStatus; "none" where the code has the empty string.
ExpectedRefundStatus(o) ==
  IF status[o] \in {"none", "canceled"} \/ refunded[o] = 0
    THEN "none"
    ELSE RefundStatus(o, refunded[o])

\* Seeded fault: only the parent's own refunds are put right on reading.
ParentSynced(p) ==
  IF ExpectedRefundStatus(p) = "none" THEN NoWrites ELSE For({p}, ExpectedRefundStatus(p))

\* Seeded fault: a child nothing is known of gets an empty status.
SyncedBlindly(p) ==
  [c \in {d \in ChildrenOf(p) : status[d] # ExpectedRefundStatus(d)} |-> ExpectedRefundStatus(c)]

\* ensureOrderRefundStatusSynced of a parent read with its children: what it writes.
\* The children's statuses come first, and the parent's follows from them as they
\* will be, unless the parent has a refund of its own.
Synced(p) ==
  LET Due(o) == ExpectedRefundStatus(o)
      after == [c \in ChildrenOf(p) |-> IF Due(c) = "none" THEN status[c] ELSE Due(c)]
      parent == IF Due(p) # "none" THEN Due(p)
                ELSE CalcParentStatus(ChildrenOf(p), after, status[p])
  IN [o \in {c \in ChildrenOf(p) : after[c] # status[c]}
             \union (IF parent = status[p] THEN {} ELSE {p})
        |-> IF o = p THEN parent ELSE after[o]]

\* syncParentStatus, over statuses st: what it writes.
ParentSync(p, st) ==
  LET new == CalcParentStatus(ChildrenOf(p), st, st[p])
  IN IF st[p] = "canceled" \/ new = st[p] THEN NoWrites ELSE For({p}, new)

-----------------------------------------------------------------------------
\* Cards are handed out in the order of their ids: T are the first of S.
FirstOf(T, S) == \A k \in T, l \in S \ T : k < l

FreeCards == {k \in Cards : card[k].status = "available"}

\* An order was placed and paid (Checkout). Its automatic children hold the cards it
\* reserved, the first free ones, and get a delivery task each, one after another after
\* the payment's transaction: a task may be refused, and nothing repeats those that are
\* left if the process dies (enqueueOrderPaidAsync).
PayOrder(p) ==
  /\ status[p] = "none"
  /\ \E taken \in SUBSET FreeCards :
       \E owner \in [taken -> ChildrenOf(p) \intersect AutoChildren] :
         /\ FirstOf(taken, FreeCards)
         /\ \A c \in ChildrenOf(p) \intersect AutoChildren :
              Cardinality({k \in taken : owner[k] = c}) = Quantity[c]
         /\ card' = [k \in Cards |->
                       IF k \in taken THEN [status |-> "reserved", order |-> owner[k]] ELSE card[k]]
  /\ LET kids == [c \in ChildrenOf(p) |-> IF c \in AutoChildren THEN "paid" ELSE "fulfilling"]
     IN status' = [Written(kids) EXCEPT ![p] = CalcParentStatus(ChildrenOf(p), kids, "paid")]
  /\ \E queued \in SUBSET (ChildrenOf(p) \intersect AutoChildren) :
       /\ autoTasks' = [c \in AutoChildren |-> IF c \in queued THEN 1 ELSE autoTasks[c]]
       /\ IF queued = ChildrenOf(p) \intersect AutoChildren THEN UNCHANGED events ELSE Event
  /\ UNCHANGED <<refunded, fulfillment, job>>

\* CreateAuto reads the order: only a paid one is delivered.
BeginAuto(w, c) ==
  /\ job[w] = Idle /\ autoTasks[c] > 0
  /\ autoTasks' = [autoTasks EXCEPT ![c] = @ - 1]
  /\ job' = IF status[c] = "paid" THEN [job EXCEPT ![w] = Busy("auto", c)] ELSE job
  /\ UNCHANGED <<status, refunded, fulfillment, card, events>>

\* The task failed: it is queued again, or has used up its retries.
TaskFailed(w, c) ==
  /\ job' = [job EXCEPT ![w] = Idle]
  /\ \/ autoTasks' = [autoTasks EXCEPT ![c] = @ + 1] /\ UNCHANGED events
     \/ UNCHANGED autoTasks /\ Event

\* Its transaction finds cards: those reserved for the order, then free ones, which
\* it does not lock.
TakeCards(w) ==
  LET c == job[w].order
      own == {k \in Cards : card[k] = [status |-> "reserved", order |-> c]}
  IN /\ job[w].op = "auto"
     /\ \/ /\ fulfillment[c] # {}
           /\ job' = [job EXCEPT ![w] = Idle] /\ UNCHANGED <<autoTasks, events>>
        \/ /\ fulfillment[c] = {} /\ Cardinality(own) + Cardinality(FreeCards) < Quantity[c]
           /\ TaskFailed(w, c)
        \/ /\ fulfillment[c] = {}
           /\ \E mine \in SUBSET own, more \in SUBSET FreeCards :
                /\ Cardinality(mine) + Cardinality(more) = Quantity[c]
                /\ FirstOf(mine, own) /\ FirstOf(more, FreeCards)
                /\ more # {} => mine = own
                /\ job' = [job EXCEPT ![w] = [Busy("take", c) EXCEPT !.cards = mine \union more]]
           /\ UNCHANGED <<autoTasks, events>>
     /\ UNCHANGED <<status, refunded, fulfillment, card>>

\* Seeded fault: MarkUsed takes available cards only.
AvailableOnly(k, c) == card[k].status = "available" /\ card[k].order \in {NoOrder, c}

\* Seeded fault: MarkUsed looks for the cards by id alone.
UsableById(k, c) == k \in Cards

\* The WHERE of MarkUsed.
Usable(k, c) ==
  card[k].status \in {"available", "reserved"} /\ card[k].order \in {NoOrder, c}

\* ... and marks them used, all or none, with the fulfillment row, unique per order,
\* and the status, whatever that has become since it was read.
UseCards(w) ==
  LET c == job[w].order
      cards == job[w].cards
  IN /\ job[w].op = "take"
     /\ IF fulfillment[c] = {} /\ \A k \in cards : Usable(k, c)
          THEN /\ card' = [k \in Cards |-> IF k \in cards THEN [status |-> "used", order |-> c]
                                            ELSE card[k]]
               /\ fulfillment' = [fulfillment EXCEPT ![c] = cards]
               /\ status' = [status EXCEPT ![c] = "completed"]
               /\ job' = [job EXCEPT ![w] = Busy("sync", ParentOf[c])]
               /\ UNCHANGED <<autoTasks, events>>
          ELSE TaskFailed(w, c) /\ UNCHANGED <<card, fulfillment, status>>
     /\ UNCHANGED refunded

\* CreateManual reads the order; it asks for no kind of goods.
BeginManual(w, c) ==
  /\ job[w] = Idle
  /\ status[c] \in {"paid", "fulfilling"}
  /\ job' = [job EXCEPT ![w] = Busy("manual", c)]
  /\ Event
  /\ UNCHANGED <<status, refunded, fulfillment, card, autoTasks>>

\* Seeded fault: a delivery by hand replaces the fulfillment row.
ReplaceFulfillment(w, c) ==
  /\ fulfillment' = [fulfillment EXCEPT ![c] = {c}]
  /\ status' = [status EXCEPT ![c] = "delivered"]
  /\ job' = [job EXCEPT ![w] = Busy("sync", ParentOf[c])]

\* An order that has a fulfillment row gets no other (ErrFulfillmentExists).
DeliverByHand(w, c) ==
  IF fulfillment[c] = {}
    THEN /\ fulfillment' = [fulfillment EXCEPT ![c] = {c}]
         /\ status' = [status EXCEPT ![c] = "delivered"]
         /\ job' = [job EXCEPT ![w] = Busy("sync", ParentOf[c])]
    ELSE UNCHANGED <<fulfillment, status>> /\ job' = [job EXCEPT ![w] = Idle]

\* Its transaction. What was written by hand belongs to the order alone.
CommitManual(w) ==
  /\ job[w].op = "manual"
  /\ DeliverByHand(w, job[w].order)
  /\ UNCHANGED <<refunded, card, autoTasks, events>>

\* After either delivery, syncParentStatus reads the parent and its children, unless
\* the process dies before or the read fails ...
ReadParent(w) ==
  /\ job[w].op = "sync"
  /\ \/ job' = [job EXCEPT ![w] = Mending(@.order, ParentSync(@.order, status))]
        /\ UNCHANGED events
     \/ job' = [job EXCEPT ![w] = Idle] /\ Event
  /\ UNCHANGED <<status, refunded, fulfillment, card, autoTasks>>

\* ... and writes what follows from what it read, as does a reader of the order.
Mend(w) ==
  /\ job[w].op = "mend"
  /\ \E o \in DOMAIN job[w].writes :
       /\ status' = [status EXCEPT ![o] = job[w].writes[o]]
       /\ job' = [job EXCEPT ![w] = LET rest == DOMAIN job[w].writes \ {o}
                                    IN Mending(@.order, [x \in rest |-> @.writes[x]])]
  /\ UNCHANGED <<refunded, fulfillment, card, autoTasks, events>>

\* An order is shown: ensureOrderRefundStatusSynced.
ReadOrder(w, p) ==
  /\ job[w] = Idle
  /\ status[p] # "none" /\ Synced(p) # NoWrites
  /\ job' = [job EXCEPT ![w] = Mending(p, Synced(p))]
  /\ UNCHANGED <<status, refunded, fulfillment, card, autoTasks, events>>

\* AdminManualRefund and AdminRefundToWallet, in one transaction each with the order
\* locked. A parent's refund reaches all its children, a child's its parent.
Refund(o, amount) ==
  /\ status[o] # "none"
  /\ amount > 0 /\ refunded[o] + amount <= Total[o]
  /\ Event
  /\ refunded' = [refunded EXCEPT ![o] = @ + amount]
  /\ LET new == RefundStatus(o, refunded[o] + amount)
         sync == ParentSync(ParentOf[o], Written(For({o}, new)))
     IN status' = IF o \in Parents
                    THEN Written(For(ChildrenOf(o) \union {o}, new))
                    ELSE [Written(sync) EXCEPT ![o] = new]
  /\ UNCHANGED <<fulfillment, card, autoTasks, job>>

\* UpdateOrderStatus reads the order. A parent may be completed once its children
\* are delivered, or marked refunded, without money, where each child may be.
BeginAdminParent(w, p) ==
  /\ job[w] = Idle /\ status[p] # "none"
  /\ Event
  /\ \E target \in {"completed", "partially_refunded", "refunded"} \ {status[p]} :
       /\ IF target = "completed"
            THEN \A o \in ChildrenOf(p) \union {p} :
                   status[o] \in {"delivered"} \union (IF o = p THEN {} ELSE {"completed"})
            ELSE \A c \in ChildrenOf(p) : IsTransitionAllowed(status[c], target)
       /\ job' = [job EXCEPT ![w] = Writing(p,
                    For({o \in ChildrenOf(p) \union {p} : status[o] # target}, target))]
  /\ UNCHANGED <<status, refunded, fulfillment, card, autoTasks>>

\* A child goes where the transition table lets it go.
BeginAdminChild(w, c) ==
  /\ job[w] = Idle
  /\ Event
  /\ \E target \in OrderStatuses \ {status[c]} :
       /\ IsTransitionAllowed(status[c], target)
       /\ job' = [job EXCEPT ![w] = Writing(c, For({c}, target))]
  /\ UNCHANGED <<status, refunded, fulfillment, card, autoTasks>>

\* It writes, whatever the statuses have become since; a child's parent is synced.
WriteStatus(w) ==
  LET o == job[w].order
  IN /\ job[w].op = "write"
     /\ status' = Written(job[w].writes)
     /\ job' = [job EXCEPT ![w] = IF o \in Children THEN Busy("sync", ParentOf[o]) ELSE Idle]
     /\ UNCHANGED <<refunded, fulfillment, card, autoTasks, events>>

\* Seeded fault: ReleaseByOrder frees used cards too.
ReleasedWhatever(C) ==
  [k \in Cards |-> IF card[k].order \in C THEN FreeCard ELSE card[k]]

\* ReleaseByOrder, for each order of C.
Released(C) ==
  [k \in Cards |-> IF card[k].status = "reserved" /\ card[k].order \in C THEN FreeCard ELSE card[k]]

\* UpdateOrderStatus of a parent to canceled, which any order may become; reserved
\* cards are released. (Money and stock: Checkout.)
AdminCancel(p) ==
  /\ status[p] \notin {"none", "canceled"}
  /\ Event
  /\ status' = Written(For(ChildrenOf(p) \union {p}, "canceled"))
  /\ card' = Released(ChildrenOf(p))
  /\ UNCHANGED <<refunded, fulfillment, autoTasks, job>>

Next ==
  \/ \E p \in Parents : PayOrder(p) \/ AdminCancel(p)
  \/ \E o \in Orders : \E amount \in 1..Total[o] : Refund(o, amount)
  \/ \E w \in Workers :
       \/ \E c \in AutoChildren : BeginAuto(w, c)
       \/ TakeCards(w) \/ UseCards(w)
       \/ \E c \in Children : BeginManual(w, c) \/ BeginAdminChild(w, c)
       \/ CommitManual(w) \/ ReadParent(w) \/ Mend(w) \/ WriteStatus(w)
       \/ \E p \in Parents : ReadOrder(w, p) \/ BeginAdminParent(w, p)

Spec == Init /\ [][Next]_afterSaleVars

\* Handlers go on, the queue hands out its tasks, and an order is looked at when its
\* statuses are not in order. Nothing is assumed of the back office or of refunds.
AfterSaleFairness ==
  /\ WF_afterSaleVars(\E w \in Workers : \/ TakeCards(w) \/ UseCards(w) \/ CommitManual(w)
                                         \/ ReadParent(w) \/ Mend(w) \/ WriteStatus(w))
  /\ WF_afterSaleVars(\E w \in Workers, c \in AutoChildren : BeginAuto(w, c))
  /\ WF_afterSaleVars(\E w \in Workers, p \in Parents : ReadOrder(w, p))

FairSpec == Spec /\ AfterSaleFairness

-----------------------------------------------------------------------------
TypeOK ==
  /\ status \in [Orders -> OrderStatuses \union {"none"}]
  /\ \A c \in Children : status[c] = "none" <=> status[ParentOf[c]] = "none"
  /\ refunded \in [Orders -> Nat] /\ \A o \in Orders : refunded[o] <= Total[o]
  /\ fulfillment \in [Children -> SUBSET (Cards \union Children)]
  /\ card \in [Cards -> [status : {"available", "reserved", "used"},
                         order : AutoChildren \union {NoOrder}]]
  /\ autoTasks \in [AutoChildren -> Nat]
  /\ \A w \in Workers :
       /\ job[w].op \in {"idle", "auto", "take", "manual", "sync", "write", "mend"}
       /\ job[w].order \in Orders \union {NoOrder}
       /\ job[w].cards \subseteq Cards
       /\ DOMAIN job[w].writes \subseteq Orders
  /\ events \in 0..MaxEvents

\* A card is used by the order whose delivery holds it, and by no other: two
\* deliveries that picked the same free card do not both go through (CreateAuto, MarkUsed).
UsedCardsAreDelivered ==
  \A k \in Cards, c \in Children :
    k \in fulfillment[c] <=> card[k] = [status |-> "used", order |-> c]

\* A card reserved for an order is used for that order or becomes free; a used card
\* stays with its order (MarkUsed, ReleaseByOrder).
ReservationKept ==
  [][\A k \in Cards : card[k].status # "available" =>
       \/ card'[k] = card[k]
       \/ card[k].status = "reserved" /\ card'[k] \in
            {FreeCard, [status |-> "used", order |-> card[k].order]}]_card

\* An order gets its goods once, keeps them and shares them with no other, by
\* whichever of the two deliveries they come, and though cards are picked unlocked
\* (CreateAuto, CreateManual).
Promised == INSTANCE Delivery WITH
  Orders <- Children, Goods <- Cards \union Children, delivered <- fulfillment
ImplementsDelivery == Promised!Spec

\* A delivery that was queued for a paid order is made, unless somebody
\* else changes the order's status: its own cards cannot run out (handleOrderAutoFulfill).
QueuedIsDelivered ==
  \A c \in AutoChildren :
    autoTasks[c] > 0 ~> fulfillment[c] # {} \/ status[c] # "paid"

\* A refund that a delivery with an older copy of the order has overwritten is shown
\* again in the end (CreateManual, CreateAuto, ensureOrderRefundStatusSynced).
RefundIsShown ==
  \A o \in Orders :
    refunded[o] > 0 ~> status[o] \in {"canceled", RefundStatus(o, refunded[o])}

\* Two deliveries of one order may each write a parent status that does not know of
\* the other; in the end it follows from the children and the refunds (syncParentStatus,
\* ensureOrderRefundStatusSynced).
ParentFollowsChildren ==
  \A p \in Parents : <>[](status[p] # "none" => 
    status[p] = IF ExpectedRefundStatus(p) # "none" THEN ExpectedRefundStatus(p)
                ELSE CalcParentStatus(ChildrenOf(p), status, status[p]))
=============================================================================
