-------------------------- MODULE AfterSaleProofs --------------------------
(***************************************************************************)
(* AfterSale for every set of orders, cards and workers: its tables are    *)
(* well formed, a card is used by the order whose delivery holds it, cards *)
(* reserved for an order go to no other, and every order gets its goods    *)
(* once and keeps them, as Delivery promises.                              *)
(***************************************************************************)
EXTENDS AfterSale, OperatorProofs

-----------------------------------------------------------------------------
(* Types.                                                                   *)

Ops == {"idle", "auto", "take", "manual", "sync", "write", "mend"}
Writes == UNION {[S -> OrderStatuses] : S \in SUBSET Orders}
Job == [op : Ops, order : Orders \union {NoOrder}, cards : SUBSET Cards, writes : Writes]

\* What a job's operation needs of the rest; st are the statuses.
JobOK(j, st) ==
  /\ j.op \in {"auto", "take"} => j.order \in AutoChildren
  /\ j.op = "take" => j.cards # {}
  /\ j.op = "manual" => j.order \in Children
  /\ j.op = "sync" => j.order \in Parents
  /\ j.op # "idle" => j.order \in Orders /\ st[j.order] # "none"
  /\ \A o \in DOMAIN j.writes : st[o] # "none"

StatusTypeOK ==
  /\ status \in [Orders -> OrderStatuses \union {"none"}]
  /\ \A c \in Children : status[c] = "none" <=> status[ParentOf[c]] = "none"
JobTypeOK == job \in [Workers -> Job] /\ \A w \in Workers : JobOK(job[w], status)
RefundTypeOK == refunded \in [Orders -> Nat] /\ \A o \in Orders : refunded[o] <= Total[o]
CardTypeOK ==
  /\ card \in [Cards -> [status : {"available", "reserved", "used"},
                         order : AutoChildren \union {NoOrder}]]
  /\ \A k \in Cards : card[k].status = "available" <=> card[k].order = NoOrder
GoodsTypeOK ==
  /\ fulfillment \in [Children -> SUBSET (Cards \union Children)]
  /\ \A c \in Children : fulfillment[c] \subseteq Cards \union {c}
QueueTypeOK == autoTasks \in [AutoChildren -> Nat] /\ events \in 0..MaxEvents

\* Every conjunct but that about used cards.
Typed == StatusTypeOK /\ JobTypeOK /\ RefundTypeOK /\ CardTypeOK /\ GoodsTypeOK /\ QueueTypeOK

\* The inductive invariant.
IInv == Typed /\ UsedCardsAreDelivered

\* The statuses of paid orders stay among the statuses and no other order gets one.
PaidStayPaid ==
  /\ status' \in [Orders -> OrderStatuses \union {"none"}]
  /\ \A o \in Orders : status'[o] = "none" <=> status[o] = "none"

-----------------------------------------------------------------------------
(* Jobs.                                                                    *)

\* No writes are writes.
LEMMA NoWritesType == NoWrites \in Writes /\ DOMAIN NoWrites = {}
<1>1. NoWrites \in [{} -> OrderStatuses] BY DEF NoWrites
<1>2. {} \in SUBSET Orders OBVIOUS
<1> QED BY <1>1, <1>2 DEF Writes, NoWrites

\* An idle worker.
LEMMA IdleType == ASSUME NEW st PROVE Idle \in Job /\ JobOK(Idle, st)
BY NoWritesType DEF Idle, Job, JobOK, Ops

\* A worker busy with an order that was paid.
LEMMA BusyType ==
  ASSUME NEW op \in Ops \ {"idle", "take"}, NEW o \in Orders, NEW st, st[o] # "none",
         op = "auto" => o \in AutoChildren,
         op = "manual" => o \in Children,
         op = "sync" => o \in Parents
  PROVE  Busy(op, o) \in Job /\ JobOK(Busy(op, o), st)
BY NoWritesType DEF Busy, Idle, Job, JobOK, Ops

\* A worker that has picked cards.
LEMMA TakeType ==
  ASSUME NEW c \in AutoChildren, NEW st, st[c] # "none", NEW S \in SUBSET Cards, S # {}
  PROVE  /\ [Busy("take", c) EXCEPT !.cards = S] \in Job
         /\ JobOK([Busy("take", c) EXCEPT !.cards = S], st)
BY NoWritesType, AfterSaleAssumption DEF Busy, Idle, Job, JobOK, Ops, Orders

\* A worker with statuses to write.
LEMMA WritingType ==
  ASSUME NEW o \in Orders, NEW st, st[o] # "none",
         NEW wr \in Writes, \A x \in DOMAIN wr : st[x] # "none"
  PROVE  /\ Writing(o, wr) \in Job /\ JobOK(Writing(o, wr), st)
         /\ Mending(o, wr) \in Job /\ JobOK(Mending(o, wr), st)
BY IdleType DEF Writing, Mending, Busy, Idle, Job, JobOK, Ops

\* Setting the same status everywhere.
LEMMA ForType ==
  ASSUME NEW S \in SUBSET Orders, NEW t \in OrderStatuses
  PROVE  For(S, t) \in Writes /\ DOMAIN For(S, t) = S
<1>1. For(S, t) \in [S -> OrderStatuses] BY DEF For
<1> QED BY <1>1 DEF Writes, For

\* One worker goes on.
LEMMA OneJob ==
  ASSUME JobTypeOK, PaidStayPaid, NEW w \in Workers, NEW r,
         r \in Job, JobOK(r, status'), job' = [job EXCEPT ![w] = r]
  PROVE  JobTypeOK'
<1>1. job' \in [Workers -> Job] BY DEF JobTypeOK
<1>2. ASSUME NEW v \in Workers PROVE JobOK(job'[v], status')
  <2>1. CASE v = w BY <2>1 DEF JobTypeOK
  <2>2. CASE v # w
    <3>1. job'[v] = job[v] /\ job[v] \in Job /\ JobOK(job[v], status) BY <2>2 DEF JobTypeOK
    <3>2. DOMAIN job[v].writes \subseteq Orders BY <3>1 DEF Job, Writes
    <3> QED BY <3>1, <3>2 DEF JobOK, PaidStayPaid
  <2> QED BY <2>1, <2>2
<1> QED BY <1>1, <1>2 DEF JobTypeOK

\* Nobody goes on.
LEMMA NoJob ==
  ASSUME JobTypeOK, PaidStayPaid, UNCHANGED job
  PROVE  JobTypeOK'
<1>1. ASSUME NEW v \in Workers PROVE JobOK(job'[v], status')
  <2>1. job[v] \in Job /\ JobOK(job[v], status) BY DEF JobTypeOK
  <2>2. DOMAIN job[v].writes \subseteq Orders BY <2>1 DEF Job, Writes
  <2> QED BY <2>1, <2>2 DEF JobOK, PaidStayPaid
<1> QED BY <1>1 DEF JobTypeOK

\* Statuses that are not written are as they were.
LEMMA StatusKept ==
  ASSUME StatusTypeOK, UNCHANGED status
  PROVE  StatusTypeOK' /\ PaidStayPaid
BY DEF StatusTypeOK, PaidStayPaid

\* Statuses of paid orders may be written.
LEMMA StatusMoved ==
  ASSUME StatusTypeOK, PaidStayPaid
  PROVE  StatusTypeOK'
BY AfterSaleAssumption DEF StatusTypeOK, PaidStayPaid, Orders

\* Writing one status of a paid order.
LEMMA WriteOne ==
  ASSUME StatusTypeOK, NEW o \in Orders, status[o] # "none", NEW t \in OrderStatuses,
         status' = [status EXCEPT ![o] = t]
  PROVE  PaidStayPaid
<1>1. t # "none" BY DEF OrderStatuses
<1> QED BY <1>1 DEF StatusTypeOK, PaidStayPaid

\* Writing several.
LEMMA WriteMany ==
  ASSUME StatusTypeOK, NEW wr \in Writes, \A o \in DOMAIN wr : status[o] # "none"
  PROVE  /\ Written(wr) \in [Orders -> OrderStatuses \union {"none"}]
         /\ \A o \in Orders : Written(wr)[o] = "none" <=> status[o] = "none"
<1>1. PICK S \in SUBSET Orders : wr \in [S -> OrderStatuses] BY DEF Writes
<1>2. \A o \in DOMAIN wr : wr[o] \in OrderStatuses /\ wr[o] # "none" BY <1>1 DEF OrderStatuses
<1> QED BY <1>2 DEF Written, StatusTypeOK

-----------------------------------------------------------------------------
(* The statuses written.                                                    *)

\* A refund's status is one.
LEMMA RefundStatusType ==
  ASSUME NEW o, NEW amount PROVE RefundStatus(o, amount) \in OrderStatuses
BY DEF RefundStatus, OrderStatuses

\* The children of a paid order are paid, and orders.
LEMMA PaidFamily ==
  ASSUME StatusTypeOK, NEW p \in Parents
  PROVE  /\ ChildrenOf(p) \subseteq Children /\ ChildrenOf(p) \union {p} \subseteq Orders
         /\ \A c \in ChildrenOf(p) : status[c] = "none" <=> status[p] = "none"
BY DEF StatusTypeOK, ChildrenOf, Orders

\* syncParentStatus writes the parent at most.
LEMMA ParentSyncType ==
  ASSUME NEW p \in Parents, NEW st, st[p] \in OrderStatuses
  PROVE  ParentSync(p, st) \in Writes /\ DOMAIN ParentSync(p, st) \subseteq {p}
<1> DEFINE new == CalcParentStatus(ChildrenOf(p), st, st[p])
<1>1. new \in OrderStatuses BY AggregateType
<1>2. {p} \in SUBSET Orders BY DEF Orders
<1>3. For({p}, new) \in Writes /\ DOMAIN For({p}, new) = {p} BY <1>1, <1>2, ForType
<1> QED BY <1>3, NoWritesType DEF ParentSync

\* A reader of a paid order writes statuses of it and of its children.
LEMMA SyncedType ==
  ASSUME StatusTypeOK, NEW p \in Parents, status[p] # "none"
  PROVE  Synced(p) \in Writes /\ DOMAIN Synced(p) \subseteq ChildrenOf(p) \union {p}
<1> DEFINE Due(o) == ExpectedRefundStatus(o)
           after == [c \in ChildrenOf(p) |-> IF Due(c) = "none" THEN status[c] ELSE Due(c)]
           parent == IF Due(p) # "none" THEN Due(p)
                     ELSE CalcParentStatus(ChildrenOf(p), after, status[p])
           S == {c \in ChildrenOf(p) : after[c] # status[c]}
                  \union (IF parent = status[p] THEN {} ELSE {p})
<1>1. \A o : Due(o) # "none" => Due(o) \in OrderStatuses
  BY RefundStatusType DEF ExpectedRefundStatus
<1>2. \A c \in ChildrenOf(p) \union {p} : status[c] \in OrderStatuses
  BY PaidFamily DEF StatusTypeOK
<1>3. \A c \in ChildrenOf(p) : after[c] \in OrderStatuses BY <1>1, <1>2
<1>4. parent \in OrderStatuses
  <2>1. CalcParentStatus(ChildrenOf(p), after, status[p]) \in OrderStatuses
    BY <1>2, AggregateType
  <2> QED BY <2>1, <1>1
<1>5. S \subseteq ChildrenOf(p) \union {p} /\ S \in SUBSET Orders BY PaidFamily
<1>6. Synced(p) = [o \in S |-> IF o = p THEN parent ELSE after[o]] BY DEF Synced
<1>7. \A o \in S : (IF o = p THEN parent ELSE after[o]) \in OrderStatuses
  <2> TAKE o \in S
  <2>1. CASE o = p BY <2>1, <1>4
  <2>2. CASE o # p BY <2>2, <1>3, <1>5
  <2> QED BY <2>1, <2>2
<1> HIDE DEF S, parent, after
<1>8. Synced(p) \in [S -> OrderStatuses] BY <1>6, <1>7
<1> QED BY <1>5, <1>8 DEF Writes

-----------------------------------------------------------------------------
(* Each step keeps Typed.                                                   *)

\* At the start.
LEMMA InitTyped == Init => Typed
<1> SUFFICES ASSUME Init PROVE Typed OBVIOUS
<1>1. StatusTypeOK BY AfterSaleAssumption DEF Init, StatusTypeOK, Orders
<1>2. JobTypeOK BY IdleType DEF Init, JobTypeOK
<1>3. RefundTypeOK /\ QueueTypeOK BY AfterSaleAssumption DEF Init, RefundTypeOK, QueueTypeOK
<1>4. CardTypeOK BY DEF Init, CardTypeOK, FreeCard
<1>5. GoodsTypeOK BY DEF Init, GoodsTypeOK
<1> QED BY <1>1, <1>2, <1>3, <1>4, <1>5 DEF Typed

\* An event is counted.
LEMMA Counted1 ==
  ASSUME QueueTypeOK, Event \/ UNCHANGED events PROVE events' \in 0..MaxEvents
BY AfterSaleAssumption DEF QueueTypeOK, Event

\* An order is paid: its children had no status either.
LEMMA PayOrderTyped ==
  ASSUME Typed, NEW p \in Parents, PayOrder(p) PROVE Typed'
<1> USE DEF Typed
<1> DEFINE kids == [c \in ChildrenOf(p) |-> IF c \in AutoChildren THEN "paid" ELSE "fulfilling"]
           ps == CalcParentStatus(ChildrenOf(p), kids, "paid")
<1>1. ps \in OrderStatuses /\ ps # "none"
  <2>1. "paid" \in OrderStatuses /\ "none" \notin OrderStatuses BY DEF OrderStatuses
  <2> QED BY <2>1, AggregateType
<1>2. status' = [Written(kids) EXCEPT ![p] = ps] BY DEF PayOrder
<1> HIDE DEF ps
<1>3. \A c \in ChildrenOf(p) : kids[c] \in {"paid", "fulfilling"} OBVIOUS
<1>4. p \in Orders /\ p \notin Children /\ ChildrenOf(p) \subseteq Orders
  BY PaidFamily, AfterSaleAssumption DEF Orders
<1>5. \A o \in Orders : status'[o] = IF o = p THEN ps
                                      ELSE IF o \in ChildrenOf(p) THEN kids[o] ELSE status[o]
  BY <1>2, <1>4 DEF Written
<1>6. status' \in [Orders -> OrderStatuses \union {"none"}]
  <2>1. status' = [o \in Orders |-> status'[o]] BY <1>2 DEF Written
  <2>2. \A o \in Orders : status'[o] \in OrderStatuses \union {"none"}
    BY <1>5, <1>1, <1>3 DEF StatusTypeOK, OrderStatuses
  <2> QED BY <2>1, <2>2
<1>7. StatusTypeOK'
  <2>1. ASSUME NEW c \in Children PROVE status'[c] = "none" <=> status'[ParentOf[c]] = "none"
    <3>1. c \in Orders /\ ParentOf[c] \in Parents /\ ParentOf[c] \in Orders /\ c # p
      BY <1>4, AfterSaleAssumption DEF Orders
    <3>2. CASE ParentOf[c] = p BY <3>1, <3>2, <1>5, <1>1, <1>3 DEF ChildrenOf
    <3>3. CASE ParentOf[c] # p
      <4>1. c \notin ChildrenOf(p) /\ ParentOf[c] \notin ChildrenOf(p)
        BY <3>1, <3>3, AfterSaleAssumption DEF ChildrenOf
      <4> QED BY <4>1, <3>1, <3>3, <1>5 DEF StatusTypeOK
    <3> QED BY <3>2, <3>3
  <2> QED BY <2>1, <1>6 DEF StatusTypeOK
<1>8. JobTypeOK'
  <2>1. UNCHANGED job BY DEF PayOrder
  <2>2. \A o \in Orders : status[o] # "none" => status'[o] # "none" BY <1>5, <1>1, <1>3
  <2>3. ASSUME NEW w \in Workers PROVE JobOK(job'[w], status')
    <3>1. job[w] \in Job /\ JobOK(job[w], status) BY DEF JobTypeOK
    <3>2. DOMAIN job[w].writes \subseteq Orders BY <3>1 DEF Job, Writes
    <3> QED BY <2>1, <2>2, <3>1, <3>2 DEF JobOK
  <2> QED BY <2>1, <2>3 DEF JobTypeOK
<1>9. CardTypeOK'
  <2>1. PICK taken \in SUBSET FreeCards :
          \E owner \in [taken -> ChildrenOf(p) \intersect AutoChildren] :
            card' = [k \in Cards |->
                       IF k \in taken THEN [status |-> "reserved", order |-> owner[k]] ELSE card[k]]
    BY DEF PayOrder
  <2>2. PICK owner \in [taken -> ChildrenOf(p) \intersect AutoChildren] :
            card' = [k \in Cards |->
                       IF k \in taken THEN [status |-> "reserved", order |-> owner[k]] ELSE card[k]]
    BY <2>1
  <2>3. NoOrder \notin AutoChildren BY AfterSaleAssumption DEF Orders
  <2> QED BY <2>2, <2>3 DEF CardTypeOK
<1>10. QueueTypeOK'
  <2>1. autoTasks' \in [AutoChildren -> Nat] BY DEF PayOrder, QueueTypeOK
  <2>2. Event \/ UNCHANGED events BY DEF PayOrder
  <2> QED BY <2>1, <2>2, Counted1 DEF QueueTypeOK
<1>11. RefundTypeOK' /\ GoodsTypeOK'
  BY DEF PayOrder, RefundTypeOK, GoodsTypeOK
<1> QED BY <1>7, <1>8, <1>9, <1>10, <1>11

\* A worker in the middle of something.
LEMMA BusyFacts ==
  ASSUME Typed, NEW w \in Workers, job[w].op # "idle"
  PROVE  /\ job[w] \in Job /\ JobOK(job[w], status) /\ JobTypeOK
         /\ job[w].order \in Orders /\ status[job[w].order] # "none"
BY DEF Typed, JobTypeOK, JobOK

\* A failed delivery task leaves the worker idle.
LEMMA TaskFailedTyped ==
  ASSUME Typed, NEW w \in Workers, NEW c \in AutoChildren, TaskFailed(w, c), PaidStayPaid
  PROVE  JobTypeOK' /\ QueueTypeOK'
<1>1. JobTypeOK' BY IdleType, OneJob DEF Typed, TaskFailed
<1>2. autoTasks' \in [AutoChildren -> Nat] BY DEF Typed, QueueTypeOK, TaskFailed
<1>3. Event \/ UNCHANGED events BY DEF TaskFailed
<1> QED BY <1>1, <1>2, <1>3, Counted1 DEF Typed, QueueTypeOK

\* CreateAuto reads the order.
LEMMA BeginAutoTyped ==
  ASSUME Typed, NEW w \in Workers, NEW c \in AutoChildren, BeginAuto(w, c) PROVE Typed'
<1> USE DEF Typed
<1>1. StatusTypeOK' /\ PaidStayPaid BY StatusKept DEF BeginAuto
<1>2. JobTypeOK'
  <2>1. CASE status[c] = "paid"
    <3>1. c \in Orders /\ c \in Children BY AfterSaleAssumption DEF Orders
    <3>2. status'[c] # "none" BY <2>1 DEF BeginAuto
    <3>3. Busy("auto", c) \in Job /\ JobOK(Busy("auto", c), status')
      BY <3>1, <3>2, BusyType DEF Ops
    <3>4. job' = [job EXCEPT ![w] = Busy("auto", c)] BY <2>1 DEF BeginAuto
    <3> QED BY <1>1, <3>3, <3>4, OneJob
  <2>2. CASE status[c] # "paid" BY <1>1, <2>2, NoJob DEF BeginAuto
  <2> QED BY <2>1, <2>2
<1>3. QueueTypeOK' BY DEF BeginAuto, QueueTypeOK
<1>4. RefundTypeOK' /\ CardTypeOK' /\ GoodsTypeOK'
  BY DEF BeginAuto, RefundTypeOK, CardTypeOK, GoodsTypeOK
<1> QED BY <1>1, <1>2, <1>3, <1>4

\* CreateAuto picks cards: as many as the order needs, so at least one.
LEMMA TakeCardsTyped ==
  ASSUME Typed, NEW w \in Workers, TakeCards(w) PROVE Typed'
<1> USE DEF Typed
<1> DEFINE c == job[w].order
           own == {k \in Cards : card[k] = [status |-> "reserved", order |-> c]}
<1>1. job[w].op = "auto" BY DEF TakeCards
<1>2. c \in AutoChildren /\ status[c] # "none" BY <1>1, BusyFacts DEF JobOK
<1>3. StatusTypeOK' /\ PaidStayPaid /\ UNCHANGED status BY StatusKept DEF TakeCards
<1>4. JobTypeOK' /\ QueueTypeOK'
  <2>1. CASE job' = [job EXCEPT ![w] = Idle] /\ UNCHANGED <<autoTasks, events>>
    <3>1. JobTypeOK' BY <2>1, <1>3, IdleType, OneJob
    <3> QED BY <3>1, <2>1 DEF QueueTypeOK
  <2>2. CASE TaskFailed(w, c) BY <2>2, <1>2, <1>3, TaskFailedTyped
  <2>3. ASSUME NEW mine \in SUBSET own, NEW more \in SUBSET FreeCards,
               Cardinality(mine) + Cardinality(more) = Quantity[c],
               job' = [job EXCEPT ![w] = [Busy("take", c) EXCEPT !.cards = mine \union more]],
               UNCHANGED <<autoTasks, events>>
        PROVE  JobTypeOK' /\ QueueTypeOK'
    <3>1. mine \union more \in SUBSET Cards BY DEF FreeCards
    <3>2. mine \union more # {}
      <4>1. Quantity[c] \in Nat \ {0} BY <1>2, AfterSaleAssumption
      <4>2. SUFFICES ASSUME mine = {} /\ more = {} PROVE FALSE OBVIOUS
      <4>3. Cardinality(mine) = 0 /\ Cardinality(more) = 0 BY <4>2, FS_EmptySet
      <4> QED BY <4>1, <4>3, <2>3
    <3>3. status'[c] # "none" BY <1>2, <1>3
    <3> DEFINE r == [Busy("take", c) EXCEPT !.cards = mine \union more]
    <3>4. r \in Job /\ JobOK(r, status')
      <4> HIDE DEF c
      <4> QED BY <1>2, <3>1, <3>2, <3>3, TakeType
    <3>5. JobTypeOK' BY <1>3, <2>3, <3>4, OneJob
    <3> QED BY <2>3, <3>5 DEF QueueTypeOK
  <2> QED BY <2>1, <2>2, <2>3 DEF TakeCards
<1>5. RefundTypeOK' /\ CardTypeOK' /\ GoodsTypeOK'
  BY DEF TakeCards, RefundTypeOK, CardTypeOK, GoodsTypeOK
<1> QED BY <1>3, <1>4, <1>5

\* A worker that goes on to sync the parent of a paid child.
LEMMA ToSync ==
  ASSUME Typed, PaidStayPaid, NEW w \in Workers, NEW c \in Children, status[c] # "none",
         job' = [job EXCEPT ![w] = Busy("sync", ParentOf[c])]
  PROVE  JobTypeOK'
<1>1. ParentOf[c] \in Parents /\ ParentOf[c] \in Orders BY AfterSaleAssumption DEF Orders
<1>2. status[ParentOf[c]] # "none" BY DEF Typed, StatusTypeOK
<1>3. status'[ParentOf[c]] # "none" BY <1>1, <1>2 DEF PaidStayPaid
<1>4. Busy("sync", ParentOf[c]) \in Job /\ JobOK(Busy("sync", ParentOf[c]), status')
  BY <1>1, <1>3, BusyType DEF Ops
<1> QED BY <1>4, OneJob DEF Typed

\* CreateAuto's delivery.
LEMMA UseCardsTyped ==
  ASSUME Typed, NEW w \in Workers, UseCards(w) PROVE Typed'
<1> USE DEF Typed
<1> DEFINE c == job[w].order
           cards == job[w].cards
<1>1. job[w].op = "take" BY DEF UseCards
<1>2. c \in AutoChildren /\ c \in Children /\ c \in Orders /\ status[c] # "none" /\ cards \subseteq Cards
  BY <1>1, BusyFacts, AfterSaleAssumption DEF JobOK, Job
<1>3. RefundTypeOK' BY DEF UseCards, RefundTypeOK
<1>4. CASE fulfillment[c] = {} /\ \A k \in cards : Usable(k, c)
  <2>1. /\ card' = [k \in Cards |-> IF k \in cards THEN [status |-> "used", order |-> c] ELSE card[k]]
        /\ fulfillment' = [fulfillment EXCEPT ![c] = cards]
        /\ status' = [status EXCEPT ![c] = "completed"]
        /\ job' = [job EXCEPT ![w] = Busy("sync", ParentOf[c])]
        /\ UNCHANGED <<autoTasks, events>>
    BY <1>4 DEF UseCards
  <2>2. PaidStayPaid BY <2>1, <1>2, WriteOne DEF OrderStatuses
  <2>3. StatusTypeOK' BY <2>2, StatusMoved
  <2>4. JobTypeOK' BY <1>2, <2>1, <2>2, ToSync
  <2>5. CardTypeOK' BY <2>1, <1>2, AfterSaleAssumption DEF CardTypeOK, Orders
  <2>6. GoodsTypeOK' BY <2>1, <1>2 DEF GoodsTypeOK
  <2>7. QueueTypeOK' BY <2>1 DEF QueueTypeOK
  <2> QED BY <1>3, <2>3, <2>4, <2>5, <2>6, <2>7
<1>5. CASE ~(fulfillment[c] = {} /\ \A k \in cards : Usable(k, c))
  <2>1. TaskFailed(w, c) /\ UNCHANGED <<card, fulfillment, status>> BY <1>5 DEF UseCards
  <2>2. StatusTypeOK' /\ PaidStayPaid BY <2>1, StatusKept
  <2>3. JobTypeOK' /\ QueueTypeOK' BY <1>2, <2>1, <2>2, TaskFailedTyped
  <2>4. CardTypeOK' /\ GoodsTypeOK' BY <2>1 DEF CardTypeOK, GoodsTypeOK
  <2> QED BY <1>3, <2>2, <2>3, <2>4
<1> QED BY <1>4, <1>5

\* CreateManual reads the order.
LEMMA BeginManualTyped ==
  ASSUME Typed, NEW w \in Workers, NEW c \in Children, BeginManual(w, c) PROVE Typed'
<1> USE DEF Typed
<1>1. StatusTypeOK' /\ PaidStayPaid /\ UNCHANGED status BY StatusKept DEF BeginManual
<1>2. c \in Orders /\ status'[c] # "none" BY <1>1 DEF BeginManual, Orders
<1>3. Busy("manual", c) \in Job /\ JobOK(Busy("manual", c), status')
  BY <1>2, BusyType DEF Ops
<1>4. JobTypeOK' BY <1>1, <1>3, OneJob DEF BeginManual
<1>5. QueueTypeOK' BY Counted1 DEF BeginManual, QueueTypeOK
<1>6. RefundTypeOK' /\ CardTypeOK' /\ GoodsTypeOK'
  BY DEF BeginManual, RefundTypeOK, CardTypeOK, GoodsTypeOK
<1> QED BY <1>1, <1>4, <1>5, <1>6

\* CreateManual's delivery.
LEMMA CommitManualTyped ==
  ASSUME Typed, NEW w \in Workers, CommitManual(w) PROVE Typed'
<1> USE DEF Typed
<1> DEFINE c == job[w].order
<1>1. job[w].op = "manual" /\ DeliverByHand(w, c) BY DEF CommitManual
<1>2. c \in Children /\ c \in Orders /\ status[c] # "none" BY <1>1, BusyFacts DEF JobOK
<1>3. RefundTypeOK' /\ QueueTypeOK' /\ CardTypeOK'
  BY DEF CommitManual, RefundTypeOK, QueueTypeOK, CardTypeOK
<1>4. CASE fulfillment[c] = {}
  <2>1. /\ fulfillment' = [fulfillment EXCEPT ![c] = {c}]
        /\ status' = [status EXCEPT ![c] = "delivered"]
        /\ job' = [job EXCEPT ![w] = Busy("sync", ParentOf[c])]
    BY <1>1, <1>4 DEF DeliverByHand
  <2>2. PaidStayPaid BY <2>1, <1>2, WriteOne DEF OrderStatuses
  <2>3. StatusTypeOK' BY <2>2, StatusMoved
  <2>4. JobTypeOK' BY <1>2, <2>1, <2>2, ToSync
  <2>5. GoodsTypeOK' BY <2>1, <1>2 DEF GoodsTypeOK
  <2> QED BY <1>3, <2>3, <2>4, <2>5
<1>5. CASE fulfillment[c] # {}
  <2>1. UNCHANGED <<fulfillment, status>> /\ job' = [job EXCEPT ![w] = Idle]
    BY <1>1, <1>5 DEF DeliverByHand
  <2>2. StatusTypeOK' /\ PaidStayPaid BY <2>1, StatusKept
  <2>3. JobTypeOK' BY <2>1, <2>2, IdleType, OneJob
  <2>4. GoodsTypeOK' BY <2>1 DEF GoodsTypeOK
  <2> QED BY <1>3, <2>2, <2>3, <2>4
<1> QED BY <1>4, <1>5

\* A step that touches the jobs and the count of events alone.
LEMMA JobStep ==
  ASSUME Typed, NEW w \in Workers, NEW r \in Job, JobOK(r, status),
         job' = [job EXCEPT ![w] = r], Event \/ UNCHANGED events,
         UNCHANGED <<status, refunded, fulfillment, card, autoTasks>>
  PROVE  Typed'
<1> USE DEF Typed
<1>1. StatusTypeOK' /\ PaidStayPaid BY StatusKept
<1>2. JobTypeOK' BY <1>1, OneJob
<1>3. QueueTypeOK' BY Counted1 DEF QueueTypeOK
<1>4. RefundTypeOK' /\ CardTypeOK' /\ GoodsTypeOK' BY DEF RefundTypeOK, CardTypeOK, GoodsTypeOK
<1> QED BY <1>1, <1>2, <1>3, <1>4

\* A step that writes statuses of paid orders.
LEMMA StatusStep ==
  ASSUME Typed, NEW w \in Workers, NEW r \in Job, JobOK(r, status'),
         job' = [job EXCEPT ![w] = r], PaidStayPaid,
         UNCHANGED <<refunded, fulfillment, card, autoTasks, events>>
  PROVE  Typed'
<1> USE DEF Typed
<1>1. StatusTypeOK' BY StatusMoved
<1>2. JobTypeOK' BY OneJob
<1>3. RefundTypeOK' /\ CardTypeOK' /\ GoodsTypeOK' /\ QueueTypeOK'
  BY DEF RefundTypeOK, CardTypeOK, GoodsTypeOK, QueueTypeOK
<1> QED BY <1>1, <1>2, <1>3

\* syncParentStatus reads.
LEMMA ReadParentTyped ==
  ASSUME Typed, NEW w \in Workers, ReadParent(w) PROVE Typed'
<1> DEFINE p == job[w].order
<1>1. job[w].op = "sync" BY DEF ReadParent
<1>2. p \in Parents /\ p \in Orders /\ status[p] # "none" BY <1>1, BusyFacts DEF JobOK
<1>3. status[p] \in OrderStatuses BY <1>2 DEF Typed, StatusTypeOK
<1>4. ParentSync(p, status) \in Writes /\ DOMAIN ParentSync(p, status) \subseteq {p}
  BY <1>2, <1>3, ParentSyncType
<1>5. Mending(p, ParentSync(p, status)) \in Job /\ JobOK(Mending(p, ParentSync(p, status)), status)
  <2> HIDE DEF p
  <2> QED BY <1>2, <1>4, WritingType
<1>6. CASE job' = [job EXCEPT ![w] = Mending(p, ParentSync(p, status))] /\ UNCHANGED events
  BY <1>5, <1>6, JobStep DEF ReadParent
<1>7. CASE job' = [job EXCEPT ![w] = Idle] /\ Event
  BY <1>7, IdleType, JobStep DEF ReadParent
<1>8. job \in [Workers -> Job] BY DEF Typed, JobTypeOK
<1> QED BY <1>6, <1>7, <1>8 DEF ReadParent

\* One status is written, the rest is left to write.
LEMMA MendTyped ==
  ASSUME Typed, NEW w \in Workers, Mend(w) PROVE Typed'
<1> DEFINE p == job[w].order
           wr == job[w].writes
<1>1. job[w].op = "mend" BY DEF Mend
<1>2. /\ p \in Orders /\ status[p] # "none" /\ wr \in Writes
      /\ \A x \in DOMAIN wr : status[x] # "none"
      /\ job \in [Workers -> Job]
  BY <1>1, BusyFacts DEF JobOK, Job, JobTypeOK
<1>3. PICK S \in SUBSET Orders : wr \in [S -> OrderStatuses] BY <1>2 DEF Writes
<1>4. PICK o \in DOMAIN wr :
        /\ status' = [status EXCEPT ![o] = wr[o]]
        /\ job' = [job EXCEPT ![w] = Mending(p, [x \in DOMAIN wr \ {o} |-> wr[x]])]
  BY <1>2 DEF Mend
<1> DEFINE rest == [x \in DOMAIN wr \ {o} |-> wr[x]]
<1>5. PaidStayPaid
  <2>1. o \in Orders /\ status[o] # "none" /\ wr[o] \in OrderStatuses BY <1>2, <1>3
  <2> QED BY <2>1, <1>4, WriteOne DEF Typed
<1>6. rest \in Writes
  <2>1. rest \in [S \ {o} -> OrderStatuses] BY <1>3
  <2>2. S \ {o} \in SUBSET Orders OBVIOUS
  <2> QED BY <2>1, <2>2 DEF Writes
<1>7. status'[p] # "none" /\ \A x \in DOMAIN rest : status'[x] # "none"
  BY <1>2, <1>3, <1>5 DEF PaidStayPaid
<1>8. Mending(p, rest) \in Job /\ JobOK(Mending(p, rest), status')
  <2> HIDE DEF p, rest
  <2> QED BY <1>2, <1>6, <1>7, WritingType
<1> QED BY <1>4, <1>5, <1>8, StatusStep DEF Mend

\* An order is shown.
LEMMA ReadOrderTyped ==
  ASSUME Typed, NEW w \in Workers, NEW p \in Parents, ReadOrder(w, p) PROVE Typed'
<1>1. p \in Orders /\ status[p] # "none" BY DEF ReadOrder, Orders
<1>2. Synced(p) \in Writes /\ DOMAIN Synced(p) \subseteq ChildrenOf(p) \union {p}
  BY <1>1, SyncedType DEF Typed
<1>3. \A x \in DOMAIN Synced(p) : status[x] # "none" BY <1>1, <1>2, PaidFamily DEF Typed
<1>4. Mending(p, Synced(p)) \in Job /\ JobOK(Mending(p, Synced(p)), status)
  BY <1>1, <1>2, <1>3, WritingType
<1> QED BY <1>4, JobStep DEF ReadOrder

\* A refund of an order, which is paid, of no more than is left of its total.
LEMMA RefundTyped ==
  ASSUME Typed, NEW o \in Orders, NEW amount \in Nat, Refund(o, amount) PROVE Typed'
<1> USE DEF Typed
<1> DEFINE new == RefundStatus(o, refunded[o] + amount)
           own == Written(For({o}, new))
           sync == ParentSync(ParentOf[o], own)
<1>1. new \in OrderStatuses /\ new # "none" BY RefundStatusType DEF OrderStatuses
<1> HIDE DEF new
<1>2. status[o] # "none" BY DEF Refund
<1>3. PaidStayPaid
  <2>1. CASE o \in Parents
    <3>1. ChildrenOf(o) \union {o} \in SUBSET Orders
          /\ \A x \in ChildrenOf(o) \union {o} : status[x] # "none"
      BY <1>2, <2>1, PaidFamily
    <3>2. status' = Written(For(ChildrenOf(o) \union {o}, new)) BY <2>1 DEF Refund, new
    <3> QED BY <3>1, <3>2, <1>1, ForType, WriteMany DEF PaidStayPaid
  <2>2. CASE o \notin Parents
    <3>1. o \in Children /\ ParentOf[o] \in Parents /\ ParentOf[o] \in Orders /\ ParentOf[o] # o
      BY <2>2, AfterSaleAssumption DEF Orders
    <3>2. status[ParentOf[o]] # "none" BY <3>1, <1>2 DEF StatusTypeOK
    <3>3. own[ParentOf[o]] = status[ParentOf[o]]
      BY <3>1, <1>1, ForType DEF Written
    <3>4. own[ParentOf[o]] \in OrderStatuses BY <3>1, <3>2, <3>3 DEF StatusTypeOK
    <3>5. sync \in Writes /\ DOMAIN sync \subseteq {ParentOf[o]}
      <4> HIDE DEF own
      <4> QED BY <3>1, <3>4, ParentSyncType
    <3>6. \A x \in DOMAIN sync : status[x] # "none" BY <3>2, <3>5
    <3>7. status' = [Written(sync) EXCEPT ![o] = new] BY <2>2 DEF Refund, new
    <3> HIDE DEF sync
    <3>8. /\ Written(sync) \in [Orders -> OrderStatuses \union {"none"}]
          /\ \A x \in Orders : Written(sync)[x] = "none" <=> status[x] = "none"
      BY <3>5, <3>6, WriteMany
    <3> QED BY <3>7, <3>8, <1>1, <1>2 DEF PaidStayPaid
  <2> QED BY <2>1, <2>2
<1>4. StatusTypeOK' BY <1>3, StatusMoved
<1>5. JobTypeOK' BY <1>3, NoJob DEF Refund
<1>6. RefundTypeOK'
  <2>1. refunded' = [refunded EXCEPT ![o] = @ + amount] /\ refunded[o] + amount <= Total[o]
    BY DEF Refund
  <2> QED BY <2>1 DEF RefundTypeOK
<1>7. QueueTypeOK' BY Counted1 DEF Refund, QueueTypeOK
<1>8. CardTypeOK' /\ GoodsTypeOK' BY DEF Refund, CardTypeOK, GoodsTypeOK
<1> QED BY <1>4, <1>5, <1>6, <1>7, <1>8

\* UpdateOrderStatus reads a parent.
LEMMA BeginAdminParentTyped ==
  ASSUME Typed, NEW w \in Workers, NEW p \in Parents, BeginAdminParent(w, p) PROVE Typed'
<1>1. p \in Orders /\ status[p] # "none" BY DEF BeginAdminParent, Orders
<1>2. PICK target \in {"completed", "partially_refunded", "refunded"} :
        job' = [job EXCEPT ![w] = Writing(p,
                 For({o \in ChildrenOf(p) \union {p} : status[o] # target}, target))]
  BY DEF BeginAdminParent
<1> DEFINE S == {o \in ChildrenOf(p) \union {p} : status[o] # target}
<1>3. S \in SUBSET Orders /\ target \in OrderStatuses /\ \A x \in S : status[x] # "none"
  BY <1>1, PaidFamily DEF Typed, OrderStatuses
<1>4. For(S, target) \in Writes /\ DOMAIN For(S, target) = S
  <2> HIDE DEF S
  <2> QED BY <1>3, ForType
<1>5. Writing(p, For(S, target)) \in Job /\ JobOK(Writing(p, For(S, target)), status)
  BY <1>1, <1>3, <1>4, WritingType
<1> QED BY <1>2, <1>5, JobStep DEF BeginAdminParent

\* UpdateOrderStatus reads a child; the transition table leads nowhere from no status.
LEMMA BeginAdminChildTyped ==
  ASSUME Typed, NEW w \in Workers, NEW c \in Children, BeginAdminChild(w, c) PROVE Typed'
<1>1. PICK target \in OrderStatuses :
        /\ IsTransitionAllowed(status[c], target)
        /\ job' = [job EXCEPT ![w] = Writing(c, For({c}, target))]
  BY DEF BeginAdminChild
<1>2. c \in Orders /\ status[c] # "none"
  BY <1>1 DEF Orders, IsTransitionAllowed, Transitions, OrderStatuses
<1>3. For({c}, target) \in Writes /\ DOMAIN For({c}, target) = {c} BY <1>2, ForType
<1>4. Writing(c, For({c}, target)) \in Job /\ JobOK(Writing(c, For({c}, target)), status)
  BY <1>2, <1>3, WritingType
<1> QED BY <1>1, <1>4, JobStep DEF BeginAdminChild

\* UpdateOrderStatus writes.
LEMMA WriteStatusTyped ==
  ASSUME Typed, NEW w \in Workers, WriteStatus(w) PROVE Typed'
<1> USE DEF Typed
<1> DEFINE o == job[w].order
           wr == job[w].writes
<1>1. job[w].op = "write" BY DEF WriteStatus
<1>2. /\ o \in Orders /\ status[o] # "none" /\ wr \in Writes
      /\ \A x \in DOMAIN wr : status[x] # "none"
  BY <1>1, BusyFacts DEF JobOK, Job
<1>3. PaidStayPaid BY <1>2, WriteMany DEF WriteStatus, PaidStayPaid
<1>4. StatusTypeOK' BY <1>3, StatusMoved
<1>5. JobTypeOK'
  <2>1. CASE o \in Children BY <1>2, <1>3, <2>1, ToSync DEF WriteStatus
  <2>2. CASE o \notin Children BY <1>3, <2>2, IdleType, OneJob DEF WriteStatus
  <2> QED BY <2>1, <2>2
<1>6. RefundTypeOK' /\ CardTypeOK' /\ GoodsTypeOK' /\ QueueTypeOK'
  BY DEF WriteStatus, RefundTypeOK, CardTypeOK, GoodsTypeOK, QueueTypeOK
<1> QED BY <1>4, <1>5, <1>6

\* The back office cancels an order.
LEMMA AdminCancelTyped ==
  ASSUME Typed, NEW p \in Parents, AdminCancel(p) PROVE Typed'
<1> USE DEF Typed
<1>1. ChildrenOf(p) \union {p} \in SUBSET Orders
      /\ \A x \in ChildrenOf(p) \union {p} : status[x] # "none"
  BY PaidFamily DEF AdminCancel
<1>2. "canceled" \in OrderStatuses BY DEF OrderStatuses
<1>3. status' = Written(For(ChildrenOf(p) \union {p}, "canceled")) BY DEF AdminCancel
<1>4. PaidStayPaid BY <1>1, <1>2, <1>3, ForType, WriteMany DEF PaidStayPaid
<1>5. StatusTypeOK' BY <1>4, StatusMoved
<1>6. JobTypeOK' BY <1>4, NoJob DEF AdminCancel
<1>7. CardTypeOK' BY DEF AdminCancel, Released, CardTypeOK, FreeCard
<1>8. QueueTypeOK' BY Counted1 DEF AdminCancel, QueueTypeOK
<1>9. RefundTypeOK' /\ GoodsTypeOK' BY DEF AdminCancel, RefundTypeOK, GoodsTypeOK
<1> QED BY <1>5, <1>6, <1>7, <1>8, <1>9

-----------------------------------------------------------------------------
(* Cards and goods.                                                         *)

\* What a step may do to cards and goods: nothing, reserve free cards, free reserved
\* ones, deliver cards that were free or the order's own, or deliver by hand.
Reserve ==
  \E taken \in SUBSET FreeCards : \E owner \in [taken -> AutoChildren] :
    card' = [k \in Cards |->
               IF k \in taken THEN [status |-> "reserved", order |-> owner[k]] ELSE card[k]]
DeliverCards(c, cards) ==
  /\ cards \in SUBSET Cards /\ cards # {} /\ fulfillment[c] = {}
  /\ \A k \in cards : Usable(k, c)
  /\ card' = [k \in Cards |-> IF k \in cards THEN [status |-> "used", order |-> c] ELSE card[k]]
  /\ fulfillment' = [fulfillment EXCEPT ![c] = cards]
DeliverHand(c) ==
  /\ fulfillment[c] = {}
  /\ fulfillment' = [fulfillment EXCEPT ![c] = {c}]
GoodsStep ==
  \/ UNCHANGED <<card, fulfillment>>
  \/ Reserve /\ UNCHANGED fulfillment
  \/ (\E p \in Parents : card' = Released(ChildrenOf(p))) /\ UNCHANGED fulfillment
  \/ \E c \in AutoChildren : \E cards \in SUBSET Cards : DeliverCards(c, cards)
  \/ (\E c \in Children : DeliverHand(c)) /\ UNCHANGED card

\* The steps of AfterSale do no more than that.
LEMMA StepIsGoodsStep ==
  ASSUME Typed, [Next]_afterSaleVars PROVE GoodsStep
<1>1. CASE UNCHANGED afterSaleVars BY <1>1 DEF afterSaleVars, GoodsStep
<1>2. ASSUME NEW p \in Parents, PayOrder(p) PROVE GoodsStep
  BY <1>2 DEF PayOrder, GoodsStep, Reserve
<1>3. ASSUME NEW p \in Parents, AdminCancel(p) PROVE GoodsStep
  BY <1>3 DEF AdminCancel, GoodsStep
<1>4. ASSUME NEW o \in Orders, NEW amount \in 1..Total[o], Refund(o, amount) PROVE GoodsStep
  BY <1>4 DEF Refund, GoodsStep
<1>5. ASSUME NEW w \in Workers, NEW c \in AutoChildren, BeginAuto(w, c) PROVE GoodsStep
  BY <1>5 DEF BeginAuto, GoodsStep
<1>6. ASSUME NEW w \in Workers, TakeCards(w) PROVE GoodsStep
  BY <1>6 DEF TakeCards, GoodsStep
<1>7. ASSUME NEW w \in Workers, UseCards(w) PROVE GoodsStep
  <2> DEFINE c == job[w].order
             cards == job[w].cards
  <2>1. job[w].op = "take" BY <1>7 DEF UseCards
  <2>2. c \in AutoChildren /\ cards \in SUBSET Cards /\ cards # {}
    BY <2>1, BusyFacts DEF JobOK, Job
  <2>3. CASE fulfillment[c] = {} /\ \A k \in cards : Usable(k, c)
    <3>1. DeliverCards(c, cards) BY <1>7, <2>2, <2>3 DEF UseCards, DeliverCards
    <3> QED BY <2>2, <3>1 DEF GoodsStep
  <2>4. CASE ~(fulfillment[c] = {} /\ \A k \in cards : Usable(k, c))
    BY <1>7, <2>4 DEF UseCards, GoodsStep
  <2> QED BY <2>3, <2>4
<1>8. ASSUME NEW w \in Workers, NEW c \in Children, BeginManual(w, c) \/ BeginAdminChild(w, c)
      PROVE  GoodsStep
  BY <1>8 DEF BeginManual, BeginAdminChild, GoodsStep
<1>9. ASSUME NEW w \in Workers, CommitManual(w) PROVE GoodsStep
  <2> DEFINE c == job[w].order
  <2>1. c \in Children BY <1>9, BusyFacts DEF CommitManual, JobOK
  <2>2. CASE fulfillment[c] = {}
    <3>1. DeliverHand(c) /\ UNCHANGED card
      BY <1>9, <2>2 DEF CommitManual, DeliverByHand, DeliverHand
    <3> QED BY <2>1, <3>1 DEF GoodsStep
  <2>3. CASE fulfillment[c] # {} BY <1>9, <2>3 DEF CommitManual, DeliverByHand, GoodsStep
  <2> QED BY <2>2, <2>3
<1>10. ASSUME NEW w \in Workers, ReadParent(w) \/ Mend(w) \/ WriteStatus(w) PROVE GoodsStep
  BY <1>10 DEF ReadParent, Mend, WriteStatus, GoodsStep
<1>11. ASSUME NEW w \in Workers, NEW p \in Parents, ReadOrder(w, p) \/ BeginAdminParent(w, p)
       PROVE  GoodsStep
  BY <1>11 DEF ReadOrder, BeginAdminParent, GoodsStep
<1> QED BY <1>1, <1>2, <1>3, <1>4, <1>5, <1>6, <1>7, <1>8, <1>9, <1>10, <1>11 DEF Next

\* ... and keep Typed.
LEMMA NextTyped ==
  ASSUME Typed, [Next]_afterSaleVars PROVE Typed'
<1>1. CASE UNCHANGED afterSaleVars
  BY <1>1 DEF afterSaleVars, Typed, StatusTypeOK, JobTypeOK, RefundTypeOK, CardTypeOK,
              GoodsTypeOK, QueueTypeOK
<1>2. ASSUME NEW p \in Parents, PayOrder(p) \/ AdminCancel(p) PROVE Typed'
  BY <1>2, PayOrderTyped, AdminCancelTyped
<1>3. ASSUME NEW o \in Orders, NEW amount \in 1..Total[o], Refund(o, amount) PROVE Typed'
  <2>1. amount \in Nat BY AfterSaleAssumption
  <2> QED BY <1>3, <2>1, RefundTyped
<1>4. ASSUME NEW w \in Workers, NEW c \in AutoChildren, BeginAuto(w, c) PROVE Typed'
  BY <1>4, BeginAutoTyped
<1>5. ASSUME NEW w \in Workers, TakeCards(w) \/ UseCards(w) PROVE Typed'
  BY <1>5, TakeCardsTyped, UseCardsTyped
<1>6. ASSUME NEW w \in Workers, NEW c \in Children, BeginManual(w, c) \/ BeginAdminChild(w, c)
      PROVE  Typed'
  BY <1>6, BeginManualTyped, BeginAdminChildTyped
<1>7. ASSUME NEW w \in Workers, CommitManual(w) \/ ReadParent(w) \/ Mend(w) \/ WriteStatus(w)
      PROVE  Typed'
  BY <1>7, CommitManualTyped, ReadParentTyped, MendTyped, WriteStatusTyped
<1>8. ASSUME NEW w \in Workers, NEW p \in Parents, ReadOrder(w, p) \/ BeginAdminParent(w, p)
      PROVE  Typed'
  BY <1>8, ReadOrderTyped, BeginAdminParentTyped
<1> QED BY <1>1, <1>2, <1>3, <1>4, <1>5, <1>6, <1>7, <1>8 DEF Next

\* No card becomes used or is used no longer.
UsedUntouched ==
  \A k \in Cards : card'[k] = card[k] \/ (card[k].status # "used" /\ card'[k].status # "used")

\* A step that leaves used cards and deliveries alone.
LEMMA UnusedCards ==
  ASSUME UsedCardsAreDelivered, fulfillment' = fulfillment, UsedUntouched
  PROVE  UsedCardsAreDelivered'
<1> SUFFICES ASSUME NEW k \in Cards, NEW c \in Children
             PROVE  k \in fulfillment'[c] <=> card'[k] = [status |-> "used", order |-> c]
  BY DEF UsedCardsAreDelivered
<1>1. k \in fulfillment[c] <=> card[k] = [status |-> "used", order |-> c]
  BY DEF UsedCardsAreDelivered
<1>2. fulfillment'[c] = fulfillment[c] OBVIOUS
<1>u. card'[k] = card[k] \/ (card[k].status # "used" /\ card'[k].status # "used")
  BY DEF UsedUntouched
<1>3. CASE card'[k] = card[k] BY <1>1, <1>2, <1>3
<1>4. CASE card[k].status # "used" /\ card'[k].status # "used"
  <2>1. card[k] # [status |-> "used", order |-> c] /\ card'[k] # [status |-> "used", order |-> c]
    BY <1>4
  <2> QED BY <1>1, <1>2, <2>1
<1> QED BY <1>3, <1>4, <1>u

\* Used cards stay with the delivery that holds them.
LEMMA GoodsStepUsed ==
  ASSUME IInv, GoodsStep PROVE UsedCardsAreDelivered'
<1>a. UsedCardsAreDelivered BY DEF IInv
<1>b. GoodsTypeOK BY DEF IInv, Typed
<1>1. CASE UNCHANGED <<card, fulfillment>> BY <1>a, <1>1 DEF UsedCardsAreDelivered
<1>2. CASE Reserve /\ UNCHANGED fulfillment
  <2>1. PICK taken \in SUBSET FreeCards : \E owner \in [taken -> AutoChildren] :
          card' = [k \in Cards |->
                    IF k \in taken THEN [status |-> "reserved", order |-> owner[k]] ELSE card[k]]
    BY <1>2 DEF Reserve
  <2>2. UsedUntouched BY <2>1 DEF FreeCards, UsedUntouched
  <2>3. fulfillment' = fulfillment BY <1>2
  <2> QED BY <1>a, <2>2, <2>3, UnusedCards
<1>3. ASSUME NEW p \in Parents, card' = Released(ChildrenOf(p)), UNCHANGED fulfillment
      PROVE  UsedCardsAreDelivered'
  <2>1. UsedUntouched BY <1>3 DEF Released, FreeCard, UsedUntouched
  <2>2. fulfillment' = fulfillment BY <1>3
  <2> QED BY <1>a, <2>1, <2>2, UnusedCards
<1>4. ASSUME NEW c \in AutoChildren, NEW cards \in SUBSET Cards, DeliverCards(c, cards)
      PROVE  UsedCardsAreDelivered'
  <2> SUFFICES ASSUME NEW k \in Cards, NEW d \in Children
               PROVE  k \in fulfillment'[d] <=> card'[k] = [status |-> "used", order |-> d]
    BY DEF UsedCardsAreDelivered
  <2>1. c \in Children BY AfterSaleAssumption
  <2>2. fulfillment'[d] = IF d = c THEN cards ELSE fulfillment[d]
    BY <1>4, <2>1, <1>b DEF DeliverCards, GoodsTypeOK
  <2>3. card'[k] = IF k \in cards THEN [status |-> "used", order |-> c] ELSE card[k]
    BY <1>4 DEF DeliverCards
  <2>4. k \in fulfillment[d] <=> card[k] = [status |-> "used", order |-> d]
    BY <1>a DEF UsedCardsAreDelivered
  <2>5. k \in cards => card[k].status # "used" BY <1>4 DEF DeliverCards, Usable
  <2>6. fulfillment[c] = {} BY <1>4 DEF DeliverCards
  <2>7. CASE d = c
    <3>1. card[k] # [status |-> "used", order |-> c] BY <2>4, <2>6, <2>7
    <3> QED BY <2>2, <2>3, <2>7, <3>1
  <2>8. CASE d # c
    <3>1. k \in cards => k \notin fulfillment[d] BY <2>4, <2>5
    <3> QED BY <2>2, <2>3, <2>4, <2>8, <3>1
  <2> QED BY <2>7, <2>8
<1>5. ASSUME NEW c \in Children, DeliverHand(c), UNCHANGED card PROVE UsedCardsAreDelivered'
  <2>1. c \notin Cards BY AfterSaleAssumption DEF Orders
  <2> QED BY <1>a, <1>b, <1>5, <2>1 DEF DeliverHand, GoodsTypeOK, UsedCardsAreDelivered
<1> QED BY <1>1, <1>2, <1>3, <1>4, <1>5 DEF GoodsStep

\* The invariant holds at the start and every step keeps it.
LEMMA InitIInv == Init => IInv
BY InitTyped DEF Init, IInv, UsedCardsAreDelivered, FreeCard

\* The invariant is inductive.
LEMMA NextIInv == IInv /\ [Next]_afterSaleVars => IInv'
<1> SUFFICES ASSUME IInv, [Next]_afterSaleVars PROVE IInv' OBVIOUS
<1>1. Typed' BY NextTyped DEF IInv
<1>2. GoodsStep BY StepIsGoodsStep DEF IInv
<1> QED BY <1>1, <1>2, GoodsStepUsed DEF IInv

\* The invariant of AfterSale.
THEOREM AfterSaleInvariant == Spec => []IInv
BY InitIInv, NextIInv, PTL DEF Spec

\* The tables of AfterSale are well formed; in particular no order is refunded more
\* than its total, and no child of a paid order loses its status.
THEOREM AfterSaleTypes == Spec => []TypeOK
<1>1. IInv => TypeOK
  <2> SUFFICES ASSUME IInv PROVE TypeOK OBVIOUS
  <2>1. ASSUME NEW w \in Workers
        PROVE  /\ job[w].op \in Ops
               /\ job[w].order \in Orders \union {NoOrder}
               /\ job[w].cards \subseteq Cards
               /\ DOMAIN job[w].writes \subseteq Orders
    <3>1. job[w] \in Job BY DEF IInv, Typed, JobTypeOK
    <3> QED BY <3>1 DEF Job, Writes
  <2> QED BY <2>1 DEF IInv, Typed, TypeOK, StatusTypeOK, RefundTypeOK, CardTypeOK,
                      GoodsTypeOK, QueueTypeOK, Ops
<1> QED BY <1>1, AfterSaleInvariant, PTL

\* A card is used by the order whose delivery holds it, and by no other, however many
\* deliveries pick the same free card (CreateAuto, MarkUsed).
THEOREM NoCardTwice == Spec => []UsedCardsAreDelivered
<1>1. IInv => UsedCardsAreDelivered BY DEF IInv
<1> QED BY <1>1, AfterSaleInvariant, PTL

\* A card reserved for an order is used for it or set free (MarkUsed, ReleaseByOrder).
THEOREM Reservations == Spec => ReservationKept
<1> DEFINE Kept == \A k \in Cards : card[k].status # "available" =>
                     \/ card'[k] = card[k]
                     \/ card[k].status = "reserved" /\ card'[k] \in
                          {FreeCard, [status |-> "used", order |-> card[k].order]}
<1>1. ASSUME IInv, [Next]_afterSaleVars PROVE [Kept]_card
  <2> SUFFICES ASSUME NEW k \in Cards, card[k].status # "available"
               PROVE  \/ card'[k] = card[k]
                      \/ card[k].status = "reserved" /\ card'[k] \in
                           {FreeCard, [status |-> "used", order |-> card[k].order]}
    OBVIOUS
  <2>1. GoodsStep BY <1>1, StepIsGoodsStep DEF IInv
  <2>2. CASE UNCHANGED <<card, fulfillment>> BY <2>2
  <2>3. CASE Reserve BY <2>3 DEF Reserve, FreeCards
  <2>4. ASSUME NEW p \in Parents, card' = Released(ChildrenOf(p))
        PROVE  \/ card'[k] = card[k]
               \/ card[k].status = "reserved" /\ card'[k] = FreeCard
    BY <2>4 DEF Released
  <2>5. ASSUME NEW c \in AutoChildren, NEW cards \in SUBSET Cards, DeliverCards(c, cards)
        PROVE  \/ card'[k] = card[k]
               \/ card[k].status = "reserved" /\ card'[k] = [status |-> "used", order |-> card[k].order]
    <3>1. CASE k \in cards
      <4>1. card[k].status = "reserved" /\ card[k].order \in {NoOrder, c}
        BY <2>5, <3>1 DEF DeliverCards, Usable
      <4>2. card[k].order = c BY <4>1, <1>1 DEF IInv, Typed, CardTypeOK
      <4> QED BY <2>5, <3>1, <4>1, <4>2 DEF DeliverCards
    <3>2. CASE k \notin cards BY <2>5, <3>2 DEF DeliverCards
    <3> QED BY <3>1, <3>2
  <2> QED BY <2>1, <2>2, <2>3, <2>4, <2>5 DEF GoodsStep
<1> HIDE DEF Kept
<1>2. Spec => [][Kept]_card BY <1>1, AfterSaleInvariant, PTL DEF Spec
<1> QED BY <1>2 DEF ReservationKept, Kept

\* Every order gets its goods once, keeps them and shares them with no other: AfterSale
\* implements Delivery (CreateAuto, CreateManual).
THEOREM DeliveryKept == Spec => ImplementsDelivery
<1>1. Init => Promised!Init BY DEF Init, Promised!Init
<1>2. ASSUME IInv, [Next]_afterSaleVars PROVE [Promised!Next]_fulfillment
  <2> USE DEF IInv, Typed
  <2>1. GoodsStep BY <1>2, StepIsGoodsStep
  <2>2. CASE UNCHANGED fulfillment BY <2>2
  <2>3. ASSUME NEW c \in AutoChildren, NEW cards \in SUBSET Cards, DeliverCards(c, cards)
        PROVE  Promised!Next
    <3>1. c \in Children /\ cards \in SUBSET (Cards \union Children) BY AfterSaleAssumption
    <3>2. \A d \in Children : fulfillment[d] \intersect cards = {}
      <4> SUFFICES ASSUME NEW d \in Children, NEW k \in cards PROVE k \notin fulfillment[d]
        OBVIOUS
      <4>1. card[k].status # "used" BY <2>3 DEF DeliverCards, Usable
      <4>2. card[k] # [status |-> "used", order |-> d] BY <4>1
      <4> QED BY <4>2, <1>2 DEF UsedCardsAreDelivered
    <3>3. Promised!Deliver(c, cards) BY <2>3, <3>2 DEF DeliverCards, Promised!Deliver
    <3> QED BY <3>1, <3>3 DEF Promised!Next
  <2>4. ASSUME NEW c \in Children, DeliverHand(c) PROVE Promised!Next
    <3>1. c \notin Cards BY AfterSaleAssumption DEF Orders
    <3>2. \A d \in Children : fulfillment[d] \intersect {c} = {}
      BY <1>2, <2>4, <3>1 DEF DeliverHand, GoodsTypeOK
    <3>3. Promised!Deliver(c, {c}) BY <2>4, <3>2 DEF DeliverHand, Promised!Deliver
    <3>4. {c} \in SUBSET (Cards \union Children) OBVIOUS
    <3> QED BY <3>3, <3>4 DEF Promised!Next
  <2> QED BY <2>1, <2>2, <2>3, <2>4 DEF GoodsStep
<1> QED BY <1>1, <1>2, AfterSaleInvariant, PTL DEF Spec, ImplementsDelivery, Promised!Spec
=============================================================================
