---------------------------- MODULE SupplyProofs ----------------------------
(***************************************************************************)
(* Supply for any number of orders, requests, retries and mishaps: the     *)
(* upstream order a procurement remembers is one of its own, and what a    *)
(* buyer gets was handed over for him by a paid upstream order, once.      *)
(***************************************************************************)
EXTENDS Supply, SequenceTheorems, OperatorProofs

-----------------------------------------------------------------------------
(* The inductive invariant.                                                 *)

\* u is an upstream order that was bought for the local order o.
BoughtFor(u, o) == u \in DOMAIN request /\ request[u].order = o /\ upstream[u] # "none"

\* What the handler of request i has done so far: no order yet, or one that waits
\* for its payment unless the buying site has cancelled it; the answer names an
\* order that was bought for the same local order.
HandlerOK(i) ==
  /\ request[i].server \in {"unread", "checked"} => upstream[i] = "none"
  /\ request[i].server \in {"ordered", "noted"} => upstream[i] \in {"pending_payment", "canceled"}
  /\ request[i].answer # "none" => request[i].server = "done"
  /\ request[i].answer = "ok" => BoughtFor(request[i].found, request[i].order)

RequestsOK ==
  /\ \A i \in DOMAIN request : HandlerOK(i)
  /\ \A u \in Attempts : upstream[u] # "none" => u \in DOMAIN request

\* Only orders that exist are remembered and announced; and what was handed over, or
\* has any of the later statuses, was paid for, though it may be canceled by now.
UpstreamOK ==
  /\ \A n \in DOMAIN refs : upstream[refs[n]] # "none"
  /\ \A u \in Attempts : noticeTasks[u] > 0 \/ notice[u].phase # "idle" => upstream[u] # "none"
  /\ \A u \in Attempts : notice[u].phase # "idle" => notice[u].state # "none"
  /\ \A u \in Attempts : notice[u].goods => u \in handedOver
  /\ \A u \in handedOver : upstream[u] \notin {"none", "pending_payment"} /\ PaidFor(u)
  /\ \A u \in Attempts : upstream[u] \notin {"none", "pending_payment", "canceled"} => PaidFor(u)

\* A status query is about an order that was bought for o, and brings its goods.
PollsOK ==
  \A o \in LocalOrders :
    /\ poll[o].found # NoUpstream => BoughtFor(poll[o].found, o)
    /\ poll[o].goods => poll[o].found \in handedOver

GoodsOK ==
  \A o \in LocalOrders : goods[o] # NoUpstream =>
    goods[o] \in handedOver /\ BoughtFor(goods[o], o)

FoundOK == \A o \in LocalOrders : proc[o].found # NoUpstream => BoughtFor(proc[o].found, o)

\* So are goods a handler is about to store.
WorkOK ==
  \A w \in work : w.step = "goods" => w.from \in handedOver /\ BoughtFor(w.from, w.order)

\* The types of what passes between the sites and of what each of them keeps.
LinkTypeOK ==
  /\ request \in Seq(Request) /\ Len(request) <= MaxAttempts
  /\ notice \in [Attempts -> Notice]
  /\ mishaps \in [MishapKinds -> 0..MaxMishaps]
ProcTypeOK ==
  /\ local \in [LocalOrders -> {"fulfilling", "paid", "delivered"}]
  /\ goods \in [LocalOrders -> Attempts \union {NoUpstream}]
  /\ setBack \subseteq LocalOrders
  /\ proc \in [LocalOrders -> ProcRow]
  /\ rows \in Seq(LocalOrders)
  /\ work \subseteq Work
  /\ submitTasks \in [LocalOrders -> Nat]
  /\ pollTasks \in [LocalOrders -> Nat]
  /\ poll \in [LocalOrders -> PollStep]
  /\ admin \in [LocalOrders -> {"idle", "retry", "cancel"}]
UpTypeOK ==
  /\ upstream \in [Attempts -> UpstreamStatuses]
  /\ delivery \in [Attempts -> DeliverySteps]
  /\ refs \in Seq(Attempts)
  /\ callback \in [Attempts -> CallbackRow]
  /\ noticeTasks \in [Attempts -> Nat]

\* The inductive invariant.
IInv ==
  /\ LinkTypeOK /\ ProcTypeOK /\ UpTypeOK
  /\ RequestsOK /\ UpstreamOK /\ PollsOK /\ GoodsOK /\ FoundOK /\ WorkOK

-----------------------------------------------------------------------------
(* Order requests.                                                          *)

\* No upstream order has the number 0.
LEMMA NoUpstreamIsNone == NoUpstream \notin Attempts
BY SiteLinkAssumption DEF NoUpstream, Attempts

\* The requests sent so far have numbers among the attempts.
LEMMA SentAreAttempts ==
  ASSUME LinkTypeOK
  PROVE  DOMAIN request = 1..Len(request) /\ DOMAIN request \subseteq Attempts
<1>1. Len(request) \in Nat /\ DOMAIN request = 1..Len(request) BY DEF LinkTypeOK
<1> QED BY <1>1, SiteLinkAssumption DEF LinkTypeOK, Attempts

\* The i-th request goes on, for the same local order.
Moves(i, r) ==
  /\ i \in DOMAIN request
  /\ r \in Request /\ r.order = request[i].order
  /\ request' = [request EXCEPT ![i] = r]

\* Then no other request does.
LEMMA RequestMoves ==
  ASSUME LinkTypeOK, NEW i, NEW r, Moves(i, r)
  PROVE  /\ request' \in Seq(Request) /\ Len(request') <= MaxAttempts
         /\ DOMAIN request' = DOMAIN request
         /\ request'[i] = r
         /\ \A j \in DOMAIN request : j # i => request'[j] = request[j]
         /\ \A j \in DOMAIN request : request'[j].order = request[j].order
<1>1. request \in Seq(Request) /\ i \in 1..Len(request) /\ DOMAIN request = 1..Len(request)
  BY SentAreAttempts DEF LinkTypeOK, Moves
<1>2. request' \in Seq(Request) /\ Len(request') = Len(request)
  BY <1>1, ExceptSeq DEF Moves
<1>3. DOMAIN request' = DOMAIN request BY DEF Moves
<1>4. request'[i] = r /\ \A j \in DOMAIN request : j # i => request'[j] = request[j]
  BY <1>1 DEF Moves
<1> QED BY <1>2, <1>3, <1>4 DEF LinkTypeOK, Moves

\* A request sent is of its type.
LEMMA RequestTyped ==
  ASSUME LinkTypeOK, NEW i \in DOMAIN request
  PROVE  request[i] \in Request
BY ElementOfSeq, SentAreAttempts DEF LinkTypeOK

\* One more request is sent.
Sends(r) ==
  /\ r \in Request /\ Len(request) < MaxAttempts
  /\ request' = Append(request, r)

\* It is the last one; the others are as they were.
LEMMA RequestSent ==
  ASSUME LinkTypeOK, NEW r, Sends(r)
  PROVE  /\ request' \in Seq(Request) /\ Len(request') <= MaxAttempts
         /\ DOMAIN request' = DOMAIN request \union {Len(request) + 1}
         /\ Len(request) + 1 \notin DOMAIN request
         /\ Len(request) + 1 \in Attempts
         /\ request'[Len(request) + 1] = r
         /\ \A j \in DOMAIN request : request'[j] = request[j]
<1>1. request \in Seq(Request) /\ Len(request) \in Nat /\ DOMAIN request = 1..Len(request)
  BY SentAreAttempts DEF LinkTypeOK
<1>2. /\ request' \in Seq(Request) /\ Len(request') = Len(request) + 1
      /\ \A j \in 1..Len(request) : request'[j] = request[j]
      /\ request'[Len(request) + 1] = r
  BY <1>1, AppendProperties DEF Sends
<1>3. DOMAIN request' = 1..Len(request') BY <1>2
<1> QED BY <1>1, <1>2, <1>3, SiteLinkAssumption DEF Sends, Attempts

\* The earlier order found for a local order is one it was remembered for.
LEMMA EarlierOrderFound ==
  ASSUME UpTypeOK, NEW o, EarlierOrder(o) # NoUpstream
  PROVE  \E n \in DOMAIN refs : EarlierOrder(o) = refs[n] /\ request[refs[n]].order = o
<1> DEFINE same == {n \in DOMAIN refs : request[refs[n]].order = o}
<1>1. same # {} /\ same \in SUBSET Nat BY DEF EarlierOrder, UpTypeOK
<1>2. \E n \in same : \A m \in same : n <= m BY <1>1, LeastNatural
<1>3. EarlierOrder(o) = refs[CHOOSE n \in same : \A m \in same : n <= m]
  BY <1>1 DEF EarlierOrder
<1>4. (CHOOSE n \in same : \A m \in same : n <= m) \in same BY <1>2
<1> QED BY <1>3, <1>4

-----------------------------------------------------------------------------
(* What a step leaves as it was.                                            *)

\* Requests stay for their order; upstream orders stay, paid if they are, and so do
\* goods handed over.
Grows ==
  /\ DOMAIN request \subseteq DOMAIN request'
  /\ \A u \in DOMAIN request :
       /\ request'[u].order = request[u].order
       /\ upstream[u] # "none" => upstream'[u] # "none"
       /\ request[u].answer = "ok" =>
            request'[u].answer = "ok" /\ request'[u].found = request[u].found
  /\ handedOver \subseteq handedOver'

\* Then what was bought for an order remains bought for it.
LEMMA StaysBought ==
  ASSUME Grows, NEW u, NEW o, BoughtFor(u, o)
  PROVE  u \in DOMAIN request' /\ request'[u].order = o /\ upstream'[u] # "none"
BY DEF Grows, BoughtFor

\* And what was paid for remains paid for.
LEMMA StaysPaid ==
  ASSUME Grows, NEW u, PaidFor(u)
  PROVE  PaidFor(u)'
BY DEF Grows, PaidFor

\* What the buying site has remains well founded where it is not written.
LEMMA Kept ==
  ASSUME Grows
  PROVE  /\ PollsOK /\ poll' = poll => PollsOK'
         /\ GoodsOK /\ goods' = goods => GoodsOK'
         /\ FoundOK /\ proc' = proc => FoundOK'
         /\ WorkOK /\ work' \subseteq work => WorkOK'
<1>1. ASSUME PollsOK, poll' = poll PROVE PollsOK' BY <1>1 DEF PollsOK, BoughtFor, Grows
<1>2. ASSUME GoodsOK, goods' = goods PROVE GoodsOK' BY <1>2 DEF GoodsOK, BoughtFor, Grows
<1>3. ASSUME FoundOK, proc' = proc PROVE FoundOK' BY <1>3 DEF FoundOK, BoughtFor, Grows
<1>4. ASSUME WorkOK, work' \subseteq work PROVE WorkOK' BY <1>4 DEF WorkOK, BoughtFor, Grows
<1> QED BY <1>1, <1>2, <1>3, <1>4

\* Deliveries that stay where they are hand over nothing.
LEMMA SameDeliveries == ASSUME delivery' = delivery PROVE handedOver' = handedOver
BY DEF handedOver

\* Upstream order u is as it was, or is shown as delivered now, its goods being stored.
AsBefore(u) ==
  \/ upstream'[u] = upstream[u]
  \/ upstream[u] = "paid" /\ u \in handedOver /\ upstream'[u] = "delivered"

\* Only request i and its upstream order may change otherwise.
Only(i) == \A j \in DOMAIN request : j # i => request'[j] = request[j] /\ AsBefore(j)

\* Then the handlers of all others are where they were.
LEMMA OtherHandlers ==
  ASSUME RequestsOK, UpstreamOK, Grows, NEW i, Only(i)
  PROVE  \A j \in DOMAIN request \ {i} : HandlerOK(j)'
<1> TAKE j \in DOMAIN request \ {i}
<1>1. HandlerOK(j) /\ request'[j] = request[j] /\ AsBefore(j) BY DEF RequestsOK, Only
<1>2. j \in handedOver => request[j].server = "done"
  BY <1>1 DEF UpstreamOK, PaidFor, HandlerOK
<1>3. request[j].answer = "ok" => BoughtFor(request[j].found, request[j].order)'
  BY <1>1 DEF HandlerOK, BoughtFor, Grows
<1> QED BY <1>1, <1>2, <1>3 DEF HandlerOK, AsBefore, BoughtFor

\* A step of the buying site that touches no request, and of callbacks at most how
\* far their handling has come.
AtRest ==
  /\ request' = request /\ UNCHANGED upstreamVars
  /\ \A u \in Attempts :
       /\ notice'[u].goods = notice[u].goods /\ notice'[u].state = notice[u].state
       /\ notice'[u].phase # "idle" => notice[u].phase # "idle"

\* It leaves the upstream site and its requests alone.
LEMMA RestKept ==
  ASSUME UpTypeOK, RequestsOK, UpstreamOK, AtRest
  PROVE  Grows /\ UpTypeOK' /\ RequestsOK' /\ UpstreamOK'
<1>1. /\ request' = request /\ upstream' = upstream /\ delivery' = delivery
      /\ refs' = refs /\ callback' = callback /\ noticeTasks' = noticeTasks
  BY DEF AtRest, upstreamVars
<1>2. handedOver' = handedOver BY <1>1, SameDeliveries
<1>3. Grows BY <1>1, <1>2 DEF Grows
<1>4. UpTypeOK' BY <1>1 DEF UpTypeOK
<1>5. RequestsOK' BY <1>1 DEF RequestsOK, HandlerOK, BoughtFor
<1>6. UpstreamOK' BY <1>1, <1>2 DEF UpstreamOK, AtRest, PaidFor
<1> QED BY <1>3, <1>4, <1>5, <1>6

\* Nothing happens more often than it may.
LEMMA MishapType ==
  ASSUME LinkTypeOK, NEW kind \in MishapKinds, Mishap(kind)
  PROVE  mishaps' \in [MishapKinds -> 0..MaxMishaps]
<1>1. mishaps[kind] + 1 \in 0..MaxMishaps
  <2> DEFINE n(k) == mishaps[k]
  <2>1. /\ n("failure") \in Nat /\ n("refund") \in Nat /\ n("retry") \in Nat
        /\ n("cancel") \in Nat /\ n("marked") \in Nat /\ n("voided") \in Nat
    BY SiteLinkAssumption DEF LinkTypeOK, MishapKinds
  <2>2. n("failure") + n("refund") + n("retry") + n("cancel") + n("marked") + n("voided")
          < MaxMishaps
    BY DEF Mishap
  <2>3. n(kind) \in {n("failure"), n("refund"), n("retry"), n("cancel"), n("marked"), n("voided")}
    BY DEF MishapKinds
  <2> HIDE DEF n
  <2>4. n(kind) + 1 \in 0..MaxMishaps BY <2>1, <2>2, <2>3, SiteLinkAssumption
  <2> QED BY <2>4 DEF n
<1> QED BY <1>1 DEF LinkTypeOK, Mishap

\* Or it does not happen.
LEMMA MishapTyped ==
  ASSUME LinkTypeOK, \/ mishaps' = mishaps \/ Fail \/ Mishap("retry") \/ Mishap("cancel")
                     \/ Mishap("refund") \/ Mishap("marked") \/ Mishap("voided")
  PROVE  mishaps' \in [MishapKinds -> 0..MaxMishaps]
BY MishapType DEF Fail, LinkTypeOK, MishapKinds

-----------------------------------------------------------------------------
(* The buying site.                                                         *)

\* Its tables are as they were, or well founded again.
LEMMA BuyerStep ==
  ASSUME IInv, Grows, LinkTypeOK', ProcTypeOK', UpTypeOK', RequestsOK', UpstreamOK',
         poll' = poll \/ PollsOK', goods' = goods \/ GoodsOK',
         proc' = proc \/ FoundOK', work' \subseteq work \/ WorkOK'
  PROVE  IInv'
BY Kept DEF IInv

\* A step at rest is one.
LEMMA RestStep ==
  ASSUME IInv, AtRest, LinkTypeOK', ProcTypeOK',
         poll' = poll \/ PollsOK', goods' = goods \/ GoodsOK',
         proc' = proc \/ FoundOK', work' \subseteq work \/ WorkOK'
  PROVE  IInv'
<1>1. Grows /\ UpTypeOK' /\ RequestsOK' /\ UpstreamOK' BY RestKept DEF IInv
<1> QED BY <1>1, BuyerStep

\* What has passed between the sites keeps its type when no request moves.
LEMMA RestLink ==
  ASSUME LinkTypeOK, request' = request, notice' \in [Attempts -> Notice],
         Fail \/ Mishap("retry") \/ Mishap("cancel") \/ mishaps' = mishaps
  PROVE  LinkTypeOK'
BY MishapTyped DEF LinkTypeOK

\* A procurement row keeps its type and its upstream order when its status and
\* count of retries are written.
LEMMA RowWritten ==
  ASSUME ProcTypeOK, FoundOK, Grows, NEW o \in LocalOrders, NEW s \in ProcStatuses, NEW n \in Nat,
         proc' = [proc EXCEPT ![o].status = s] \/
           proc' = [proc EXCEPT ![o] = [@ EXCEPT !.status = s, !.retry = n]]
  PROVE  proc' \in [LocalOrders -> ProcRow] /\ FoundOK'
<1>1. proc \in [LocalOrders -> ProcRow] /\ proc[o] \in ProcRow BY DEF ProcTypeOK
<1>2. PICK r \in ProcRow : r.found = proc[o].found /\ proc' = [proc EXCEPT ![o] = r]
  <2>1. CASE proc' = [proc EXCEPT ![o].status = s]
    <3>1. [proc[o] EXCEPT !.status = s] \in ProcRow BY <1>1 DEF ProcRow
    <3>2. [proc[o] EXCEPT !.status = s].found = proc[o].found BY <1>1 DEF ProcRow
    <3> QED BY <2>1, <3>1, <3>2
  <2>2. CASE proc' = [proc EXCEPT ![o] = [@ EXCEPT !.status = s, !.retry = n]]
    <3>1. [proc[o] EXCEPT !.status = s, !.retry = n] \in ProcRow BY <1>1 DEF ProcRow
    <3>2. [proc[o] EXCEPT !.status = s, !.retry = n].found = proc[o].found BY <1>1 DEF ProcRow
    <3> QED BY <2>2, <3>1, <3>2
  <2> QED BY <2>1, <2>2
<1>3. proc' \in [LocalOrders -> ProcRow] BY <1>1, <1>2
<1>4. \A p \in LocalOrders : proc'[p].found = proc[p].found BY <1>1, <1>2
<1>5. FoundOK' BY <1>4 DEF FoundOK, BoughtFor, Grows
<1> QED BY <1>3, <1>5

\* Who writes for an order.
LEMMA OrderHandlers ==
  ASSUME NEW o \in LocalOrders PROVE <<"task", o>> \in Handlers /\ <<"query", o>> \in Handlers
BY DEF Handlers
\* And who for a request or a callback.
LEMMA RequestHandlers ==
  ASSUME NEW i \in Attempts PROVE <<"submit", i>> \in Handlers /\ <<"callback", i>> \in Handlers
BY DEF Handlers

\* A handler that begins has goods to store only if they were handed over for the
\* order.
LEMMA WorkBegun ==
  ASSUME ProcTypeOK, WorkOK, Grows, NEW by \in Handlers, NEW step \in Steps, NEW o \in LocalOrders,
         NEW u \in Attempts \union {NoUpstream},
         step = "goods" => u \in handedOver /\ BoughtFor(u, o),
         Begin(by, step, o, u)
  PROVE  work' \subseteq Work /\ WorkOK'
<1> DEFINE new == [by |-> by, step |-> step, order |-> o, from |-> u]
<1>1. new \in Work /\ new.step = step /\ new.from = u /\ new.order = o BY DEF Work
<1>2. work' = work \union {new} BY DEF Begin
<1> HIDE DEF new
<1>3. work' \subseteq Work BY <1>1, <1>2 DEF ProcTypeOK
<1>4. WorkOK' BY <1>1, <1>2 DEF WorkOK, BoughtFor, Grows
<1> QED BY <1>3, <1>4

\* One that goes on has none to store.
LEMMA WorkGoesOn ==
  ASSUME ProcTypeOK, WorkOK, Grows, NEW w \in work, NEW step \in Steps \ {"goods"}, GoOn(w, step)
  PROVE  work' \subseteq Work /\ WorkOK'
<1> DEFINE new == [w EXCEPT !.step = step]
<1>1. w \in Work BY DEF ProcTypeOK
<1>2. new \in Work /\ new.step = step BY <1>1 DEF Work
<1>3. work' = (work \ {w}) \union {new} BY DEF GoOn
<1> HIDE DEF new
<1>4. work' \subseteq Work BY <1>2, <1>3 DEF ProcTypeOK
<1>5. WorkOK' BY <1>2, <1>3 DEF WorkOK, BoughtFor, Grows
<1> QED BY <1>4, <1>5

\* Its answer is all that changes of the callback.
LEMMA RepliedKept ==
  ASSUME LinkTypeOK, NEW w, NEW answer \in {"answered", "refused"}, Replied(w, answer)
  PROVE  /\ notice' \in [Attempts -> Notice]
         /\ \A u \in Attempts :
              /\ notice'[u].goods = notice[u].goods /\ notice'[u].state = notice[u].state
              /\ notice'[u].status = notice[u].status
              /\ \/ notice'[u].phase = notice[u].phase
                 \/ /\ notice[u].phase = "handling" /\ w.by = <<"callback", u>>
                    /\ notice'[u].phase = answer
<1>1. \A u \in Attempts :
        notice'[u] = IF w.by = <<"callback", u>> /\ notice[u].phase = "handling"
                       THEN [notice[u] EXCEPT !.phase = answer] ELSE notice[u]
  BY DEF Replied
<1>2. \A u \in Attempts : notice[u] \in Notice BY DEF LinkTypeOK
<1>3. ASSUME NEW m \in Notice
      PROVE  /\ [m EXCEPT !.phase = answer] \in Notice
             /\ [m EXCEPT !.phase = answer].goods = m.goods
             /\ [m EXCEPT !.phase = answer].state = m.state
             /\ [m EXCEPT !.phase = answer].status = m.status
             /\ [m EXCEPT !.phase = answer].phase = answer
  BY DEF Notice
<1>4. \A u \in Attempts : notice'[u] \in Notice BY <1>1, <1>2, <1>3
<1>5. DOMAIN notice' = Attempts /\ notice' = [u \in Attempts |-> notice'[u]] BY DEF Replied
<1>6. notice' \in [Attempts -> Notice] BY <1>4, <1>5
<1>7. ASSUME NEW u \in Attempts
      PROVE  /\ notice'[u].goods = notice[u].goods /\ notice'[u].state = notice[u].state
             /\ notice'[u].status = notice[u].status
             /\ \/ notice'[u].phase = notice[u].phase
                \/ /\ notice[u].phase = "handling" /\ w.by = <<"callback", u>>
                   /\ notice'[u].phase = answer
  <2>1. CASE w.by = <<"callback", u>> /\ notice[u].phase = "handling"
    <3>1. notice'[u] = [notice[u] EXCEPT !.phase = answer] BY <1>1, <2>1
    <3> QED BY <1>2, <1>3, <2>1, <3>1
  <2>2. CASE ~(w.by = <<"callback", u>> /\ notice[u].phase = "handling")
    <3>1. notice'[u] = notice[u] BY <1>1, <2>2
    <3> QED BY <3>1
  <2> QED BY <2>1, <2>2
<1> QED BY <1>6, <1>7

\* A task more or less is a number of tasks.
LEMMA TaskCount ==
  ASSUME NEW f \in [LocalOrders -> Nat], NEW o \in LocalOrders
  PROVE  /\ [f EXCEPT ![o] = @ + 1] \in [LocalOrders -> Nat]
         /\ f[o] > 0 => [f EXCEPT ![o] = @ - 1] \in [LocalOrders -> Nat]
         /\ \A max \in Nat : OneMore(f, o, max) \in [LocalOrders -> Nat]
BY DEF OneMore

\* What HandleUpstreamCallback writes first, and what it goes on to write: goods only
\* when they were handed over for the order by the upstream order they are from.
LEMMA CallbackWrites ==
  ASSUME ProcTypeOK, FoundOK, WorkOK, Grows, NEW by \in Handlers, NEW o \in LocalOrders, NEW s,
         NEW u \in Attempts \union {NoUpstream}, NEW given,
         given => u \in handedOver /\ BoughtFor(u, o),
         HandleUpstreamCallback(by, o, s, u, given)
  PROVE  /\ proc' \in [LocalOrders -> ProcRow] /\ FoundOK'
         /\ work' \subseteq Work /\ WorkOK'
<1>1. \/ proc' = proc
      \/ \E r \in ProcStatuses : proc' = [proc EXCEPT ![o].status = r]
  BY DEF HandleUpstreamCallback, SetStatus, ProcStatuses
<1>2. \/ work' = work
      \/ \E step \in {"goods", "deliver", "look"} :
           Begin(by, step, o, u) /\ (step = "goods" => given)
  BY DEF HandleUpstreamCallback
<1>3. proc' \in [LocalOrders -> ProcRow] /\ FoundOK'
  <2>1. CASE proc' = proc BY <2>1, Kept DEF ProcTypeOK
  <2>2. CASE \E r \in ProcStatuses : proc' = [proc EXCEPT ![o].status = r]
    BY <2>2, RowWritten
  <2> QED BY <1>1, <2>1, <2>2
<1>4. work' \subseteq Work /\ WorkOK'
  <2>1. CASE work' = work BY <2>1, Kept DEF ProcTypeOK
  <2>2. ASSUME NEW step \in {"goods", "deliver", "look"}, Begin(by, step, o, u), step = "goods" => given
        PROVE  work' \subseteq Work /\ WorkOK'
    <3>1. step \in Steps BY DEF Steps
    <3> QED BY <2>2, <3>1, WorkBegun
  <2> QED BY <1>2, <2>1, <2>2
<1> QED BY <1>3, <1>4

\* CreateForOrder gives an order its procurement row.
LEMMA CreateForOrderStep ==
  ASSUME IInv, NEW o \in LocalOrders, CreateForOrder(o), UNCHANGED upstreamVars
  PROVE  IInv'
<1>1. /\ AtRest /\ poll' = poll /\ goods' = goods /\ local' = local /\ setBack' = setBack
      /\ pollTasks' = pollTasks /\ admin' = admin /\ work' = work
  BY DEF CreateForOrder, AtRest, localVars
<1>2. LinkTypeOK' BY <1>1, RestLink DEF CreateForOrder, IInv, LinkTypeOK
<1>3. proc' \in [LocalOrders -> ProcRow] /\ FoundOK'
  BY <1>1, RestKept, RowWritten DEF CreateForOrder, SetStatus, IInv, ProcStatuses
<1>4. submitTasks' \in [LocalOrders -> Nat]
  <2>1. submitTasks' = submitTasks \/ submitTasks' = [submitTasks EXCEPT ![o] = @ + 1]
    BY DEF CreateForOrder
  <2>2. submitTasks \in [LocalOrders -> Nat] BY DEF IInv, ProcTypeOK
  <2> QED BY <2>1, <2>2, TaskCount
<1>5. rows' \in Seq(LocalOrders)
  BY AppendProperties DEF CreateForOrder, IInv, ProcTypeOK
<1>6. ProcTypeOK' BY <1>1, <1>3, <1>4, <1>5 DEF IInv, ProcTypeOK
<1> QED BY <1>1, <1>2, <1>3, <1>6, RestStep

\* A submit task that comes too late is only taken from the queue.
LEMMA SubmitInvalidStep ==
  ASSUME IInv, NEW o \in LocalOrders, SubmitInvalid(o), UNCHANGED upstreamVars
  PROVE  IInv'
<1>1. /\ AtRest /\ poll' = poll /\ goods' = goods /\ local' = local /\ setBack' = setBack
      /\ pollTasks' = pollTasks /\ admin' = admin /\ proc' = proc /\ rows' = rows
      /\ work' = work /\ notice' = notice /\ mishaps' = mishaps
  BY DEF SubmitInvalid, AtRest, linkVars, localVars
<1>2. submitTasks' \in [LocalOrders -> Nat] BY TaskCount DEF SubmitInvalid, IInv, ProcTypeOK
<1>3. LinkTypeOK' BY <1>1 DEF AtRest, IInv, LinkTypeOK
<1>4. ProcTypeOK' BY <1>1, <1>2 DEF IInv, ProcTypeOK
<1> QED BY <1>1, <1>3, <1>4, RestStep

\* rejectProcurement goes on to the local order.
LEMMA SubmitRejectedStep ==
  ASSUME IInv, NEW o \in LocalOrders, SubmitRejected(o), UNCHANGED upstreamVars
  PROVE  IInv'
<1>1. /\ AtRest /\ poll' = poll /\ goods' = goods /\ local' = local /\ setBack' = setBack
      /\ pollTasks' = pollTasks /\ admin' = admin /\ rows' = rows /\ notice' = notice /\ Fail
  BY DEF SubmitRejected, AtRest, localVars
<1>2. Grows BY <1>1, RestKept DEF IInv
<1>3. LinkTypeOK' BY <1>1, RestLink DEF AtRest, IInv, LinkTypeOK
<1>4. proc' \in [LocalOrders -> ProcRow] /\ FoundOK'
  BY <1>2, RowWritten DEF SubmitRejected, SetStatus, IInv, ProcStatuses
<1>5. submitTasks' \in [LocalOrders -> Nat] BY TaskCount DEF SubmitRejected, IInv, ProcTypeOK
<1>6. work' \subseteq Work /\ WorkOK'
  <2>1. <<"task", o>> \in Handlers /\ "look" \in Steps BY OrderHandlers DEF Steps
  <2> QED BY <1>2, <2>1, WorkBegun DEF SubmitRejected, IInv
<1>7. ProcTypeOK' BY <1>1, <1>4, <1>5, <1>6 DEF IInv, ProcTypeOK
<1> QED BY <1>1, <1>3, <1>4, <1>6, <1>7, RestStep

\* A back-office request reads the row.
LEMMA BeginManualStep ==
  ASSUME IInv, NEW o \in LocalOrders, NEW what \in {"retry", "cancel"}, BeginManual(o, what),
         UNCHANGED upstreamVars
  PROVE  IInv'
<1>1. /\ AtRest /\ poll' = poll /\ goods' = goods /\ local' = local /\ setBack' = setBack
      /\ pollTasks' = pollTasks /\ proc' = proc /\ rows' = rows /\ work' = work
      /\ submitTasks' = submitTasks /\ notice' = notice
      /\ Mishap("retry") \/ Mishap("cancel")
  BY DEF BeginManual, AtRest, localVars, taskVars
<1>2. LinkTypeOK' BY <1>1, RestLink DEF AtRest, IInv, LinkTypeOK
<1>3. admin' \in [LocalOrders -> {"idle", "retry", "cancel"}]
  BY DEF BeginManual, IInv, ProcTypeOK
<1>4. ProcTypeOK' BY <1>1, <1>3 DEF IInv, ProcTypeOK
<1> QED BY <1>1, <1>2, <1>4, RestStep

\* RetryManual writes the row and queues a task.
LEMMA RetryManualStep ==
  ASSUME IInv, NEW o \in LocalOrders, RetryManual(o), UNCHANGED upstreamVars
  PROVE  IInv'
<1>1. /\ AtRest /\ poll' = poll /\ goods' = goods /\ local' = local /\ setBack' = setBack
      /\ pollTasks' = pollTasks /\ rows' = rows /\ work' = work
      /\ notice' = notice /\ mishaps' = mishaps
  BY DEF RetryManual, AtRest, linkVars, localVars
<1>2. LinkTypeOK' BY <1>1 DEF AtRest, IInv, LinkTypeOK
<1>3. proc' \in [LocalOrders -> ProcRow] /\ FoundOK'
  BY <1>1, RestKept, RowWritten DEF RetryManual, IInv, ProcStatuses
<1>4. submitTasks' \in [LocalOrders -> Nat] BY TaskCount DEF RetryManual, IInv, ProcTypeOK
<1>5. admin' \in [LocalOrders -> {"idle", "retry", "cancel"}]
  BY DEF RetryManual, IInv, ProcTypeOK
<1>6. ProcTypeOK' BY <1>1, <1>3, <1>4, <1>5 DEF IInv, ProcTypeOK
<1> QED BY <1>1, <1>2, <1>3, <1>6, RestStep

\* CancelManual writes the status.
LEMMA CancelManualStep ==
  ASSUME IInv, NEW o \in LocalOrders, CancelManual(o), UNCHANGED upstreamVars
  PROVE  IInv'
<1>1. /\ AtRest /\ poll' = poll /\ goods' = goods /\ local' = local /\ setBack' = setBack
      /\ pollTasks' = pollTasks /\ submitTasks' = submitTasks /\ rows' = rows /\ work' = work
      /\ notice' = notice /\ mishaps' = mishaps
  BY DEF CancelManual, AtRest, linkVars, localVars, taskVars
<1>2. LinkTypeOK' BY <1>1 DEF AtRest, IInv, LinkTypeOK
<1>3. proc' \in [LocalOrders -> ProcRow] /\ FoundOK'
  BY <1>1, RestKept, RowWritten DEF CancelManual, SetStatus, IInv, ProcStatuses
<1>4. admin' \in [LocalOrders -> {"idle", "retry", "cancel"}]
  BY DEF CancelManual, IInv, ProcTypeOK
<1>5. ProcTypeOK' BY <1>1, <1>3, <1>4 DEF IInv, ProcTypeOK
<1> QED BY <1>1, <1>2, <1>3, <1>5, RestStep

\* ShowProcurement copies a refund status.
LEMMA ShowProcurementStep ==
  ASSUME IInv, NEW o \in LocalOrders, ShowProcurement(o)
  PROVE  IInv'
<1>1. /\ AtRest /\ poll' = poll /\ goods' = goods /\ local' = local /\ setBack' = setBack
      /\ pollTasks' = pollTasks /\ submitTasks' = submitTasks /\ rows' = rows /\ work' = work
      /\ admin' = admin /\ notice' = notice /\ mishaps' = mishaps
  BY DEF ShowProcurement, AtRest, linkVars, localVars, taskVars
<1>2. LinkTypeOK' BY <1>1 DEF AtRest, IInv, LinkTypeOK
<1>3. proc' \in [LocalOrders -> ProcRow] /\ FoundOK'
  BY <1>1, RestKept, RowWritten DEF ShowProcurement, SetStatus, IInv, ProcStatuses
<1>4. ProcTypeOK' BY <1>1, <1>3 DEF IInv, ProcTypeOK
<1> QED BY <1>1, <1>2, <1>3, <1>4, RestStep

\* One handler's write of a local order leaves a status it may have.
LEMMA LocalWritten ==
  ASSUME ProcTypeOK, NEW o \in LocalOrders, NEW s \in {"fulfilling", "paid", "delivered"},
         local' = local \/ local' = [local EXCEPT ![o] = s]
  PROVE  local' \in [LocalOrders -> {"fulfilling", "paid", "delivered"}]
BY DEF ProcTypeOK

\* A step of a handler that only its callback notices.
LEMMA HandlerRest ==
  ASSUME IInv, UNCHANGED upstreamVars, request' = request,
         NEW w, NEW answer \in {"answered", "refused"}, notice' = notice \/ Replied(w, answer),
         Fail \/ mishaps' = mishaps
  PROVE  AtRest /\ LinkTypeOK'
<1>1. /\ notice' \in [Attempts -> Notice]
      /\ \A u \in Attempts :
           /\ notice'[u].goods = notice[u].goods /\ notice'[u].state = notice[u].state
           /\ notice'[u].phase # "idle" => notice[u].phase # "idle"
  <2>1. CASE notice' = notice BY <2>1 DEF IInv, LinkTypeOK
  <2>2. CASE Replied(w, answer)
    <3>1. LinkTypeOK BY DEF IInv
    <3> QED BY <2>2, <3>1, RepliedKept
  <2> QED BY <2>1, <2>2
<1>2. AtRest BY <1>1 DEF AtRest
<1>3. LinkTypeOK' BY <1>1, RestLink DEF IInv
<1> QED BY <1>2, <1>3

\* The goods a handler stores were handed over for the order.
LEMMA StoreGoodsStep ==
  ASSUME IInv, NEW w \in work, StoreGoods(w), UNCHANGED upstreamVars,
         UNCHANGED <<proc, rows, pollTasks, poll, admin, request, mishaps>>
  PROVE  IInv'
<1>1. /\ notice' = notice /\ local' = local /\ setBack' = setBack /\ submitTasks' = submitTasks
      /\ goods' = GoodsAfter(w.order, w.from) /\ GoOn(w, "deliver") /\ w.step = "goods"
  BY DEF StoreGoods
<1>2. AtRest /\ LinkTypeOK' BY <1>1, HandlerRest
<1>3. Grows BY <1>2, RestKept DEF IInv
<1>4. w.order \in LocalOrders /\ w.from \in handedOver /\ BoughtFor(w.from, w.order)
  BY <1>1 DEF IInv, ProcTypeOK, Work, WorkOK
<1>5. goods' = goods \/ goods' = [goods EXCEPT ![w.order] = w.from] BY <1>1 DEF GoodsAfter
<1>6. goods' \in [LocalOrders -> Attempts \union {NoUpstream}]
  BY <1>4, <1>5 DEF IInv, ProcTypeOK, handedOver
<1>7. GoodsOK'
  <2>1. CASE goods' = goods BY <1>3, <2>1, Kept DEF IInv
  <2>2. CASE goods' = [goods EXCEPT ![w.order] = w.from]
    BY <1>3, <1>4, <2>2 DEF IInv, GoodsOK, BoughtFor, Grows, ProcTypeOK
  <2> QED BY <1>5, <2>1, <2>2
<1>8. work' \subseteq Work /\ WorkOK'
  <2>1. "deliver" \in Steps \ {"goods"} BY DEF Steps
  <2> QED BY <1>1, <1>3, <2>1, WorkGoesOn DEF IInv
<1>9. ProcTypeOK' BY <1>1, <1>6, <1>8 DEF IInv, ProcTypeOK
<1> QED BY <1>2, <1>7, <1>8, <1>9, RestStep

\* The local order becomes delivered.
LEMMA DeliverStep ==
  ASSUME IInv, NEW w \in work, Deliver(w), UNCHANGED upstreamVars,
         UNCHANGED <<proc, rows, pollTasks, poll, admin, request, mishaps>>
  PROVE  IInv'
<1>1. /\ goods' = goods /\ submitTasks' = submitTasks /\ work' = work \ {w}
      /\ local' = [local EXCEPT ![w.order] = "delivered"] /\ setBack' = setBack \ {w.order}
      /\ Replied(w, "answered")
  BY DEF Deliver, Finished
<1>2. AtRest /\ LinkTypeOK' BY <1>1, HandlerRest
<1>3. w.order \in LocalOrders BY DEF IInv, ProcTypeOK, Work
<1>4. local' \in [LocalOrders -> {"fulfilling", "paid", "delivered"}]
  BY <1>1, <1>3, LocalWritten DEF IInv
<1>5. ProcTypeOK' BY <1>1, <1>4 DEF IInv, ProcTypeOK
<1> QED BY <1>1, <1>2, <1>5, RestStep

\* The task of a rejection may come again.
LEMMA RedeliveredTyped ==
  ASSUME ProcTypeOK, NEW w, w.order \in LocalOrders, submitTasks' = submitTasks \/ Redelivered(w)
  PROVE  submitTasks' \in [LocalOrders -> Nat]
<1>1. submitTasks' = submitTasks \/ submitTasks' = OneMore(submitTasks, w.order, MaxTasks)
  BY DEF Redelivered
<1>2. submitTasks \in [LocalOrders -> Nat] BY DEF ProcTypeOK
<1> QED BY <1>1, <1>2, TaskCount, ProcurementAssumption

\* The status that is read may be what it should be.
LEMMA LookBackStep ==
  ASSUME IInv, NEW w \in work, LookBack(w), UNCHANGED upstreamVars,
         UNCHANGED <<proc, rows, pollTasks, poll, admin, request, mishaps>>
  PROVE  IInv'
<1>1. /\ goods' = goods /\ local' = local /\ setBack' = setBack
      /\ \/ GoOn(w, "paid") /\ submitTasks' = submitTasks /\ notice' = notice
         \/ work' = work \ {w} /\ Replied(w, "answered") /\ Redelivered(w)
  BY DEF LookBack, Finished, localVars
<1>2. AtRest /\ LinkTypeOK' BY <1>1, HandlerRest
<1>3. Grows BY <1>2, RestKept DEF IInv
<1>4. w.order \in LocalOrders BY DEF IInv, ProcTypeOK, Work
<1>5. submitTasks' \in [LocalOrders -> Nat] BY <1>1, <1>4, RedeliveredTyped DEF IInv
<1>6. work' \subseteq Work /\ WorkOK'
  <2>1. CASE GoOn(w, "paid")
    <3>1. "paid" \in Steps \ {"goods"} BY DEF Steps
    <3> QED BY <1>3, <2>1, <3>1, WorkGoesOn DEF IInv
  <2>2. CASE work' = work \ {w} BY <1>3, <2>2, Kept DEF IInv, ProcTypeOK
  <2> QED BY <1>1, <2>1, <2>2
<1>7. ProcTypeOK' BY <1>1, <1>5, <1>6 DEF IInv, ProcTypeOK
<1> QED BY <1>1, <1>2, <1>6, <1>7, RestStep

\* The order that was fulfilling is put back.
LEMMA PutBackStep ==
  ASSUME IInv, NEW w \in work, PutBack(w), UNCHANGED upstreamVars,
         UNCHANGED <<proc, rows, pollTasks, poll, admin, request, mishaps>>
  PROVE  IInv'
<1>1. /\ goods' = goods /\ work' = work \ {w} /\ Replied(w, "answered") /\ Redelivered(w)
      /\ local' = [local EXCEPT ![w.order] = "paid"] /\ setBack' = SetBackAfter(w.order)
  BY DEF PutBack, Finished, RolledBack
<1>2. AtRest /\ LinkTypeOK' BY <1>1, HandlerRest
<1>3. w.order \in LocalOrders BY DEF IInv, ProcTypeOK, Work
<1>4. local' \in [LocalOrders -> {"fulfilling", "paid", "delivered"}]
  BY <1>1, <1>3, LocalWritten DEF IInv
<1>5. submitTasks' \in [LocalOrders -> Nat] BY <1>1, <1>3, RedeliveredTyped DEF IInv
<1>6. setBack' \subseteq LocalOrders BY <1>1, <1>3 DEF SetBackAfter, IInv, ProcTypeOK
<1>7. ProcTypeOK' BY <1>1, <1>4, <1>5, <1>6 DEF IInv, ProcTypeOK
<1> QED BY <1>1, <1>2, <1>7, RestStep

\* What a handler does with a local order.
LEMMA WriteLocalStep ==
  ASSUME IInv, NEW w \in work, WriteLocal(w), UNCHANGED upstreamVars
  PROVE  IInv'
BY StoreGoodsStep, DeliverStep, LookBackStep, PutBackStep DEF WriteLocal

\* The local order is fulfilling, and a poll is queued.
LEMMA MarkFulfillingStep ==
  ASSUME IInv, NEW w \in work, MarkFulfilling(w), UNCHANGED upstreamVars
  PROVE  IInv'
<1>1. /\ goods' = goods /\ work' = work \ {w} /\ Replied(w, "answered")
      /\ local' = [local EXCEPT ![w.order] = "fulfilling"] /\ setBack' = SetBackAfter(w.order)
      /\ pollTasks' = OneMore(pollTasks, w.order, MaxPolls) /\ proc' = proc /\ rows' = rows
      /\ submitTasks' = submitTasks /\ poll' = poll /\ admin' = admin /\ request' = request
      /\ mishaps' = mishaps
  BY DEF MarkFulfilling, Finished
<1>2. AtRest /\ LinkTypeOK' BY <1>1, HandlerRest
<1>3. w.order \in LocalOrders BY DEF IInv, ProcTypeOK, Work
<1>4. local' \in [LocalOrders -> {"fulfilling", "paid", "delivered"}]
  BY <1>1, <1>3, LocalWritten DEF IInv
<1>5. pollTasks' \in [LocalOrders -> Nat]
  <2>1. pollTasks \in [LocalOrders -> Nat] BY DEF IInv, ProcTypeOK
  <2> QED BY <1>1, <1>3, <2>1, TaskCount, ProcurementAssumption
<1>6. setBack' \subseteq LocalOrders BY <1>1, <1>3 DEF SetBackAfter, IInv, ProcTypeOK
<1>7. ProcTypeOK' BY <1>1, <1>4, <1>5, <1>6 DEF IInv, ProcTypeOK
<1> QED BY <1>1, <1>2, <1>7, RestStep

\* The handler dies, or the write fails.
LEMMA WriteFailsStep ==
  ASSUME IInv, NEW w \in work, WriteFails(w), UNCHANGED upstreamVars
  PROVE  IInv'
<1>1. PICK answer \in {"answered", "refused"} : Replied(w, answer) BY DEF WriteFails
<1>2. /\ goods' = goods /\ local' = local /\ setBack' = setBack /\ proc' = proc /\ rows' = rows
      /\ submitTasks' = submitTasks /\ pollTasks' = pollTasks /\ poll' = poll /\ admin' = admin
      /\ request' = request /\ work' = work \ {w} /\ Fail
  BY DEF WriteFails, localVars, taskVars
<1>3. AtRest /\ LinkTypeOK' BY <1>1, <1>2, HandlerRest
<1>4. ProcTypeOK' BY <1>2 DEF IInv, ProcTypeOK
<1> QED BY <1>2, <1>3, <1>4, RestStep

-----------------------------------------------------------------------------
(* Status queries.                                                          *)

\* A status query that asks about an order bought for o, or none.
PollOK(o, p) ==
  /\ p.found # NoUpstream => BoughtFor(p.found, o)
  /\ p.goods => p.found \in handedOver

\* One status query goes on.
LEMMA PollStepKept ==
  ASSUME IInv, Grows, NEW o \in LocalOrders, NEW p \in PollStep, PollOK(o, p),
         poll' = [poll EXCEPT ![o] = p]
  PROVE  poll' \in [LocalOrders -> PollStep] /\ PollsOK'
<1>1. poll' \in [LocalOrders -> PollStep] BY DEF IInv, ProcTypeOK
<1>2. \A q \in LocalOrders : PollOK(q, poll[q]) BY DEF IInv, PollsOK, PollOK
<1>3. \A q \in LocalOrders : PollOK(q, poll'[q]) BY <1>2 DEF IInv, ProcTypeOK
<1>4. PollsOK' BY <1>3 DEF PollsOK, PollOK, BoughtFor, Grows
<1> QED BY <1>1, <1>4

\* A query that has ended.
LEMMA IdlePoll == ASSUME NEW o PROVE Idle \in PollStep /\ PollOK(o, Idle)
BY DEF Idle, PollStep, PollOK, UpstreamStatuses

\* A query that asks about the upstream order a procurement remembers.
LEMMA AskedPoll ==
  ASSUME IInv, NEW o \in LocalOrders, NEW k \in {"poll", "sync"}, NEW n \in Nat
  PROVE  Asked(o, k, n) \in PollStep /\ PollOK(o, Asked(o, k, n))
<1>1. proc[o].found \in Attempts \union {NoUpstream} BY DEF IInv, ProcTypeOK, ProcRow
<1>2. Asked(o, k, n) \in PollStep BY <1>1 DEF Asked, PollStep, UpstreamStatuses
<1>3. PollOK(o, Asked(o, k, n)) BY DEF Asked, IInv, FoundOK, PollOK
<1> QED BY <1>2, <1>3

\* Putting a poll back into the queue counts it.
LEMMA RequeueWrites ==
  ASSUME IInv, Grows, NEW o \in LocalOrders, RequeuePoll(o)
  PROVE  /\ proc' \in [LocalOrders -> ProcRow] /\ FoundOK'
         /\ pollTasks' \in [LocalOrders -> Nat]
<1>1. poll[o].retry + 1 \in Nat BY DEF IInv, ProcTypeOK, PollStep
<1>2. CASE UNCHANGED <<proc, pollTasks>> BY <1>2, Kept DEF IInv, ProcTypeOK
<1>3. CASE /\ proc' = [proc EXCEPT ![o] = [@ EXCEPT !.status = "accepted", !.retry = poll[o].retry + 1]]
           /\ pollTasks' = OneMore(pollTasks, o, MaxPolls)
  <2>1. proc' \in [LocalOrders -> ProcRow] /\ FoundOK'
    BY <1>1, <1>3, RowWritten DEF IInv, ProcStatuses
  <2>2. pollTasks \in [LocalOrders -> Nat] BY DEF IInv, ProcTypeOK
  <2> QED BY <1>3, <2>1, <2>2, TaskCount, ProcurementAssumption
<1> QED BY <1>2, <1>3 DEF RequeuePoll

\* A poll asks about the order the row remembers.
LEMMA BeginPollStep ==
  ASSUME IInv, NEW o \in LocalOrders, BeginPoll(o), UNCHANGED upstreamVars
  PROVE  IInv'
<1>1. /\ AtRest /\ goods' = goods /\ local' = local /\ setBack' = setBack /\ proc' = proc
      /\ rows' = rows /\ work' = work /\ submitTasks' = submitTasks /\ admin' = admin
      /\ notice' = notice /\ mishaps' = mishaps
  BY DEF BeginPoll, AtRest, linkVars, localVars
<1>2. pollTasks' \in [LocalOrders -> Nat] BY TaskCount DEF BeginPoll, IInv, ProcTypeOK
<1>3. Grows BY <1>1, RestKept DEF IInv
<1>4. poll' \in [LocalOrders -> PollStep] /\ PollsOK'
  <2>1. CASE poll' = poll BY <1>3, <2>1, Kept DEF IInv, ProcTypeOK
  <2>2. CASE poll' = [poll EXCEPT ![o] = Asked(o, "poll", proc[o].retry)]
    <3>1. proc[o].retry \in Nat BY DEF IInv, ProcTypeOK, ProcRow
    <3> QED BY <1>3, <2>2, <3>1, AskedPoll, PollStepKept
  <2> QED BY <2>1, <2>2 DEF BeginPoll
<1>5. LinkTypeOK' BY <1>1 DEF AtRest, IInv, LinkTypeOK
<1>6. ProcTypeOK' BY <1>1, <1>2, <1>4 DEF IInv, ProcTypeOK
<1> QED BY <1>1, <1>4, <1>5, <1>6, RestStep

\* So does SyncAcceptedOrders.
LEMMA BeginSyncStep ==
  ASSUME IInv, NEW o \in LocalOrders, BeginSync(o), UNCHANGED upstreamVars
  PROVE  IInv'
<1>1. /\ AtRest /\ goods' = goods /\ local' = local /\ setBack' = setBack /\ proc' = proc
      /\ rows' = rows /\ work' = work /\ pollTasks' = pollTasks /\ submitTasks' = submitTasks
      /\ admin' = admin /\ notice' = notice /\ mishaps' = mishaps
  BY DEF BeginSync, AtRest, linkVars, localVars, taskVars
<1>2. Grows BY <1>1, RestKept DEF IInv
<1>3. poll' \in [LocalOrders -> PollStep] /\ PollsOK'
  BY <1>2, AskedPoll, PollStepKept DEF BeginSync
<1>4. LinkTypeOK' BY <1>1 DEF AtRest, IInv, LinkTypeOK
<1>5. ProcTypeOK' BY <1>1, <1>3 DEF IInv, ProcTypeOK
<1> QED BY <1>1, <1>3, <1>4, <1>5, RestStep

\* A poll without an answer ends and is queued again.
LEMMA PollUnansweredStep ==
  ASSUME IInv, NEW o \in LocalOrders, PollUnanswered(o), UNCHANGED upstreamVars
  PROVE  IInv'
<1>1. /\ AtRest /\ goods' = goods /\ local' = local /\ setBack' = setBack
      /\ rows' = rows /\ work' = work /\ submitTasks' = submitTasks
      /\ admin' = admin /\ notice' = notice /\ mishaps' = mishaps
  BY DEF PollUnanswered, AtRest, linkVars, localVars
<1>2. Grows BY <1>1, RestKept DEF IInv
<1>3. poll' \in [LocalOrders -> PollStep] /\ PollsOK'
  BY <1>2, IdlePoll, PollStepKept DEF PollUnanswered
<1>4. /\ proc' \in [LocalOrders -> ProcRow] /\ FoundOK'
      /\ pollTasks' \in [LocalOrders -> Nat]
  BY <1>2, RequeueWrites DEF PollUnanswered
<1>5. LinkTypeOK' BY <1>1 DEF AtRest, IInv, LinkTypeOK
<1>6. ProcTypeOK' BY <1>1, <1>3, <1>4 DEF IInv, ProcTypeOK
<1> QED BY <1>1, <1>3, <1>4, <1>5, <1>6, RestStep

\* An answered poll is handled like a callback, or queued again.
LEMMA EndPollStep ==
  ASSUME IInv, NEW o \in LocalOrders, EndPoll(o), UNCHANGED upstreamVars
  PROVE  IInv'
<1>1. /\ AtRest /\ goods' = goods /\ local' = local /\ setBack' = setBack
      /\ rows' = rows /\ submitTasks' = submitTasks
      /\ admin' = admin /\ notice' = notice /\ mishaps' = mishaps
  BY DEF EndPoll, AtRest, linkVars, localVars
<1>2. Grows BY <1>1, RestKept DEF IInv
<1>3. poll' \in [LocalOrders -> PollStep] /\ PollsOK'
  BY <1>2, IdlePoll, PollStepKept DEF EndPoll
<1>4. /\ proc' \in [LocalOrders -> ProcRow] /\ FoundOK'
      /\ work' \subseteq Work /\ WorkOK' /\ pollTasks' \in [LocalOrders -> Nat]
  <2>1. CASE /\ HandleUpstreamCallback(<<"query", o>>, o, poll[o].status, poll[o].found, poll[o].goods)
             /\ UNCHANGED pollTasks
    <3>1. <<"query", o>> \in Handlers /\ poll[o].found \in Attempts \union {NoUpstream}
      BY OrderHandlers DEF IInv, ProcTypeOK, PollStep
    <3>2. poll[o].goods => poll[o].found \in handedOver /\ BoughtFor(poll[o].found, o)
      BY NoUpstreamIsNone DEF IInv, PollsOK, handedOver
    <3>3. pollTasks' \in [LocalOrders -> Nat] BY <2>1 DEF IInv, ProcTypeOK
    <3> QED BY <1>2, <2>1, <3>1, <3>2, <3>3, CallbackWrites DEF IInv
  <2>2. CASE RequeuePoll(o) /\ UNCHANGED work
    <3>1. /\ proc' \in [LocalOrders -> ProcRow] /\ FoundOK'
          /\ pollTasks' \in [LocalOrders -> Nat]
      BY <1>2, <2>2, RequeueWrites
    <3>2. work' \subseteq Work /\ WorkOK' BY <1>2, <2>2, Kept DEF IInv, ProcTypeOK
    <3> QED BY <3>1, <3>2
  <2> QED BY <2>1, <2>2 DEF EndPoll
<1>5. LinkTypeOK' BY <1>1 DEF AtRest, IInv, LinkTypeOK
<1>6. ProcTypeOK' BY <1>1, <1>3, <1>4 DEF IInv, ProcTypeOK
<1> QED BY <1>1, <1>3, <1>4, <1>5, <1>6, RestStep

-----------------------------------------------------------------------------
(* Order requests and their answers.                                        *)

\* A request goes on, and its upstream order at most comes into being or changes.
Handled(i, r) ==
  /\ Moves(i, r)
  /\ i \in Attempts /\ Only(i) /\ handedOver' = handedOver
  /\ upstream[i] # "none" => upstream'[i] # "none"
  /\ request[i].answer = "ok" => r.answer = "ok" /\ r.found = request[i].found

\* No other request, order or goods are lost.
LEMMA HandledGrows ==
  ASSUME LinkTypeOK, NEW i, NEW r, Handled(i, r)
  PROVE  Grows
<1>1. /\ DOMAIN request' = DOMAIN request /\ request'[i] = r
      /\ \A j \in DOMAIN request : request'[j].order = request[j].order
  BY RequestMoves DEF Handled
<1>2. \A j \in DOMAIN request : upstream[j] # "none" => upstream'[j] # "none"
  BY DEF Handled, Only, AsBefore
<1>3. \A j \in DOMAIN request : request[j].answer = "ok" =>
        request'[j].answer = "ok" /\ request'[j].found = request[j].found
  BY <1>1 DEF Handled, Only
<1> QED BY <1>1, <1>2, <1>3 DEF Grows, Handled

\* The requests stay as they should be if this one does.
LEMMA HandledRequests ==
  ASSUME LinkTypeOK, RequestsOK, UpstreamOK, NEW i, NEW r, Handled(i, r), HandlerOK(i)',
         \A u \in Attempts : u # i => AsBefore(u)
  PROVE  RequestsOK'
<1>1. DOMAIN request' = DOMAIN request /\ i \in DOMAIN request
  BY RequestMoves DEF Handled, Moves
<1>2. \A j \in DOMAIN request \ {i} : HandlerOK(j)'
  BY HandledGrows, OtherHandlers DEF Handled
<1>3. \A u \in Attempts : u # i => (upstream'[u] # "none" => upstream[u] # "none")
  BY DEF AsBefore
<1> QED BY <1>1, <1>2, <1>3 DEF RequestsOK

\* The buying side has its answer, or waits for it no longer.
LEMMA ClosedMoves ==
  ASSUME LinkTypeOK, NEW i \in DOMAIN request, request' = [request EXCEPT ![i] = Closed(@)],
         UNCHANGED upstreamVars
  PROVE  /\ Handled(i, Closed(request[i]))
         /\ Closed(request[i]).server = request[i].server
         /\ Closed(request[i]).answer = request[i].answer
         /\ Closed(request[i]).found = request[i].found
<1>1. request[i] \in Request BY RequestTyped
<1>2. Closed(request[i]) \in Request BY <1>1 DEF Request, Closed
<1>3. /\ Closed(request[i]).server = request[i].server
      /\ Closed(request[i]).answer = request[i].answer
      /\ Closed(request[i]).found = request[i].found
      /\ Closed(request[i]).order = request[i].order
  BY <1>1 DEF Request, Closed
<1>4. Moves(i, Closed(request[i])) BY <1>2, <1>3 DEF Moves
<1>5. upstream' = upstream /\ handedOver' = handedOver BY SameDeliveries DEF upstreamVars
<1>6. Only(i) BY <1>4, <1>5, RequestMoves DEF Only, AsBefore
<1> QED BY <1>3, <1>4, <1>5, <1>6, SentAreAttempts DEF Handled

\* Then only the buying side has moved.
LEMMA ClosedKept ==
  ASSUME IInv, NEW i \in DOMAIN request, request' = [request EXCEPT ![i] = Closed(@)],
         notice' = notice, UNCHANGED upstreamVars, mishaps' = mishaps
  PROVE  Grows /\ LinkTypeOK' /\ UpTypeOK' /\ RequestsOK' /\ UpstreamOK'
<1> DEFINE r == Closed(request[i])
<1>1. /\ Handled(i, r) /\ r.server = request[i].server /\ r.answer = request[i].answer
      /\ r.found = request[i].found
  BY ClosedMoves DEF IInv
<1> HIDE DEF r
<1>2. Grows BY <1>1, HandledGrows DEF IInv
<1>3. /\ request' \in Seq(Request) /\ Len(request') <= MaxAttempts /\ request'[i] = r
      /\ request'[i].order = request[i].order
  BY <1>1, RequestMoves DEF IInv, Handled
<1>4. LinkTypeOK' BY <1>3 DEF IInv, LinkTypeOK
<1>5. /\ upstream' = upstream /\ delivery' = delivery /\ handedOver' = handedOver
      /\ refs' = refs /\ callback' = callback /\ noticeTasks' = noticeTasks
  BY SameDeliveries DEF upstreamVars
<1>6. UpTypeOK' BY <1>5 DEF IInv, UpTypeOK
<1>7. HandlerOK(i)'
  BY <1>1, <1>2, <1>3, <1>5 DEF IInv, RequestsOK, HandlerOK, BoughtFor, Grows
<1>8. RequestsOK' BY <1>1, <1>5, <1>7, HandledRequests DEF IInv, AsBefore
<1>9. \A u : PaidFor(u) => PaidFor(u)' BY <1>2, StaysPaid
<1>10. UpstreamOK' BY <1>5, <1>9 DEF IInv, UpstreamOK
<1> QED BY <1>2, <1>4, <1>6, <1>8, <1>10

\* SubmitToUpstream sends one more request.
LEMMA SubmitToUpstreamStep ==
  ASSUME IInv, NEW o \in LocalOrders, SubmitToUpstream(o), UNCHANGED upstreamVars
  PROVE  IInv'
<1> DEFINE r == [order |-> o, client |-> "waiting", retry |-> proc[o].retry,
                 server |-> "unread", answer |-> "none", found |-> NoUpstream]
<1>1. Sends(r) /\ r.server = "unread" /\ r.answer = "none"
  BY DEF SubmitToUpstream, Sends, Request, IInv, ProcTypeOK, ProcRow
<1> HIDE DEF r
<1>2. PICK last \in Attempts :
        /\ request' \in Seq(Request) /\ Len(request') <= MaxAttempts
        /\ DOMAIN request' = DOMAIN request \union {last} /\ last \notin DOMAIN request
        /\ request'[last] = r
        /\ \A j \in DOMAIN request : request'[j] = request[j]
  BY <1>1, RequestSent DEF IInv
<1>3. /\ upstream' = upstream /\ delivery' = delivery /\ handedOver' = handedOver /\ refs' = refs
      /\ callback' = callback /\ noticeTasks' = noticeTasks /\ notice' = notice
      /\ mishaps' = mishaps /\ local' = local /\ goods' = goods /\ setBack' = setBack
      /\ proc' = proc /\ rows' = rows /\ work' = work
      /\ pollTasks' = pollTasks /\ poll' = poll /\ admin' = admin
  BY SameDeliveries DEF upstreamVars, SubmitToUpstream, localVars
<1>4. Grows BY <1>2, <1>3 DEF Grows
<1>5. LinkTypeOK' BY <1>2, <1>3 DEF IInv, LinkTypeOK
<1>6. UpTypeOK' BY <1>3 DEF IInv, UpTypeOK
<1>7. RequestsOK'
  <2>1. HandlerOK(last)' BY <1>1, <1>2, <1>3 DEF IInv, RequestsOK, HandlerOK
  <2>2. Only(last) BY <1>2, <1>3 DEF Only, AsBefore
  <2>3. \A j \in DOMAIN request \ {last} : HandlerOK(j)'
    BY <1>4, <2>2, OtherHandlers DEF IInv
  <2> QED BY <1>2, <1>3, <2>1, <2>3 DEF IInv, RequestsOK
<1>8. UpstreamOK'
  <2>1. \A u : PaidFor(u) => PaidFor(u)' BY <1>4, StaysPaid
  <2> QED BY <1>3, <2>1 DEF IInv, UpstreamOK
<1>9. submitTasks' \in [LocalOrders -> Nat] BY TaskCount DEF SubmitToUpstream, IInv, ProcTypeOK
<1>10. ProcTypeOK' BY <1>3, <1>9 DEF IInv, ProcTypeOK
<1> QED BY <1>3, <1>4, <1>5, <1>6, <1>7, <1>8, <1>10, BuyerStep

\* The row takes the order of the answer, which was bought for it.
LEMMA SubmitAcceptedStep ==
  ASSUME IInv, NEW i \in Attempts, SubmitAccepted(i), UNCHANGED upstreamVars
  PROVE  IInv'
<1> DEFINE o == request[i].order
<1>1. /\ i \in DOMAIN request /\ request[i] \in Request /\ o \in LocalOrders
      /\ request[i].answer = "ok"
  BY RequestTyped DEF SubmitAccepted, IInv, Request
<1>2. Grows /\ LinkTypeOK' /\ UpTypeOK' /\ RequestsOK' /\ UpstreamOK'
  BY <1>1, ClosedKept DEF SubmitAccepted
<1>3. BoughtFor(request[i].found, o) BY <1>1 DEF IInv, RequestsOK, HandlerOK
<1>4. AcceptedRow(i) \in ProcRow /\ AcceptedRow(i).found = request[i].found
  BY <1>1 DEF Request, AcceptedRow, ProcRow, ProcStatuses
<1>5. /\ proc' = [proc EXCEPT ![o] = AcceptedRow(i)]
      /\ Begin(<<"submit", i>>, "fulfilling", o, NoUpstream)
  BY DEF SubmitAccepted
<1>6. proc' \in [LocalOrders -> ProcRow] BY <1>4, <1>5 DEF IInv, ProcTypeOK
<1>7. FoundOK'
  <2>1. \A p \in LocalOrders :
          proc'[p].found = IF p = o THEN request[i].found ELSE proc[p].found
    BY <1>1, <1>4, <1>5 DEF IInv, ProcTypeOK
  <2> HIDE DEF o
  <2>2. \A p \in LocalOrders : proc'[p].found # NoUpstream => BoughtFor(proc'[p].found, p)
    BY <1>3, <2>1 DEF IInv, FoundOK
  <2> QED BY <1>2, <2>2, StaysBought DEF FoundOK, BoughtFor
<1>8. work' \subseteq Work /\ WorkOK'
  <2>1. <<"submit", i>> \in Handlers /\ "fulfilling" \in Steps BY RequestHandlers DEF Steps
  <2> HIDE DEF o
  <2> QED BY <1>1, <1>2, <1>5, <2>1, WorkBegun DEF IInv
<1>9. /\ local' = local /\ goods' = goods /\ setBack' = setBack /\ rows' = rows
      /\ submitTasks' = submitTasks /\ pollTasks' = pollTasks /\ poll' = poll /\ admin' = admin
  BY DEF SubmitAccepted, localVars, taskVars
<1>10. ProcTypeOK' BY <1>6, <1>8, <1>9 DEF IInv, ProcTypeOK
<1> QED BY <1>2, <1>7, <1>8, <1>9, <1>10, BuyerStep

\* A request that failed leaves the remembered order as it was.
LEMMA SubmitFailedStep ==
  ASSUME IInv, NEW i \in Attempts, SubmitFailed(i), UNCHANGED upstreamVars
  PROVE  IInv'
<1> DEFINE o == request[i].order
<1>1. /\ i \in DOMAIN request /\ request[i] \in Request /\ o \in LocalOrders
      /\ request[i].retry + 1 \in Nat
  BY RequestTyped DEF SubmitFailed, IInv, Request
<1>2. Grows /\ LinkTypeOK' /\ UpTypeOK' /\ RequestsOK' /\ UpstreamOK'
  BY <1>1, ClosedKept DEF SubmitFailed
<1>3. \/ proc' = [proc EXCEPT ![o].status = "rejected"]
      \/ proc' = [proc EXCEPT ![o] = [@ EXCEPT !.status = "failed", !.retry = request[i].retry + 1]]
  BY DEF SubmitFailed, SetStatus
<1>4. proc' \in [LocalOrders -> ProcRow] /\ FoundOK'
  <2>1. "rejected" \in ProcStatuses /\ "failed" \in ProcStatuses BY DEF ProcStatuses
  <2> QED BY <1>1, <1>2, <1>3, <2>1, RowWritten DEF IInv
<1>5. submitTasks' = submitTasks \/ submitTasks' = [submitTasks EXCEPT ![o] = @ + 1]
  BY DEF SubmitFailed
<1>6. submitTasks' \in [LocalOrders -> Nat]
  <2>1. submitTasks \in [LocalOrders -> Nat] BY DEF IInv, ProcTypeOK
  <2> QED BY <1>1, <1>5, <2>1, TaskCount
<1>7. work' = work \/ Begin(<<"submit", i>>, "look", o, NoUpstream) BY DEF SubmitFailed
<1>8. work' \subseteq Work /\ WorkOK'
  <2>1. <<"submit", i>> \in Handlers /\ "look" \in Steps BY RequestHandlers DEF Steps
  <2> HIDE DEF o
  <2>2. CASE work' = work BY <1>2, <2>2, Kept DEF IInv, ProcTypeOK
  <2>3. CASE Begin(<<"submit", i>>, "look", o, NoUpstream)
    BY <1>1, <1>2, <2>1, <2>3, WorkBegun DEF IInv
  <2> QED BY <1>7, <2>2, <2>3
<1>9. /\ local' = local /\ goods' = goods /\ setBack' = setBack /\ rows' = rows
      /\ pollTasks' = pollTasks /\ poll' = poll /\ admin' = admin
  BY DEF SubmitFailed, localVars
<1>10. ProcTypeOK' BY <1>4, <1>6, <1>8, <1>9 DEF IInv, ProcTypeOK
<1> QED BY <1>2, <1>4, <1>8, <1>9, <1>10, BuyerStep

\* A callback is handled for the order it was bought for.
LEMMA ReceiveCallbackStep ==
  ASSUME IInv, NEW u \in Attempts, ReceiveCallback(u), UNCHANGED upstreamVars
  PROVE  IInv'
<1> DEFINE o == request[u].order
           p == IF work' = work THEN "answered" ELSE "handling"
<1>1. notice[u] \in Notice /\ notice[u].phase = "sent" BY DEF ReceiveCallback, IInv, LinkTypeOK
<1>2. u \in DOMAIN request /\ upstream[u] # "none" BY <1>1 DEF IInv, UpstreamOK, RequestsOK
<1>3. o \in LocalOrders BY <1>2, RequestTyped DEF IInv, Request
<1>4. notice' = [notice EXCEPT ![u] = [notice[u] EXCEPT !.phase = p]] BY DEF ReceiveCallback
<1>5. p \in {"answered", "handling"} OBVIOUS
<1> HIDE DEF p
<1>6. /\ [notice[u] EXCEPT !.phase = p] \in Notice
      /\ [notice[u] EXCEPT !.phase = p].goods = notice[u].goods
      /\ [notice[u] EXCEPT !.phase = p].state = notice[u].state
  BY <1>1, <1>5 DEF Notice
<1>7. notice' \in [Attempts -> Notice] BY <1>4, <1>6 DEF IInv, LinkTypeOK
<1>8. \A v \in Attempts :
        /\ notice'[v].goods = notice[v].goods /\ notice'[v].state = notice[v].state
        /\ notice'[v].phase # "idle" => notice[v].phase # "idle"
  BY <1>1, <1>4, <1>6 DEF IInv, LinkTypeOK
<1>9. /\ request' = request /\ mishaps' = mishaps /\ local' = local /\ goods' = goods
      /\ setBack' = setBack /\ rows' = rows /\ submitTasks' = submitTasks
      /\ pollTasks' = pollTasks /\ poll' = poll /\ admin' = admin
  BY DEF ReceiveCallback, localVars, taskVars
<1>10. AtRest BY <1>8, <1>9 DEF AtRest
<1>11. Grows BY <1>10, RestKept DEF IInv
<1>12. LinkTypeOK' BY <1>7, <1>9, RestLink DEF IInv
<1>13. /\ proc' \in [LocalOrders -> ProcRow] /\ FoundOK' /\ work' \subseteq Work /\ WorkOK'
  <2>1. <<"callback", u>> \in Handlers BY RequestHandlers
  <2>2. notice[u].goods => u \in handedOver /\ BoughtFor(u, o)
    BY <1>2 DEF IInv, UpstreamOK, BoughtFor
  <2>3. HandleUpstreamCallback(<<"callback", u>>, o, notice[u].status, u, notice[u].goods)
    BY DEF ReceiveCallback
  <2> HIDE DEF o
  <2> QED BY <1>3, <1>11, <2>1, <2>2, <2>3, CallbackWrites DEF IInv
<1>14. ProcTypeOK' BY <1>9, <1>13 DEF IInv, ProcTypeOK
<1> QED BY <1>9, <1>10, <1>12, <1>13, <1>14, RestStep

-----------------------------------------------------------------------------
(* Callbacks.                                                               *)

\* A callback that comes or goes leaves requests and upstream orders alone.
NoticeMoves(u, m) ==
  /\ u \in Attempts /\ m \in Notice
  /\ m.phase # "idle" => upstream[u] # "none" /\ m.state # "none"
  /\ m.goods => u \in handedOver
  /\ notice' = [notice EXCEPT ![u] = m]
  /\ request' = request /\ upstream' = upstream /\ delivery' = delivery /\ refs' = refs

\* A callback step of the upstream site leaves all but the callback and its tasks as
\* it was.
LEMMA NoticeStep ==
  ASSUME IInv, NEW u, NEW m, NoticeMoves(u, m), callback' \in [Attempts -> CallbackRow],
         noticeTasks' \in [Attempts -> Nat],
         \A v \in Attempts : noticeTasks'[v] > 0 => noticeTasks[v] > 0 \/ upstream[v] # "none",
         mishaps' = mishaps, UNCHANGED procVars
  PROVE  IInv'
<1>1. handedOver' = handedOver BY SameDeliveries DEF NoticeMoves
<1>2. Grows BY <1>1 DEF Grows, NoticeMoves
<1>3. notice' \in [Attempts -> Notice] BY DEF NoticeMoves, IInv, LinkTypeOK
<1>4. LinkTypeOK' BY <1>3 DEF NoticeMoves, IInv, LinkTypeOK
<1>5. UpTypeOK' BY DEF NoticeMoves, IInv, UpTypeOK
<1>6. RequestsOK' BY DEF NoticeMoves, IInv, RequestsOK, HandlerOK, BoughtFor
<1>7. \A v \in Attempts : notice'[v] = IF v = u THEN m ELSE notice[v]
  BY DEF NoticeMoves, IInv, LinkTypeOK
<1>8. UpstreamOK' BY <1>1, <1>7 DEF NoticeMoves, IInv, UpstreamOK, PaidFor
<1>9. ProcTypeOK' BY DEF IInv, ProcTypeOK, procVars, localVars, taskVars
<1> QED BY <1>2, <1>4, <1>5, <1>6, <1>8, <1>9, BuyerStep DEF procVars, localVars

\* SendCallback copies the order as it is.
LEMMA SendCallbackStep ==
  ASSUME IInv, NEW u \in Attempts, SendCallback(u), UNCHANGED procVars
  PROVE  IInv'
<1> DEFINE m == [phase |-> "sent", status |-> upstream[u], goods |-> u \in handedOver,
                 state |-> callback[u].state, retry |-> callback[u].retry]
<1>1. callback[u] \in CallbackRow /\ upstream[u] \in UpstreamStatuses /\ noticeTasks[u] > 0
  BY DEF SendCallback, IInv, UpTypeOK
<1>2. (u \in handedOver) \in BOOLEAN OBVIOUS
<1>3. m \in Notice BY <1>1, <1>2 DEF CallbackRow, Notice
<1>4. upstream[u] # "none" /\ callback[u].state # "none"
  BY <1>1 DEF CallbackRow, IInv, UpstreamOK
<1>5. NoticeMoves(u, m) BY <1>3, <1>4 DEF NoticeMoves, SendCallback
<1>6. noticeTasks' \in [Attempts -> Nat] BY <1>1 DEF SendCallback, IInv, UpTypeOK
<1>7. \A v \in Attempts : noticeTasks'[v] > 0 => noticeTasks[v] > 0
  BY <1>1 DEF SendCallback, IInv, UpTypeOK
<1>8. callback' \in [Attempts -> CallbackRow] /\ mishaps' = mishaps
  BY DEF SendCallback, IInv, UpTypeOK
<1> QED BY <1>5, <1>6, <1>7, <1>8, NoticeStep

\* No callback is under way.
LEMMA NoNoticeMoves ==
  ASSUME NEW u \in Attempts, notice' = [notice EXCEPT ![u] = NoNotice], request' = request,
         upstream' = upstream, delivery' = delivery, refs' = refs
  PROVE  NoticeMoves(u, NoNotice)
<1>1. NoNotice \in Notice BY DEF NoNotice, Notice, UpstreamStatuses
<1> QED BY <1>1 DEF NoNotice, NoticeMoves

\* The callback was accepted.
LEMMA CallbackAnsweredStep ==
  ASSUME IInv, NEW u \in Attempts, CallbackAnswered(u), UNCHANGED procVars
  PROVE  IInv'
<1>1. NoticeMoves(u, NoNotice) BY NoNoticeMoves DEF CallbackAnswered
<1>2. notice[u].retry \in Nat BY DEF IInv, LinkTypeOK, Notice
<1>3. [state |-> "sent", retry |-> notice[u].retry] \in CallbackRow BY <1>2 DEF CallbackRow
<1>4. callback' \in [Attempts -> CallbackRow] BY <1>3 DEF CallbackAnswered, IInv, UpTypeOK
<1>5. noticeTasks' = noticeTasks /\ mishaps' = mishaps BY DEF CallbackAnswered
<1> QED BY <1>1, <1>4, <1>5, NoticeStep DEF IInv, UpTypeOK

\* The callback was refused or lost.
LEMMA CallbackFailedStep ==
  ASSUME IInv, NEW u \in Attempts, CallbackFailed(u), UNCHANGED procVars
  PROVE  IInv'
<1> DEFINE tries == notice[u].retry + 1
           givenUp == tries >= MaxCallbackRetries
           row == [state |-> IF givenUp THEN "failed" ELSE notice[u].state, retry |-> tries]
<1>1. NoticeMoves(u, NoNotice) BY NoNoticeMoves DEF CallbackFailed
<1>2. notice[u] \in Notice /\ notice[u].phase # "idle" BY DEF CallbackFailed, IInv, LinkTypeOK
<1>3. notice[u].state \in {"pending", "sent", "failed"} /\ tries \in Nat /\ upstream[u] # "none"
  BY <1>2 DEF Notice, IInv, UpstreamOK
<1>4. row \in CallbackRow BY <1>3 DEF CallbackRow
<1>5. /\ callback' = [callback EXCEPT ![u] = row] /\ mishaps' = mishaps
      /\ noticeTasks' = [noticeTasks EXCEPT ![u] = IF givenUp THEN @ ELSE @ + 1]
  BY DEF CallbackFailed
<1> HIDE DEF row, givenUp
<1>6. callback' \in [Attempts -> CallbackRow] BY <1>4, <1>5 DEF IInv, UpTypeOK
<1>7. noticeTasks' \in [Attempts -> Nat] BY <1>5 DEF IInv, UpTypeOK
<1>8. \A v \in Attempts : noticeTasks'[v] > 0 => noticeTasks[v] > 0 \/ upstream[v] # "none"
  BY <1>3, <1>5 DEF IInv, UpTypeOK
<1> QED BY <1>1, <1>5, <1>6, <1>7, <1>8, NoticeStep

-----------------------------------------------------------------------------
(* The upstream site.                                                       *)

\* A callback is queued for u or not at all.
LEMMA EnqueueWrites ==
  ASSUME UpTypeOK, NEW u \in Attempts, EnqueueCallback(u, TRUE) \/ EnqueueCallback(u, FALSE)
  PROVE  /\ callback' \in [Attempts -> CallbackRow] /\ noticeTasks' \in [Attempts -> Nat]
         /\ \A v \in Attempts : noticeTasks'[v] > 0 => noticeTasks[v] > 0 \/ v = u
<1>1. CASE UNCHANGED <<callback, noticeTasks>> BY <1>1 DEF UpTypeOK
<1>2. ASSUME callback' = [callback EXCEPT ![u] =
                            IF @.state = "pending" THEN @ ELSE [state |-> "pending", retry |-> 0]],
             noticeTasks' = noticeTasks \/ noticeTasks' = [noticeTasks EXCEPT ![u] = @ + 1]
      PROVE  /\ callback' \in [Attempts -> CallbackRow] /\ noticeTasks' \in [Attempts -> Nat]
             /\ \A v \in Attempts : noticeTasks'[v] > 0 => noticeTasks[v] > 0 \/ v = u
  <2>1. [state |-> "pending", retry |-> 0] \in CallbackRow BY DEF CallbackRow
  <2>2. callback' \in [Attempts -> CallbackRow] BY <1>2, <2>1 DEF UpTypeOK
  <2>3. noticeTasks' \in [Attempts -> Nat] BY <1>2 DEF UpTypeOK
  <2>4. \A v \in Attempts : v # u => noticeTasks'[v] = noticeTasks[v] BY <1>2 DEF UpTypeOK
  <2> QED BY <2>2, <2>3, <2>4
<1>3. ASSUME NEW queued,
             noticeTasks' = [noticeTasks EXCEPT ![u] =
                               IF queued /\ @ < MaxNotices THEN @ + 1 ELSE @]
      PROVE  noticeTasks' = noticeTasks \/ noticeTasks' = [noticeTasks EXCEPT ![u] = @ + 1]
  <2>1. CASE queued /\ noticeTasks[u] < MaxNotices BY <1>3, <2>1
  <2>2. CASE ~(queued /\ noticeTasks[u] < MaxNotices)
    <3>1. noticeTasks' = [noticeTasks EXCEPT ![u] = @] BY <1>3, <2>2
    <3> QED BY <3>1 DEF UpTypeOK
  <2> QED BY <2>1, <2>2
<1> QED BY <1>1, <1>2, <1>3 DEF EnqueueCallback

\* The rows of the site are well formed and about orders that exist; only u may
\* have got a row, a callback or goods.
SiteRows(u) ==
  /\ upstream' \in [Attempts -> UpstreamStatuses] /\ delivery' \in [Attempts -> DeliverySteps]
  /\ \A v \in Attempts : v # u => AsBefore(v)
  /\ handedOver \subseteq handedOver' /\ handedOver' \subseteq handedOver \union {u}
  /\ callback' \in [Attempts -> CallbackRow] /\ noticeTasks' \in [Attempts -> Nat]
  /\ \A v \in Attempts :
       noticeTasks'[v] > 0 => noticeTasks[v] > 0 \/ (v = u /\ upstream'[u] # "none")
  /\ refs' \in Seq(Attempts)
  /\ \A n \in DOMAIN refs' :
       \/ n \in DOMAIN refs /\ refs'[n] = refs[n]
       \/ refs'[n] = u /\ upstream'[u] # "none"
  /\ notice' = notice

\* The site's invariant after a step that concerns upstream order u.
LEMMA SiteKept ==
  ASSUME IInv, Grows, NEW u \in Attempts, SiteRows(u),
         upstream[u] # "none" => upstream'[u] # "none",
         u \in handedOver' => upstream'[u] \notin {"none", "pending_payment"} /\ PaidFor(u)',
         upstream'[u] \notin {"none", "pending_payment", "canceled"} => PaidFor(u)'
  PROVE  UpTypeOK' /\ UpstreamOK'
<1>1. UpTypeOK' BY DEF SiteRows, UpTypeOK
<1>2. \A v \in Attempts : upstream[v] # "none" => upstream'[v] # "none"
  BY DEF SiteRows, AsBefore
<1>3. \A n \in DOMAIN refs' : upstream'[refs'[n]] # "none"
  <2> TAKE n \in DOMAIN refs'
  <2>1. CASE n \in DOMAIN refs /\ refs'[n] = refs[n]
    <3>1. upstream[refs[n]] # "none" BY <2>1 DEF IInv, UpstreamOK
    <3>2. refs[n] \in Attempts BY <2>1, ElementOfSeq DEF IInv, UpTypeOK
    <3> QED BY <1>2, <2>1, <3>1, <3>2
  <2>2. CASE refs'[n] = u /\ upstream'[u] # "none" BY <2>2
  <2> QED BY <2>1, <2>2 DEF SiteRows
<1>4. \A v \in Attempts : noticeTasks'[v] > 0 \/ notice'[v].phase # "idle" => upstream'[v] # "none"
  BY <1>2 DEF SiteRows, IInv, UpstreamOK
<1>5. /\ \A v \in Attempts : notice'[v].phase # "idle" => notice'[v].state # "none"
      /\ \A v \in Attempts : notice'[v].goods => v \in handedOver'
  BY DEF SiteRows, IInv, UpstreamOK
<1>6. \A v : PaidFor(v) => PaidFor(v)' BY StaysPaid
<1>7. ASSUME NEW v \in handedOver'
      PROVE  upstream'[v] \notin {"none", "pending_payment"} /\ PaidFor(v)'
  <2>1. CASE v = u BY <2>1
  <2>2. CASE v # u
    <3>1. v \in handedOver /\ v \in Attempts BY <2>2 DEF SiteRows, handedOver
    <3>2. upstream[v] \notin {"none", "pending_payment"} /\ PaidFor(v)
      BY <3>1 DEF IInv, UpstreamOK
    <3>3. AsBefore(v) BY <2>2, <3>1 DEF SiteRows
    <3> QED BY <1>6, <3>2, <3>3 DEF AsBefore
  <2> QED BY <2>1, <2>2
<1>8. ASSUME NEW v \in Attempts, upstream'[v] \notin {"none", "pending_payment", "canceled"}
      PROVE  PaidFor(v)'
  <2>1. CASE v = u BY <1>8, <2>1
  <2>2. CASE v # u
    <3>1. AsBefore(v) BY <2>2 DEF SiteRows
    <3>2. PaidFor(v) BY <1>8, <3>1 DEF AsBefore, IInv, UpstreamOK
    <3> QED BY <1>6, <3>2
  <2> QED BY <2>1, <2>2
<1> QED BY <1>1, <1>3, <1>4, <1>5, <1>7, <1>8 DEF UpstreamOK

\* A step of the handler of request i, which has handed over nothing yet.
LEMMA HandlerStep ==
  ASSUME IInv, NEW i \in Attempts, NEW r, Handled(i, r), SiteRows(i), HandlerOK(i)',
         request[i].server # "done",
         upstream'[i] \notin {"none", "pending_payment", "canceled"} => PaidFor(i)',
         mishaps' \in [MishapKinds -> 0..MaxMishaps],
         UNCHANGED procVars
  PROVE  IInv'
<1>1. Grows BY HandledGrows DEF IInv
<1>2. request' \in Seq(Request) /\ Len(request') <= MaxAttempts
  BY RequestMoves DEF IInv, Handled
<1>3. LinkTypeOK' BY <1>2 DEF SiteRows, IInv, LinkTypeOK
<1>4. RequestsOK' BY HandledRequests DEF IInv, SiteRows
<1>5. i \notin handedOver'
  <2>1. i \in DOMAIN request BY DEF Handled, Moves
  <2>2. ~PaidFor(i) BY <2>1 DEF PaidFor, IInv, RequestsOK, HandlerOK
  <2> QED BY <2>2 DEF Handled, IInv, UpstreamOK
<1>6. UpTypeOK' /\ UpstreamOK' BY <1>1, <1>5, SiteKept DEF Handled
<1>7. ProcTypeOK' BY DEF IInv, ProcTypeOK, procVars, localVars, taskVars
<1> QED BY <1>1, <1>3, <1>4, <1>6, <1>7, BuyerStep DEF procVars, localVars

\* A step of upstream order u after its handler has answered or died, or a
\* cancellation before that.
OrderMoves(u) ==
  /\ upstream[u] # "none" /\ upstream'[u] # "none"
  /\ request' = request /\ SiteRows(u)
  /\ u \in handedOver' => upstream'[u] # "pending_payment" /\ PaidFor(u)
  /\ upstream'[u] \notin {"pending_payment", "canceled"} => PaidFor(u)
  /\ mishaps' \in [MishapKinds -> 0..MaxMishaps]

\* The site's tables stay well founded then.
LEMMA OrderKept ==
  ASSUME IInv, NEW u \in Attempts, OrderMoves(u)
  PROVE  Grows /\ LinkTypeOK' /\ UpTypeOK' /\ RequestsOK' /\ UpstreamOK'
<1> USE DEF OrderMoves
<1>1. \A v \in Attempts : upstream[v] # "none" => upstream'[v] # "none"
  BY DEF SiteRows, AsBefore
<1>2. Grows BY <1>1, SentAreAttempts DEF SiteRows, Grows, IInv
<1>3. LinkTypeOK' BY DEF SiteRows, IInv, LinkTypeOK
<1>4. PaidFor(u)' = PaidFor(u) BY DEF PaidFor
<1>5. RequestsOK'
  <2>1. u \in DOMAIN request BY DEF IInv, RequestsOK
  <2>2. Only(u) BY SentAreAttempts DEF SiteRows, Only, IInv
  <2>3. \A j \in DOMAIN request \ {u} : HandlerOK(j)' BY <1>2, <2>2, OtherHandlers DEF IInv
  <2>4. HandlerOK(u)'
    <3>1. HandlerOK(u) BY <2>1 DEF IInv, RequestsOK
    <3>2. PaidFor(u) => request[u].server = "done" BY <3>1 DEF PaidFor, HandlerOK
    <3>3. request[u].answer = "ok" => BoughtFor(request[u].found, request[u].order)'
      BY <1>2, <3>1, <2>1 DEF HandlerOK, BoughtFor, Grows
    <3> QED BY <3>1, <3>2, <3>3 DEF HandlerOK, BoughtFor
  <2>5. \A v \in Attempts : upstream'[v] # "none" => v \in DOMAIN request
    BY <2>1 DEF SiteRows, AsBefore, IInv, RequestsOK
  <2> QED BY <2>3, <2>4, <2>5 DEF RequestsOK
<1>6. UpTypeOK' /\ UpstreamOK' BY <1>2, <1>4, SiteKept
<1> QED BY <1>2, <1>3, <1>5, <1>6

\* The buying site need not notice.
LEMMA OrderStep ==
  ASSUME IInv, NEW u \in Attempts, OrderMoves(u), UNCHANGED procVars
  PROVE  IInv'
<1>1. Grows /\ LinkTypeOK' /\ UpTypeOK' /\ RequestsOK' /\ UpstreamOK' BY OrderKept
<1>2. ProcTypeOK' BY DEF IInv, ProcTypeOK, procVars, localVars, taskVars
<1> QED BY <1>1, <1>2, BuyerStep DEF procVars, localVars

\* One upstream order gets another status and nothing else happens to the site.
LEMMA StatusRows ==
  ASSUME IInv, NEW u \in Attempts, NEW s \in UpstreamStatuses, upstream' = [upstream EXCEPT ![u] = s],
         delivery' = delivery, callback' = callback, noticeTasks' = noticeTasks, notice' = notice,
         refs' = refs
  PROVE  SiteRows(u) /\ upstream'[u] = s /\ handedOver' = handedOver
<1>1. /\ upstream' \in [Attempts -> UpstreamStatuses] /\ upstream'[u] = s
      /\ \A v \in Attempts : v # u => AsBefore(v)
  BY DEF IInv, UpTypeOK, UpstreamStatuses, AsBefore
<1>2. handedOver' = handedOver BY SameDeliveries
<1> QED BY <1>1, <1>2 DEF SiteRows, IInv, UpTypeOK

\* Bringing a status up to date leaves every order as before, as AsBefore has it.
LEMMA SyncedRows ==
  ASSUME UpTypeOK, NEW u \in Attempts, upstream' = [upstream EXCEPT ![u] = Synced(u)]
  PROVE  /\ upstream' \in [Attempts -> UpstreamStatuses]
         /\ \A v \in Attempts : AsBefore(v)
<1>1. Synced(u) \in UpstreamStatuses BY DEF Synced, UpTypeOK, UpstreamStatuses
<1>2. \A v \in Attempts : upstream'[v] = IF v = u THEN Synced(u) ELSE upstream[v]
  BY DEF UpTypeOK
<1>3. \A v \in Attempts : AsBefore(v) BY <1>2 DEF AsBefore, Synced
<1> QED BY <1>1, <1>3 DEF UpTypeOK

\* A handler that is at work has not answered.
LEMMA NotAnswered ==
  ASSUME IInv, NEW i \in DOMAIN request, request[i].server # "done"
  PROVE  request[i].answer = "none"
BY DEF IInv, RequestsOK, HandlerOK

\* CreateOrder answers with the earlier order of the same number, or goes on.
LEMMA ReceiveOrderStep ==
  ASSUME IInv, NEW i \in Attempts, ReceiveOrder(i), UNCHANGED procVars
  PROVE  IInv'
<1> DEFINE earlier == EarlierOrder(request[i].order)
<1>1. /\ i \in DOMAIN request /\ request[i] \in Request /\ request[i].server = "unread"
      /\ request[i].answer = "none"
  BY RequestTyped, NotAnswered DEF ReceiveOrder, IInv
<1>2. /\ delivery' = delivery /\ handedOver' = handedOver /\ refs' = refs
      /\ callback' = callback /\ noticeTasks' = noticeTasks /\ notice' = notice
  BY SameDeliveries DEF ReceiveOrder
<1>3. upstream[i] = "none" BY <1>1 DEF IInv, RequestsOK, HandlerOK
<1>4. PICK r \in Request :
        /\ r.order = request[i].order /\ request' = [request EXCEPT ![i] = r]
        /\ r.server \in {"checked", "done"} /\ (r.server = "checked" => r.answer = "none")
        /\ r.answer = "ok" => BoughtFor(r.found, r.order)
        /\ upstream' \in [Attempts -> UpstreamStatuses] /\ upstream'[i] = "none"
        /\ \A v \in Attempts : AsBefore(v)
  <2>1. CASE upstream' = upstream /\ request' = [request EXCEPT ![i].server = "checked"]
    <3> DEFINE r == [request[i] EXCEPT !.server = "checked"]
    <3>1. r \in Request BY <1>1 DEF Request
    <3>2. r.order = request[i].order /\ r.server = "checked" /\ r.answer = "none"
      BY <1>1 DEF Request
    <3>3. request' = [request EXCEPT ![i] = r] BY <2>1
    <3>4. \A v \in Attempts : AsBefore(v) BY <2>1 DEF AsBefore
    <3> QED BY <1>3, <2>1, <3>1, <3>2, <3>3, <3>4 DEF IInv, UpTypeOK
  <2>2. CASE /\ earlier # NoUpstream /\ upstream' = [upstream EXCEPT ![earlier] = Synced(earlier)]
             /\ request' = [request EXCEPT ![i] =
                              [@ EXCEPT !.server = "done", !.answer = "ok", !.found = earlier]]
    <3> DEFINE r == [request[i] EXCEPT !.server = "done", !.answer = "ok", !.found = earlier]
    <3>1. PICK n \in DOMAIN refs : earlier = refs[n] /\ request[refs[n]].order = request[i].order
      BY <2>2, EarlierOrderFound DEF IInv
    <3> HIDE DEF earlier
    <3>2. earlier \in Attempts /\ upstream[earlier] # "none"
      BY <3>1, ElementOfSeq DEF IInv, UpTypeOK, UpstreamOK
    <3>3. BoughtFor(earlier, request[i].order)
      BY <3>1, <3>2 DEF BoughtFor, IInv, RequestsOK
    <3>4. r \in Request BY <1>1, <3>2 DEF Request
    <3>5. r.order = request[i].order /\ r.server = "done" /\ r.found = earlier
      BY <1>1 DEF Request
    <3>6. request' = [request EXCEPT ![i] = r] BY <2>2
    <3>7. upstream' \in [Attempts -> UpstreamStatuses] /\ \A v \in Attempts : AsBefore(v)
      BY <2>2, <3>2, SyncedRows DEF IInv
    <3>8. upstream'[i] = "none" BY <1>3, <3>7 DEF AsBefore
    <3> HIDE DEF r
    <3> QED BY <3>3, <3>4, <3>5, <3>6, <3>7, <3>8
  <2> QED BY <2>1, <2>2 DEF ReceiveOrder
<1>5. Moves(i, r) BY <1>1, <1>4 DEF Moves
<1>6. request'[i] = r /\ Only(i)
  BY <1>4, <1>5, RequestMoves, SentAreAttempts DEF IInv, Only
<1>7. Handled(i, r) BY <1>1, <1>2, <1>3, <1>5, <1>6 DEF Handled
<1>8. Grows BY <1>7, HandledGrows DEF IInv
<1>9. HandlerOK(i)' BY <1>3, <1>4, <1>6, <1>8 DEF HandlerOK, BoughtFor, Grows, IInv, RequestsOK
<1>10. SiteRows(i) BY <1>2, <1>4 DEF SiteRows, IInv, UpTypeOK
<1>11. mishaps' \in [MishapKinds -> 0..MaxMishaps]
  BY MishapTyped DEF ReceiveOrder, IInv
<1> QED BY <1>1, <1>4, <1>7, <1>9, <1>10, <1>11, HandlerStep

\* The order is created, or refused.
LEMMA CreateOrderStep ==
  ASSUME IInv, NEW i \in Attempts, CreateOrder(i), UNCHANGED procVars
  PROVE  IInv'
<1>1. /\ i \in DOMAIN request /\ request[i] \in Request /\ request[i].server = "checked"
      /\ request[i].answer = "none"
  BY RequestTyped, NotAnswered DEF CreateOrder, IInv
<1>2. /\ delivery' = delivery /\ handedOver' = handedOver /\ refs' = refs /\ callback' = callback
      /\ noticeTasks' = noticeTasks /\ notice' = notice /\ mishaps' = mishaps
  BY SameDeliveries DEF CreateOrder
<1>3. upstream[i] = "none" BY <1>1 DEF IInv, RequestsOK, HandlerOK
<1>4. PICK r \in Request :
        /\ r.order = request[i].order /\ request' = [request EXCEPT ![i] = r]
        /\ \/ /\ r.server = "ordered" /\ r.answer = "none"
              /\ upstream' = [upstream EXCEPT ![i] = "pending_payment"]
           \/ r.server = "done" /\ r.answer = "error" /\ upstream' = upstream
  <2>1. CASE /\ upstream' = [upstream EXCEPT ![i] = "pending_payment"]
             /\ request' = [request EXCEPT ![i].server = "ordered"]
    <3> DEFINE r == [request[i] EXCEPT !.server = "ordered"]
    <3>1. r \in Request BY <1>1 DEF Request
    <3>2. r.order = request[i].order /\ r.server = "ordered" /\ r.answer = "none"
      BY <1>1 DEF Request
    <3> QED BY <2>1, <3>1, <3>2
  <2>2. CASE /\ request' = [request EXCEPT ![i] = [@ EXCEPT !.server = "done", !.answer = "error"]]
             /\ UNCHANGED upstream
    <3> DEFINE r == [request[i] EXCEPT !.server = "done", !.answer = "error"]
    <3>1. r \in Request BY <1>1 DEF Request
    <3>2. r.order = request[i].order /\ r.server = "done" /\ r.answer = "error"
      BY <1>1 DEF Request
    <3> QED BY <2>2, <3>1, <3>2
  <2> QED BY <2>1, <2>2 DEF CreateOrder
<1>5. Moves(i, r) BY <1>1, <1>4 DEF Moves
<1>6. /\ upstream' \in [Attempts -> UpstreamStatuses]
      /\ \A v \in Attempts : v # i => AsBefore(v)
  BY <1>4 DEF IInv, UpTypeOK, UpstreamStatuses, AsBefore
<1>7. request'[i] = r /\ Only(i) BY <1>5, <1>6, RequestMoves, SentAreAttempts DEF IInv, Only
<1>8. Handled(i, r) BY <1>1, <1>2, <1>3, <1>5, <1>7 DEF Handled
<1>9. upstream'[i] = IF r.server = "ordered" THEN "pending_payment" ELSE "none"
  BY <1>3, <1>4 DEF IInv, UpTypeOK
<1>10. HandlerOK(i)' BY <1>4, <1>7, <1>9 DEF HandlerOK
<1>11. SiteRows(i) BY <1>2, <1>6 DEF SiteRows, IInv, UpTypeOK
<1>12. mishaps' \in [MishapKinds -> 0..MaxMishaps] BY <1>2 DEF IInv, LinkTypeOK
<1> QED BY <1>1, <1>8, <1>9, <1>10, <1>11, <1>12, HandlerStep

\* The order gets its row, unless that fails.
LEMMA CreateRefStep ==
  ASSUME IInv, NEW i \in Attempts, CreateRef(i), UNCHANGED procVars
  PROVE  IInv'
<1> DEFINE r == [request[i] EXCEPT !.server = "noted"]
<1>1. /\ i \in DOMAIN request /\ request[i] \in Request /\ request[i].server = "ordered"
      /\ request[i].answer = "none"
  BY RequestTyped, NotAnswered DEF CreateRef, IInv
<1>2. /\ upstream' = upstream /\ delivery' = delivery /\ handedOver' = handedOver
      /\ callback' = callback /\ noticeTasks' = noticeTasks /\ notice' = notice
      /\ request' = [request EXCEPT ![i] = r]
  BY SameDeliveries DEF CreateRef
<1>3. upstream[i] \in {"pending_payment", "canceled"} BY <1>1 DEF IInv, RequestsOK, HandlerOK
<1>4. r \in Request /\ r.order = request[i].order /\ r.server = "noted" /\ r.answer = "none"
  BY <1>1 DEF Request
<1> HIDE DEF r
<1>5. Moves(i, r) BY <1>1, <1>2, <1>4 DEF Moves
<1>6. request'[i] = r /\ Only(i) BY <1>2, <1>5, RequestMoves DEF IInv, Only, AsBefore
<1>7. Handled(i, r) BY <1>1, <1>2, <1>5, <1>6 DEF Handled
<1>8. HandlerOK(i)' BY <1>2, <1>3, <1>4, <1>6 DEF HandlerOK
<1>9. refs' = refs \/ refs' = Append(refs, i) BY DEF CreateRef
<1>10. refs \in Seq(Attempts) BY DEF IInv, UpTypeOK
<1>11. /\ refs' \in Seq(Attempts)
       /\ \A n \in DOMAIN refs' : (n \in DOMAIN refs /\ refs'[n] = refs[n]) \/ refs'[n] = i
  <2>1. CASE refs' = refs BY <1>10, <2>1
  <2>2. CASE refs' = Append(refs, i)
    <3>1. /\ refs' \in Seq(Attempts) /\ Len(refs') = Len(refs) + 1
          /\ \A n \in 1..Len(refs) : refs'[n] = refs[n]
          /\ refs'[Len(refs) + 1] = i
      BY <1>10, <2>2, AppendProperties
    <3>2. DOMAIN refs' = 1..Len(refs') /\ DOMAIN refs = 1..Len(refs) /\ Len(refs) \in Nat
      BY <1>10, <3>1
    <3> QED BY <3>1, <3>2
  <2> QED BY <1>9, <2>1, <2>2
<1>12. SiteRows(i) BY <1>2, <1>3, <1>11 DEF SiteRows, AsBefore, IInv, UpTypeOK
<1>13. mishaps' \in [MishapKinds -> 0..MaxMishaps]
  BY MishapTyped DEF CreateRef, IInv
<1> QED BY <1>1, <1>2, <1>3, <1>7, <1>8, <1>12, <1>13, HandlerStep

\* The handler dies.
LEMMA HandlerDiesStep ==
  ASSUME IInv, NEW i \in Attempts, HandlerDies(i), UNCHANGED procVars
  PROVE  IInv'
<1> DEFINE r == [request[i] EXCEPT !.server = "died"]
<1>1. /\ i \in DOMAIN request /\ request[i] \in Request /\ request[i].answer = "none"
      /\ request[i].server \in {"checked", "ordered", "noted"}
  BY RequestTyped, NotAnswered DEF HandlerDies, IInv
<1>2. /\ upstream' = upstream /\ delivery' = delivery /\ handedOver' = handedOver
      /\ callback' = callback /\ refs' = refs
      /\ noticeTasks' = noticeTasks /\ notice' = notice /\ request' = [request EXCEPT ![i] = r]
  BY SameDeliveries DEF HandlerDies, upstreamVars
<1>3. r \in Request /\ r.order = request[i].order /\ r.server = "died" /\ r.answer = "none"
  BY <1>1 DEF Request
<1> HIDE DEF r
<1>4. Moves(i, r) BY <1>1, <1>2, <1>3 DEF Moves
<1>5. request'[i] = r /\ Only(i) BY <1>2, <1>4, RequestMoves DEF IInv, Only, AsBefore
<1>6. Handled(i, r) BY <1>1, <1>2, <1>4, <1>5 DEF Handled
<1>7. HandlerOK(i)' BY <1>3, <1>5 DEF HandlerOK
<1>8. SiteRows(i) BY <1>2 DEF SiteRows, AsBefore, IInv, UpTypeOK
<1>9. mishaps' \in [MishapKinds -> 0..MaxMishaps] BY MishapTyped DEF HandlerDies, IInv
<1>10. upstream'[i] \in {"none", "pending_payment", "canceled"}
  BY <1>1, <1>2 DEF IInv, RequestsOK, HandlerOK
<1> QED BY <1>1, <1>6, <1>7, <1>8, <1>9, <1>10, HandlerStep

\* The order is paid and the answer names it, or it is canceled.
LEMMA PayFromWalletStep ==
  ASSUME IInv, NEW i \in Attempts, PayFromWallet(i), UNCHANGED procVars
  PROVE  IInv'
<1>1. /\ i \in DOMAIN request /\ request[i] \in Request /\ request[i].server = "noted"
      /\ request[i].answer = "none"
  BY RequestTyped, NotAnswered DEF PayFromWallet, IInv
<1>2. delivery' = delivery /\ handedOver' = handedOver /\ refs' = refs /\ notice' = notice
  BY SameDeliveries DEF PayFromWallet
<1>3. PICK r \in Request :
        /\ r.order = request[i].order /\ request' = [request EXCEPT ![i] = r]
        /\ r.server = "done"
        /\ \/ /\ r.answer = "ok" /\ r.found = i /\ upstream' = [upstream EXCEPT ![i] = "paid"]
           \/ r.answer = "refused" /\ upstream' = [upstream EXCEPT ![i] = "canceled"]
  <2>1. CASE /\ request' = [request EXCEPT ![i] = [@ EXCEPT !.server = "done", !.answer = "ok", !.found = i]]
             /\ upstream' = [upstream EXCEPT ![i] = "paid"]
    <3> DEFINE r == [request[i] EXCEPT !.server = "done", !.answer = "ok", !.found = i]
    <3>1. r \in Request BY <1>1 DEF Request
    <3>2. r.order = request[i].order /\ r.server = "done" /\ r.found = i /\ r.answer = "ok"
      BY <1>1 DEF Request
    <3> QED BY <2>1, <3>1, <3>2
  <2>2. CASE /\ request' = [request EXCEPT ![i] = [@ EXCEPT !.server = "done", !.answer = "refused"]]
             /\ upstream' = [upstream EXCEPT ![i] = "canceled"]
    <3> DEFINE r == [request[i] EXCEPT !.server = "done", !.answer = "refused"]
    <3>1. r \in Request BY <1>1 DEF Request
    <3>2. r.order = request[i].order /\ r.server = "done" /\ r.answer = "refused"
      BY <1>1 DEF Request
    <3> QED BY <2>2, <3>1, <3>2
  <2> QED BY <2>1, <2>2 DEF PayFromWallet
<1>4. /\ upstream' \in [Attempts -> UpstreamStatuses] /\ upstream'[i] # "none"
      /\ upstream'[i] = IF r.answer = "ok" THEN "paid" ELSE "canceled"
      /\ \A v \in Attempts : v # i => AsBefore(v)
  BY <1>3 DEF IInv, UpTypeOK, UpstreamStatuses, AsBefore
<1>5. Moves(i, r) BY <1>1, <1>3 DEF Moves
<1>6. request'[i] = r /\ i \in DOMAIN request' /\ Only(i)
  BY <1>1, <1>4, <1>5, RequestMoves, SentAreAttempts DEF IInv, Only
<1>7. Handled(i, r) BY <1>1, <1>2, <1>4, <1>5, <1>6 DEF Handled
<1>8. HandlerOK(i)' BY <1>3, <1>4, <1>6 DEF HandlerOK, BoughtFor
<1>9. /\ callback' \in [Attempts -> CallbackRow] /\ noticeTasks' \in [Attempts -> Nat]
      /\ \A v \in Attempts : noticeTasks'[v] > 0 => noticeTasks[v] > 0 \/ v = i
  <2>1. CASE UNCHANGED <<callback, noticeTasks>> BY <2>1 DEF IInv, UpTypeOK
  <2>2. CASE EnqueueCallback(i, TRUE) \/ EnqueueCallback(i, FALSE)
    BY <2>2, EnqueueWrites DEF IInv
  <2> QED BY <2>1, <2>2 DEF PayFromWallet
<1>10. SiteRows(i) BY <1>2, <1>4, <1>9 DEF SiteRows, IInv, UpTypeOK
<1>11. mishaps' \in [MishapKinds -> 0..MaxMishaps] BY MishapTyped DEF PayFromWallet, IInv
<1>12. upstream'[i] # "canceled" => PaidFor(i)' BY <1>3, <1>4, <1>6 DEF PaidFor
<1> QED BY <1>1, <1>7, <1>8, <1>10, <1>11, <1>12, HandlerStep

\* An order left unpaid is canceled.
LEMMA ExpireOrderStep ==
  ASSUME IInv, NEW u \in Attempts, ExpireOrder(u), UNCHANGED procVars
  PROVE  IInv'
<1>1. SiteRows(u) /\ upstream'[u] = "canceled" /\ handedOver' = handedOver
  BY StatusRows DEF ExpireOrder, linkVars, UpstreamStatuses
<1>2. upstream[u] = "pending_payment" /\ u \notin handedOver
  BY DEF ExpireOrder, IInv, UpstreamOK
<1>3. request' = request /\ mishaps' \in [MishapKinds -> 0..MaxMishaps]
  BY DEF ExpireOrder, linkVars, IInv, LinkTypeOK
<1> QED BY <1>1, <1>2, <1>3, OrderStep DEF OrderMoves

\* The order of a procurement is canceled before it is paid.
LEMMA AskCancelStep ==
  ASSUME IInv, NEW o \in LocalOrders, AskCancel(o)
  PROVE  IInv'
<1>1. PICK u \in Attempts : u = proc[o].found BY DEF AskCancel, IInv, ProcTypeOK, ProcRow
<1>2. /\ upstream' = [upstream EXCEPT ![u] = "canceled"] /\ upstream[u] = "pending_payment"
      /\ delivery' = delivery /\ refs' = refs /\ callback' = callback
      /\ noticeTasks' = noticeTasks /\ notice' = notice /\ request' = request
      /\ mishaps' = mishaps /\ UNCHANGED procVars
  BY <1>1 DEF AskCancel, linkVars
<1>3. SiteRows(u) /\ upstream'[u] = "canceled" /\ handedOver' = handedOver
  BY <1>2, StatusRows DEF UpstreamStatuses
<1>4. u \notin handedOver BY <1>2 DEF IInv, UpstreamOK
<1>5. mishaps' \in [MishapKinds -> 0..MaxMishaps] BY <1>2 DEF IInv, LinkTypeOK
<1> QED BY <1>2, <1>3, <1>4, <1>5, OrderStep DEF OrderMoves

\* An administrator cancels an order, whose goods stay handed over.
LEMMA CancelByAdminStep ==
  ASSUME IInv, NEW u \in Attempts, CancelByAdmin(u), UNCHANGED procVars
  PROVE  IInv'
<1>1. SiteRows(u) /\ upstream'[u] = "canceled" /\ handedOver' = handedOver
  BY StatusRows DEF CancelByAdmin, UpstreamStatuses
<1>2. u \in handedOver => PaidFor(u) BY DEF IInv, UpstreamOK
<1>3. mishaps' \in [MishapKinds -> 0..MaxMishaps] BY MishapTyped DEF CancelByAdmin, IInv
<1> QED BY <1>1, <1>2, <1>3, OrderStep DEF OrderMoves, CancelByAdmin

\* An administrator marks a paid order delivered.
LEMMA MarkDeliveredStep ==
  ASSUME IInv, NEW u \in Attempts, MarkDelivered(u), UNCHANGED procVars
  PROVE  IInv'
<1>1. SiteRows(u) /\ upstream'[u] = "delivered" /\ handedOver' = handedOver
  BY StatusRows DEF MarkDelivered, UpstreamStatuses
<1>2. PaidFor(u) BY DEF MarkDelivered, IInv, UpstreamOK
<1>3. mishaps' \in [MishapKinds -> 0..MaxMishaps] BY MishapTyped DEF MarkDelivered, IInv
<1> QED BY <1>1, <1>2, <1>3, OrderStep DEF OrderMoves, MarkDelivered

\* A refund changes the status of an order that was paid.
LEMMA RefundUpstreamStep ==
  ASSUME IInv, NEW u \in Attempts, RefundUpstream(u), UNCHANGED procVars
  PROVE  IInv'
<1>1. PICK s \in RefundKinds : upstream' = [upstream EXCEPT ![u] = s] BY DEF RefundUpstream
<1>2. s \in {"partially_refunded", "refunded"} BY UpstreamAssumption
<1>3. SiteRows(u) /\ upstream'[u] = s /\ handedOver' = handedOver
  BY <1>1, <1>2, StatusRows DEF RefundUpstream, UpstreamStatuses
<1>4. PaidFor(u) BY DEF RefundUpstream, IInv, UpstreamOK
<1>5. mishaps' \in [MishapKinds -> 0..MaxMishaps] BY MishapTyped DEF RefundUpstream, IInv
<1> QED BY <1>2, <1>3, <1>4, <1>5, OrderStep DEF OrderMoves, RefundUpstream

\* A delivery goes on; its order may be shown as delivered.
LEMMA DeliveryRows ==
  ASSUME IInv, NEW u \in Attempts, NEW s \in DeliverySteps \ {"none"},
         delivery' = [delivery EXCEPT ![u] = s],
         upstream' = upstream \/ upstream' = [upstream EXCEPT ![u] = Synced(u)],
         callback' \in [Attempts -> CallbackRow], noticeTasks' \in [Attempts -> Nat],
         \A v \in Attempts : noticeTasks'[v] > 0 => noticeTasks[v] > 0 \/ v = u,
         notice' = notice, refs' = refs, upstream[u] # "none"
  PROVE  SiteRows(u) /\ \A v \in Attempts : AsBefore(v)
<1>1. /\ upstream' \in [Attempts -> UpstreamStatuses]
      /\ \A v \in Attempts : AsBefore(v)
  <2>1. CASE upstream' = upstream BY <2>1 DEF AsBefore, IInv, UpTypeOK
  <2>2. CASE upstream' = [upstream EXCEPT ![u] = Synced(u)] BY <2>2, SyncedRows DEF IInv
  <2> QED BY <2>1, <2>2
<1>2. delivery' \in [Attempts -> DeliverySteps]
  BY DEF IInv, UpTypeOK
<1>3. handedOver' = handedOver \union {u} BY DEF IInv, UpTypeOK, handedOver
<1>4. upstream'[u] # "none" BY <1>1 DEF AsBefore
<1> QED BY <1>1, <1>2, <1>3, <1>4 DEF SiteRows, IInv, UpTypeOK

\* It is the delivery of a paid order.
LEMMA DeliveryStep ==
  ASSUME IInv, NEW u \in Attempts, SiteRows(u), AsBefore(u), PaidFor(u),
         upstream[u] \notin {"none", "pending_payment"}, request' = request,
         mishaps' \in [MishapKinds -> 0..MaxMishaps], UNCHANGED procVars
  PROVE  IInv'
BY OrderStep DEF OrderMoves, AsBefore

\* The goods of a paid order are stored.
LEMMA StoreDeliveryStep ==
  ASSUME IInv, NEW u \in Attempts, StoreDelivery(u), UNCHANGED procVars
  PROVE  IInv'
<1>1. /\ upstream' = upstream /\ callback' = callback /\ noticeTasks' = noticeTasks
      /\ notice' = notice /\ refs' = refs /\ request' = request /\ mishaps' = mishaps
      /\ delivery' = [delivery EXCEPT ![u] = "stored"] /\ upstream[u] = "paid"
  BY DEF StoreDelivery, linkVars
<1>2. SiteRows(u) /\ AsBefore(u) BY <1>1, DeliveryRows DEF IInv, UpTypeOK, DeliverySteps
<1>3. PaidFor(u) BY <1>1 DEF IInv, UpstreamOK
<1>4. mishaps' \in [MishapKinds -> 0..MaxMishaps] BY <1>1 DEF IInv, LinkTypeOK
<1> QED BY <1>1, <1>2, <1>3, <1>4, DeliveryStep

\* The order is shown as delivered.
LEMMA SyncDeliveryStep ==
  ASSUME IInv, NEW u \in Attempts, SyncDelivery(u), UNCHANGED procVars
  PROVE  IInv'
<1>1. /\ callback' = callback /\ noticeTasks' = noticeTasks
      /\ notice' = notice /\ refs' = refs /\ request' = request /\ mishaps' = mishaps
      /\ delivery' = [delivery EXCEPT ![u] = "synced"]
      /\ upstream' = [upstream EXCEPT ![u] = Synced(u)] /\ u \in handedOver
  BY DEF SyncDelivery, linkVars, handedOver
<1>2. PaidFor(u) /\ upstream[u] \notin {"none", "pending_payment"} BY <1>1 DEF IInv, UpstreamOK
<1>3. SiteRows(u) /\ AsBefore(u) BY <1>1, <1>2, DeliveryRows DEF IInv, UpTypeOK, DeliverySteps
<1>4. mishaps' \in [MishapKinds -> 0..MaxMishaps] BY <1>1 DEF IInv, LinkTypeOK
<1> QED BY <1>1, <1>2, <1>3, <1>4, DeliveryStep

\* A callback is queued.
LEMMA AnnounceDeliveryStep ==
  ASSUME IInv, NEW u \in Attempts, AnnounceDelivery(u), UNCHANGED procVars
  PROVE  IInv'
<1>1. /\ upstream' = upstream /\ notice' = notice /\ refs' = refs /\ request' = request
      /\ delivery' = [delivery EXCEPT ![u] = "done"] /\ u \in handedOver
      /\ EnqueueCallback(u, TRUE) \/ EnqueueCallback(u, FALSE)
  BY DEF AnnounceDelivery, handedOver
<1>2. PaidFor(u) /\ upstream[u] \notin {"none", "pending_payment"} BY <1>1 DEF IInv, UpstreamOK
<1>3. /\ callback' \in [Attempts -> CallbackRow] /\ noticeTasks' \in [Attempts -> Nat]
      /\ \A v \in Attempts : noticeTasks'[v] > 0 => noticeTasks[v] > 0 \/ v = u
  BY <1>1, EnqueueWrites DEF IInv
<1>4. SiteRows(u) /\ AsBefore(u) BY <1>1, <1>2, <1>3, DeliveryRows DEF DeliverySteps
<1>5. mishaps' \in [MishapKinds -> 0..MaxMishaps] BY MishapTyped DEF AnnounceDelivery, IInv
<1> QED BY <1>1, <1>2, <1>4, <1>5, DeliveryStep

\* Or the delivery ends early.
LEMMA DeliveryDiesStep ==
  ASSUME IInv, NEW u \in Attempts, DeliveryDies(u), UNCHANGED procVars
  PROVE  IInv'
<1>1. /\ upstream' = upstream /\ notice' = notice /\ refs' = refs /\ request' = request
      /\ callback' = callback /\ noticeTasks' = noticeTasks
      /\ delivery' = [delivery EXCEPT ![u] = "done"] /\ u \in handedOver
  BY DEF DeliveryDies, handedOver
<1>2. PaidFor(u) /\ upstream[u] \notin {"none", "pending_payment"} BY <1>1 DEF IInv, UpstreamOK
<1>3. SiteRows(u) /\ AsBefore(u) BY <1>1, <1>2, DeliveryRows DEF IInv, UpTypeOK, DeliverySteps
<1>4. mishaps' \in [MishapKinds -> 0..MaxMishaps] BY MishapTyped DEF DeliveryDies, IInv
<1> QED BY <1>1, <1>2, <1>3, <1>4, DeliveryStep

\* GetOrder answers with the order that was asked about, as it is now.
LEMMA AnswerPollStep ==
  ASSUME IInv, NEW o \in LocalOrders, AnswerPoll(o)
  PROVE  IInv'
<1>1. PICK u \in Attempts : u = poll[o].found
  BY DEF AnswerPoll, IInv, ProcTypeOK, PollStep
<1>2. /\ delivery' = delivery /\ refs' = refs /\ callback' = callback /\ noticeTasks' = noticeTasks
      /\ local' = local /\ goods' = goods /\ setBack' = setBack /\ proc' = proc /\ rows' = rows
      /\ work' = work /\ submitTasks' = submitTasks /\ pollTasks' = pollTasks /\ admin' = admin
      /\ request' = request /\ notice' = notice /\ mishaps' = mishaps
      /\ upstream' = [upstream EXCEPT ![u] = Synced(u)]
  BY <1>1 DEF AnswerPoll, localVars, taskVars, linkVars
<1>3. upstream[u] # "none"
  BY <1>1, NoUpstreamIsNone DEF IInv, PollsOK, BoughtFor
<1>4. Synced(u) \in UpstreamStatuses BY DEF Synced, IInv, UpTypeOK, UpstreamStatuses
<1>5. /\ SiteRows(u) /\ upstream'[u] = Synced(u) /\ handedOver' = handedOver
  BY <1>2, <1>4, StatusRows
<1>6. OrderMoves(u)
  <2>1. mishaps' \in [MishapKinds -> 0..MaxMishaps] BY <1>2 DEF IInv, LinkTypeOK
  <2>2. u \in handedOver => upstream[u] # "pending_payment" /\ PaidFor(u) BY DEF IInv, UpstreamOK
  <2>3. upstream[u] \notin {"none", "pending_payment", "canceled"} => PaidFor(u)
    BY DEF IInv, UpstreamOK
  <2> QED BY <1>2, <1>3, <1>5, <2>1, <2>2, <2>3 DEF OrderMoves, Synced
<1>7. Grows /\ LinkTypeOK' /\ UpTypeOK' /\ RequestsOK' /\ UpstreamOK' BY <1>6, OrderKept
<1> DEFINE p == [poll[o] EXCEPT !.phase = "answered", !.status = Synced(u),
                                !.goods = u \in handedOver]
<1>8. poll[o] \in PollStep /\ (u \in handedOver) \in BOOLEAN BY DEF IInv, ProcTypeOK
<1>9. p \in PollStep BY <1>4, <1>8 DEF PollStep
<1>10. p.found = u /\ p.goods = (u \in handedOver) BY <1>1, <1>8 DEF PollStep
<1>11. PollOK(o, p) BY <1>1, <1>10 DEF PollOK, IInv, PollsOK
<1>12. poll' = [poll EXCEPT ![o] = p] BY <1>1 DEF AnswerPoll
<1> HIDE DEF p
<1>13. poll' \in [LocalOrders -> PollStep] /\ PollsOK'
  BY <1>7, <1>9, <1>11, <1>12, PollStepKept
<1>14. ProcTypeOK' BY <1>2, <1>13 DEF IInv, ProcTypeOK
<1> QED BY <1>2, <1>7, <1>13, <1>14, BuyerStep

-----------------------------------------------------------------------------
(* The theorems.                                                            *)

\* Nothing has been asked for or handed over at the start.
LEMMA InitIInv == Init => IInv
<1> SUFFICES ASSUME Init PROVE IInv OBVIOUS
<1> USE DEF Init
<1>1. LinkTypeOK /\ request = << >>
  <2>1. << >> \in Seq(Request) /\ Len(<< >>) = 0 OBVIOUS
  <2>2. NoNotice \in Notice BY DEF NoNotice, Notice, UpstreamStatuses
  <2>3. mishaps \in [MishapKinds -> 0..MaxMishaps]
    BY SiteLinkAssumption DEF LinkInit
  <2> QED BY <2>1, <2>2, <2>3, SiteLinkAssumption DEF LinkInit, LinkTypeOK
<1>2. ProcTypeOK
  <2>1. Idle \in PollStep BY DEF Idle, PollStep, UpstreamStatuses
  <2>2. [status |-> "none", retry |-> 0, found |-> NoUpstream] \in ProcRow
    BY DEF ProcRow, ProcStatuses
  <2>3. << >> \in Seq(LocalOrders) OBVIOUS
  <2> QED BY <2>1, <2>2, <2>3 DEF ProcurementInit, ProcTypeOK
<1>3. UpTypeOK BY DEF UpstreamInit, UpTypeOK, UpstreamStatuses, DeliverySteps, CallbackRow
<1>4. RequestsOK BY <1>1 DEF UpstreamInit, RequestsOK
<1>5. UpstreamOK BY DEF LinkInit, NoNotice, UpstreamInit, UpstreamOK, handedOver
<1>6. PollsOK /\ GoodsOK /\ FoundOK /\ WorkOK
  BY DEF ProcurementInit, Idle, PollsOK, GoodsOK, FoundOK, WorkOK
<1> QED BY <1>1, <1>2, <1>3, <1>4, <1>5, <1>6 DEF IInv

\* A step of the buying site.
LEMMA ProcurementIInv ==
  ASSUME IInv, ProcurementNext, UNCHANGED upstreamVars
  PROVE  IInv'
<1>1. ASSUME NEW o \in LocalOrders, CreateForOrder(o) PROVE IInv' BY <1>1, CreateForOrderStep
<1>2. ASSUME NEW o \in LocalOrders, SubmitToUpstream(o) PROVE IInv' BY <1>2, SubmitToUpstreamStep
<1>3. ASSUME NEW o \in LocalOrders, SubmitInvalid(o) PROVE IInv' BY <1>3, SubmitInvalidStep
<1>4. ASSUME NEW o \in LocalOrders, SubmitRejected(o) PROVE IInv' BY <1>4, SubmitRejectedStep
<1>5. ASSUME NEW o \in LocalOrders, BeginPoll(o) PROVE IInv' BY <1>5, BeginPollStep
<1>6. ASSUME NEW o \in LocalOrders, BeginSync(o) PROVE IInv' BY <1>6, BeginSyncStep
<1>7. ASSUME NEW o \in LocalOrders, PollUnanswered(o) PROVE IInv' BY <1>7, PollUnansweredStep
<1>8. ASSUME NEW o \in LocalOrders, EndPoll(o) PROVE IInv' BY <1>8, EndPollStep
<1>9. ASSUME NEW o \in LocalOrders, RetryManual(o) PROVE IInv' BY <1>9, RetryManualStep
<1>10. ASSUME NEW o \in LocalOrders, CancelManual(o) PROVE IInv' BY <1>10, CancelManualStep
<1>11. ASSUME NEW o \in LocalOrders, NEW what \in {"retry", "cancel"}, BeginManual(o, what)
       PROVE  IInv'
  BY <1>11, BeginManualStep
<1>12. ASSUME NEW i \in Attempts, SubmitAccepted(i) PROVE IInv' BY <1>12, SubmitAcceptedStep
<1>13. ASSUME NEW i \in Attempts, SubmitFailed(i) PROVE IInv' BY <1>13, SubmitFailedStep
<1>14. ASSUME NEW i \in Attempts, ReceiveCallback(i) PROVE IInv' BY <1>14, ReceiveCallbackStep
<1>15. ASSUME NEW w \in work, WriteLocal(w) PROVE IInv' BY <1>15, WriteLocalStep
<1>16. ASSUME NEW w \in work, MarkFulfilling(w) PROVE IInv' BY <1>16, MarkFulfillingStep
<1>17. ASSUME NEW w \in work, WriteFails(w) PROVE IInv' BY <1>17, WriteFailsStep
<1> QED BY <1>1, <1>2, <1>3, <1>4, <1>5, <1>6, <1>7, <1>8, <1>9, <1>10, <1>11, <1>12, <1>13,
           <1>14, <1>15, <1>16, <1>17 DEF ProcurementNext

\* A step of the upstream site.
LEMMA UpstreamIInv ==
  ASSUME IInv, UpstreamNext, UNCHANGED procVars
  PROVE  IInv'
<1>1. ASSUME NEW i \in Attempts, ReceiveOrder(i) PROVE IInv' BY <1>1, ReceiveOrderStep
<1>2. ASSUME NEW i \in Attempts, CreateOrder(i) PROVE IInv' BY <1>2, CreateOrderStep
<1>3. ASSUME NEW i \in Attempts, CreateRef(i) PROVE IInv' BY <1>3, CreateRefStep
<1>4. ASSUME NEW i \in Attempts, PayFromWallet(i) PROVE IInv' BY <1>4, PayFromWalletStep
<1>5. ASSUME NEW i \in Attempts, HandlerDies(i) PROVE IInv' BY <1>5, HandlerDiesStep
<1>6. ASSUME NEW u \in Attempts, ExpireOrder(u) PROVE IInv' BY <1>6, ExpireOrderStep
<1>7. ASSUME NEW u \in Attempts, RefundUpstream(u) PROVE IInv' BY <1>7, RefundUpstreamStep
<1>8. ASSUME NEW u \in Attempts, StoreDelivery(u) PROVE IInv' BY <1>8, StoreDeliveryStep
<1>9. ASSUME NEW u \in Attempts, SyncDelivery(u) PROVE IInv' BY <1>9, SyncDeliveryStep
<1>10. ASSUME NEW u \in Attempts, AnnounceDelivery(u) PROVE IInv' BY <1>10, AnnounceDeliveryStep
<1>11. ASSUME NEW u \in Attempts, DeliveryDies(u) PROVE IInv' BY <1>11, DeliveryDiesStep
<1>12. ASSUME NEW u \in Attempts, MarkDelivered(u) PROVE IInv' BY <1>12, MarkDeliveredStep
<1>13. ASSUME NEW u \in Attempts, CancelByAdmin(u) PROVE IInv' BY <1>13, CancelByAdminStep
<1>14. ASSUME NEW u \in Attempts, SendCallback(u) PROVE IInv' BY <1>14, SendCallbackStep
<1>15. ASSUME NEW u \in Attempts, CallbackAnswered(u) PROVE IInv' BY <1>15, CallbackAnsweredStep
<1>16. ASSUME NEW u \in Attempts, CallbackFailed(u) PROVE IInv' BY <1>16, CallbackFailedStep
<1> QED BY <1>1, <1>2, <1>3, <1>4, <1>5, <1>6, <1>7, <1>8, <1>9, <1>10, <1>11, <1>12, <1>13,
           <1>14, <1>15, <1>16 DEF UpstreamNext

\* Nothing happens.
LEMMA StutterIInv ==
  ASSUME IInv, UNCHANGED supplyVars
  PROVE  IInv'
<1>1. AtRest /\ UNCHANGED procVars /\ mishaps' = mishaps /\ notice' = notice /\ request' = request
  BY DEF supplyVars, linkVars, AtRest
<1>2. LinkTypeOK' BY <1>1 DEF IInv, LinkTypeOK
<1>3. ProcTypeOK' BY <1>1 DEF IInv, ProcTypeOK, procVars, localVars, taskVars
<1> QED BY <1>1, <1>2, <1>3, RestStep DEF procVars, localVars

\* The invariant is inductive.
LEMMA NextIInv == IInv /\ [Next]_supplyVars => IInv'
<1> SUFFICES ASSUME IInv, [Next]_supplyVars PROVE IInv' OBVIOUS
<1>1. CASE ProcurementNext /\ UNCHANGED upstreamVars BY <1>1, ProcurementIInv
<1>2. CASE UpstreamNext /\ UNCHANGED procVars BY <1>2, UpstreamIInv
<1>3. ASSUME NEW o \in LocalOrders, AnswerPoll(o) PROVE IInv' BY <1>3, AnswerPollStep
<1>4. ASSUME NEW o \in LocalOrders, AskCancel(o) PROVE IInv' BY <1>4, AskCancelStep
<1>5. ASSUME NEW o \in LocalOrders, ShowProcurement(o) PROVE IInv' BY <1>5, ShowProcurementStep
<1>6. CASE UNCHANGED supplyVars BY <1>6, StutterIInv
<1> QED BY <1>1, <1>2, <1>3, <1>4, <1>5, <1>6 DEF Next

\* The invariant of Supply.
THEOREM SupplyInvariant == Spec => []IInv
BY InitIInv, NextIInv, PTL DEF Spec

\* What passes between the sites and the tables of both are well formed, whatever
\* was written over what.
THEOREM SupplyTypes == Spec => []TypeOK
<1>1. IInv => TypeOK BY DEF IInv, LinkTypeOK, ProcTypeOK, UpTypeOK, TypeOK
<1> QED BY <1>1, SupplyInvariant, PTL

\* The upstream order a procurement remembers exists and was bought for it
\* (SubmitToUpstream, upstream_handler.go CreateOrder).
THEOREM RememberedIsOwn == Spec => []AcceptedPointsToItsOrder
<1>1. IInv => AcceptedPointsToItsOrder
  BY DEF IInv, FoundOK, BoughtFor, AcceptedPointsToItsOrder
<1> QED BY <1>1, SupplyInvariant, PTL

\* What a buyer is given was handed over upstream, for his order, by an order that
\* was paid (HandleCallback, HandleUpstreamCallback).
THEOREM GoodsArePaidFor == Spec => []GoodsWerePaidUpstream
<1>1. IInv => GoodsWerePaidUpstream
  BY DEF IInv, GoodsOK, BoughtFor, UpstreamOK, GoodsWerePaidUpstream
<1> QED BY <1>1, SupplyInvariant, PTL


-----------------------------------------------------------------------------
(* The promise.                                                             *)

\* An order that has no goods gets those of an upstream order.
Given == \E o \in LocalOrders, u \in Attempts :
  goods[o] = NoUpstream /\ goods' = [goods EXCEPT ![o] = u]

\* Only storing them gives an order goods.
LEMMA ProcurementGoods ==
  ASSUME ProcurementNext
  PROVE  goods' = goods \/ \E w \in work : StoreGoods(w)
<1>1. ASSUME NEW o \in LocalOrders,
             \/ CreateForOrder(o) \/ SubmitToUpstream(o) \/ SubmitInvalid(o) \/ SubmitRejected(o)
      PROVE  goods' = goods
  BY <1>1 DEF CreateForOrder, SubmitToUpstream, SubmitInvalid, SubmitRejected, localVars
<1>2. ASSUME NEW o \in LocalOrders,
             \/ BeginPoll(o) \/ BeginSync(o) \/ PollUnanswered(o) \/ EndPoll(o)
      PROVE  goods' = goods
  BY <1>2 DEF BeginPoll, BeginSync, PollUnanswered, EndPoll, localVars
<1>3. ASSUME NEW o \in LocalOrders,
             \/ RetryManual(o) \/ CancelManual(o)
             \/ \E what \in {"retry", "cancel"} : BeginManual(o, what)
      PROVE  goods' = goods
  BY <1>3 DEF RetryManual, CancelManual, BeginManual, localVars
<1>4. ASSUME NEW i \in Attempts, SubmitAccepted(i) \/ SubmitFailed(i) \/ ReceiveCallback(i)
      PROVE  goods' = goods
  BY <1>4 DEF SubmitAccepted, SubmitFailed, ReceiveCallback, localVars
<1>5. ASSUME NEW w \in work, Deliver(w) \/ LookBack(w) \/ PutBack(w) \/ MarkFulfilling(w) \/ WriteFails(w)
      PROVE  goods' = goods
  BY <1>5 DEF Deliver, LookBack, PutBack, MarkFulfilling, WriteFails, localVars
<1> QED BY <1>1, <1>2, <1>3, <1>4, <1>5 DEF ProcurementNext, WriteLocal

\* And it gives them only to an order that has none.
LEMMA StepGives == IInv /\ [Next]_supplyVars => goods' = goods \/ Given
<1> SUFFICES ASSUME IInv, [Next]_supplyVars PROVE goods' = goods \/ Given OBVIOUS
<1>1. ASSUME NEW w \in work, StoreGoods(w) PROVE goods' = goods \/ Given
  <2>1. w.order \in LocalOrders /\ w.from \in Attempts
    BY <1>1 DEF StoreGoods, IInv, ProcTypeOK, Work, WorkOK, handedOver
  <2>2. \/ goods' = goods
        \/ goods[w.order] = NoUpstream /\ goods' = [goods EXCEPT ![w.order] = w.from]
    BY <1>1 DEF StoreGoods, GoodsAfter
  <2> QED BY <2>1, <2>2 DEF Given
<1>2. CASE ProcurementNext BY <1>1, <1>2, ProcurementGoods
<1>3. CASE UNCHANGED procVars BY <1>3 DEF procVars, localVars
<1>4. ASSUME NEW o \in LocalOrders, AnswerPoll(o) \/ AskCancel(o) \/ ShowProcurement(o)
      PROVE  goods' = goods
  BY <1>4 DEF AnswerPoll, AskCancel, ShowProcurement, procVars, localVars
<1>5. CASE UNCHANGED supplyVars BY <1>5 DEF supplyVars, procVars, localVars
<1> QED BY <1>2, <1>3, <1>4, <1>5 DEF Next

\* Every order gets its goods once, keeps them and shares them with no other, whichever
\* of callbacks and polls bring them: Supply implements Delivery (createUpstreamFulfillment).
THEOREM PromiseKept == Spec => ImplementsDelivery
<1> DEFINE given == [o \in LocalOrders |-> IF goods[o] = NoUpstream THEN {} ELSE {goods[o]}]
<1>1. Init => Promised!Init BY DEF Init, ProcurementInit, Promised!Init
<1>2. ASSUME IInv, [Next]_supplyVars PROVE [Promised!Next]_given
  <2>1. CASE goods' = goods BY <2>1
  <2>2. ASSUME NEW o \in LocalOrders, NEW u \in Attempts, goods[o] = NoUpstream,
               goods' = [goods EXCEPT ![o] = u]
        PROVE  Promised!Next
    <3>1. IInv' BY <1>2, NextIInv
    <3>2. u # NoUpstream /\ goods'[o] = u
      <4>1. u # NoUpstream BY NoUpstreamIsNone
      <4>2. goods'[o] = u BY <1>2, <2>2 DEF IInv, ProcTypeOK
      <4> QED BY <4>1, <4>2
    <3>3. \A p \in LocalOrders : goods'[p] = u => p = o
      BY <3>1, <3>2 DEF IInv, GoodsOK, BoughtFor
    <3>4. \A p \in LocalOrders : p # o => goods'[p] = goods[p] BY <1>2, <2>2 DEF IInv, ProcTypeOK
    <3>5. given[o] = {} /\ \A p \in LocalOrders : given[p] \intersect {u} = {}
      BY <2>2, <3>2, <3>3, <3>4
    <3>6. given' = [given EXCEPT ![o] = {u}]
      <4>1. \A p \in LocalOrders : given'[p] = IF p = o THEN {u} ELSE given[p]
        BY <3>2, <3>4
      <4> QED BY <4>1
    <3>7. Promised!Deliver(o, {u}) BY <3>5, <3>6 DEF Promised!Deliver
    <3> QED BY <3>7 DEF Promised!Next
  <2>3. goods' = goods \/ Given BY <1>2, StepGives
  <2> QED BY <2>1, <2>2, <2>3 DEF Given
<1> QED BY <1>1, <1>2, SupplyInvariant, PTL DEF Spec, ImplementsDelivery, Promised!Spec

-----------------------------------------------------------------------------
(* A fulfilled procurement.                                                 *)

\* A failure that has happened has happened; so has a delivery without goods.
Failed == mishaps.failure > 0
Marked == mishaps.marked > 0

\* Who is told that an order is delivered is told its goods.
Honest ==
  /\ \A u \in Attempts : upstream[u] = "delivered" => u \in handedOver
  /\ \A u \in Attempts : notice[u].status = "delivered" => notice[u].goods
  /\ \A o \in LocalOrders : poll[o].status = "delivered" => poll[o].goods

\* Whatever happens adds to what has happened.
LEMMA MishapStays ==
  ASSUME LinkTypeOK, NEW kind \in MishapKinds, Mishap(kind)
  PROVE  /\ (Failed => Failed') /\ (Marked => Marked')
         /\ (kind = "failure" => Failed') /\ (kind = "marked" => Marked')
<1>1. mishaps' = [mishaps EXCEPT ![kind] = @ + 1] BY DEF Mishap
<1>2. {"failure", "marked"} \subseteq MishapKinds BY DEF MishapKinds
<1>3. \A k \in MishapKinds : mishaps[k] \in Nat BY SiteLinkAssumption DEF LinkTypeOK
<1>4. \A k \in MishapKinds : mishaps'[k] = IF k = kind THEN mishaps[k] + 1 ELSE mishaps[k]
  BY <1>1 DEF LinkTypeOK
<1>5. mishaps.failure = mishaps["failure"] /\ mishaps.marked = mishaps["marked"] OBVIOUS
<1>6. mishaps["failure"] \in Nat /\ mishaps["marked"] \in Nat BY <1>2, <1>3
<1>7. /\ mishaps'["failure"] = IF kind = "failure" THEN mishaps["failure"] + 1 ELSE mishaps["failure"]
      /\ mishaps'["marked"] = IF kind = "marked" THEN mishaps["marked"] + 1 ELSE mishaps["marked"]
  BY <1>2, <1>4
<1> QED BY <1>6, <1>7 DEF Failed, Marked

\* A failure is one.
LEMMA FailureFails == IInv /\ Fail => Failed'
<1> SUFFICES ASSUME IInv, Fail PROVE Failed' OBVIOUS
<1>1. LinkTypeOK /\ "failure" \in MishapKinds BY DEF IInv, MishapKinds
<1>2. Mishap("failure") BY DEF Fail
<1> QED BY <1>1, <1>2, MishapStays
\* So is marking an order delivered.
LEMMA MarkingMarks == IInv /\ Mishap("marked") => Marked'
<1> SUFFICES ASSUME IInv, Mishap("marked") PROVE Marked' OBVIOUS
<1>1. LinkTypeOK /\ "marked" \in MishapKinds BY DEF IInv, MishapKinds
<1> QED BY <1>1, MishapStays

\* What has happened has happened.
LEMMA MishapsStay == IInv /\ [Next]_supplyVars => (Failed => Failed') /\ (Marked => Marked')
<1> SUFFICES ASSUME IInv, [Next]_supplyVars PROVE (Failed => Failed') /\ (Marked => Marked')
  OBVIOUS
<1>1. mishaps' = mishaps \/ \E kind \in MishapKinds : Mishap(kind)
  <2> USE DEF Fail, MishapKinds, linkVars
  <2>1. ASSUME NEW o \in LocalOrders,
               \/ CreateForOrder(o) \/ SubmitToUpstream(o) \/ SubmitInvalid(o) \/ SubmitRejected(o)
               \/ BeginPoll(o) \/ BeginSync(o) \/ PollUnanswered(o) \/ EndPoll(o)
        PROVE  mishaps' = mishaps \/ \E kind \in MishapKinds : Mishap(kind)
    BY <2>1 DEF CreateForOrder, SubmitToUpstream, SubmitInvalid, SubmitRejected,
                BeginPoll, BeginSync, PollUnanswered, EndPoll
  <2>2. ASSUME NEW o \in LocalOrders,
               \/ RetryManual(o) \/ CancelManual(o)
               \/ \E what \in {"retry", "cancel"} : BeginManual(o, what)
               \/ AnswerPoll(o) \/ AskCancel(o) \/ ShowProcurement(o)
        PROVE  mishaps' = mishaps \/ \E kind \in MishapKinds : Mishap(kind)
    BY <2>2 DEF RetryManual, CancelManual, BeginManual, AnswerPoll, AskCancel, ShowProcurement
  <2>3. ASSUME NEW i \in Attempts, SubmitAccepted(i) \/ SubmitFailed(i) \/ ReceiveCallback(i)
        PROVE  mishaps' = mishaps
    BY <2>3 DEF SubmitAccepted, SubmitFailed, ReceiveCallback
  <2>4. ASSUME NEW w \in work, WriteLocal(w) \/ MarkFulfilling(w) \/ WriteFails(w)
        PROVE  mishaps' = mishaps \/ \E kind \in MishapKinds : Mishap(kind)
    BY <2>4 DEF WriteLocal, MarkFulfilling, WriteFails
  <2>5. ASSUME NEW i \in Attempts, \/ ReceiveOrder(i) \/ CreateOrder(i) \/ CreateRef(i)
                                   \/ PayFromWallet(i) \/ HandlerDies(i) \/ ExpireOrder(i)
        PROVE  mishaps' = mishaps \/ \E kind \in MishapKinds : Mishap(kind)
    BY <2>5 DEF ReceiveOrder, CreateOrder, CreateRef, PayFromWallet, HandlerDies, ExpireOrder
  <2>6. ASSUME NEW u \in Attempts, \/ StoreDelivery(u) \/ SyncDelivery(u) \/ AnnounceDelivery(u)
                                   \/ DeliveryDies(u) \/ MarkDelivered(u) \/ CancelByAdmin(u)
                                   \/ RefundUpstream(u)
        PROVE  mishaps' = mishaps \/ \E kind \in MishapKinds : Mishap(kind)
    BY <2>6 DEF StoreDelivery, SyncDelivery, AnnounceDelivery, DeliveryDies, MarkDelivered,
                CancelByAdmin, RefundUpstream
  <2>7. ASSUME NEW u \in Attempts, SendCallback(u) \/ CallbackAnswered(u) \/ CallbackFailed(u)
        PROVE  mishaps' = mishaps
    BY <2>7 DEF SendCallback, CallbackAnswered, CallbackFailed
  <2>8. CASE UNCHANGED supplyVars BY <2>8 DEF supplyVars
  <2> QED BY <2>1, <2>2, <2>3, <2>4, <2>5, <2>6, <2>7, <2>8
          DEF Next, ProcurementNext, UpstreamNext
<1> QED BY <1>1, MishapStays DEF IInv, Failed, Marked

\* How far the handling of a callback has come is all the buying site writes of it.
LEMMA ProcurementNotice ==
  ASSUME IInv, ProcurementNext, NEW u \in Attempts
  PROVE  notice'[u].status = notice[u].status /\ notice'[u].goods = notice[u].goods
<1>1. CASE notice' = notice BY <1>1
<1>2. ASSUME NEW v \in Attempts, ReceiveCallback(v)
      PROVE  notice'[u].status = notice[u].status /\ notice'[u].goods = notice[u].goods
  <2>1. notice[v] \in Notice BY DEF IInv, LinkTypeOK
  <2>2. PICK p : notice' = [notice EXCEPT ![v].phase = p] BY <1>2 DEF ReceiveCallback
  <2>3. [notice[v] EXCEPT !.phase = p].status = notice[v].status
          /\ [notice[v] EXCEPT !.phase = p].goods = notice[v].goods
    BY <2>1 DEF Notice
  <2> QED BY <2>2, <2>3 DEF IInv, LinkTypeOK
<1>3. ASSUME NEW w, NEW answer \in {"answered", "refused"}, Replied(w, answer)
      PROVE  notice'[u].status = notice[u].status /\ notice'[u].goods = notice[u].goods
  <2>1. LinkTypeOK BY DEF IInv
  <2> QED BY <1>3, <2>1, RepliedKept
<1>4. \/ notice' = notice
      \/ \E v \in Attempts : ReceiveCallback(v)
      \/ \E w \in work, answer \in {"answered", "refused"} : Replied(w, answer)
  <2>1. ASSUME NEW o \in LocalOrders,
               \/ CreateForOrder(o) \/ SubmitToUpstream(o) \/ SubmitInvalid(o) \/ SubmitRejected(o)
               \/ BeginPoll(o) \/ BeginSync(o) \/ PollUnanswered(o) \/ EndPoll(o)
        PROVE  notice' = notice
    BY <2>1 DEF CreateForOrder, SubmitToUpstream, SubmitInvalid, SubmitRejected,
                BeginPoll, BeginSync, PollUnanswered, EndPoll, linkVars
  <2>2. ASSUME NEW o \in LocalOrders,
               \/ RetryManual(o) \/ CancelManual(o)
               \/ \E what \in {"retry", "cancel"} : BeginManual(o, what)
        PROVE  notice' = notice
    BY <2>2 DEF RetryManual, CancelManual, BeginManual, linkVars
  <2>3. ASSUME NEW i \in Attempts, SubmitAccepted(i) \/ SubmitFailed(i) PROVE notice' = notice
    BY <2>3 DEF SubmitAccepted, SubmitFailed
  <2>4. ASSUME NEW w \in work, WriteLocal(w) \/ MarkFulfilling(w) \/ WriteFails(w)
        PROVE  notice' = notice \/ \E answer \in {"answered", "refused"} : Replied(w, answer)
    BY <2>4 DEF WriteLocal, StoreGoods, Deliver, LookBack, PutBack, MarkFulfilling, WriteFails,
                Finished
  <2> QED BY <2>1, <2>2, <2>3, <2>4 DEF ProcurementNext
<1> QED BY <1>1, <1>2, <1>3, <1>4

\* A status query begins, or ends.
LEMMA ProcurementPolls ==
  ASSUME IInv, ProcurementNext, NEW p \in LocalOrders
  PROVE  poll'[p] = poll[p] \/ poll'[p].status = "none"
<1>1. Idle.status = "none" BY DEF Idle
<1>2. \A q, k, n : Asked(q, k, n).status = "none" BY DEF Asked
<1>3. ASSUME NEW o \in LocalOrders, BeginPoll(o) \/ BeginSync(o)
      PROVE  \/ poll' = poll
             \/ \E k, n : poll' = [poll EXCEPT ![o] = Asked(o, k, n)]
  BY <1>3 DEF BeginPoll, BeginSync
<1>4. ASSUME NEW o \in LocalOrders, PollUnanswered(o) \/ EndPoll(o)
      PROVE  poll' = [poll EXCEPT ![o] = Idle]
  BY <1>4 DEF PollUnanswered, EndPoll
<1>5. ASSUME NEW o \in LocalOrders,
             \/ CreateForOrder(o) \/ SubmitToUpstream(o) \/ SubmitInvalid(o) \/ SubmitRejected(o)
             \/ RetryManual(o) \/ CancelManual(o)
             \/ \E what \in {"retry", "cancel"} : BeginManual(o, what)
      PROVE  poll' = poll
  BY <1>5 DEF CreateForOrder, SubmitToUpstream, SubmitInvalid, SubmitRejected, RetryManual,
              CancelManual, BeginManual
<1>6. ASSUME NEW i \in Attempts, SubmitAccepted(i) \/ SubmitFailed(i) \/ ReceiveCallback(i)
      PROVE  poll' = poll
  BY <1>6 DEF SubmitAccepted, SubmitFailed, ReceiveCallback
<1>7. ASSUME NEW w \in work, WriteLocal(w) \/ MarkFulfilling(w) \/ WriteFails(w) PROVE poll' = poll
  BY <1>7 DEF WriteLocal, MarkFulfilling, WriteFails
<1>8. \/ poll' = poll
      \/ \E o \in LocalOrders : poll' = [poll EXCEPT ![o] = Idle]
      \/ \E o \in LocalOrders : \E k, n : poll' = [poll EXCEPT ![o] = Asked(o, k, n)]
  BY <1>3, <1>4, <1>5, <1>6, <1>7 DEF ProcurementNext
<1>9. DOMAIN poll = LocalOrders BY DEF IInv, ProcTypeOK
<1> QED BY <1>1, <1>2, <1>8, <1>9

\* No delivery at the upstream site is undone.
LEMMA StoredStays == UpstreamNext => handedOver \subseteq handedOver'
<1>1. ASSUME NEW u \in Attempts, \/ StoreDelivery(u) \/ SyncDelivery(u) \/ AnnounceDelivery(u)
                                 \/ DeliveryDies(u)
      PROVE  handedOver \subseteq handedOver'
  <2>1. PICK s \in {"stored", "synced", "done"} : delivery' = [delivery EXCEPT ![u] = s]
    BY <1>1 DEF StoreDelivery, SyncDelivery, AnnounceDelivery, DeliveryDies
  <2>2. ASSUME NEW v \in Attempts, delivery[v] # "none" PROVE delivery'[v] # "none"
    BY <2>1, <2>2
  <2> QED BY <2>2 DEF handedOver
<1>2. ASSUME NEW i \in Attempts, \/ ReceiveOrder(i) \/ CreateOrder(i) \/ CreateRef(i)
                                 \/ PayFromWallet(i) \/ HandlerDies(i) \/ ExpireOrder(i)
                                 \/ RefundUpstream(i) \/ MarkDelivered(i) \/ CancelByAdmin(i)
                                 \/ SendCallback(i) \/ CallbackAnswered(i) \/ CallbackFailed(i)
      PROVE  delivery' = delivery
  BY <1>2 DEF ReceiveOrder, CreateOrder, CreateRef, PayFromWallet, HandlerDies, ExpireOrder,
              RefundUpstream, MarkDelivered, CancelByAdmin, SendCallback, CallbackAnswered,
              CallbackFailed, upstreamVars
<1> QED BY <1>1, <1>2, SameDeliveries DEF UpstreamNext

\* An order becomes delivered when its goods are stored, or by an administrator's hand.
LEMMA SiteDelivers ==
  ASSUME IInv, UpstreamNext, ~Marked', NEW u \in Attempts, upstream'[u] = "delivered"
  PROVE  upstream[u] = "delivered" \/ u \in handedOver
<1> USE DEF IInv, UpTypeOK
<1>1. ASSUME NEW i \in Attempts, \/ CreateOrder(i) \/ CreateRef(i)
                                 \/ PayFromWallet(i) \/ HandlerDies(i) \/ ExpireOrder(i)
                                 \/ CancelByAdmin(i)
      PROVE  \/ upstream' = upstream
             \/ \E s \in {"pending_payment", "paid", "canceled"} : upstream' = [upstream EXCEPT ![i] = s]
  BY <1>1 DEF CreateOrder, CreateRef, PayFromWallet, HandlerDies, ExpireOrder, CancelByAdmin,
              upstreamVars
<1>2. ASSUME NEW i \in Attempts, RefundUpstream(i)
      PROVE  \E s \in {"partially_refunded", "refunded"} : upstream' = [upstream EXCEPT ![i] = s]
  BY <1>2, UpstreamAssumption DEF RefundUpstream
<1>3. ASSUME NEW i \in Attempts, \/ StoreDelivery(i) \/ AnnounceDelivery(i) \/ DeliveryDies(i)
                                 \/ SendCallback(i) \/ CallbackAnswered(i) \/ CallbackFailed(i)
      PROVE  upstream' = upstream
  BY <1>3 DEF StoreDelivery, AnnounceDelivery, DeliveryDies, SendCallback, CallbackAnswered,
              CallbackFailed
<1>4. ASSUME NEW i \in Attempts, ReceiveOrder(i) \/ SyncDelivery(i)
      PROVE  upstream' = upstream \/ \E v : upstream' = [upstream EXCEPT ![v] = Synced(v)]
  BY <1>4 DEF ReceiveOrder, SyncDelivery
<1>5. ASSUME NEW v, upstream' = [upstream EXCEPT ![v] = Synced(v)]
      PROVE  upstream[u] = "delivered" \/ u \in handedOver
  BY <1>5 DEF Synced
<1>6. ASSUME NEW i \in Attempts, MarkDelivered(i) PROVE FALSE
  BY <1>6, MarkingMarks DEF MarkDelivered
<1>7. \/ upstream' = upstream
      \/ \E i \in Attempts, s \in UpstreamStatuses \ {"delivered"} : upstream' = [upstream EXCEPT ![i] = s]
      \/ \E v : upstream' = [upstream EXCEPT ![v] = Synced(v)]
  BY <1>1, <1>2, <1>3, <1>4, <1>6 DEF UpstreamNext, UpstreamStatuses
<1> QED BY <1>5, <1>7

\* A callback tells of the order as it is.
LEMMA SiteTells ==
  ASSUME IInv, UpstreamNext, NEW u \in Attempts
  PROVE  \/ notice'[u] = notice[u] \/ notice'[u] = NoNotice
         \/ notice'[u].status = upstream[u] /\ notice'[u].goods = (u \in handedOver)
<1> USE DEF IInv, LinkTypeOK
<1>1. ASSUME NEW i \in Attempts, \/ ReceiveOrder(i) \/ CreateOrder(i) \/ CreateRef(i)
                                 \/ PayFromWallet(i) \/ HandlerDies(i) \/ ExpireOrder(i)
                                 \/ RefundUpstream(i) \/ MarkDelivered(i) \/ CancelByAdmin(i)
      PROVE  notice' = notice
  BY <1>1 DEF ReceiveOrder, CreateOrder, CreateRef, PayFromWallet, HandlerDies, ExpireOrder,
              RefundUpstream, MarkDelivered, CancelByAdmin, linkVars
<1>2. ASSUME NEW i \in Attempts, \/ StoreDelivery(i) \/ SyncDelivery(i) \/ AnnounceDelivery(i)
                                 \/ DeliveryDies(i)
      PROVE  notice' = notice
  BY <1>2 DEF StoreDelivery, SyncDelivery, AnnounceDelivery, DeliveryDies, linkVars
<1>3. ASSUME NEW v \in Attempts, CallbackAnswered(v) \/ CallbackFailed(v)
      PROVE  notice' = [notice EXCEPT ![v] = NoNotice]
  BY <1>3 DEF CallbackAnswered, CallbackFailed
<1>4. ASSUME NEW v \in Attempts, SendCallback(v)
      PROVE  \/ notice'[u] = notice[u]
             \/ notice'[u].status = upstream[u] /\ notice'[u].goods = (u \in handedOver)
  BY <1>4 DEF SendCallback
<1>5. \/ notice' = notice
      \/ \E v \in Attempts : notice' = [notice EXCEPT ![v] = NoNotice]
      \/ \E v \in Attempts : SendCallback(v)
  BY <1>1, <1>2, <1>3 DEF UpstreamNext
<1> QED BY <1>4, <1>5

\* No one is told of a delivery without goods as long as no one has made one.
LEMMA NextHonest == IInv /\ (Marked \/ Honest) /\ [Next]_supplyVars => (Marked \/ Honest)'
<1> SUFFICES ASSUME IInv, Marked \/ Honest, [Next]_supplyVars, ~Marked' PROVE Honest'
  OBVIOUS
<1>0. Honest BY MishapsStay
<1>1. CASE ProcurementNext /\ UNCHANGED upstreamVars
  <2>1. upstream' = upstream /\ handedOver' = handedOver
    BY <1>1, SameDeliveries DEF upstreamVars
  <2>2. \A u \in Attempts : notice'[u].status = "delivered" => notice'[u].goods
    BY <1>0, <1>1, ProcurementNotice DEF Honest
  <2>3. \A o \in LocalOrders : poll'[o].status = "delivered" => poll'[o].goods
    BY <1>0, <1>1, ProcurementPolls DEF Honest
  <2> QED BY <1>0, <2>1, <2>2, <2>3 DEF Honest
<1>2. CASE UpstreamNext /\ UNCHANGED procVars
  <2>1. poll' = poll BY <1>2 DEF procVars
  <2>2. \A u \in Attempts : upstream'[u] = "delivered" => u \in handedOver'
    BY <1>0, <1>2, StoredStays, SiteDelivers DEF Honest
  <2>3. NoNotice.status # "delivered" BY DEF NoNotice
  <2>4. \A u \in Attempts : notice'[u].status = "delivered" => notice'[u].goods
    <3> TAKE u \in Attempts
    <3>1. \/ notice'[u] = notice[u] \/ notice'[u] = NoNotice
          \/ notice'[u].status = upstream[u] /\ notice'[u].goods = (u \in handedOver)
      BY <1>2, SiteTells
    <3> QED BY <1>0, <2>3, <3>1 DEF Honest
  <2> QED BY <1>0, <2>1, <2>2, <2>4 DEF Honest
<1>3. ASSUME NEW o \in LocalOrders, AnswerPoll(o) PROVE Honest'
  <2>1. /\ delivery' = delivery /\ notice' = notice
        /\ upstream' = [upstream EXCEPT ![poll[o].found] = Synced(poll[o].found)]
    BY <1>3 DEF AnswerPoll, linkVars
  <2>2. handedOver' = handedOver BY <2>1, SameDeliveries
  <2> DEFINE s == Synced(poll[o].found)
             g == poll[o].found \in handedOver
             p == [poll[o] EXCEPT !.phase = "answered", !.status = s, !.goods = g]
  <2>3. poll[o] \in PollStep /\ poll[o].found \in Attempts
    BY <1>3 DEF AnswerPoll, IInv, ProcTypeOK, PollStep
  <2>4. s = "delivered" => g BY <1>0, <2>3 DEF Synced, Honest
  <2>5. poll' = [poll EXCEPT ![o] = p] BY <1>3 DEF AnswerPoll
  <2>6. p.status = "delivered" => p.goods
    <3> HIDE DEF s, g
    <3>1. p.status = s /\ p.goods = g BY <2>3 DEF PollStep
    <3> QED BY <2>4, <3>1
  <2>7. \A u \in Attempts : upstream'[u] = "delivered" => u \in handedOver'
    BY <1>0, <2>1, <2>2, <2>4 DEF Honest, IInv, UpTypeOK
  <2> HIDE DEF p
  <2>8. \A q \in LocalOrders : poll'[q] = IF q = o THEN p ELSE poll[q]
    BY <2>5 DEF IInv, ProcTypeOK
  <2> QED BY <1>0, <2>1, <2>6, <2>7, <2>8 DEF Honest
<1>4. ASSUME NEW o \in LocalOrders, AskCancel(o) PROVE Honest'
  <2>1. /\ delivery' = delivery /\ notice' = notice /\ poll' = poll
        /\ upstream' = [upstream EXCEPT ![proc[o].found] = "canceled"]
    BY <1>4 DEF AskCancel, procVars, linkVars
  <2>2. handedOver' = handedOver BY <2>1, SameDeliveries
  <2> QED BY <1>0, <2>1, <2>2 DEF Honest, IInv, UpTypeOK
<1>5. CASE (\E o \in LocalOrders : ShowProcurement(o)) \/ UNCHANGED supplyVars
  <2>1. upstream' = upstream /\ delivery' = delivery /\ notice' = notice /\ poll' = poll
    BY <1>5 DEF ShowProcurement, supplyVars, procVars, upstreamVars, linkVars
  <2>2. handedOver' = handedOver BY <2>1, SameDeliveries
  <2> QED BY <1>0, <2>1, <2>2 DEF Honest
<1> QED BY <1>1, <1>2, <1>3, <1>4, <1>5 DEF Next

\* Goods that are to be stored are still to be stored, or have been, unless the write
\* failed.
LEMMA StoreWaits ==
  ASSUME IInv, [Next]_supplyVars, ~Failed', NEW w \in work, w.step = "goods"
  PROVE  w \in work' \/ goods'[w.order] # NoUpstream
<1>1. CASE StoreGoods(w)
  <2>1. w.order \in LocalOrders /\ w.from \in Attempts
    BY DEF IInv, ProcTypeOK, Work, WorkOK, handedOver
  <2>2. w.from # NoUpstream BY <2>1, NoUpstreamIsNone
  <2> QED BY <1>1, <2>1, <2>2 DEF StoreGoods, GoodsAfter, IInv, ProcTypeOK
<1>2. ASSUME NEW v \in work, StoreGoods(v), v # w PROVE w \in work'
  BY <1>2 DEF StoreGoods, GoOn
<1>3. ASSUME NEW v \in work, Deliver(v) \/ LookBack(v) \/ PutBack(v) \/ MarkFulfilling(v)
      PROVE  w \in work'
  <2>1. v.step # "goods" BY <1>3 DEF Deliver, LookBack, PutBack, MarkFulfilling
  <2>2. work \ {v} \subseteq work'
    BY <1>3 DEF Deliver, LookBack, PutBack, MarkFulfilling, Finished, GoOn
  <2> QED BY <2>1, <2>2
<1>4. ASSUME NEW v \in work, WriteFails(v) PROVE FALSE
  BY <1>4, FailureFails DEF WriteFails
<1>5. ASSUME NEW o \in LocalOrders,
             \/ CreateForOrder(o) \/ SubmitToUpstream(o) \/ SubmitInvalid(o) \/ SubmitRejected(o)
             \/ BeginPoll(o) \/ BeginSync(o) \/ PollUnanswered(o)
      PROVE  work \subseteq work'
  BY <1>5 DEF CreateForOrder, SubmitToUpstream, SubmitInvalid, SubmitRejected, BeginPoll,
              BeginSync, PollUnanswered, Begin
<1>6. ASSUME NEW o \in LocalOrders, \/ EndPoll(o) \/ RetryManual(o) \/ CancelManual(o)
                                    \/ \E what \in {"retry", "cancel"} : BeginManual(o, what)
      PROVE  work \subseteq work'
  BY <1>6 DEF EndPoll, RetryManual, CancelManual, BeginManual, HandleUpstreamCallback, Begin
<1>7. ASSUME NEW i \in Attempts, SubmitAccepted(i) \/ SubmitFailed(i) \/ ReceiveCallback(i)
      PROVE  work \subseteq work'
  BY <1>7 DEF SubmitAccepted, SubmitFailed, ReceiveCallback, HandleUpstreamCallback, Begin
<1>8. CASE \/ UNCHANGED procVars \/ UNCHANGED supplyVars
           \/ \E o \in LocalOrders : AnswerPoll(o) \/ AskCancel(o) \/ ShowProcurement(o)
  BY <1>8 DEF AnswerPoll, AskCancel, ShowProcurement, supplyVars, procVars
<1> QED BY <1>1, <1>2, <1>3, <1>4, <1>5, <1>6, <1>7, <1>8 DEF Next, ProcurementNext, WriteLocal

\* A status other than "fulfilled" is written.
LEMMA OtherStatus ==
  ASSUME ProcTypeOK, NEW o \in LocalOrders, NEW s, NEW n, s # "fulfilled",
         \/ proc' = proc
         \/ proc' = [proc EXCEPT ![o].status = s]
         \/ proc' = [proc EXCEPT ![o] = [@ EXCEPT !.status = s, !.retry = n]]
  PROVE  \A p \in LocalOrders : proc'[p].status = "fulfilled" => proc[p].status = "fulfilled"
<1>1. proc[o] \in ProcRow BY DEF ProcTypeOK
<1>2. [proc[o] EXCEPT !.status = s].status = s /\ [proc[o] EXCEPT !.status = s, !.retry = n].status = s
  BY <1>1 DEF ProcRow
<1> QED BY <1>2 DEF ProcTypeOK

\* Order p has become fulfilled, and its goods are to be stored.
Fulfils(p) ==
  proc'[p].status = "fulfilled" =>
    proc[p].status = "fulfilled" \/ \E w \in work' : w.order = p /\ w.step = "goods"

\* Who fulfils a procurement goes on to store its goods.
LEMMA CallbackFulfils ==
  ASSUME ProcTypeOK, NEW by, NEW o \in LocalOrders, NEW s, NEW u, NEW given,
         s = "delivered" => given, HandleUpstreamCallback(by, o, s, u, given)
  PROVE  \A p \in LocalOrders : Fulfils(p)
<1>1. CASE s = "delivered"
  <2>1. /\ proc' = [proc EXCEPT ![o].status = "fulfilled"]
        /\ Begin(by, "goods", o, u)
    BY <1>1 DEF HandleUpstreamCallback, SetStatus
  <2> DEFINE new == [by |-> by, step |-> "goods", order |-> o, from |-> u]
  <2>2. new \in work' /\ new.order = o /\ new.step = "goods" BY <2>1 DEF Begin
  <2> HIDE DEF new
  <2>3. \A p \in LocalOrders : p # o => proc'[p] = proc[p] BY <2>1 DEF ProcTypeOK
  <2> QED BY <2>2, <2>3 DEF Fulfils
<1>2. CASE s # "delivered"
  <2>1. proc' = proc \/ (s # "fulfilled" /\ proc' = [proc EXCEPT ![o].status = s])
           \/ proc' = [proc EXCEPT ![o].status = "canceled"]
    BY <1>2 DEF HandleUpstreamCallback, SetStatus
  <2>2. "canceled" # "fulfilled" OBVIOUS
  <2> QED BY <2>1, <2>2, OtherStatus DEF Fulfils
<1> QED BY <1>1, <1>2

\* And nothing else makes a procurement fulfilled.
LEMMA StepFulfils ==
  ASSUME IInv, Honest, [Next]_supplyVars
  PROVE  \A p \in LocalOrders : Fulfils(p)
<1> DEFINE Same == \A p \in LocalOrders : proc'[p].status = "fulfilled" => proc[p].status = "fulfilled"
           All == \A p \in LocalOrders : Fulfils(p)
<1>0. Same => All BY DEF Fulfils
<1>1. ASSUME NEW u \in Attempts, ReceiveCallback(u) PROVE All
  <2>1. notice[u].phase # "idle" BY <1>1 DEF ReceiveCallback
  <2>2. u \in DOMAIN request BY <2>1 DEF IInv, UpstreamOK, RequestsOK
  <2>3. request[u].order \in LocalOrders BY <2>2, RequestTyped DEF IInv, Request
  <2>4. notice[u].status = "delivered" => notice[u].goods BY DEF Honest
  <2>5. ProcTypeOK BY DEF IInv
  <2> QED BY <1>1, <2>3, <2>4, <2>5, CallbackFulfils DEF ReceiveCallback
<1>2. ASSUME NEW o \in LocalOrders, RequeuePoll(o) PROVE Same
  BY <1>2, OtherStatus DEF RequeuePoll, IInv
<1>3. ASSUME NEW o \in LocalOrders, EndPoll(o) PROVE All
  <2>1. poll[o].status = "delivered" => poll[o].goods BY DEF Honest
  <2>2. CASE HandleUpstreamCallback(<<"query", o>>, o, poll[o].status, poll[o].found, poll[o].goods)
    <3>1. ProcTypeOK BY DEF IInv
    <3> QED BY <2>1, <2>2, <3>1, CallbackFulfils
  <2>3. CASE RequeuePoll(o) BY <1>0, <1>2, <2>3
  <2> QED BY <1>3, <2>2, <2>3 DEF EndPoll
<1>4. ASSUME NEW o \in LocalOrders, \/ CreateForOrder(o) \/ SubmitToUpstream(o) \/ SubmitInvalid(o)
                                    \/ SubmitRejected(o) \/ RetryManual(o) \/ CancelManual(o)
                                    \/ \E what \in {"retry", "cancel"} : BeginManual(o, what)
      PROVE  Same
  <2>1. \/ proc' = proc
        \/ \E s \in {"pending", "rejected", "canceled"} : proc' = [proc EXCEPT ![o].status = s]
        \/ proc' = [proc EXCEPT ![o] = [@ EXCEPT !.status = "pending", !.retry = 0]]
    BY <1>4 DEF CreateForOrder, SubmitToUpstream, SubmitInvalid, SubmitRejected, RetryManual,
                CancelManual, BeginManual, SetStatus
  <2> QED BY <2>1, OtherStatus DEF IInv
<1>5. ASSUME NEW o \in LocalOrders, BeginPoll(o) \/ BeginSync(o) \/ PollUnanswered(o) PROVE Same
  <2>1. proc' = proc \/ RequeuePoll(o) BY <1>5 DEF BeginPoll, BeginSync, PollUnanswered
  <2> QED BY <1>2, <2>1
<1>6. ASSUME NEW i \in Attempts, SubmitAccepted(i) PROVE Same
  <2>1. AcceptedRow(i).status # "fulfilled" BY DEF AcceptedRow
  <2> QED BY <1>6, <2>1 DEF SubmitAccepted, IInv, ProcTypeOK
<1>7. ASSUME NEW i \in Attempts, SubmitFailed(i) PROVE Same
  <2>1. i \in DOMAIN request BY <1>7 DEF SubmitFailed
  <2>2. request[i].order \in LocalOrders BY <2>1, RequestTyped DEF IInv, Request
  <2>3. \/ proc' = [proc EXCEPT ![request[i].order].status = "rejected"]
        \/ proc' = [proc EXCEPT ![request[i].order] =
                      [@ EXCEPT !.status = "failed", !.retry = request[i].retry + 1]]
    BY <1>7 DEF SubmitFailed, SetStatus
  <2> DEFINE o == request[i].order
             n == request[i].retry + 1
  <2>4. ProcTypeOK /\ "rejected" # "fulfilled" /\ "failed" # "fulfilled" BY DEF IInv
  <2>5. CASE proc' = [proc EXCEPT ![o].status = "rejected"] BY <2>2, <2>4, <2>5, OtherStatus
  <2>6. CASE proc' = [proc EXCEPT ![o] = [@ EXCEPT !.status = "failed", !.retry = n]]
    <3> HIDE DEF n
    <3> QED BY <2>2, <2>4, <2>6, OtherStatus
  <2> QED BY <2>3, <2>5, <2>6
<1>8. ASSUME NEW w \in work, WriteLocal(w) \/ MarkFulfilling(w) \/ WriteFails(w) PROVE Same
  BY <1>8 DEF WriteLocal, MarkFulfilling, WriteFails
<1>9. ASSUME NEW o \in LocalOrders, ShowProcurement(o) PROVE Same
  <2>1. PICK s \in {"partially_refunded", "refunded"} : proc' = [proc EXCEPT ![o].status = s]
    BY <1>9 DEF ShowProcurement, SetStatus
  <2> QED BY <2>1, OtherStatus DEF IInv
<1>10. ASSUME \/ UNCHANGED procVars \/ UNCHANGED supplyVars
              \/ \E o \in LocalOrders : AnswerPoll(o) \/ AskCancel(o)
       PROVE  Same
  BY <1>10 DEF AnswerPoll, AskCancel, supplyVars, procVars
<1> HIDE DEF Same, All
<1>11. All
  BY <1>0, <1>1, <1>3, <1>4, <1>5, <1>6, <1>7, <1>8, <1>9, <1>10 DEF Next, ProcurementNext
<1> QED BY <1>11 DEF All

\* A fulfilled procurement has brought its goods to the local order, whoever was first,
\* callback or poll, or the handler that is to store them is at work; unless a handler
\* failed, or an upstream order was marked delivered without goods (HandleUpstreamCallback).
THEOREM FulfilledMeansGoods == Spec => []FulfilledHasGoods
<1>1. Init => (Marked \/ Honest) /\ FulfilledHasGoods
  BY DEF Init, LinkInit, ProcurementInit, UpstreamInit, NoNotice, Idle, Honest, FulfilledHasGoods
<1>2. ASSUME IInv, Marked \/ Honest, FulfilledHasGoods, [Next]_supplyVars PROVE FulfilledHasGoods'
  <2> SUFFICES ASSUME ~Failed', ~Marked', NEW o \in LocalOrders, proc'[o].status = "fulfilled"
               PROVE  goods'[o] # NoUpstream \/ \E w \in work' : w.order = o /\ w.step = "goods"
    BY DEF FulfilledHasGoods, Failed, Marked
  <2>1. ~Failed /\ ~Marked /\ Honest BY <1>2, MishapsStay
  <2>2. goods[o] # NoUpstream => goods'[o] # NoUpstream
    BY <1>2, StepGives DEF Given, IInv, ProcTypeOK
  <2>3. \A w \in work : w.step = "goods" => w \in work' \/ goods'[w.order] # NoUpstream
    BY <1>2, StoreWaits
  <2>4. Fulfils(o) BY <1>2, <2>1, StepFulfils
  <2>5. CASE proc[o].status = "fulfilled"
    BY <1>2, <2>1, <2>2, <2>3, <2>5 DEF FulfilledHasGoods, Failed, Marked
  <2> QED BY <2>4, <2>5 DEF Fulfils
<1> QED BY <1>1, <1>2, SupplyInvariant, NextHonest, PTL DEF Spec

-----------------------------------------------------------------------------
(* Announcing deliveries.                                                   *)

\* The local order that upstream order u was bought for has goods.
Served(u) == goods[request[u].order] # NoUpstream

Unpaid == {"none", "pending_payment", "canceled"}

\* An order that is to be paid, or has been, has its row; and a delivery whose steps
\* are over shows.
Recorded(u) ==
  /\ u \in DOMAIN request /\ request[u].server = "noted" => HasRef(u)
  /\ upstream[u] \notin Unpaid => HasRef(u)
  /\ delivery[u] \in {"synced", "done"} => upstream[u] # "paid"

\* Who is told that an order is delivered is told its goods, if it has any.
Told(u) ==
  notice[u].status = "delivered" =>
    /\ upstream[u] \notin {"none", "pending_payment", "paid"}
    /\ u \in handedOver => notice[u].goods

\* An accepted callback has brought the goods it told of, and one that is handled is
\* going to, by the one handler it has.
Taken(u) ==
  /\ \A v, w \in work : v.by = <<"callback", u>> /\ w.by = <<"callback", u>> => v = w
  /\ notice[u].phase = "handling" /\ notice[u].status = "delivered" /\ notice[u].goods =>
       \/ Served(u)
       \/ \E w \in work : w.by = <<"callback", u>> /\ w.step = "goods" /\ w.order = request[u].order
  /\ notice[u].phase = "answered" /\ notice[u].status = "delivered" /\ notice[u].goods => Served(u)

\* News that a callback under way is too old to tell wait behind it.
Announced(u) ==
  upstream[u] = "delivered" /\ delivery[u] = "done" =>
    /\ notice[u].phase # "idle" /\ notice[u].status # "delivered" => noticeTasks[u] > 0
    /\ \/ Served(u)
       \/ noticeTasks[u] > 0 \/ notice[u].phase # "idle" \/ callback[u].state = "failed"

\* So it is for every upstream order while nothing has failed.
NewsOf(u) == Recorded(u) /\ Told(u) /\ Taken(u) /\ Announced(u)
News == \A u \in Attempts : NewsOf(u)

\* Only orders that were asked for are told of and handed over.
LEMMA KnownOrders ==
  ASSUME IInv, NEW u \in Attempts, \/ notice[u].phase # "idle" \/ upstream[u] # "none"
                                   \/ delivery[u] # "none"
  PROVE  u \in DOMAIN request /\ request[u].order \in LocalOrders
<1>1. u \in DOMAIN request BY DEF IInv, UpstreamOK, RequestsOK, handedOver
<1> QED BY <1>1, RequestTyped DEF IInv, Request

\* A handler of the upstream site touches its request, which stays for its order.
SameOrders ==
  /\ DOMAIN request' = DOMAIN request
  /\ \A u \in DOMAIN request : request'[u].order = request[u].order

\* A step that makes no news of u old: it neither queues nor drops a callback, and u is
\* delivered at most when its delivery is not over yet.
Quiet(u) ==
  /\ goods' = goods /\ work' = work /\ SameOrders
  /\ notice'[u] = notice[u] /\ callback'[u] = callback[u] /\ noticeTasks'[u] = noticeTasks[u]
  /\ u \in DOMAIN request /\ request'[u].server = "noted" => request[u].server = "noted" \/ HasRef(u)'
  /\ HasRef(u) => HasRef(u)'
  /\ upstream'[u] = "delivered" => upstream[u] \in {"paid", "delivered"}
  /\ upstream'[u] = "paid" => upstream[u] = "paid"
  /\ upstream'[u] \notin Unpaid => upstream[u] \notin Unpaid
  /\ upstream'[u] \in {"none", "pending_payment"} => upstream[u] \in {"none", "pending_payment"}
  /\ delivery'[u] = "done" => delivery[u] = "done"
  /\ delivery'[u] = "synced" => delivery[u] = "synced" \/ upstream'[u] # "paid"
  /\ u \in handedOver' => u \in handedOver \/ upstream[u] = "paid"

\* Its news are what they were.
LEMMA QuietNews ==
  ASSUME IInv, NEW u \in Attempts, NewsOf(u), Quiet(u)
  PROVE  NewsOf(u)'
<1>1. notice[u].phase # "idle" \/ delivery[u] = "done" => u \in DOMAIN request
  BY KnownOrders
<1>2. u \in DOMAIN request => (Served(u)' <=> Served(u)) BY DEF Quiet, SameOrders, Served
<1>3. Recorded(u)' BY DEF NewsOf, Recorded, Quiet, SameOrders
<1>4. Told(u)' BY DEF NewsOf, Told, Quiet
<1>5. Taken(u)'
  <2>1. \A v, w \in work' : v.by = <<"callback", u>> /\ w.by = <<"callback", u>> => v = w
    BY DEF NewsOf, Taken, Quiet
  <2>2. notice'[u].phase = "handling" /\ notice'[u].status = "delivered" /\ notice'[u].goods =>
          \/ Served(u)'
          \/ \E w \in work' : w.by = <<"callback", u>> /\ w.step = "goods" /\ w.order = request'[u].order
    BY <1>1, <1>2 DEF NewsOf, Taken, Quiet, SameOrders
  <2>3. notice'[u].phase = "answered" /\ notice'[u].status = "delivered" /\ notice'[u].goods => Served(u)'
    BY <1>1, <1>2 DEF NewsOf, Taken, Quiet
  <2> QED BY <2>1, <2>2, <2>3 DEF Taken
<1>6. Announced(u)'
  <2> SUFFICES ASSUME upstream'[u] = "delivered", delivery'[u] = "done" PROVE Announced(u)'
    BY DEF Announced
  <2>1. delivery[u] = "done" /\ upstream[u] = "delivered"
    BY DEF Quiet, NewsOf, Recorded
  <2> QED BY <1>1, <1>2, <2>1 DEF NewsOf, Announced, Quiet
<1> QED BY <1>3, <1>4, <1>5, <1>6 DEF NewsOf

\* A step that touches only the status of orders makes no news old, unless it pays or
\* delivers one.
LEMMA StatusQuiet ==
  ASSUME IInv, goods' = goods, work' = work, request' = request, notice' = notice,
         callback' = callback, noticeTasks' = noticeTasks, delivery' = delivery, refs' = refs,
         NEW u \in Attempts,
         \/ upstream'[u] = upstream[u]
         \/ upstream[u] = "paid" /\ upstream'[u] = "delivered"
         \/ upstream'[u] = "canceled"
         \/ upstream'[u] \in {"partially_refunded", "refunded"} /\ upstream[u] \notin Unpaid
  PROVE  Quiet(u)
<1>1. SameOrders BY DEF SameOrders
<1>2. handedOver' = handedOver BY SameDeliveries
<1>3. HasRef(u)' = HasRef(u) BY DEF HasRef
<1> QED BY <1>1, <1>2, <1>3 DEF Quiet, Unpaid

\* A handler of the upstream site goes on with its request, which it may answer.
GoesOn(i, s, a, f) ==
  \/ request' = [request EXCEPT ![i].server = s]
  \/ request' = [request EXCEPT ![i] = [@ EXCEPT !.server = s, !.answer = a]]
  \/ request' = [request EXCEPT ![i] = [@ EXCEPT !.server = s, !.answer = a, !.found = f]]

\* The request stays for its order, and no other is touched.
LEMMA ServerMoves ==
  ASSUME LinkTypeOK, NEW i \in DOMAIN request, NEW s, NEW a, NEW f, GoesOn(i, s, a, f)
  PROVE  /\ SameOrders
         /\ \A u \in DOMAIN request : request'[u].server = IF u = i THEN s ELSE request[u].server
<1>1. request[i] \in Request BY RequestTyped
<1>2. PICK r : request' = [request EXCEPT ![i] = r] /\ r.order = request[i].order /\ r.server = s
  <2>1. CASE request' = [request EXCEPT ![i].server = s]
    <3> DEFINE r == [request[i] EXCEPT !.server = s]
    <3>1. r.order = request[i].order /\ r.server = s BY <1>1 DEF Request
    <3> QED BY <2>1, <3>1
  <2>2. CASE request' = [request EXCEPT ![i] = [@ EXCEPT !.server = s, !.answer = a]]
    <3> DEFINE r == [request[i] EXCEPT !.server = s, !.answer = a]
    <3>1. r.order = request[i].order /\ r.server = s BY <1>1 DEF Request
    <3> QED BY <2>2, <3>1
  <2>3. CASE request' = [request EXCEPT ![i] = [@ EXCEPT !.server = s, !.answer = a, !.found = f]]
    <3> DEFINE r == [request[i] EXCEPT !.server = s, !.answer = a, !.found = f]
    <3>1. r.order = request[i].order /\ r.server = s BY <1>1 DEF Request
    <3> QED BY <2>3, <3>1
  <2> QED BY <2>1, <2>2, <2>3 DEF GoesOn
<1>3. \A u \in DOMAIN request : request'[u] = IF u = i THEN r ELSE request[u]
  BY <1>2, SentAreAttempts DEF LinkTypeOK
<1>4. DOMAIN request' = DOMAIN request BY <1>2
<1> QED BY <1>2, <1>3, <1>4 DEF SameOrders

\* A handler that looks for the order, or creates it.
LEMMA HandlerQuiet ==
  ASSUME IInv, NEW i \in Attempts, ReceiveOrder(i) \/ CreateOrder(i), UNCHANGED procVars,
         NEW u \in Attempts
  PROVE  Quiet(u)
<1>1. i \in DOMAIN request /\ (CreateOrder(i) => upstream[i] = "none")
  BY DEF ReceiveOrder, CreateOrder, IInv, RequestsOK, HandlerOK
<1>2. PICK s \in {"checked", "ordered", "done"} : \E a, f : GoesOn(i, s, a, f)
  BY DEF ReceiveOrder, CreateOrder, GoesOn
<1>3. SameOrders /\ (u \in DOMAIN request /\ request'[u].server = "noted" => request[u].server = "noted")
  <2>1. LinkTypeOK BY DEF IInv
  <2>2. /\ SameOrders
        /\ \A v \in DOMAIN request : request'[v].server = IF v = i THEN s ELSE request[v].server
    <3>1. PICK a, f : GoesOn(i, s, a, f) BY <1>2
    <3> QED BY <1>1, <2>1, <3>1, ServerMoves
  <2> QED BY <1>2, <2>2
<1>4. /\ notice' = notice /\ callback' = callback /\ noticeTasks' = noticeTasks
      /\ delivery' = delivery /\ goods' = goods /\ refs' = refs /\ work' = work
  BY DEF ReceiveOrder, CreateOrder, procVars, localVars
<1>5. handedOver' = handedOver BY <1>4, SameDeliveries
<1>6. HasRef(u)' = HasRef(u) BY <1>4 DEF HasRef
<1>7. \/ upstream'[u] = upstream[u]
      \/ upstream[u] = "paid" /\ upstream'[u] = "delivered"
      \/ upstream[u] = "none" /\ upstream'[u] = "pending_payment"
  <2>1. CASE ReceiveOrder(i)
    <3>1. upstream' = upstream \/ \E v : upstream' = [upstream EXCEPT ![v] = Synced(v)]
      BY <2>1 DEF ReceiveOrder
    <3> QED BY <3>1 DEF Synced, IInv, UpTypeOK
  <2>2. CASE CreateOrder(i)
    <3>1. upstream' = upstream \/ upstream' = [upstream EXCEPT ![i] = "pending_payment"]
      BY <2>2 DEF CreateOrder
    <3> QED BY <1>1, <2>2, <3>1 DEF IInv, UpTypeOK
  <2> QED BY <2>1, <2>2
<1> QED BY <1>3, <1>4, <1>5, <1>6, <1>7 DEF Quiet, Unpaid

\* A row more is a row more.
LEMMA MoreRefs ==
  ASSUME UpTypeOK, NEW i \in Attempts, refs' = Append(refs, i)
  PROVE  HasRef(i)' /\ \A u : HasRef(u) => HasRef(u)'
<1>1. refs \in Seq(Attempts) BY DEF UpTypeOK
<1>2. /\ refs' \in Seq(Attempts) /\ Len(refs') = Len(refs) + 1
      /\ \A n \in 1..Len(refs) : refs'[n] = refs[n]
      /\ refs'[Len(refs) + 1] = i
  BY <1>1, AppendProperties
<1>3. DOMAIN refs' = 1..Len(refs') /\ DOMAIN refs = 1..Len(refs) /\ Len(refs) \in Nat
  BY <1>1, <1>2
<1>4. \E n \in DOMAIN refs' : refs'[n] = i BY <1>2, <1>3
<1>5. ASSUME NEW u, HasRef(u) PROVE \E n \in DOMAIN refs' : refs'[n] = u
  BY <1>2, <1>3, <1>5 DEF HasRef
<1> QED BY <1>4, <1>5 DEF HasRef

\* The order has its row before it is paid.
LEMMA CreateRefQuiet ==
  ASSUME IInv, NEW i \in Attempts, CreateRef(i), UNCHANGED procVars, ~Failed',
         NEW u \in Attempts
  PROVE  Quiet(u)
<1>1. i \in DOMAIN request BY DEF CreateRef
<1>2. /\ SameOrders
      /\ \A v \in DOMAIN request : request'[v].server = IF v = i THEN "noted" ELSE request[v].server
  <2>1. GoesOn(i, "noted", "none", NoUpstream) BY DEF CreateRef, GoesOn
  <2>2. LinkTypeOK BY DEF IInv
  <2> QED BY <1>1, <2>1, <2>2, ServerMoves
<1>3. ~Fail BY FailureFails
<1>4. HasRef(i)' /\ \A v : HasRef(v) => HasRef(v)'
  BY <1>3, MoreRefs DEF CreateRef, IInv
<1>5. /\ notice' = notice /\ callback' = callback /\ noticeTasks' = noticeTasks
      /\ delivery' = delivery /\ goods' = goods /\ work' = work /\ upstream' = upstream
  BY DEF CreateRef, procVars, localVars
<1>6. handedOver' = handedOver BY <1>5, SameDeliveries
<1>7. u \in DOMAIN request /\ request'[u].server = "noted" => request[u].server = "noted" \/ HasRef(u)'
  BY <1>2, <1>4
<1> QED BY <1>2, <1>4, <1>5, <1>6, <1>7 DEF Quiet

\* An order that times out, or is canceled, refunded or marked delivered.
LEMMA OrderQuiet ==
  ASSUME IInv, NEW v \in Attempts,
         ExpireOrder(v) \/ RefundUpstream(v) \/ MarkDelivered(v) \/ CancelByAdmin(v),
         UNCHANGED procVars, NEW u \in Attempts
  PROVE  Quiet(u)
<1>1. /\ goods' = goods /\ work' = work /\ request' = request /\ notice' = notice
      /\ callback' = callback /\ noticeTasks' = noticeTasks /\ delivery' = delivery /\ refs' = refs
  BY DEF ExpireOrder, RefundUpstream, MarkDelivered, CancelByAdmin, procVars, localVars, linkVars
<1>2. \/ upstream' = [upstream EXCEPT ![v] = "canceled"]
      \/ upstream[v] = "paid" /\ upstream' = [upstream EXCEPT ![v] = "delivered"]
      \/ /\ upstream[v] \notin Unpaid
         /\ \E s \in {"partially_refunded", "refunded"} : upstream' = [upstream EXCEPT ![v] = s]
  BY UpstreamAssumption DEF ExpireOrder, RefundUpstream, MarkDelivered, CancelByAdmin, Unpaid
<1>3. \/ upstream'[u] = upstream[u]
      \/ upstream[u] = "paid" /\ upstream'[u] = "delivered"
      \/ upstream'[u] = "canceled"
      \/ upstream'[u] \in {"partially_refunded", "refunded"} /\ upstream[u] \notin Unpaid
  BY <1>2 DEF IInv, UpTypeOK
<1> QED BY <1>1, <1>3, StatusQuiet

\* A delivery that is stored, or shown.
LEMMA DeliveryQuiet ==
  ASSUME IInv, NEW v \in Attempts, StoreDelivery(v) \/ SyncDelivery(v),
         UNCHANGED procVars, NEW u \in Attempts
  PROVE  Quiet(u)
<1>1. /\ goods' = goods /\ work' = work /\ request' = request /\ notice' = notice
      /\ callback' = callback /\ noticeTasks' = noticeTasks /\ refs' = refs
  BY DEF StoreDelivery, SyncDelivery, procVars, localVars, linkVars
<1>2. SameOrders /\ HasRef(u)' = HasRef(u) BY <1>1 DEF SameOrders, HasRef
<1>3. CASE StoreDelivery(v)
  <2>1. /\ upstream' = upstream /\ upstream[v] = "paid" /\ delivery'[v] = "stored"
        /\ \A x \in Attempts : x # v => delivery'[x] = delivery[x]
    BY <1>3 DEF StoreDelivery, IInv, UpTypeOK
  <2>2. u \in handedOver' => u \in handedOver \/ u = v BY <2>1 DEF handedOver
  <2> QED BY <1>1, <1>2, <2>1, <2>2 DEF Quiet
<1>4. CASE SyncDelivery(v)
  <2>1. /\ delivery[v] = "stored" /\ delivery'[v] = "synced" /\ upstream'[v] = Synced(v)
        /\ \A x \in Attempts : x # v => delivery'[x] = delivery[x] /\ upstream'[x] = upstream[x]
    BY <1>4 DEF SyncDelivery, IInv, UpTypeOK
  <2>2. handedOver' = handedOver BY <2>1 DEF handedOver
  <2>3. \/ upstream'[u] = upstream[u] /\ (u = v => upstream'[u] # "paid")
        \/ upstream[u] = "paid" /\ upstream'[u] = "delivered"
    <3>1. v \in handedOver BY <2>1 DEF handedOver
    <3> QED BY <2>1, <3>1 DEF Synced
  <2>4. delivery'[u] = "done" => delivery[u] = "done" BY <2>1
  <2>5. delivery'[u] = "synced" => delivery[u] = "synced" \/ upstream'[u] # "paid" BY <2>1, <2>3
  <2> QED BY <1>1, <1>2, <2>2, <2>3, <2>4, <2>5 DEF Quiet, Unpaid
<1> QED BY <1>3, <1>4

\* With a row and a queue that works, a callback is queued.
LEMMA Enqueued ==
  ASSUME UpTypeOK, MaxNotices # 0, NEW u \in Attempts, EnqueueCallback(u, TRUE), HasRef(u)
  PROVE  /\ noticeTasks'[u] > 0
         /\ \A v \in Attempts : v # u => noticeTasks'[v] = noticeTasks[v] /\ callback'[v] = callback[v]
<1>1. MaxNotices \in Nat BY UpstreamAssumption
<1>2. /\ noticeTasks' = [noticeTasks EXCEPT ![u] = IF @ < MaxNotices THEN @ + 1 ELSE @]
      /\ callback' = [callback EXCEPT ![u] =
                        IF @.state = "pending" THEN @ ELSE [state |-> "pending", retry |-> 0]]
  BY DEF EnqueueCallback
<1>3. noticeTasks[u] \in Nat /\ u \in DOMAIN noticeTasks BY DEF UpTypeOK
<1>4. noticeTasks'[u] = IF noticeTasks[u] < MaxNotices THEN noticeTasks[u] + 1 ELSE noticeTasks[u]
  BY <1>2, <1>3
<1>5. noticeTasks'[u] > 0 BY <1>1, <1>3, <1>4
<1>6. \A v \in Attempts : v # u => noticeTasks'[v] = noticeTasks[v] /\ callback'[v] = callback[v]
  BY <1>2
<1> QED BY <1>5, <1>6

\* An order that a step leaves alone.
LEMMA AloneQuiet ==
  ASSUME IInv, NEW u \in Attempts, goods' = goods, work' = work, SameOrders, refs' = refs,
         notice'[u] = notice[u], callback'[u] = callback[u], noticeTasks'[u] = noticeTasks[u],
         upstream'[u] = upstream[u], delivery'[u] = delivery[u],
         u \in DOMAIN request => request'[u].server = request[u].server
  PROVE  Quiet(u)
<1>1. u \in handedOver' <=> u \in handedOver BY DEF handedOver
<1>2. HasRef(u)' = HasRef(u) BY DEF HasRef
<1> QED BY <1>1, <1>2 DEF Quiet

\* The order is paid, or canceled for want of money.
LEMMA PayFromWalletNews ==
  ASSUME IInv, News, NEW i \in Attempts, PayFromWallet(i), UNCHANGED procVars, ~Failed',
         MaxNotices # 0
  PROVE  News'
<1>1. i \in DOMAIN request /\ request[i].server = "noted" BY DEF PayFromWallet
<1>2. PICK a, f : GoesOn(i, "done", a, f) BY DEF PayFromWallet, GoesOn
<1>3. /\ SameOrders
      /\ \A u \in DOMAIN request : request'[u].server = IF u = i THEN "done" ELSE request[u].server
  <2>1. LinkTypeOK BY DEF IInv
  <2> QED BY <1>1, <1>2, <2>1, ServerMoves
<1>4. HasRef(i) /\ NewsOf(i) BY <1>1 DEF News, NewsOf, Recorded
<1>5. ~Fail BY FailureFails
<1>6. /\ notice' = notice /\ delivery' = delivery /\ goods' = goods /\ refs' = refs /\ work' = work
      /\ \/ upstream[i] = "pending_payment" /\ upstream' = [upstream EXCEPT ![i] = "paid"]
         \/ upstream' = [upstream EXCEPT ![i] = "canceled"]
  BY DEF PayFromWallet, procVars, localVars
<1>7. \A v \in Attempts : v # i => noticeTasks'[v] = noticeTasks[v] /\ callback'[v] = callback[v]
  <2>1. CASE UNCHANGED <<callback, noticeTasks>> BY <2>1
  <2>2. CASE EnqueueCallback(i, TRUE)
    <3>1. UpTypeOK BY DEF IInv
    <3> QED BY <1>4, <2>2, <3>1, Enqueued
  <2> QED BY <1>5, <2>1, <2>2 DEF PayFromWallet
<1>8. /\ \A v \in Attempts : v # i => upstream'[v] = upstream[v]
      /\ \/ upstream'[i] = "canceled"
         \/ upstream[i] = "pending_payment" /\ upstream'[i] = "paid"
  BY <1>6 DEF IInv, UpTypeOK
<1>9. ASSUME NEW u \in Attempts, u # i PROVE NewsOf(u)'
  <2>1. u \in DOMAIN request => request'[u].server = request[u].server BY <1>3, <1>9
  <2>2. Quiet(u) BY <1>3, <1>6, <1>7, <1>8, <1>9, <2>1, AloneQuiet
  <2>3. NewsOf(u) BY DEF News
  <2> QED BY <2>2, <2>3, QuietNews
<1>10. NewsOf(i)'
  <2>1. HasRef(i)' /\ handedOver' = handedOver BY <1>4, <1>6, SameDeliveries DEF HasRef
  <2>2. upstream[i] = "pending_payment" => i \notin handedOver BY DEF IInv, UpstreamOK
  <2>3. Recorded(i)' BY <1>4, <1>6, <1>8, <2>1, <2>2 DEF Recorded, handedOver
  <2>4. Told(i)' BY <1>4, <1>6, <1>8, <2>1 DEF NewsOf, Told
  <2>5. Taken(i)'
    <3>1. request'[i].order = request[i].order BY <1>1, <1>3 DEF SameOrders
    <3> QED BY <1>4, <1>6, <3>1 DEF NewsOf, Taken, Served
  <2>6. Announced(i)' BY <1>8 DEF Announced
  <2> QED BY <2>3, <2>4, <2>5, <2>6 DEF NewsOf
<1> QED BY <1>9, <1>10 DEF News

\* A delivery is announced.
LEMMA AnnounceNews ==
  ASSUME IInv, News, NEW u \in Attempts, AnnounceDelivery(u), UNCHANGED procVars, ~Failed',
         MaxNotices # 0
  PROVE  News'
<1>1. ~Fail BY FailureFails
<1>2. /\ EnqueueCallback(u, TRUE) /\ delivery[u] = "synced" /\ delivery' = [delivery EXCEPT ![u] = "done"]
      /\ upstream' = upstream /\ refs' = refs /\ request' = request /\ notice' = notice
      /\ goods' = goods /\ work' = work
  BY <1>1 DEF AnnounceDelivery, procVars, localVars
<1>3. SameOrders BY <1>2 DEF SameOrders
<1>4. delivery'[u] = "done" /\ \A v \in Attempts : v # u => delivery'[v] = delivery[v]
  BY <1>2 DEF IInv, UpTypeOK
<1>5. \A v \in Attempts : v # u => noticeTasks'[v] = noticeTasks[v] /\ callback'[v] = callback[v]
  BY <1>2 DEF EnqueueCallback, IInv, UpTypeOK
<1>6. ASSUME NEW v \in Attempts, v # u PROVE NewsOf(v)'
  <2>1. Quiet(v) BY <1>2, <1>3, <1>4, <1>5, <1>6, AloneQuiet
  <2>2. NewsOf(v) BY DEF News
  <2> QED BY <2>1, <2>2, QuietNews
<1>7. NewsOf(u)'
  <2>0. NewsOf(u) BY DEF News
  <2>1. HasRef(u)' = HasRef(u) BY <1>2 DEF HasRef
  <2>2. u \in handedOver' <=> u \in handedOver BY <1>2, <1>4 DEF handedOver
  <2>3. Recorded(u)' BY <1>2, <1>4, <2>0, <2>1 DEF NewsOf, Recorded
  <2>4. Told(u)' BY <1>2, <2>0, <2>2 DEF NewsOf, Told
  <2>5. Taken(u)' BY <1>2, <2>0 DEF NewsOf, Taken, Served
  <2>6. Announced(u)'
    <3> SUFFICES ASSUME upstream[u] = "delivered" PROVE noticeTasks'[u] > 0
      BY <1>2 DEF Announced
    <3>1. HasRef(u) BY <2>0 DEF NewsOf, Recorded, Unpaid
    <3>2. UpTypeOK BY DEF IInv
    <3> QED BY <1>2, <3>1, <3>2, Enqueued
  <2> QED BY <2>3, <2>4, <2>5, <2>6 DEF NewsOf
<1> QED BY <1>6, <1>7 DEF News

\* A callback that is sent tells of the order as it is; an accepted one has brought the
\* goods, or newer news wait; one that failed is sent again or given up.
LEMMA CallbackNews ==
  ASSUME IInv, News, NEW u \in Attempts,
         SendCallback(u) \/ CallbackAnswered(u) \/ CallbackFailed(u), UNCHANGED procVars
  PROVE  News'
<1>1. /\ upstream' = upstream /\ delivery' = delivery /\ refs' = refs /\ request' = request
      /\ goods' = goods /\ work' = work
  BY DEF SendCallback, CallbackAnswered, CallbackFailed, procVars, localVars
<1>2. SameOrders /\ handedOver' = handedOver BY <1>1, SameDeliveries DEF SameOrders
<1>3. \A v \in Attempts : v # u => /\ notice'[v] = notice[v] /\ callback'[v] = callback[v]
                                   /\ noticeTasks'[v] = noticeTasks[v]
  BY DEF SendCallback, CallbackAnswered, CallbackFailed, IInv, LinkTypeOK, UpTypeOK
<1>4. ASSUME NEW v \in Attempts, v # u PROVE NewsOf(v)'
  <2>1. Quiet(v) BY <1>1, <1>2, <1>3, <1>4, AloneQuiet
  <2>2. NewsOf(v) BY DEF News
  <2> QED BY <2>1, <2>2, QuietNews
<1>5. NewsOf(u)'
  <2>0. NewsOf(u) BY DEF News
  <2>1. \/ /\ SendCallback(u) /\ notice'[u].phase = "sent" /\ notice'[u].status = upstream[u]
           /\ notice'[u].goods = (u \in handedOver)
        \/ /\ CallbackAnswered(u) \/ CallbackFailed(u)
           /\ notice'[u] = NoNotice
    BY DEF SendCallback, CallbackAnswered, CallbackFailed, IInv, LinkTypeOK
  <2>2. NoNotice.phase = "idle" /\ NoNotice.status = "none" BY DEF NoNotice
  <2>3. Recorded(u)' BY <1>1, <2>0 DEF NewsOf, Recorded, HasRef
  <2>4. Told(u)' BY <1>1, <1>2, <2>1, <2>2 DEF Told
  <2>5. Taken(u)' BY <1>1, <2>0, <2>1, <2>2 DEF NewsOf, Taken
  <2>6. Announced(u)'
    <3>1. CASE SendCallback(u)
      <4>1. notice'[u].phase = "sent" /\ notice'[u].status = upstream[u]
        BY <2>1, <3>1 DEF SendCallback, CallbackAnswered, CallbackFailed
      <4>2. notice'[u].phase # "idle" BY <4>1
      <4> QED BY <1>1, <4>1, <4>2 DEF Announced
    <3>2. CASE CallbackAnswered(u) \/ CallbackFailed(u)
      <4>1. notice'[u].phase = "idle" BY <2>1, <2>2, <3>2 DEF SendCallback, CallbackAnswered, CallbackFailed
      <4> SUFFICES ASSUME upstream[u] = "delivered", delivery[u] = "done"
                   PROVE  Served(u) \/ noticeTasks'[u] > 0 \/ callback'[u].state = "failed"
        BY <1>1, <4>1 DEF Announced, Served
      <4>2. CASE CallbackAnswered(u)
        <5>1. /\ notice[u].phase = "answered" /\ noticeTasks' = noticeTasks /\ u \in handedOver
          BY <4>2 DEF CallbackAnswered, handedOver
        <5>2. CASE notice[u].status = "delivered" BY <2>0, <5>1, <5>2 DEF NewsOf, Told, Taken
        <5>3. CASE notice[u].status # "delivered" BY <2>0, <5>1, <5>3 DEF NewsOf, Announced
        <5> QED BY <5>2, <5>3
      <4>3. CASE CallbackFailed(u)
        <5> DEFINE tries == notice[u].retry + 1
                   givenUp == tries >= MaxCallbackRetries
        <5>1. /\ callback' = [callback EXCEPT ![u] =
                                [state |-> IF givenUp THEN "failed" ELSE notice[u].state, retry |-> tries]]
              /\ noticeTasks' = [noticeTasks EXCEPT ![u] = IF givenUp THEN @ ELSE @ + 1]
          BY <4>3 DEF CallbackFailed
        <5> HIDE DEF givenUp
        <5>2. CASE givenUp BY <5>1, <5>2 DEF IInv, UpTypeOK
        <5>3. CASE ~givenUp BY <5>1, <5>3 DEF IInv, UpTypeOK
        <5> QED BY <5>2, <5>3
      <4> QED BY <3>2, <4>2, <4>3
    <3> QED BY <3>1, <3>2
  <2> QED BY <2>3, <2>4, <2>5, <2>6 DEF NewsOf
<1> QED BY <1>4, <1>5 DEF News

\* The buying site sends requests and closes them; their handlers do not notice.
LEMMA BuyingRequests ==
  ASSUME IInv, ProcurementNext, UNCHANGED upstreamVars
  PROVE  /\ \A u \in DOMAIN request :
              /\ u \in DOMAIN request'
              /\ request'[u].order = request[u].order /\ request'[u].server = request[u].server
         /\ \A u \in DOMAIN request' \ DOMAIN request : request'[u].server = "unread"
<1>1. CASE request' = request BY <1>1
<1>2. ASSUME NEW i \in DOMAIN request, request' = [request EXCEPT ![i] = Closed(@)]
      PROVE  /\ DOMAIN request' = DOMAIN request
             /\ \A u \in DOMAIN request :
                  request'[u].order = request[u].order /\ request'[u].server = request[u].server
  <2>1. LinkTypeOK BY DEF IInv
  <2>2. Moves(i, Closed(request[i])) /\ Closed(request[i]).server = request[i].server
    BY <1>2, <2>1, ClosedMoves DEF Handled
  <2> QED BY <2>1, <2>2, RequestMoves
<1>3. ASSUME NEW o \in LocalOrders, SubmitToUpstream(o)
      PROVE  /\ \A u \in DOMAIN request : u \in DOMAIN request' /\ request'[u] = request[u]
             /\ \A u \in DOMAIN request' \ DOMAIN request : request'[u].server = "unread"
  <2> DEFINE r == [order |-> o, client |-> "waiting", retry |-> proc[o].retry,
                   server |-> "unread", answer |-> "none", found |-> NoUpstream]
  <2>1. Sends(r) /\ r.server = "unread"
    BY <1>3 DEF SubmitToUpstream, Sends, Request, IInv, ProcTypeOK, ProcRow
  <2> HIDE DEF r
  <2> QED BY <2>1, RequestSent DEF IInv
<1>4. ASSUME NEW i \in Attempts, SubmitAccepted(i) \/ SubmitFailed(i)
      PROVE  i \in DOMAIN request /\ request' = [request EXCEPT ![i] = Closed(@)]
  BY <1>4 DEF SubmitAccepted, SubmitFailed
<1>5. ASSUME NEW o \in LocalOrders,
             \/ CreateForOrder(o) \/ SubmitInvalid(o) \/ SubmitRejected(o)
             \/ BeginPoll(o) \/ BeginSync(o) \/ PollUnanswered(o) \/ EndPoll(o)
      PROVE  request' = request
  BY <1>5 DEF CreateForOrder, SubmitInvalid, SubmitRejected, BeginPoll, BeginSync,
              PollUnanswered, EndPoll, linkVars
<1>6. ASSUME NEW o \in LocalOrders,
             \/ RetryManual(o) \/ CancelManual(o)
             \/ \E what \in {"retry", "cancel"} : BeginManual(o, what)
      PROVE  request' = request
  BY <1>6 DEF RetryManual, CancelManual, BeginManual, linkVars
<1>7. ASSUME NEW w \in work, WriteLocal(w) \/ MarkFulfilling(w) \/ WriteFails(w)
      PROVE  request' = request
  BY <1>7 DEF WriteLocal, MarkFulfilling, WriteFails
<1>8. ASSUME NEW i \in Attempts, ReceiveCallback(i) PROVE request' = request
  BY <1>8 DEF ReceiveCallback
<1> QED BY <1>1, <1>2, <1>3, <1>4, <1>5, <1>6, <1>7, <1>8 DEF ProcurementNext

\* How far the handling of a callback comes: it is received, or its handler is done.
Done(u) ==
  /\ notice[u].phase = "handling" /\ notice'[u].phase = "answered"
  /\ \E w \in work : w.by = <<"callback", u>> /\ w.step # "goods"

\* Nothing else changes it.
LEMMA ProcurementPhase ==
  ASSUME IInv, ProcurementNext, ~Failed', NEW u \in Attempts
  PROVE  notice'[u].phase = notice[u].phase \/ ReceiveCallback(u) \/ Done(u)
<1>1. ASSUME NEW w \in work, Deliver(w) \/ LookBack(w) \/ PutBack(w) \/ MarkFulfilling(w)
      PROVE  notice'[u].phase = notice[u].phase \/ Done(u)
  <2>1. w.step # "goods" BY <1>1 DEF Deliver, LookBack, PutBack, MarkFulfilling
  <2>2. CASE notice' = notice BY <2>2
  <2>3. CASE Replied(w, "answered")
    <3>1. LinkTypeOK BY DEF IInv
    <3>2. \/ notice'[u].phase = notice[u].phase
          \/ /\ notice[u].phase = "handling" /\ w.by = <<"callback", u>>
             /\ notice'[u].phase = "answered"
      BY <2>3, <3>1, RepliedKept
    <3> QED BY <2>1, <3>2 DEF Done
  <2> QED BY <1>1, <2>2, <2>3 DEF Deliver, LookBack, PutBack, MarkFulfilling, Finished
<1>2. ASSUME NEW w \in work, StoreGoods(w) PROVE notice' = notice BY <1>2 DEF StoreGoods
<1>3. ASSUME NEW w \in work, WriteFails(w) PROVE FALSE
  BY <1>3, FailureFails DEF WriteFails
<1>4. ASSUME NEW v \in Attempts, ReceiveCallback(v), v # u
      PROVE  notice'[u].phase = notice[u].phase
  BY <1>4 DEF ReceiveCallback, IInv, LinkTypeOK
<1>5. ASSUME NEW o \in LocalOrders,
             \/ CreateForOrder(o) \/ SubmitToUpstream(o) \/ SubmitInvalid(o) \/ SubmitRejected(o)
             \/ BeginPoll(o) \/ BeginSync(o) \/ PollUnanswered(o) \/ EndPoll(o)
      PROVE  notice' = notice
  BY <1>5 DEF CreateForOrder, SubmitToUpstream, SubmitInvalid, SubmitRejected,
              BeginPoll, BeginSync, PollUnanswered, EndPoll, linkVars
<1>6. ASSUME NEW o \in LocalOrders,
             \/ RetryManual(o) \/ CancelManual(o)
             \/ \E what \in {"retry", "cancel"} : BeginManual(o, what)
      PROVE  notice' = notice
  BY <1>6 DEF RetryManual, CancelManual, BeginManual, linkVars
<1>7. ASSUME NEW i \in Attempts, SubmitAccepted(i) \/ SubmitFailed(i) PROVE notice' = notice
  BY <1>7 DEF SubmitAccepted, SubmitFailed
<1> QED BY <1>1, <1>2, <1>3, <1>4, <1>5, <1>6, <1>7 DEF ProcurementNext, WriteLocal

\* A callback has one handler at most.
OneHandler(u) == \A v, w \in work : v.by = <<"callback", u>> /\ w.by = <<"callback", u>> => v = w

\* No second one begins.
LEMMA HandlersStay ==
  ASSUME ProcurementNext, IInv, NEW u \in Attempts, OneHandler(u)
  PROVE  OneHandler(u)'
<1>1. CASE work' \subseteq work BY <1>1 DEF OneHandler
<1>2. ASSUME NEW by, NEW step, NEW o, NEW x, Begin(by, step, o, x),
             by # <<"callback", u>> \/ \A w \in work : w.by # <<"callback", u>>
      PROVE  OneHandler(u)'
  <2> DEFINE new == [by |-> by, step |-> step, order |-> o, from |-> x]
  <2>1. work' = work \union {new} /\ new.by = by BY <1>2 DEF Begin
  <2> HIDE DEF new
  <2> QED BY <1>2, <2>1 DEF OneHandler
<1>3. ASSUME NEW x \in work, NEW step, GoOn(x, step) PROVE OneHandler(u)'
  <2> DEFINE new == [x EXCEPT !.step = step]
  <2>1. x \in Work BY DEF IInv, ProcTypeOK
  <2>2. work' = (work \ {x}) \union {new} /\ new.by = x.by BY <1>3, <2>1 DEF GoOn, Work
  <2> HIDE DEF new
  <2> QED BY <2>2 DEF OneHandler
<1>4. ASSUME NEW o \in LocalOrders, \/ CreateForOrder(o) \/ SubmitToUpstream(o) \/ SubmitInvalid(o)
                                    \/ BeginPoll(o) \/ BeginSync(o) \/ PollUnanswered(o)
      PROVE  work' = work
  BY <1>4 DEF CreateForOrder, SubmitToUpstream, SubmitInvalid, BeginPoll, BeginSync, PollUnanswered
<1>5. ASSUME NEW o \in LocalOrders, \/ RetryManual(o) \/ CancelManual(o)
                                    \/ \E what \in {"retry", "cancel"} : BeginManual(o, what)
      PROVE  work' = work
  BY <1>5 DEF RetryManual, CancelManual, BeginManual
<1>6. ASSUME NEW o \in LocalOrders, SubmitRejected(o)
      PROVE  Begin(<<"task", o>>, "look", o, NoUpstream)
  BY <1>6 DEF SubmitRejected
<1>7. ASSUME NEW o \in LocalOrders, EndPoll(o)
      PROVE  work' = work \/ \E step : Begin(<<"query", o>>, step, o, poll[o].found)
  BY <1>7 DEF EndPoll, HandleUpstreamCallback
<1>8. ASSUME NEW i \in Attempts, SubmitAccepted(i) \/ SubmitFailed(i)
      PROVE  work' = work \/ \E step : Begin(<<"submit", i>>, step, request[i].order, NoUpstream)
  BY <1>8 DEF SubmitAccepted, SubmitFailed
<1>9. ASSUME NEW v \in Attempts, ReceiveCallback(v)
      PROVE  /\ work' = work \/ \E step : Begin(<<"callback", v>>, step, request[v].order, v)
             /\ \A w \in work : w.by # <<"callback", v>>
  BY <1>9 DEF ReceiveCallback, HandleUpstreamCallback
<1>10. ASSUME NEW w \in work, WriteLocal(w) \/ MarkFulfilling(w) \/ WriteFails(w)
       PROVE  work' \subseteq work \/ \E step : GoOn(w, step)
  BY <1>10 DEF WriteLocal, StoreGoods, Deliver, LookBack, PutBack, MarkFulfilling, WriteFails, Finished
<1>11. ASSUME NEW x PROVE /\ <<"task", x>> # <<"callback", u>> /\ <<"query", x>> # <<"callback", u>>
                         /\ <<"submit", x>> # <<"callback", u>>
                         /\ x # u => <<"callback", x>> # <<"callback", u>>
  OBVIOUS
<1>12. ASSUME NEW o \in LocalOrders, SubmitRejected(o) \/ EndPoll(o) PROVE OneHandler(u)'
  BY <1>1, <1>2, <1>6, <1>7, <1>11, <1>12
<1>13. ASSUME NEW i \in Attempts, SubmitAccepted(i) \/ SubmitFailed(i) PROVE OneHandler(u)'
  BY <1>1, <1>2, <1>8, <1>11, <1>13
<1>14. ASSUME NEW v \in Attempts, ReceiveCallback(v) PROVE OneHandler(u)'
  <2>1. CASE work' = work BY <1>1, <2>1
  <2>2. ASSUME NEW step, Begin(<<"callback", v>>, step, request[v].order, v) PROVE OneHandler(u)'
    BY <1>2, <1>9, <1>11, <1>14, <2>2
  <2> QED BY <1>9, <1>14, <2>1, <2>2
<1> QED BY <1>1, <1>3, <1>4, <1>5, <1>10, <1>12, <1>13, <1>14 DEF ProcurementNext

\* The buying site answers a callback once it has taken the goods.
LEMMA ProcurementNews ==
  ASSUME IInv, News, ProcurementNext, UNCHANGED upstreamVars, ~Failed'
  PROVE  News'
<1> SUFFICES ASSUME NEW u \in Attempts PROVE NewsOf(u)' BY DEF News
<1>0. NewsOf(u) /\ [Next]_supplyVars BY DEF News, Next
<1>1. /\ upstream' = upstream /\ delivery' = delivery /\ refs' = refs
      /\ callback' = callback /\ noticeTasks' = noticeTasks
      /\ handedOver' = handedOver /\ HasRef(u)' = HasRef(u)
  BY SameDeliveries DEF upstreamVars, HasRef
<1>2. /\ u \in DOMAIN request =>
           u \in DOMAIN request' /\ request'[u].order = request[u].order /\ request'[u].server = request[u].server
      /\ u \in DOMAIN request' \ DOMAIN request => request'[u].server = "unread"
  BY BuyingRequests
<1>3. notice'[u].status = notice[u].status /\ notice'[u].goods = notice[u].goods
  BY ProcurementNotice
<1>4. notice'[u].phase = notice[u].phase \/ ReceiveCallback(u) \/ Done(u) BY ProcurementPhase
<1>5. ASSUME u \in DOMAIN request, Served(u) PROVE Served(u)'
  <2>1. request[u].order \in LocalOrders BY <1>5, RequestTyped DEF IInv, Request
  <2>2. goods' = goods \/ Given BY <1>0, StepGives
  <2> QED BY <1>2, <1>5, <2>1, <2>2 DEF Served, Given, IInv, ProcTypeOK
<1>6. notice[u].phase # "idle" \/ delivery[u] # "none" =>
        u \in DOMAIN request /\ request[u].order \in LocalOrders
  BY KnownOrders
<1>7. ASSUME NEW w \in work, w.by = <<"callback", u>>, w.step = "goods",
             w.order = request[u].order, u \in DOMAIN request
      PROVE  w \in work' \/ Served(u)'
  <2>1. w \in work' \/ goods'[w.order] # NoUpstream BY <1>0, <1>7, StoreWaits
  <2> QED BY <1>2, <1>7, <2>1 DEF Served
<1>8. ASSUME ReceiveCallback(u)
      PROVE  /\ notice[u].phase = "sent" /\ u \in DOMAIN request
             /\ notice'[u].phase \in {"handling", "answered"}
             /\ notice[u].status = "delivered" /\ notice[u].goods =>
                  /\ notice'[u].phase = "handling"
                  /\ \E w \in work' : w.by = <<"callback", u>> /\ w.step = "goods" /\ w.order = request[u].order
  <2>1. notice[u].phase = "sent" /\ u \in DOMAIN request BY <1>6, <1>8 DEF ReceiveCallback
  <2>2. notice'[u].phase = IF work' = work THEN "answered" ELSE "handling"
    <3>1. notice[u] \in Notice /\ u \in DOMAIN notice BY DEF IInv, LinkTypeOK
    <3> DEFINE p == IF work' = work THEN "answered" ELSE "handling"
    <3>2. notice' = [notice EXCEPT ![u].phase = p] BY <1>8 DEF ReceiveCallback
    <3> HIDE DEF p
    <3>3. notice'[u].phase = p BY <3>1, <3>2 DEF Notice
    <3> QED BY <3>3 DEF p
  <2>3. ASSUME notice[u].status = "delivered", notice[u].goods
        PROVE  /\ work' # work
               /\ \E w \in work' : w.by = <<"callback", u>> /\ w.step = "goods" /\ w.order = request[u].order
    <3>1. Begin(<<"callback", u>>, "goods", request[u].order, u)
      BY <1>8, <2>3 DEF ReceiveCallback, HandleUpstreamCallback
    <3> DEFINE new == [by |-> <<"callback", u>>, step |-> "goods", order |-> request[u].order, from |-> u]
    <3>2. /\ new \in work' /\ new.by = <<"callback", u>> /\ new.step = "goods"
          /\ new.order = request[u].order
      BY <3>1 DEF Begin
    <3> HIDE DEF new
    <3>3. \A w \in work : w.by # <<"callback", u>> BY <1>8 DEF ReceiveCallback
    <3> QED BY <3>2, <3>3
  <2> QED BY <2>1, <2>2, <2>3
<1>9. Recorded(u)' BY <1>0, <1>1, <1>2 DEF NewsOf, Recorded
<1>10. Told(u)' BY <1>0, <1>1, <1>3 DEF NewsOf, Told
<1>11. Taken(u)'
  <2>1. OneHandler(u)' BY <1>0, HandlersStay DEF NewsOf, Taken, OneHandler
  <2> DEFINE Waits == \E w \in work' : w.by = <<"callback", u>> /\ w.step = "goods" /\ w.order = request'[u].order
             Brings == notice[u].status = "delivered" /\ notice[u].goods
  <2>2. ASSUME notice'[u].phase = "handling", Brings PROVE Served(u)' \/ Waits
    <3>1. CASE notice'[u].phase = notice[u].phase
      <4>1. u \in DOMAIN request BY <1>6, <2>2, <3>1
      <4>2. \/ Served(u)
            \/ \E w \in work : w.by = <<"callback", u>> /\ w.step = "goods" /\ w.order = request[u].order
        BY <1>0, <2>2, <3>1 DEF NewsOf, Taken
      <4> QED BY <1>2, <1>5, <1>7, <4>1, <4>2
    <3>2. CASE ReceiveCallback(u) BY <1>2, <1>8, <2>2, <3>2
    <3>3. CASE Done(u) BY <2>2, <3>3 DEF Done
    <3> QED BY <1>4, <3>1, <3>2, <3>3
  <2>3. ASSUME notice'[u].phase = "answered", Brings PROVE Served(u)'
    <3>1. CASE notice'[u].phase = notice[u].phase
      <4>1. u \in DOMAIN request BY <1>6, <2>3, <3>1
      <4> QED BY <1>0, <1>5, <2>3, <3>1, <4>1 DEF NewsOf, Taken
    <3>2. CASE ReceiveCallback(u) BY <1>8, <2>3, <3>2
    <3>3. CASE Done(u)
      <4>1. u \in DOMAIN request BY <1>6, <3>3 DEF Done
      <4>2. Served(u) BY <1>0, <2>3, <3>3 DEF Done, NewsOf, Taken
      <4> QED BY <1>5, <4>1, <4>2
    <3> QED BY <1>4, <3>1, <3>2, <3>3
  <2> QED BY <1>3, <2>1, <2>2, <2>3 DEF Taken, OneHandler
<1>12. Announced(u)'
  <2> SUFFICES ASSUME upstream[u] = "delivered", delivery[u] = "done" PROVE Announced(u)'
    BY <1>1 DEF Announced
  <2>1. notice'[u].phase = "idle" <=> notice[u].phase = "idle" BY <1>4, <1>8 DEF Done
  <2>2. Served(u) => Served(u)' BY <1>5, <1>6
  <2> QED BY <1>0, <1>1, <1>3, <2>1, <2>2 DEF NewsOf, Announced
<1> QED BY <1>9, <1>10, <1>11, <1>12 DEF NewsOf

\* Every step keeps the news, or something has failed.
LEMMA NextNews ==
  ASSUME MaxNotices # 0
  PROVE  IInv /\ (Failed \/ News) /\ [Next]_supplyVars => (Failed \/ News)'
<1> SUFFICES ASSUME IInv, Failed \/ News, [Next]_supplyVars, ~Failed' PROVE News'
  OBVIOUS
<1>1. News BY MishapsStay
<1>2. ASSUME \A u \in Attempts : Quiet(u) PROVE News' BY <1>1, <1>2, QuietNews DEF News
<1>3. CASE ProcurementNext /\ UNCHANGED upstreamVars BY <1>1, <1>3, ProcurementNews
<1>4. CASE UpstreamNext /\ UNCHANGED procVars
  <2>1. ASSUME NEW i \in Attempts, ReceiveOrder(i) \/ CreateOrder(i) PROVE News'
    BY <1>2, <1>4, <2>1, HandlerQuiet
  <2>2. ASSUME NEW i \in Attempts, CreateRef(i) PROVE News' BY <1>2, <1>4, <2>2, CreateRefQuiet
  <2>3. ASSUME NEW i \in Attempts, PayFromWallet(i) PROVE News'
    BY <1>1, <1>4, <2>3, PayFromWalletNews
  <2>4. ASSUME NEW u \in Attempts, HandlerDies(u) \/ DeliveryDies(u) PROVE FALSE
    BY <2>4, FailureFails DEF HandlerDies, DeliveryDies
  <2>5. ASSUME NEW u \in Attempts,
               ExpireOrder(u) \/ RefundUpstream(u) \/ MarkDelivered(u) \/ CancelByAdmin(u)
        PROVE  News'
    BY <1>2, <1>4, <2>5, OrderQuiet
  <2>6. ASSUME NEW u \in Attempts, StoreDelivery(u) \/ SyncDelivery(u) PROVE News'
    BY <1>2, <1>4, <2>6, DeliveryQuiet
  <2>7. ASSUME NEW u \in Attempts, AnnounceDelivery(u) PROVE News'
    BY <1>1, <1>4, <2>7, AnnounceNews
  <2>8. ASSUME NEW u \in Attempts, SendCallback(u) \/ CallbackAnswered(u) \/ CallbackFailed(u)
        PROVE  News'
    BY <1>1, <1>4, <2>8, CallbackNews
  <2> QED BY <1>4, <2>1, <2>2, <2>3, <2>4, <2>5, <2>6, <2>7, <2>8 DEF UpstreamNext
<1>5. CASE \/ \E o \in LocalOrders : AnswerPoll(o) \/ AskCancel(o) \/ ShowProcurement(o)
           \/ UNCHANGED supplyVars
  <2>1. /\ goods' = goods /\ work' = work /\ request' = request /\ notice' = notice
        /\ callback' = callback /\ noticeTasks' = noticeTasks /\ delivery' = delivery /\ refs' = refs
    BY <1>5 DEF AnswerPoll, AskCancel, ShowProcurement, supplyVars, procVars, upstreamVars, localVars,
                linkVars
  <2>2. \/ upstream' = upstream
        \/ \E v : upstream' = [upstream EXCEPT ![v] = Synced(v)]
        \/ \E v : upstream' = [upstream EXCEPT ![v] = "canceled"]
    BY <1>5 DEF AnswerPoll, AskCancel, ShowProcurement, supplyVars, upstreamVars
  <2>3. ASSUME NEW u \in Attempts
        PROVE  \/ upstream'[u] = upstream[u]
               \/ upstream[u] = "paid" /\ upstream'[u] = "delivered"
               \/ upstream'[u] = "canceled"
    BY <2>2 DEF Synced, IInv, UpTypeOK
  <2> QED BY <1>2, <2>1, <2>3, StatusQuiet
<1> QED BY <1>3, <1>4, <1>5 DEF Next

\* Goods handed over upstream are announced: the buyer has goods, or the delivery is
\* still to queue its callback, or one is queued or under way, or the retries are used
\* up; unless a write or the queue failed, or a refund or a cancellation came in between
\* (EnqueueCallback, SendCallback, handleCallbackFailure).
THEOREM NoDeliveryIsForgotten == ASSUME MaxNotices # 0 PROVE Spec => []DeliveryIsAnnounced
<1>1. Init => Failed \/ News
  BY DEF Init, LinkInit, ProcurementInit, UpstreamInit, NoNotice, News, NewsOf, Recorded, Told, Taken,
         Announced, Unpaid, HasRef
<1>2. IInv /\ (Failed \/ News) => DeliveryIsAnnounced
  <2> SUFFICES ASSUME IInv, Failed \/ News, NEW u \in handedOver, upstream[u] = "delivered", ~Failed,
                      delivery[u] = "done"
               PROVE  \/ Served(u) \/ noticeTasks[u] > 0 \/ notice[u].phase # "idle"
                      \/ callback[u].state = "failed"
    BY DEF DeliveryIsAnnounced, Failed, Served
  <2> QED BY DEF News, NewsOf, Announced, handedOver
<1> QED BY <1>1, <1>2, SupplyInvariant, NextNews, PTL DEF Spec
=============================================================================
