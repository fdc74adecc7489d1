--------------------------- MODULE RechargeProofs ---------------------------
(***************************************************************************)
(* Recharge for every set of recharges, amounts and processes: its tables  *)
(* are well formed, a recharge is credited exactly if it is successful,    *)
(* a success is final, and the wallet moves only as WalletLedger does.     *)
(***************************************************************************)
EXTENDS Recharge, TLAPS

-----------------------------------------------------------------------------
(* Types.                                                                   *)

PaymentTypeOK == payment \in [Recharges -> [status : {"none"} \union PaymentStatuses, url : BOOLEAN]]
RechargeTypeOK == recharge \in [Recharges -> {"none"} \union RechargeStatuses]
WalletTypeOK == balance \in Nat /\ journal \in Seq(JournalEntry)
RequestTypeOK ==
  /\ request \in [Processes -> Request]
  /\ \A h \in Processes : request[h].op # "idle" => request[h].recharge \in Recharges
RestTypeOK ==
  /\ expireTask \in [Recharges -> {"none", "scheduled", "done"}]
  /\ settled \subseteq Recharges
  /\ aborts \in 0..MaxAborts

\* TypeOK by tables.
LEMMA TypeParts ==
  TypeOK <=> PaymentTypeOK /\ RechargeTypeOK /\ WalletTypeOK /\ RequestTypeOK /\ RestTypeOK
BY DEF TypeOK, PaymentTypeOK, RechargeTypeOK, WalletTypeOK, RequestTypeOK, RestTypeOK

\* TypeOK' by tables.
LEMMA NextParts ==
  PaymentTypeOK' /\ RechargeTypeOK' /\ WalletTypeOK' /\ RequestTypeOK' /\ RestTypeOK' => TypeOK'
BY DEF TypeOK, PaymentTypeOK, RechargeTypeOK, WalletTypeOK, RequestTypeOK, RestTypeOK

\* A request in the middle of its work names a recharge.
LEMMA RequestFacts ==
  ASSUME TypeOK, NEW h \in Processes, request[h].op # "idle"
  PROVE  request[h] \in Request /\ request[h].recharge \in Recharges
BY DEF TypeOK

\* Writing one request.
LEMMA RequestUpdate ==
  ASSUME RequestTypeOK, NEW h \in Processes, NEW r \in Request,
         r.op # "idle" => r.recharge \in Recharges,
         request' = [request EXCEPT ![h] = r]
  PROVE  RequestTypeOK'
BY DEF RequestTypeOK

\* A process ends its request.
LEMMA ToIdle ==
  ASSUME RequestTypeOK, NEW h \in Processes, request' = [request EXCEPT ![h] = Idle]
  PROVE  RequestTypeOK'
<1>1. Idle \in Request /\ Idle.op = "idle"
  BY DEF Idle, Request
<1> QED BY <1>1, RequestUpdate

\* A process goes on to the next part of the same request.
LEMMA OpUpdate ==
  ASSUME TypeOK, NEW h \in Processes, request[h].op # "idle",
         NEW op \in {"gateway", "schedule", "callback", "apply"},
         NEW seen \in {"none"} \union RechargeStatuses,
         \/ request' = [request EXCEPT ![h].op = op]
         \/ request' = [request EXCEPT ![h].op = op, ![h].seenRecharge = seen]
  PROVE  RequestTypeOK'
<1>1. request[h] \in Request /\ request[h].recharge \in Recharges
  BY RequestFacts
<1>2. CASE request' = [request EXCEPT ![h].op = op]
  <2> DEFINE new == [request[h] EXCEPT !.op = op]
  <2>1. new \in Request /\ new.recharge \in Recharges
    BY <1>1 DEF Request
  <2>2. request' = [request EXCEPT ![h] = new]
    BY <1>2 DEF TypeOK
  <2> HIDE DEF new
  <2> QED BY <2>1, <2>2, RequestUpdate, TypeParts
<1>3. CASE request' = [request EXCEPT ![h].op = op, ![h].seenRecharge = seen]
  <2> DEFINE new == [request[h] EXCEPT !.op = op, !.seenRecharge = seen]
  <2>1. new \in Request /\ new.recharge \in Recharges
    BY <1>1 DEF Request
  <2>2. request' = [request EXCEPT ![h] = new]
    BY <1>3 DEF TypeOK
  <2> HIDE DEF new
  <2> QED BY <2>1, <2>2, RequestUpdate, TypeParts
<1> QED BY <1>2, <1>3

PaymentRow == [status : {"none"} \union PaymentStatuses, url : BOOLEAN]

\* Writing an existing status into one payment row.
LEMMA PaymentUpdate ==
  ASSUME PaymentTypeOK, NEW r \in Recharges, NEW status \in PaymentStatuses,
         \/ payment' = [payment EXCEPT ![r].status = status]
         \/ payment' = [payment EXCEPT ![r] = [status |-> status, url |-> TRUE]]
  PROVE  PaymentTypeOK'
<1>1. payment \in [Recharges -> PaymentRow]
  BY DEF PaymentTypeOK, PaymentRow
<1>2. [payment[r] EXCEPT !.status = status] \in PaymentRow
  BY <1>1 DEF PaymentRow
<1>3. [status |-> status, url |-> TRUE] \in PaymentRow
  BY DEF PaymentRow
<1>4. payment' = [payment EXCEPT ![r].status = status]
        => payment' = [payment EXCEPT ![r] = [payment[r] EXCEPT !.status = status]]
  BY <1>1
<1>5. \E row \in PaymentRow : payment' = [payment EXCEPT ![r] = row]
  BY <1>2, <1>3, <1>4
<1> QED BY <1>1, <1>5 DEF PaymentTypeOK, PaymentRow

\* Writing one recharge row.
LEMMA RechargeUpdate ==
  ASSUME RechargeTypeOK, NEW r \in Recharges, NEW status \in RechargeStatuses,
         recharge' = [recharge EXCEPT ![r] = status]
  PROVE  RechargeTypeOK'
BY DEF RechargeTypeOK

\* Crediting a recharge keeps the wallet well-typed.
LEMMA CreditType ==
  ASSUME WalletTypeOK, NEW r \in Recharges, Credit(r)
  PROVE  WalletTypeOK'
<1> DEFINE e == [reference |-> r, amount |-> Amount[r],
                 before |-> balance, after |-> balance + Amount[r]]
<1>1. Amount[r] \in Nat /\ balance \in Nat /\ balance + Amount[r] \in Nat
  BY RechargeAssumption DEF WalletTypeOK
<1>2. e \in JournalEntry
  BY <1>1 DEF JournalEntry
<1>3. CASE Posted(r)
  BY <1>3 DEF Credit, WalletTypeOK
<1>4. CASE ~Posted(r)
  <2>1. balance' = balance + Amount[r] /\ journal' = Append(journal, e)
    BY <1>4 DEF Credit
  <2> HIDE DEF e
  <2> QED BY <1>1, <1>2, <2>1 DEF WalletTypeOK
<1> QED BY <1>3, <1>4

\* The initial state is well-typed.
LEMMA InitType == Init => TypeOK
BY RechargeAssumption DEF Init, TypeOK, Idle, Request, JournalEntry

\* What is left to say of a step that leaves the wallet and the rest alone.
LEMMA SameParts ==
  /\ PaymentTypeOK /\ payment' = payment => PaymentTypeOK'
  /\ RechargeTypeOK /\ recharge' = recharge => RechargeTypeOK'
  /\ WalletTypeOK /\ UNCHANGED <<balance, journal>> => WalletTypeOK'
  /\ RequestTypeOK /\ request' = request => RequestTypeOK'
  /\ RestTypeOK /\ UNCHANGED <<expireTask, settled, aborts>> => RestTypeOK'
BY DEF PaymentTypeOK, RechargeTypeOK, WalletTypeOK, RequestTypeOK, RestTypeOK

\* Every part of CreateWalletRechargePayment keeps the types.
LEMMA BuyerType ==
  ASSUME TypeOK, NEW h \in Processes, BuyerStep(h)
  PROVE  TypeOK'
<1>1. ASSUME NEW r \in Recharges, CreateRecharge(h, r) PROVE TypeOK'
  <2> DEFINE new == [Idle EXCEPT !.op = "gateway", !.recharge = r]
  <2>1. new \in Request /\ new.recharge = r
    BY DEF Idle, Request
  <2>2. request' = [request EXCEPT ![h] = new]
    BY <1>1 DEF CreateRecharge
  <2> HIDE DEF new
  <2>3. RequestTypeOK'
    BY <2>1, <2>2, RequestUpdate, TypeParts
  <2>4. PaymentTypeOK' /\ RechargeTypeOK'
    BY <1>1, PaymentUpdate, RechargeUpdate, TypeParts
       DEF CreateRecharge, PaymentStatuses, RechargeStatuses
  <2> QED BY <1>1, <2>3, <2>4, SameParts, TypeParts, NextParts DEF CreateRecharge
<1>2. CASE GatewayAccepts(h)
  <2>1. PaymentTypeOK' /\ RequestTypeOK'
    BY <1>2, RequestFacts, PaymentUpdate, OpUpdate, TypeParts DEF GatewayAccepts, PaymentStatuses
  <2> QED BY <1>2, <2>1, SameParts, TypeParts, NextParts DEF GatewayAccepts
<1>3. CASE GatewayRefuses(h)
  <2>1. PaymentTypeOK' /\ RechargeTypeOK' /\ RequestTypeOK'
    BY <1>3, RequestFacts, PaymentUpdate, RechargeUpdate, ToIdle, TypeParts
       DEF GatewayRefuses, PaymentStatuses, RechargeStatuses
  <2> QED BY <1>3, <2>1, SameParts, TypeParts, NextParts DEF GatewayRefuses
<1>4. CASE ScheduleExpire(h)
  <2>1. RequestTypeOK'
    BY <1>4, ToIdle, TypeParts DEF ScheduleExpire
  <2>2. RestTypeOK'
    BY <1>4, RequestFacts, TypeParts DEF ScheduleExpire, RestTypeOK
  <2> QED BY <1>4, <2>1, <2>2, SameParts, TypeParts, NextParts DEF ScheduleExpire
<1>5. CASE ScheduleExpireFails(h)
  <2>1. PaymentTypeOK' /\ RequestTypeOK'
    BY <1>5, RequestFacts, PaymentUpdate, ToIdle, TypeParts DEF ScheduleExpireFails, PaymentStatuses
  <2>2. RechargeTypeOK'
    BY <1>5, RequestFacts, TypeParts DEF ScheduleExpireFails, RechargeTypeOK, RechargeStatuses
  <2> QED BY <1>5, <2>1, <2>2, SameParts, TypeParts, NextParts DEF ScheduleExpireFails
<1> QED BY <1>1, <1>2, <1>3, <1>4, <1>5 DEF BuyerStep

\* What a callback does after its first read keeps the types.
LEMMA CallbackType ==
  ASSUME TypeOK, NEW h \in Processes, CallbackStep(h)
  PROVE  TypeOK'
<1>1. CASE ReadRecharge(h)
  <2>1. recharge[request[h].recharge] \in {"none"} \union RechargeStatuses
    BY <1>1, RequestFacts, TypeParts DEF ReadRecharge, RechargeTypeOK
  <2>2. RequestTypeOK'
    BY <1>1, <2>1, OpUpdate DEF ReadRecharge
  <2> QED BY <1>1, <2>2, SameParts, TypeParts, NextParts DEF ReadRecharge
<1>2. CASE AcknowledgeCallback(h)
  <2> DEFINE q == request[h]
  <2>1. q.recharge \in Recharges /\ q.seenPayment \in {"none"} \union PaymentStatuses
    BY <1>2, RequestFacts DEF AcknowledgeCallback, Request
  <2>2. payment' = [payment EXCEPT ![q.recharge].status = q.seenPayment]
    BY <1>2 DEF AcknowledgeCallback
  <2> HIDE DEF q
  <2>3. PaymentTypeOK'
    BY <2>1, <2>2, TypeParts DEF PaymentTypeOK
  <2>4. RequestTypeOK'
    BY <1>2, ToIdle, TypeParts DEF AcknowledgeCallback
  <2> QED BY <1>2, <2>3, <2>4, SameParts, TypeParts, NextParts DEF AcknowledgeCallback
<1>3. CASE ApplyCallback(h)
  <2> DEFINE q == request[h]
  <2>1. q.recharge \in Recharges /\ q.target \in {"none"} \union PaymentStatuses
    BY <1>3, RequestFacts DEF ApplyCallback, Request
  <2>2. PaymentTypeOK'
    <3>1. payment' = [payment EXCEPT ![q.recharge].status = q.target]
      BY <1>3 DEF ApplyCallback
    <3> HIDE DEF q
    <3> QED BY <2>1, <3>1, TypeParts DEF PaymentTypeOK
  <2>3. RequestTypeOK'
    BY <1>3, ToIdle, TypeParts DEF ApplyCallback
  <2>4. RechargeTypeOK'
    BY <1>3, <2>1, SameParts, RechargeUpdate, TypeParts
       DEF ApplyCallback, RechargeStatusFor, RechargeStatuses
  <2>5. WalletTypeOK'
    BY <1>3, <2>1, SameParts, CreditType, TypeParts DEF ApplyCallback
  <2> QED BY <1>3, <2>2, <2>3, <2>4, <2>5, SameParts, TypeParts, NextParts DEF ApplyCallback
<1> QED BY <1>1, <1>2, <1>3 DEF CallbackStep

\* The first read of a callback keeps the types.
LEMMA ReceiveType ==
  ASSUME TypeOK, NEW h \in Processes, NEW r \in Recharges, NEW target \in PaymentStatuses,
         ReceiveCallback(h, r, target)
  PROVE  TypeOK'
<1> DEFINE new == [Idle EXCEPT !.op = "callback", !.recharge = r, !.target = target,
                               !.seenPayment = payment[r].status]
<1>1. payment[r].status \in {"none"} \union PaymentStatuses
  BY TypeParts DEF PaymentTypeOK
<1>2. new \in Request /\ new.recharge = r
  BY <1>1 DEF Idle, Request
<1>3. request' = [request EXCEPT ![h] = new]
  BY DEF ReceiveCallback
<1> HIDE DEF new
<1>4. RequestTypeOK'
  BY <1>2, <1>3, RequestUpdate, TypeParts
<1> QED BY <1>4, SameParts, TypeParts, NextParts DEF ReceiveCallback

\* Every step keeps the types.
LEMMA StepType == TypeOK /\ [Next]_vars => TypeOK'
<1> SUFFICES ASSUME TypeOK, [Next]_vars PROVE TypeOK'
  OBVIOUS
<1>1. ASSUME NEW h \in Processes, Abort(h) PROVE TypeOK'
  <2>1. RequestTypeOK'
    BY <1>1, ToIdle, TypeParts DEF Abort
  <2>2. RestTypeOK'
    BY <1>1, RechargeAssumption, TypeParts DEF Abort, RestTypeOK
  <2> QED BY <1>1, <2>1, <2>2, SameParts, TypeParts, NextParts DEF Abort
<1>2. ASSUME NEW r \in Recharges, PayerPays(r) PROVE TypeOK'
  <2>1. RestTypeOK'
    BY <1>2, TypeParts DEF PayerPays, RestTypeOK
  <2> QED BY <1>2, <2>1, SameParts, TypeParts, NextParts DEF PayerPays
<1>3. ASSUME NEW r \in Recharges, ExpireRecharge(r) PROVE TypeOK'
  <2>1. RestTypeOK'
    BY <1>3, TypeParts DEF ExpireRecharge, RestTypeOK
  <2>2. PaymentTypeOK' /\ RechargeTypeOK'
    BY <1>3, PaymentUpdate, RechargeUpdate, SameParts, TypeParts
       DEF ExpireRecharge, PaymentStatuses, RechargeStatuses
  <2> QED BY <1>3, <2>1, <2>2, SameParts, TypeParts, NextParts DEF ExpireRecharge
<1>4. CASE UNCHANGED vars
  BY <1>4, SameParts, TypeParts, NextParts DEF vars
<1> QED BY <1>1, <1>2, <1>3, <1>4, BuyerType, CallbackType, ReceiveType DEF Next, Processes

\* The tables of the wallet hold rows of their types for any number of recharges
\* and overlapping requests.
THEOREM RechargeTypeCorrect == Spec => []TypeOK
BY InitType, StepType, PTL DEF Spec

-----------------------------------------------------------------------------
(* Credits.  CreditedIffSuccessful is not inductive: that a failed gateway  *)
(* call or a failed enqueue never takes a success back needs that no money  *)
(* is collected before the user has the pay URL, and that one request only  *)
(* is calling the gateway for a recharge.                                   *)

\* A row nobody has created yet.
UnusedRows == \A r \in Recharges : payment[r].status = "none" =>
                recharge[r] = "none" /\ ~payment[r].url
\* Requests are about rows that exist.
RowsExist == \A h \in Processes : request[h].op # "idle" =>
               payment[request[h].recharge].status # "none"
\* A request that is calling the gateway is the only one to do so for its
\* recharge, and its user has no pay URL yet.
CallingAlone ==
  \A h \in Processes : request[h].op = "gateway" =>
    /\ ~payment[request[h].recharge].url
    /\ \A g \in Processes : request[g].op = "gateway" /\ g # h =>
         request[g].recharge # request[h].recharge
\* Money is collected only through a pay URL, and reported only when collected.
CollectedByUrl == \A r \in settled : payment[r].url
ReportsTrue == \A h \in Processes :
  request[h].op \in {"callback", "apply"} /\ request[h].target = "success" =>
    request[h].recharge \in settled

\* A callback knows what is reported and in which status it found the payment.
CopiesComplete == \A h \in Processes : request[h].op \in {"callback", "apply"} =>
  request[h].target # "none" /\ request[h].seenPayment # "none"

CreditInv ==
  /\ CreditedIffSuccessful
  /\ UnusedRows /\ RowsExist /\ CallingAlone /\ CollectedByUrl /\ ReportsTrue /\ CopiesComplete

\* A request that ends or goes on without a new report or a new gateway call.
LEMMA QuietRequest ==
  ASSUME TypeOK, CreditInv, NEW h \in Processes,
         \A g \in Processes : g # h => request'[g] = request[g],
         \/ request'[h].op = "idle"
         \/ /\ request'[h].op # "gateway" /\ request[h].op # "idle"
            /\ request'[h].recharge = request[h].recharge
            /\ request'[h].op \in {"callback", "apply"} =>
                 /\ request[h].op \in {"callback", "apply"}
                 /\ request'[h].target = request[h].target
                 /\ request'[h].seenPayment = request[h].seenPayment,
         \A r \in Recharges : payment[r].status # "none" => payment'[r].status # "none",
         \A r \in Recharges : payment'[r].url =>
           payment[r].url \/ (request[h].op = "gateway" /\ request[h].recharge = r),
         settled \subseteq settled'
  PROVE  RowsExist' /\ CallingAlone' /\ ReportsTrue' /\ CopiesComplete'
<1>1. \A g \in Processes : request[g].op # "idle" => request[g].recharge \in Recharges
  BY DEF TypeOK
<1>2. RowsExist'
  BY <1>1 DEF CreditInv, RowsExist
<1>3. CallingAlone'
  BY <1>1 DEF CreditInv, CallingAlone
<1>4. ReportsTrue'
  BY DEF CreditInv, ReportsTrue
<1>5. CopiesComplete'
  BY DEF CreditInv, CopiesComplete
<1> QED BY <1>2, <1>3, <1>4, <1>5

\* A callback holds the statuses it was given.
LEMMA CopyFacts ==
  ASSUME TypeOK, CopiesComplete, NEW h \in Processes, request[h].op \in {"callback", "apply"}
  PROVE  request[h].target \in PaymentStatuses /\ request[h].seenPayment \in PaymentStatuses
BY RequestFacts DEF CopiesComplete, Request

\* Writing a payment's status keeps its pay URL.
LEMMA StatusWritten ==
  ASSUME TypeOK, NEW r \in Recharges, NEW status,
         payment' = [payment EXCEPT ![r].status = status]
  PROVE  /\ payment'[r].status = status
         /\ \A q \in Recharges : payment'[q].url = payment[q].url
         /\ \A q \in Recharges : q # r => payment'[q] = payment[q]
BY DEF TypeOK

\* What writing one request does to the others.
LEMMA Written ==
  ASSUME TypeOK, NEW h \in Processes, NEW new, request' = [request EXCEPT ![h] = new]
  PROVE  request'[h] = new /\ \A g \in Processes : g # h => request'[g] = request[g]
BY DEF TypeOK

\* What ending one request does to the others.
LEMMA WrittenIdle ==
  ASSUME TypeOK, NEW h \in Processes, request' = [request EXCEPT ![h] = Idle]
  PROVE  request'[h].op = "idle" /\ \A g \in Processes : g # h => request'[g] = request[g]
<1>1. request'[h] = Idle /\ \A g \in Processes : g # h => request'[g] = request[g]
  BY Written
<1> QED BY <1>1 DEF Idle

\* Steps that neither post nor make a recharge successful or unsuccessful.
LEMMA QuietCredit ==
  ASSUME TypeOK, CreditedIffSuccessful, journal' = journal, settled \subseteq settled',
         \A r \in Recharges : recharge'[r] = "success" <=> recharge[r] = "success"
  PROVE  CreditedIffSuccessful'
BY DEF CreditedIffSuccessful, Posted

\* A success was credited, so its money was collected.
LEMMA SuccessCollected ==
  ASSUME TypeOK, CreditInv, NEW r \in Recharges, recharge[r] = "success"
  PROVE  r \in settled /\ payment[r].url
BY DEF CreditInv, CreditedIffSuccessful, Posted, CollectedByUrl
\* No part of CreateWalletRechargePayment breaks the credit invariant.
LEMMA BuyerCredit ==
  ASSUME TypeOK, CreditInv, NEW h \in Processes, BuyerStep(h)
  PROVE  CreditInv'
<1> DEFINE c == request[h].recharge
<1>1. ASSUME NEW r \in Recharges, CreateRecharge(h, r) PROVE CreditInv'
  <2> DEFINE new == [Idle EXCEPT !.op = "gateway", !.recharge = r]
  <2>1. new.op = "gateway" /\ new.recharge = r
    BY DEF Idle
  <2>2. /\ request' = [request EXCEPT ![h] = new] /\ payment[r].status = "none"
        /\ payment' = [payment EXCEPT ![r].status = "initiated"]
        /\ recharge' = [recharge EXCEPT ![r] = "pending"]
        /\ journal' = journal /\ settled' = settled
    BY <1>1 DEF CreateRecharge
  <2> HIDE DEF new
  <2>3. /\ request'[h] = new
        /\ \A g \in Processes : g # h => request'[g] = request[g]
        /\ payment'[r].status = "initiated"
        /\ \A q \in Recharges : payment'[q].url = payment[q].url
        /\ \A q \in Recharges : q # r => payment'[q] = payment[q]
    BY <2>2, Written, StatusWritten
  <2>4. recharge[r] = "none" /\ ~payment[r].url
    BY <2>2 DEF CreditInv, UnusedRows
  <2>5. \A g \in Processes : request[g].op # "idle" =>
          request[g].recharge \in Recharges /\ request[g].recharge # r
    BY <2>2 DEF CreditInv, RowsExist, TypeOK
  <2>6. UnusedRows'
    BY <2>2, <2>3 DEF CreditInv, UnusedRows, TypeOK
  <2>7. RowsExist'
    BY <2>1, <2>3, <2>5 DEF CreditInv, RowsExist
  <2>8. CallingAlone'
    BY <2>1, <2>3, <2>4, <2>5 DEF CreditInv, CallingAlone
  <2>9. CollectedByUrl' /\ ReportsTrue' /\ CopiesComplete'
    BY <2>1, <2>2, <2>3 DEF CreditInv, CollectedByUrl, ReportsTrue, CopiesComplete, TypeOK
  <2>10. CreditedIffSuccessful'
    BY <2>2, <2>4, QuietCredit DEF CreditInv, TypeOK
  <2> QED BY <2>6, <2>7, <2>8, <2>9, <2>10 DEF CreditInv
<1>2. ASSUME request[h].op # "idle"
      PROVE  c \in Recharges /\ payment[c].status # "none" /\ request[h] \in Request
  BY <1>2, RequestFacts DEF CreditInv, RowsExist
<1>3. CASE GatewayAccepts(h)
  <2> DEFINE new == [request[h] EXCEPT !.op = "schedule"]
  <2>1. request[h].op = "gateway" /\ c \in Recharges /\ payment[c].status # "none"
    BY <1>2, <1>3 DEF GatewayAccepts
  <2>2. new.op = "schedule" /\ new.recharge = c
    BY <1>2, <2>1 DEF Request
  <2>3. /\ request' = [request EXCEPT ![h] = new]
        /\ payment' = [payment EXCEPT ![c] = [status |-> "pending", url |-> TRUE]]
        /\ recharge' = recharge /\ journal' = journal /\ settled' = settled
    BY <1>3 DEF GatewayAccepts, TypeOK
  <2> HIDE DEF new, c
  <2>4. /\ request'[h] = new
        /\ \A g \in Processes : g # h => request'[g] = request[g]
        /\ payment'[c] = [status |-> "pending", url |-> TRUE]
        /\ \A q \in Recharges : q # c => payment'[q] = payment[q]
    BY <2>1, <2>3, Written DEF TypeOK
  <2>5. UnusedRows' /\ CollectedByUrl' /\ CreditedIffSuccessful'
    BY <2>1, <2>3, <2>4, QuietCredit DEF CreditInv, UnusedRows, CollectedByUrl, TypeOK
  <2>6. RowsExist' /\ CallingAlone' /\ ReportsTrue' /\ CopiesComplete'
    BY <2>1, <2>2, <2>3, <2>4, QuietRequest DEF c
  <2> QED BY <2>5, <2>6 DEF CreditInv
<1>4. CASE GatewayRefuses(h) \/ ScheduleExpireFails(h)
  <2>1. /\ request[h].op \in {"gateway", "schedule"}
        /\ c \in Recharges /\ payment[c].status # "none"
    BY <1>2, <1>4 DEF GatewayRefuses, ScheduleExpireFails
  <2>2. /\ request' = [request EXCEPT ![h] = Idle]
        /\ payment' = [payment EXCEPT ![c].status = "failed"]
        /\ journal' = journal /\ settled' = settled
    BY <1>4 DEF GatewayRefuses, ScheduleExpireFails
  <2>3. \A r \in Recharges : recharge'[r] = "success" <=> recharge[r] = "success"
    <3>1. CASE GatewayRefuses(h)
      <4>1. recharge[c] # "success"
        BY <2>1, <3>1, SuccessCollected DEF GatewayRefuses, CreditInv, CallingAlone
      <4> QED BY <2>1, <3>1, <4>1 DEF GatewayRefuses, TypeOK
    <3>2. CASE ScheduleExpireFails(h)
      BY <2>1, <3>2 DEF ScheduleExpireFails, TypeOK
    <3> QED BY <1>4, <3>1, <3>2
  <2> HIDE DEF c
  <2>4. /\ request'[h].op = "idle"
        /\ \A g \in Processes : g # h => request'[g] = request[g]
        /\ payment'[c].status = "failed"
        /\ \A q \in Recharges : payment'[q].url = payment[q].url
        /\ \A q \in Recharges : q # c => payment'[q] = payment[q]
    BY <2>1, <2>2, WrittenIdle, StatusWritten
  <2>5. \A r \in Recharges : payment[r].status = "none" => recharge'[r] = recharge[r]
    BY <1>4, <2>1 DEF GatewayRefuses, ScheduleExpireFails, c, TypeOK
  <2>6. UnusedRows' /\ CollectedByUrl'
    BY <2>2, <2>4, <2>5 DEF CreditInv, UnusedRows, CollectedByUrl, TypeOK
  <2>7. RowsExist' /\ CallingAlone' /\ ReportsTrue' /\ CopiesComplete'
    BY <2>2, <2>4, QuietRequest
  <2> QED BY <2>2, <2>3, <2>6, <2>7, QuietCredit DEF CreditInv
<1>5. CASE ScheduleExpire(h)
  <2>1. /\ request' = [request EXCEPT ![h] = Idle]
        /\ UNCHANGED <<payment, recharge, journal, settled>>
    BY <1>5 DEF ScheduleExpire
  <2>2. request'[h].op = "idle" /\ \A g \in Processes : g # h => request'[g] = request[g]
    BY <2>1, WrittenIdle
  <2>3. RowsExist' /\ CallingAlone' /\ ReportsTrue' /\ CopiesComplete'
    BY <2>1, <2>2, QuietRequest
  <2> QED BY <2>1, <2>3, QuietCredit DEF CreditInv, UnusedRows, CollectedByUrl
<1> QED BY <1>1, <1>3, <1>4, <1>5 DEF BuyerStep

\* A posting makes a recharge posted, and no other.
LEMMA PostedNext ==
  ASSUME TypeOK, NEW r \in Recharges, ~Posted(r), Credit(r)
  PROVE  /\ \A q \in Recharges : Posted(q)' <=> Posted(q) \/ q = r
         /\ CreditedIffSuccessful /\ r \in settled /\ settled' = settled =>
              \A i \in DOMAIN journal' :
                /\ journal'[i].amount = Amount[journal'[i].reference]
                /\ journal'[i].reference \in settled'
<1> DEFINE e == [reference |-> r, amount |-> Amount[r],
                 before |-> balance, after |-> balance + Amount[r]]
           n == Len(journal)
<1>1. journal \in Seq(JournalEntry) /\ journal' = Append(journal, e) /\ n \in Nat
  BY DEF TypeOK, Credit
<1>2. e.reference = r /\ e.amount = Amount[r]
  OBVIOUS
<1> HIDE DEF e
<1>3. /\ DOMAIN journal = 1..n /\ DOMAIN journal' = 1..(n + 1)
      /\ journal'[n + 1] = e
      /\ \A i \in 1..n : journal'[i] = journal[i]
  BY <1>1
<1> HIDE DEF n
<1>4. \A i \in 1..(n + 1) : i \in 1..n \/ i = n + 1
  BY <1>1
<1>5. n + 1 \in 1..(n + 1) /\ \A i \in 1..n : i \in 1..(n + 1)
  BY <1>1
<1>6. ASSUME NEW q \in Recharges PROVE Posted(q)' <=> Posted(q) \/ q = r
  BY <1>2, <1>3, <1>4, <1>5 DEF Posted
<1> QED BY <1>2, <1>3, <1>4, <1>6 DEF CreditedIffSuccessful

\* No overlap of callbacks breaks the credit invariant.
LEMMA CallbackCredit ==
  ASSUME TypeOK, CreditInv, NEW h \in Processes, CallbackStep(h)
  PROVE  CreditInv'
<1> DEFINE q == request[h]
           c == request[h].recharge
<1>1. q.op \in {"callback", "apply"}
  BY DEF CallbackStep, ReadRecharge, AcknowledgeCallback, ApplyCallback
<1>2. q \in Request /\ c \in Recharges /\ payment[c].status # "none"
  BY <1>1, RequestFacts DEF CreditInv, RowsExist
<1>3. CASE ReadRecharge(h)
  <2> DEFINE new == [q EXCEPT !.op = "apply", !.seenRecharge = recharge[c]]
  <2>1. /\ new.op = "apply" /\ new.recharge = c /\ new.target = q.target
        /\ new.seenPayment = q.seenPayment
    BY <1>2 DEF Request
  <2>2. request' = [request EXCEPT ![h] = new] /\ UNCHANGED <<payment, recharge, journal, settled>>
    BY <1>3 DEF ReadRecharge, TypeOK
  <2> HIDE DEF new
  <2>3. request'[h] = new /\ \A g \in Processes : g # h => request'[g] = request[g]
    BY <2>2, Written
  <2>4. RowsExist' /\ CallingAlone' /\ ReportsTrue' /\ CopiesComplete'
    BY <1>1, <2>1, <2>2, <2>3, QuietRequest
  <2> QED BY <2>2, <2>4, QuietCredit DEF CreditInv, UnusedRows, CollectedByUrl
<1>4. ASSUME NEW status \in PaymentStatuses, request' = [request EXCEPT ![h] = Idle],
             payment' = [payment EXCEPT ![c].status = status], settled' = settled,
             \A r \in Recharges : r # c => recharge'[r] = recharge[r]
      PROVE  /\ UnusedRows' /\ RowsExist' /\ CallingAlone' /\ CollectedByUrl'
             /\ ReportsTrue' /\ CopiesComplete'
  <2> HIDE DEF c
  <2>1. /\ request'[h].op = "idle"
        /\ \A g \in Processes : g # h => request'[g] = request[g]
        /\ payment'[c].status = status /\ status # "none"
        /\ \A r \in Recharges : payment'[r].url = payment[r].url
        /\ \A r \in Recharges : r # c => payment'[r] = payment[r]
    BY <1>2, <1>4, WrittenIdle, StatusWritten DEF PaymentStatuses
  <2>2. UnusedRows' /\ CollectedByUrl'
    BY <1>4, <2>1 DEF CreditInv, UnusedRows, CollectedByUrl, TypeOK
  <2>3. RowsExist' /\ CallingAlone' /\ ReportsTrue' /\ CopiesComplete'
    BY <1>4, <2>1, QuietRequest
  <2> QED BY <2>2, <2>3
<1>5. CASE AcknowledgeCallback(h)
  <2>1. q.seenPayment \in PaymentStatuses
    BY <1>5, CopyFacts DEF AcknowledgeCallback, CreditInv
  <2>2. /\ request' = [request EXCEPT ![h] = Idle] /\ settled' = settled
        /\ payment' = [payment EXCEPT ![c].status = q.seenPayment]
        /\ recharge' = recharge /\ journal' = journal
    BY <1>5 DEF AcknowledgeCallback
  <2> QED BY <1>4, <2>1, <2>2, QuietCredit DEF CreditInv
<1>6. CASE ApplyCallback(h)
  <2>1. q.target \in PaymentStatuses
    BY <1>6, CopyFacts DEF ApplyCallback, CreditInv
  <2>2. /\ request' = [request EXCEPT ![h] = Idle] /\ settled' = settled
        /\ payment' = [payment EXCEPT ![c].status = q.target]
    BY <1>6 DEF ApplyCallback
  <2>3. CASE recharge[c] = "success" \/ q.target # "success"
    <3>1. /\ journal' = journal
          /\ \A r \in Recharges : recharge'[r] = "success" <=> recharge[r] = "success"
          /\ \A r \in Recharges : r # c => recharge'[r] = recharge[r]
      BY <1>2, <1>6, <2>1, <2>3
         DEF ApplyCallback, RechargeStatusFor, PaymentStatuses, TypeOK
    <3> QED BY <1>4, <2>1, <2>2, <3>1, QuietCredit DEF CreditInv
  <2>4. CASE recharge[c] # "success" /\ q.target = "success"
    <3>1. recharge' = [recharge EXCEPT ![c] = "success"] /\ Credit(c)
      BY <1>6, <2>4 DEF ApplyCallback, RechargeStatusFor
    <3>2. ~Posted(c) /\ c \in settled
      BY <1>1, <1>2, <2>4 DEF CreditInv, CreditedIffSuccessful, ReportsTrue
    <3>3. \A r \in Recharges : recharge'[r] = IF r = c THEN "success" ELSE recharge[r]
      BY <1>2, <3>1 DEF TypeOK
    <3> HIDE DEF c, q
    <3>4. CreditedIffSuccessful'
      <4>1. \A r \in Recharges : Posted(r)' <=> Posted(r) \/ r = c
        BY <1>2, <3>1, <3>2, PostedNext
      <4>2. \A i \in DOMAIN journal' :
              /\ journal'[i].amount = Amount[journal'[i].reference]
              /\ journal'[i].reference \in settled'
        BY <1>2, <2>2, <3>1, <3>2, PostedNext DEF CreditInv
      <4>3. \A r \in Recharges : recharge'[r] = "success" <=> Posted(r)'
        BY <3>3, <4>1 DEF CreditInv, CreditedIffSuccessful
      <4> QED BY <4>2, <4>3 DEF CreditedIffSuccessful
    <3> QED BY <1>4, <2>1, <2>2, <3>3, <3>4 DEF CreditInv, c
  <2> QED BY <2>3, <2>4
<1> QED BY <1>3, <1>5, <1>6 DEF CallbackStep

\* The credit invariant holds at the start.
LEMMA InitCredit == Init => CreditInv
BY DEF Init, CreditInv, CreditedIffSuccessful, Posted, UnusedRows, RowsExist, CallingAlone,
       CollectedByUrl, ReportsTrue, CopiesComplete, Idle

\* Every step keeps the credit invariant.
LEMMA StepCredit == TypeOK /\ CreditInv /\ [Next]_vars => CreditInv'
<1> SUFFICES ASSUME TypeOK, CreditInv, [Next]_vars PROVE CreditInv'
  OBVIOUS
<1>1. ASSUME NEW h \in Processes, NEW r \in Recharges, NEW t \in PaymentStatuses,
             ReceiveCallback(h, r, t)
      PROVE  CreditInv'
  <2> DEFINE new == [Idle EXCEPT !.op = "callback", !.recharge = r, !.target = t,
                                 !.seenPayment = payment[r].status]
  <2>1. /\ new.op = "callback" /\ new.recharge = r /\ new.target = t
        /\ new.seenPayment = payment[r].status
    BY DEF Idle
  <2>2. /\ request' = [request EXCEPT ![h] = new] /\ payment[r].status # "none"
        /\ t = "success" => r \in settled
        /\ UNCHANGED <<payment, recharge, journal, settled>>
    BY <1>1 DEF ReceiveCallback, Reportable
  <2> HIDE DEF new
  <2>3. request'[h] = new /\ \A g \in Processes : g # h => request'[g] = request[g]
    BY <2>2, Written
  <2>4. RowsExist' /\ CallingAlone'
    BY <2>1, <2>2, <2>3 DEF CreditInv, RowsExist, CallingAlone
  <2>5. ReportsTrue' /\ CopiesComplete'
    BY <2>1, <2>2, <2>3 DEF CreditInv, ReportsTrue, CopiesComplete, PaymentStatuses
  <2> QED BY <2>2, <2>4, <2>5, QuietCredit DEF CreditInv, UnusedRows, CollectedByUrl
<1>2. ASSUME NEW h \in Processes, Abort(h) PROVE CreditInv'
  <2>1. /\ request' = [request EXCEPT ![h] = Idle]
        /\ UNCHANGED <<payment, recharge, journal, settled>>
    BY <1>2 DEF Abort
  <2>2. RowsExist' /\ CallingAlone' /\ ReportsTrue' /\ CopiesComplete'
    BY <2>1, WrittenIdle, QuietRequest
  <2> QED BY <2>1, <2>2, QuietCredit DEF CreditInv, UnusedRows, CollectedByUrl
<1>3. ASSUME NEW r \in Recharges, PayerPays(r) PROVE CreditInv'
  <2>1. /\ UNCHANGED <<payment, recharge, journal, request>>
        /\ payment[r].url /\ settled' = settled \union {r}
    BY <1>3 DEF PayerPays
  <2> QED BY <2>1, QuietCredit DEF CreditInv, UnusedRows, RowsExist, CallingAlone,
            CollectedByUrl, ReportsTrue, CopiesComplete
<1>4. ASSUME NEW r \in Recharges, ExpireRecharge(r) PROVE CreditInv'
  <2>1. UNCHANGED <<journal, request, settled>>
    BY <1>4 DEF ExpireRecharge
  <2>2. /\ \A q \in Recharges : payment'[q].url = payment[q].url
        /\ \A q \in Recharges : payment[q].status # "none" => payment'[q].status # "none"
        /\ \A q \in Recharges : payment'[q].status = "none" =>
             payment[q].status = "none" /\ recharge'[q] = recharge[q]
        /\ \A q \in Recharges : recharge'[q] = "success" <=> recharge[q] = "success"
    BY <1>4 DEF ExpireRecharge, CanExpire, TypeOK
  <2>3. RowsExist' /\ CallingAlone' /\ ReportsTrue' /\ CopiesComplete'
    BY <2>1, <2>2 DEF CreditInv, RowsExist, CallingAlone, ReportsTrue, CopiesComplete, TypeOK
  <2>4. UnusedRows' /\ CollectedByUrl'
    BY <2>1, <2>2 DEF CreditInv, UnusedRows, CollectedByUrl, TypeOK
  <2> QED BY <2>1, <2>2, <2>3, <2>4, QuietCredit DEF CreditInv
<1>5. CASE UNCHANGED vars
  BY <1>5, QuietCredit DEF vars, CreditInv, UnusedRows, RowsExist, CallingAlone,
     CollectedByUrl, ReportsTrue, CopiesComplete
<1> QED BY <1>1, <1>2, <1>3, <1>4, <1>5, BuyerCredit, CallbackCredit DEF Next, Processes

\* The credit invariant holds in every reachable state.
LEMMA CreditInvariant == Spec => [](TypeOK /\ CreditInv)
BY InitType, StepType, InitCredit, StepCredit, PTL DEF Spec

\* Whatever callbacks, expiry tasks, failed gateway calls and failed enqueues
\* overlap, a recharge is successful exactly when its amount was credited, and
\* only if its money was collected (payment_service_callback.go).
THEOREM CreditedExactly == Spec => []CreditedIffSuccessful
<1>1. CreditInv => CreditedIffSuccessful
  BY DEF CreditInv
<1> QED BY <1>1, CreditInvariant, PTL

\* No step takes a success back from a recharge: its credit cannot be repeated.
THEOREM SuccessStays == Spec => RechargeSuccessIsFinal
<1>1. TypeOK /\ CreditInv /\ [Next]_vars
        => [\A r \in Recharges : recharge[r] = "success" => recharge'[r] = "success"]_vars
  <2> SUFFICES ASSUME TypeOK, CreditInv, [Next]_vars, NEW r \in Recharges,
                      recharge[r] = "success"
               PROVE  recharge'[r] = "success"
    OBVIOUS
  <2>1. CreditInv'
    BY StepCredit
  <2>2. Posted(r)
    BY DEF CreditInv, CreditedIffSuccessful
  <2>3. Posted(r)'
    <3>1. journal' = journal \/ \E e : journal' = Append(journal, e)
      BY DEF Next, BuyerStep, CreateRecharge, GatewayAccepts, GatewayRefuses, ScheduleExpire,
         ScheduleExpireFails, ReceiveCallback, CallbackStep, ReadRecharge,
         AcknowledgeCallback, ApplyCallback, Credit, Abort, PayerPays, ExpireRecharge, vars
    <3>2. ASSUME NEW e, journal' = Append(journal, e)
          PROVE  \A i \in DOMAIN journal : i \in DOMAIN journal' /\ journal'[i] = journal[i]
      BY <3>2 DEF TypeOK
    <3> QED BY <2>2, <3>1, <3>2 DEF Posted
  <2> QED BY <2>1, <2>3 DEF CreditInv, CreditedIffSuccessful
<1> QED BY <1>1, CreditInvariant, PTL DEF Spec, RechargeSuccessIsFinal

-----------------------------------------------------------------------------
(* The ledger.                                                              *)

\* A credit is a posting under a fresh reference, or nothing.
LEMMA CreditIsPosting ==
  ASSUME TypeOK, NEW r \in Recharges, Credit(r)
  PROVE  [Ledger!Next]_(Ledger!ledgerVars)
<1>1. CASE Posted(r)
  BY <1>1 DEF Credit, Ledger!ledgerVars
<1>2. CASE ~Posted(r)
  <2>1. Amount[r] \in Nat /\ balance \in Nat
    BY RechargeAssumption DEF TypeOK
  <2>2. balance' - balance = Amount[r] /\ balance + Amount[r] \in Nat
    BY <1>2, <2>1 DEF Credit
  <2>3. r \notin Ledger!UsedReferences(journal)
    BY <1>2 DEF Posted, Ledger!UsedReferences
  <2>4. Ledger!Post(r, Amount[r])
    BY <1>2, <2>2, <2>3 DEF Ledger!Post, Credit
  <2> QED BY <2>2, <2>4 DEF Ledger!Next
<1> QED BY <1>1, <1>2

\* Recharges move the wallet only as the abstract ledger does, each at most once.
THEOREM RechargeImplementsLedger == Spec => ImplementsLedger
<1>1. Init => Ledger!Init
  BY DEF Init, Ledger!Init
<1>2. TypeOK /\ [Next]_vars => [Ledger!Next]_(Ledger!ledgerVars)
  <2> SUFFICES ASSUME TypeOK, [Next]_vars PROVE [Ledger!Next]_(Ledger!ledgerVars)
    OBVIOUS
  <2>1. CASE UNCHANGED <<balance, journal>>
    BY <2>1 DEF Ledger!ledgerVars
  <2>2. ASSUME NEW h \in Processes, ApplyCallback(h) PROVE [Ledger!Next]_(Ledger!ledgerVars)
    <3>1. request[h].recharge \in Recharges
      BY <2>2, RequestFacts DEF ApplyCallback
    <3> QED BY <2>1, <2>2, <3>1, CreditIsPosting DEF ApplyCallback
  <2> QED BY <2>1, <2>2 DEF Next, Processes, BuyerStep, CreateRecharge, GatewayAccepts,
            GatewayRefuses, ScheduleExpire, ScheduleExpireFails, ReceiveCallback, CallbackStep,
            ReadRecharge, AcknowledgeCallback, Abort, PayerPays, ExpireRecharge, vars
<1> QED BY <1>1, <1>2, RechargeTypeCorrect, PTL DEF Spec, ImplementsLedger, Ledger!Spec

\* The facts about the ledger, for this wallet.
LedgerProofs == INSTANCE WalletLedgerProofs WITH References <- Recharges

\* The same of a wallet that is recharged: the journal explains the balance in every
\* state, whatever callbacks overlap (wallet_service.go).
THEOREM RechargeReconciles == Spec => []Ledger!JournalExplainsBalance
<1>1. OpeningBalance \in Nat
  BY RechargeAssumption DEF RechargeAssumption
<1>2. LedgerProofs!Spec => []LedgerProofs!JournalExplainsBalance
  BY <1>1, LedgerProofs!LedgerExplains
<1>3. LedgerProofs!JournalExplainsBalance => Ledger!JournalExplainsBalance
  BY DEF LedgerProofs!JournalExplainsBalance, Ledger!JournalExplainsBalance
<1>4. Ledger!Init => LedgerProofs!Init
  BY DEF LedgerProofs!Init, Ledger!Init
<1>5. [Ledger!Next]_(Ledger!ledgerVars) => [LedgerProofs!Next]_(LedgerProofs!ledgerVars)
  BY DEF LedgerProofs!Next, Ledger!Next, LedgerProofs!ledgerVars, Ledger!ledgerVars,
         LedgerProofs!Post, Ledger!Post, LedgerProofs!UsedReferences, Ledger!UsedReferences
<1> QED BY <1>2, <1>3, <1>4, <1>5, RechargeImplementsLedger, PTL
        DEF ImplementsLedger, Ledger!Spec, LedgerProofs!Spec
=============================================================================
