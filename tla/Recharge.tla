------------------------------ MODULE Recharge ------------------------------
(***************************************************************************)
(* Wallet recharges: CreateWalletRechargePayment, the callbacks of the     *)
(* gateway and the expiry task (payment_service.go,                        *)
(* payment_service_callback.go, payment_service_recharge_expire.go,        *)
(* wallet_service.go).  A recharge order has one payment row, so both are  *)
(* named by the recharge.  As in Checkout a transaction is one step, and   *)
(* what a handler read outside a transaction is kept in request[h].        *)
(***************************************************************************)
EXTENDS Integers, Sequences

CONSTANTS
  Recharges,      \* the recharges the user will try to make
  NoRecharge,     \* the recharge of an idle request
  Amount,         \* Amount[r]: what recharge r adds to the balance
  OpeningBalance, \* the wallet balance at the start
  Buyers,         \* concurrent HTTP requests of the user
  Gateways,       \* concurrent HTTP requests of payment gateways (callbacks)
  MaxAborts       \* bound: requests that die halfway

Processes == Buyers \union Gateways

ASSUME RechargeAssumption ==
  /\ NoRecharge \notin Recharges
  /\ Amount \in [Recharges -> Nat \ {0}]
  /\ OpeningBalance \in Nat
  /\ MaxAborts \in Nat

VARIABLES
  payment,    \* payment[r]: status and pay URL of r's payment row
  recharge,   \* recharge[r]: status of r's wallet_recharge_orders row
  balance,    \* the user's wallet account
  journal,    \* wallet transactions
  expireTask, \* expireTask[r]: the queued wallet:recharge_expire task
  settled,    \* environment: recharges the gateway has collected the money of
  request,    \* what each process is in the middle of, with what it has read
  aborts      \* number of requests that died halfway

vars == <<payment, recharge, balance, journal, expireTask, settled, request, aborts>>

PaymentStatuses == {"initiated", "pending", "success", "failed", "expired"}
RechargeStatuses == {"pending", "success", "failed", "expired"}
Terminal == {"success", "failed", "expired"}

Idle == [op |-> "idle", recharge |-> NoRecharge, target |-> "none",
         seenPayment |-> "none", seenRecharge |-> "none"]

Init ==
  /\ payment = [r \in Recharges |-> [status |-> "none", url |-> FALSE]]
  /\ recharge = [r \in Recharges |-> "none"]
  /\ balance = OpeningBalance
  /\ journal = << >>
  /\ expireTask = [r \in Recharges |-> "none"]
  /\ settled = {}
  /\ request = [h \in Processes |-> Idle]
  /\ aborts = 0

-----------------------------------------------------------------------------
(* The user's request.                                                      *)

CreateRecharge(h, r) ==
  /\ request[h] = Idle
  /\ payment[r].status = "none"
  /\ payment' = [payment EXCEPT ![r].status = "initiated"]
  /\ recharge' = [recharge EXCEPT ![r] = "pending"]
  /\ request' = [request EXCEPT ![h] = [Idle EXCEPT !.op = "gateway", !.recharge = r]]
  /\ UNCHANGED <<balance, journal, expireTask, settled, aborts>>

GatewayAccepts(h) ==
  LET r == request[h].recharge
  IN /\ request[h].op = "gateway"
     /\ payment' = [payment EXCEPT ![r] = [status |-> "pending", url |-> TRUE]]
     /\ request' = [request EXCEPT ![h].op = "schedule"]
     /\ UNCHANGED <<recharge, balance, journal, expireTask, settled, aborts>>

GatewayRefuses(h) ==
  LET r == request[h].recharge
  IN /\ request[h].op = "gateway"
     /\ payment' = [payment EXCEPT ![r].status = "failed"]
     /\ recharge' = [recharge EXCEPT ![r] = "failed"]
     /\ request' = [request EXCEPT ![h] = Idle]
     /\ UNCHANGED <<balance, journal, expireTask, settled, aborts>>

ScheduleExpire(h) ==
  /\ request[h].op = "schedule"
  /\ expireTask' = [expireTask EXCEPT ![request[h].recharge] = "scheduled"]
  /\ request' = [request EXCEPT ![h] = Idle]
  /\ UNCHANGED <<payment, recharge, balance, journal, settled, aborts>>

\* The queue refuses the task: the payment row, as it was after the gateway's
\* answer, is saved as failed, and so is a recharge not yet successful.
ScheduleExpireFails(h) ==
  LET r == request[h].recharge
  IN /\ request[h].op = "schedule"
     /\ payment' = [payment EXCEPT ![r].status = "failed"]
     /\ recharge' = [recharge EXCEPT ![r] = IF @ = "success" THEN @ ELSE "failed"]
     /\ request' = [request EXCEPT ![h] = Idle]
     /\ UNCHANGED <<balance, journal, expireTask, settled, aborts>>

\* The user pays at the gateway; the pay URL is in the answer to the request
\* and in the list of the user's recharges.
PayerPays(r) ==
  /\ payment[r].url
  /\ r \notin settled
  /\ settled' = settled \union {r}
  /\ UNCHANGED <<payment, recharge, balance, journal, expireTask, request, aborts>>

-----------------------------------------------------------------------------
(* HandleCallback for a payment without an order.                           *)

\* What may be reported of r, as in Checkout: success once the money is collected,
\* other reports also late, an expired session only while nothing is collected.
Reportable(r) ==
  {"pending", "failed"} \union (IF r \in settled THEN {"success"} ELSE {"expired"})

ReceiveCallback(h, r, target) ==
  /\ request[h] = Idle
  /\ payment[r].status # "none"
  /\ target \in Reportable(r)
  /\ request' = [request EXCEPT ![h] =
                   [Idle EXCEPT !.op = "callback", !.recharge = r, !.target = target,
                                !.seenPayment = payment[r].status]]
  /\ UNCHANGED <<payment, recharge, balance, journal, expireTask, settled, aborts>>

\* handleWalletRechargeCallback reads the recharge in a query of its own.
ReadRecharge(h) ==
  /\ request[h].op = "callback"
  /\ request' = [request EXCEPT ![h].op = "apply",
                                ![h].seenRecharge = recharge[request[h].recharge]]
  /\ UNCHANGED <<payment, recharge, balance, journal, expireTask, settled, aborts>>

\* The copy already is a success, or already in the reported status.
IsRepeat(q) == q.seenPayment \in {"success", q.target}

\* Seeded fault: a late success is ignored like every other late report.
CanApplyToOpen(q) == q.seenPayment \notin Terminal /\ q.seenRecharge \notin Terminal
\* canApplyWalletRechargeCallback, on the copies.
CanApply(q) ==
  q.target = "success" \/ (q.seenPayment \notin Terminal /\ q.seenRecharge \notin Terminal)

\* updateCallbackMeta: a repeated or ignored report saves the copy as it was read.
AcknowledgeCallback(h) ==
  LET q == request[h]
  IN /\ q.op = "apply"
     /\ IsRepeat(q) \/ ~CanApply(q)
     /\ payment' = [payment EXCEPT ![q.recharge].status = q.seenPayment]
     /\ request' = [request EXCEPT ![h] = Idle]
     /\ UNCHANGED <<recharge, balance, journal, expireTask, settled, aborts>>

Posted(r) == \E i \in DOMAIN journal : journal[i].reference = r

\* Seeded fault: the entry records the balance after it as it was before.
CreditMisrecorded(r) ==
  IF Posted(r) THEN UNCHANGED <<balance, journal>>
  ELSE /\ balance' = balance + Amount[r]
       /\ journal' = Append(journal, [reference |-> r, amount |-> Amount[r],
                                      before |-> balance, after |-> balance])

\* ApplyRechargePayment: the reference names the recharge.
Credit(r) ==
  IF Posted(r) THEN UNCHANGED <<balance, journal>>
  ELSE /\ balance' = balance + Amount[r]
       /\ journal' = Append(journal, [reference |-> r, amount |-> Amount[r],
                                      before |-> balance, after |-> balance + Amount[r]])

\* Seeded faults: the payment's word for a new payment is used for the recharge;
\* the case of a success is missing.
PaymentStatusFor(target) == IF target = "pending" THEN "initiated" ELSE target
StatusWithoutSuccess(target) == IF target \in {"failed", "expired"} THEN target ELSE "pending"

\* The recharge status a report sets; the switch's default covers the rest.
RechargeStatusFor(target) ==
  IF target \in {"success", "failed", "expired"} THEN target ELSE "pending"

\* applyWalletRechargePaymentUpdate: the payment's copy is saved first; of the
\* recharge, read again under lock, only a success is left alone.
ApplyCallback(h) ==
  LET q == request[h]
      r == q.recharge
  IN /\ q.op = "apply"
     /\ ~IsRepeat(q) /\ CanApply(q)
     /\ payment' = [payment EXCEPT ![r].status = q.target]
     /\ IF recharge[r] = "success"
          THEN UNCHANGED <<recharge, balance, journal>>
          ELSE /\ recharge' = [recharge EXCEPT ![r] = RechargeStatusFor(q.target)]
               /\ IF q.target = "success" THEN Credit(r) ELSE UNCHANGED <<balance, journal>>
     /\ request' = [request EXCEPT ![h] = Idle]
     /\ UNCHANGED <<expireTask, settled, aborts>>

-----------------------------------------------------------------------------
(* The expiry task, and failure.                                            *)

\* Seeded fault: only the payment's status is looked at.
CanExpirePayment(r) == payment[r].status \in {"initiated", "pending"}

\* canExpireWalletRechargePayment.
CanExpire(r) == recharge[r] = "pending" /\ payment[r].status \in {"initiated", "pending"}

\* ExpireWalletRechargePayment: reads and writes both rows under lock, at some
\* time after the delay the task was queued with.
ExpireRecharge(r) ==
  /\ expireTask[r] = "scheduled"
  /\ expireTask' = [expireTask EXCEPT ![r] = "done"]
  /\ IF CanExpire(r)
       THEN /\ payment' = [payment EXCEPT ![r].status = "expired"]
            /\ recharge' = [recharge EXCEPT ![r] = "expired"]
       ELSE UNCHANGED <<payment, recharge>>
  /\ UNCHANGED <<balance, journal, settled, request, aborts>>

Abort(h) ==
  /\ request[h] # Idle
  /\ aborts < MaxAborts
  /\ aborts' = aborts + 1
  /\ request' = [request EXCEPT ![h] = Idle]
  /\ UNCHANGED <<payment, recharge, balance, journal, expireTask, settled>>

-----------------------------------------------------------------------------
BuyerStep(b) ==
  \/ \E r \in Recharges : CreateRecharge(b, r)
  \/ GatewayAccepts(b) \/ GatewayRefuses(b)
  \/ ScheduleExpire(b) \/ ScheduleExpireFails(b)

\* What is left of a callback once it was received.
CallbackStep(g) == ReadRecharge(g) \/ AcknowledgeCallback(g) \/ ApplyCallback(g)

Next ==
  \/ \E b \in Buyers : BuyerStep(b)
  \/ \E g \in Gateways :
       \/ \E r \in Recharges, t \in PaymentStatuses : ReceiveCallback(g, r, t)
       \/ CallbackStep(g)
  \/ \E h \in Processes : Abort(h)
  \/ \E r \in Recharges : PayerPays(r) \/ ExpireRecharge(r)

Spec == Init /\ [][Next]_vars

\* A handler that started goes on unless it dies, and the gateway reports a
\* collected payment again and again (providers do until they are answered with
\* a success; the user's capture request asks for the same report).
CallbackFairness ==
  /\ \A g \in Gateways : WF_vars(CallbackStep(g))
  /\ \A r \in Recharges : SF_vars(\E g \in Gateways : ReceiveCallback(g, r, "success"))

FairSpec == Spec /\ CallbackFairness

-----------------------------------------------------------------------------
JournalEntry == [reference : Recharges, amount : Int, before : Nat, after : Nat]
Request == [op : {"idle", "gateway", "schedule", "callback", "apply"},
            recharge : Recharges \union {NoRecharge},
            target : {"none"} \union PaymentStatuses,
            seenPayment : {"none"} \union PaymentStatuses,
            seenRecharge : {"none"} \union RechargeStatuses]

\* The tables hold rows of their types, and a request in the middle of its work
\* names its recharge.
TypeOK ==
  /\ payment \in [Recharges -> [status : {"none"} \union PaymentStatuses, url : BOOLEAN]]
  /\ recharge \in [Recharges -> {"none"} \union RechargeStatuses]
  /\ balance \in Nat
  /\ journal \in Seq(JournalEntry)
  /\ expireTask \in [Recharges -> {"none", "scheduled", "done"}]
  /\ settled \subseteq Recharges
  /\ request \in [Processes -> Request]
  /\ \A h \in Processes : request[h].op # "idle" => request[h].recharge \in Recharges
  /\ aborts \in 0..MaxAborts

Ledger == INSTANCE WalletLedger WITH References <- Recharges

\* Recharges move the wallet only by postings of the abstract ledger, one per
\* recharge at most, however often its success is reported
\* (wallet_transactions.reference, "recharge:<id>:success").
ImplementsLedger == Ledger!Spec

\* A recharge is successful exactly when it was credited, with its own amount,
\* and only if the gateway has collected the money: no overlap of callbacks,
\* expiry and failed calls credits it twice, for nothing, or not at all.
CreditedIffSuccessful ==
  /\ \A r \in Recharges : recharge[r] = "success" <=> Posted(r)
  /\ \A i \in DOMAIN journal :
       /\ journal[i].amount = Amount[journal[i].reference]
       /\ journal[i].reference \in settled

\* Nothing takes a success back from a recharge: neither a stale copy of
\* handleWalletRechargeCallback, nor the expiry task, nor a failed enqueue.
RechargeSuccessIsFinal ==
  [][\A r \in Recharges : recharge[r] = "success" => recharge'[r] = "success"]_vars

\* Money the gateway has collected reaches the wallet in the end, even if the
\* recharge was expired or failed before (canApplyWalletRechargeCallback lets a
\* success override every other status).
SettledIsCredited == \A r \in Recharges : r \in settled ~> Posted(r)
=============================================================================
