---------------------------- MODULE WalletLedger ----------------------------
(***************************************************************************)
(* What the wallet promises, whoever moves money through it: an account    *)
(* balance and its journal of transactions (wallet_accounts and            *)
(* wallet_transactions).  A posting adds one entry under a reference never *)
(* used before, does not overdraw the account, and records the balance     *)
(* before and after it.  The order and the recharge flows implement it.    *)
(***************************************************************************)
EXTENDS Integers, Sequences

CONSTANTS References,      \* the idempotency references entries are posted under
          OpeningBalance   \* the balance before the first entry

VARIABLES balance, journal

ledgerVars == <<balance, journal>>

\* A wallet_transactions row; the amount is signed by its direction.
Entry == [reference : References, amount : Int, before : Nat, after : Nat]

UsedReferences(j) == {j[i].reference : i \in DOMAIN j}

Init ==
  /\ balance = OpeningBalance
  /\ journal = << >>

\* One posting: the account row and the transaction row, in one transaction.
Post(r, amount) ==
  /\ r \notin UsedReferences(journal)
  /\ balance + amount \in Nat
  /\ balance' = balance + amount
  /\ journal' = Append(journal, [reference |-> r, amount |-> amount,
                                 before |-> balance, after |-> balance + amount])

Next == \E r \in References : Post(r, balance' - balance)

Spec == Init /\ [][Next]_ledgerVars

\* The journal explains the balance: entries link up from the opening balance
\* to the current one, every entry adds up, and no reference occurs twice.
\* This is what reconciling an account against wallet_transactions relies on.
JournalExplainsBalance ==
  /\ balance = IF journal = << >> THEN OpeningBalance ELSE journal[Len(journal)].after
  /\ \A i \in DOMAIN journal :
       /\ journal[i].before = IF i = 1 THEN OpeningBalance ELSE journal[i - 1].after
       /\ journal[i].after = journal[i].before + journal[i].amount
       /\ \A j \in DOMAIN journal :
            journal[i].reference = journal[j].reference => i = j
=============================================================================
