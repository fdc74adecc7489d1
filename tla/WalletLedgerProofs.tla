------------------------- MODULE WalletLedgerProofs -------------------------
(***************************************************************************)
(* The abstract ledger keeps its promise for every set of references and   *)
(* every opening balance.                                                  *)
(***************************************************************************)
EXTENDS WalletLedger, TLAPS

\* The balance and the entries have their types.
LedgerTypeOK == balance \in Nat /\ journal \in Seq(Entry)

\* A posting keeps the types.
LEMMA PostType ==
  ASSUME LedgerTypeOK, NEW r \in References, NEW amount \in Int, Post(r, amount)
  PROVE  LedgerTypeOK'
BY DEF LedgerTypeOK, Post, Entry

\* A posting extends the explanation by one entry.
LEMMA PostExplains ==
  ASSUME LedgerTypeOK, JournalExplainsBalance,
         NEW r \in References, NEW amount \in Int, Post(r, amount)
  PROVE  JournalExplainsBalance'
<1> DEFINE n == Len(journal)
           e == [reference |-> r, amount |-> amount,
                 before |-> balance, after |-> balance + amount]
<1>1. /\ n \in Nat /\ journal \in Seq(Entry)
      /\ journal' = Append(journal, e) /\ balance' = balance + amount
      /\ r \notin UsedReferences(journal)
  BY DEF LedgerTypeOK, Post
<1>2. /\ Len(journal') = n + 1 /\ DOMAIN journal' = 1..(n + 1) /\ DOMAIN journal = 1..n
      /\ journal'[n + 1] = e
      /\ \A i \in 1..n : journal'[i] = journal[i]
      /\ journal' # << >>
  BY <1>1
<1>3. balance' = journal'[Len(journal')].after
  BY <1>1, <1>2
<1>4. balance = IF n = 0 THEN OpeningBalance ELSE journal[n].after
  BY <1>1 DEF JournalExplainsBalance
<1>5. ASSUME NEW i \in 1..(n + 1)
      PROVE  /\ journal'[i].before = IF i = 1 THEN OpeningBalance ELSE journal'[i - 1].after
             /\ journal'[i].after = journal'[i].before + journal'[i].amount
  <2>1. CASE i = n + 1
    <3>1. journal'[i] = e /\ (i = 1 <=> n = 0) /\ i - 1 = n
      BY <1>1, <1>2, <2>1
    <3>2. n # 0 => n \in 1..n /\ journal'[n] = journal[n]
      <4>1. n # 0 => n \in 1..n
        BY <1>1
      <4> HIDE DEF n, e
      <4> QED BY <1>2, <4>1
    <3>3. e.before = balance /\ e.after = balance + amount /\ e.amount = amount
      OBVIOUS
    <3>4. e.before = IF i = 1 THEN OpeningBalance ELSE journal'[i - 1].after
      BY <1>4, <3>1, <3>2, <3>3
    <3> QED BY <3>1, <3>3, <3>4
  <2>2. CASE i # n + 1
    <3>1. i \in 1..n /\ (i # 1 => i - 1 \in 1..n)
      BY <1>1, <2>2
    <3> QED BY <1>2, <3>1 DEF JournalExplainsBalance
  <2> QED BY <2>1, <2>2
<1>6. ASSUME NEW i \in 1..(n + 1), NEW j \in 1..(n + 1),
             journal'[i].reference = journal'[j].reference
      PROVE  i = j
  <2>1. \A k \in 1..n : journal[k].reference # r
    BY <1>1, <1>2 DEF UsedReferences
  <2>2. CASE i \in 1..n /\ j \in 1..n
    BY <1>2, <1>6, <2>2 DEF JournalExplainsBalance
  <2>3. CASE i = n + 1 \/ j = n + 1
    BY <1>1, <1>2, <1>6, <2>1, <2>3
  <2> QED BY <1>1, <2>2, <2>3
<1> QED BY <1>2, <1>3, <1>5, <1>6 DEF JournalExplainsBalance

\* A wallet that moves only by postings under fresh references always has a
\* journal that explains its balance.
THEOREM LedgerExplains ==
  ASSUME OpeningBalance \in Nat
  PROVE  Spec => []JournalExplainsBalance
<1> DEFINE Inv == LedgerTypeOK /\ JournalExplainsBalance
<1>1. Init => Inv
  BY DEF Init, LedgerTypeOK, JournalExplainsBalance
<1>2. Inv /\ [Next]_ledgerVars => Inv'
  <2> SUFFICES ASSUME Inv, [Next]_ledgerVars PROVE Inv'
    OBVIOUS
  <2>1. CASE Next
    <3>1. PICK r \in References : Post(r, balance' - balance)
      BY <2>1 DEF Next
    <3>2. balance' - balance \in Int
      BY <3>1 DEF Post, LedgerTypeOK
    <3> QED BY <3>1, <3>2, PostType, PostExplains
  <2>2. CASE UNCHANGED ledgerVars
    BY <2>2 DEF ledgerVars, LedgerTypeOK, JournalExplainsBalance, UsedReferences
  <2> QED BY <2>1, <2>2
<1> QED BY <1>1, <1>2, PTL DEF Spec
=============================================================================
