--------------------------- MODULE AffiliateProofs ---------------------------
(***************************************************************************)
(* Affiliate for any number of orders, commissions, handlers and requests: *)
(* what is paid out was earned, a request is worth what it asks for, and   *)
(* refunds leave of a commission the share that was not refunded.          *)
(***************************************************************************)
EXTENDS Affiliate, SequenceTheorems, OperatorProofs

-----------------------------------------------------------------------------
(* Numbers.                                                                 *)

\* The larger and the smaller of two.
LEMMA MaxMin ==
  ASSUME NEW a \in Int, NEW b \in Int
  PROVE  /\ Max({a, b}) = IF a >= b THEN a ELSE b
         /\ Min({a, b}) = IF a <= b THEN a ELSE b
<1>1. \E m \in {a, b} : \A y \in {a, b} : m >= y
  OBVIOUS
<1>2. \E m \in {a, b} : \A y \in {a, b} : m <= y
  OBVIOUS
<1>3. Max({a, b}) \in {a, b} /\ \A y \in {a, b} : Max({a, b}) >= y
  BY <1>1 DEF Max
<1>4. Min({a, b}) \in {a, b} /\ \A y \in {a, b} : Min({a, b}) <= y
  BY <1>2 DEF Min
<1> QED BY <1>3, <1>4

\* Round is off by half at most.
LEMMA RoundedBounds ==
  ASSUME NEW x \in Nat, NEW y \in Nat \ {0}
  PROVE  /\ Rounded(x, y) \in Nat
         /\ 2 * (y * Rounded(x, y)) <= 2 * x + y
         /\ 2 * x - y < 2 * (y * Rounded(x, y))
<1> DEFINE n == 2 * x + y
           d == 2 * y
           q == n \div d
           m == n % d
<1>1. n \in Nat /\ d \in Nat /\ d > 0
  OBVIOUS
<1> HIDE DEF n, d
<1>2. q \in Int /\ m \in Int /\ n = d * q + m /\ 0 <= m /\ m < d
  BY <1>1
<1> HIDE DEF q, m
<1>3. q >= 0
  <2>1. CASE q < 0
    <3>1. d * q <= d * (-1)
      BY <1>1, <1>2, <2>1
    <3> QED BY <1>1, <1>2, <3>1
  <2> QED BY <1>2, <2>1
<1>4. d * q = 2 * (y * q)
  BY <1>2, <1>3 DEF d
<1>5. Rounded(x, y) = q
  BY DEF Rounded, n, d, q
<1> QED BY <1>1, <1>2, <1>3, <1>4, <1>5 DEF n, d

\* A positive factor can be dropped.
LEMMA DropFactor ==
  ASSUME NEW k \in Nat \ {0}, NEW x \in Int, NEW y \in Int, k * x <= k * y
  PROVE  x <= y
<1>1. CASE x > y
  <2>1. x >= y + 1
    BY <1>1
  <2>2. k * x >= k * (y + 1)
    BY <2>1
  <2>3. k * (y + 1) = k * y + k
    OBVIOUS
  <2>4. k * x \in Int /\ k * y \in Int
    OBVIOUS
  <2> QED BY <2>2, <2>3, <2>4
<1> QED BY <1>1

\* A part of a commission is at most the commission, and the whole is all of it.
LEMMA RoundedPart ==
  ASSUME NEW a \in Nat, NEW kept \in Nat \ {0}, NEW d \in 1..kept
  PROVE  /\ Rounded(a * d, kept) \in 0..a
         /\ d = kept => Rounded(a * d, kept) = a
<1> DEFINE R == Rounded(a * d, kept)
<1>1. a * d \in Nat /\ a * d <= a * kept /\ a * kept = kept * a
  OBVIOUS
<1>2. R \in Nat /\ 2 * (kept * R) <= 2 * (a * d) + kept /\ 2 * (a * d) - kept < 2 * (kept * R)
  BY <1>1, RoundedBounds
<1> HIDE DEF R
<1>3. R <= a
  <2>1. CASE R > a
    <3>1. kept * R >= kept * (a + 1)
      BY <1>2, <2>1
    <3>2. kept * (a + 1) = kept * a + kept
      OBVIOUS
    <3>3. kept * R \in Nat /\ kept * a \in Nat
      BY <1>2
    <3> QED BY <1>1, <1>2, <3>1, <3>2, <3>3
  <2> QED BY <1>2, <2>1
<1>4. ASSUME d = kept PROVE R = a
  <2>1. CASE R < a
    <3>1. kept * R <= kept * (a - 1)
      BY <1>2, <2>1
    <3>2. kept * (a - 1) = kept * a - kept
      OBVIOUS
    <3>3. kept * R \in Nat /\ kept * a \in Nat /\ a * d = kept * a
      BY <1>2, <1>4
    <3> QED BY <1>2, <3>1, <3>2, <3>3
  <2> QED BY <1>2, <1>3, <2>1
<1> QED BY <1>2, <1>3, <1>4 DEF R

\* Refunding d of kept once more: the error of the share grows by half a cent of
\* the whole at most.
LEMMA ShareErrorGrows ==
  ASSUME NEW whole \in Nat, NEW of \in Nat, NEW a \in Nat, NEW n \in Nat, NEW R \in Nat,
         NEW kept \in Nat \ {0}, NEW d \in 1..kept,
         2 * (whole * a - of * kept) <= whole * n,
         2 * (of * kept - whole * a) <= whole * n,
         2 * (kept * R) <= 2 * (a * d) + kept,
         2 * (a * d) - kept <= 2 * (kept * R)
  PROVE  /\ 2 * (whole * (a - R) - of * (kept - d)) <= whole * (n + 1)
         /\ 2 * (of * (kept - d) - whole * (a - R)) <= whole * (n + 1)
<1> DEFINE E == whole * a - of * kept
           r == a * d - kept * R
           N == whole * (a - R) - of * (kept - d)
           W == whole * n
           left == kept - d
<1>1. E \in Int /\ r \in Int /\ N \in Int /\ W \in Nat /\ left \in Nat
  OBVIOUS
<1>2. kept * N = left * E + whole * r
  OBVIOUS
<1>3. 2 * E <= W /\ 2 * (-E) <= W
  OBVIOUS
<1>4. 2 * r <= kept /\ 2 * (-r) <= kept
  OBVIOUS
<1>5. whole * (n + 1) = W + whole /\ whole * (n + 1) \in Nat
  OBVIOUS
<1>6. left <= kept
  OBVIOUS
<1>7. of * (kept - d) - whole * (a - R) = -N
  OBVIOUS
<1> HIDE DEF E, r, N, W, left
<1>8. /\ left * (2 * E) <= left * W /\ left * (2 * (-E)) <= left * W
      /\ left * W <= kept * W
  BY <1>1, <1>3, <1>6
<1>9. whole * (2 * r) <= whole * kept /\ whole * (2 * (-r)) <= whole * kept
  BY <1>1, <1>4
<1>10. /\ kept * (2 * N) = left * (2 * E) + whole * (2 * r)
       /\ kept * (2 * (-N)) = left * (2 * (-E)) + whole * (2 * (-r))
  <2>1. kept * (2 * N) = 2 * (kept * N) /\ kept * (2 * (-N)) = -(2 * (kept * N))
    BY <1>1
  <2>2. left * (2 * E) = 2 * (left * E) /\ left * (2 * (-E)) = -(2 * (left * E))
    BY <1>1
  <2>3. whole * (2 * r) = 2 * (whole * r) /\ whole * (2 * (-r)) = -(2 * (whole * r))
    BY <1>1
  <2>4. kept * N \in Int /\ left * E \in Int /\ whole * r \in Int
    BY <1>1
  <2> QED BY <1>2, <2>1, <2>2, <2>3, <2>4
<1>11. kept * (W + whole) = kept * W + whole * kept
  BY <1>1
<1>12. /\ left * (2 * E) \in Int /\ left * (2 * (-E)) \in Int /\ left * W \in Int
       /\ kept * W \in Int /\ whole * kept \in Int
       /\ whole * (2 * r) \in Int /\ whole * (2 * (-r)) \in Int
  BY <1>1
<1>13. kept * (2 * N) <= kept * (W + whole) /\ kept * (2 * (-N)) <= kept * (W + whole)
  BY <1>8, <1>9, <1>10, <1>11, <1>12
<1>14. 2 * N <= W + whole /\ 2 * (-N) <= W + whole
  BY <1>1, <1>13, DropFactor
<1> QED BY <1>5, <1>7, <1>14 DEF N

-----------------------------------------------------------------------------
(* Sums of amounts.                                                         *)

\* The amounts of a sequence of rows.
Amounts(c) == [i \in DOMAIN c |-> c[i].amount]

\* A sequence of rows, its ids and its rows.
LEMMA SeqFacts ==
  ASSUME NEW c \in Seq(RowType)
  PROVE  /\ Len(c) \in Nat /\ DOMAIN c = 1..Len(c) /\ IsFiniteSet(DOMAIN c)
         /\ \A i \in DOMAIN c : /\ i \in Nat /\ c[i] \in RowType
                                /\ Amounts(c)[i] = c[i].amount /\ c[i].amount \in Nat
<1>1. Len(c) \in Nat /\ DOMAIN c = 1..Len(c)
  OBVIOUS
<1>2. \A i \in DOMAIN c : i \in Nat /\ c[i] \in RowType
  BY <1>1
<1>3. IsFiniteSet(1..Len(c))
  BY <1>1, FS_Interval
<1> QED BY <1>1, <1>2, <1>3 DEF Amounts, RowType

\* Sums over some of the rows are natural, monotone and additive.
LEMMA AmountSums ==
  ASSUME NEW c \in Seq(RowType), NEW S \in SUBSET (DOMAIN c)
  PROVE  /\ IsFiniteSet(S)
         /\ SumFunctionOnSet(Amounts(c), S) \in Nat
         /\ \A T \in SUBSET S :
              /\ SumFunctionOnSet(Amounts(c), S)
                   = SumFunctionOnSet(Amounts(c), T) + SumFunctionOnSet(Amounts(c), S \ T)
              /\ SumFunctionOnSet(Amounts(c), T) <= SumFunctionOnSet(Amounts(c), S)
              /\ SumFunctionOnSet(Amounts(c), T) \in Nat
         /\ SumFunctionOnSet(Amounts(c), {}) = 0
<1>1. IsFiniteSet(S) /\ \A i \in S : Amounts(c)[i] \in Nat /\ Amounts(c)[i] \in Int
  BY SeqFacts, FS_Subset
<1>2. SumFunctionOnSet(Amounts(c), S) \in Nat
  BY <1>1, SumNat
<1>3. ASSUME NEW T \in SUBSET S
      PROVE  /\ SumFunctionOnSet(Amounts(c), S)
                  = SumFunctionOnSet(Amounts(c), T) + SumFunctionOnSet(Amounts(c), S \ T)
             /\ SumFunctionOnSet(Amounts(c), T) <= SumFunctionOnSet(Amounts(c), S)
             /\ SumFunctionOnSet(Amounts(c), T) \in Nat
  <2>1. /\ IsFiniteSet(T) /\ IsFiniteSet(S \ T) /\ T \intersect (S \ T) = {}
        /\ T \union (S \ T) = S
    BY <1>1, FS_Subset
  <2>2. SumFunctionOnSet(Amounts(c), T \union (S \ T))
          = SumFunctionOnSet(Amounts(c), T) + SumFunctionOnSet(Amounts(c), S \ T)
    BY <1>1, <2>1, SumUnion
  <2>3. SumFunctionOnSet(Amounts(c), T) \in Nat
    BY <1>1, <2>1, SumNat
  <2>4. SumFunctionOnSet(Amounts(c), T) <= SumFunctionOnSet(Amounts(c), S)
    BY <1>1, SumNat
  <2> QED BY <2>1, <2>2, <2>3, <2>4
<1>4. SumFunctionOnSet(Amounts(c), {}) = 0
  BY SumPick, FS_EmptySet
<1> QED BY <1>1, <1>2, <1>3, <1>4

\* Two sequences with the same amounts at some ids have the same sum there.
LEMMA SameAmounts ==
  ASSUME NEW c \in Seq(RowType), NEW d \in Seq(RowType),
         NEW S \in SUBSET (DOMAIN c \intersect DOMAIN d),
         \A i \in S : c[i].amount = d[i].amount
  PROVE  SumFunctionOnSet(Amounts(c), S) = SumFunctionOnSet(Amounts(d), S)
<1>1. IsFiniteSet(S)
  BY SeqFacts, FS_Subset
<1>2. \A i \in S : Amounts(c)[i] = Amounts(d)[i]
  BY SeqFacts
<1> QED BY <1>1, <1>2, SumAgree

\* And with smaller ones, a smaller sum.
LEMMA SmallerAmounts ==
  ASSUME NEW c \in Seq(RowType), NEW d \in Seq(RowType),
         NEW S \in SUBSET (DOMAIN c \intersect DOMAIN d),
         \A i \in S : c[i].amount <= d[i].amount
  PROVE  SumFunctionOnSet(Amounts(c), S) <= SumFunctionOnSet(Amounts(d), S)
<1>1. IsFiniteSet(S)
  BY SeqFacts, FS_Subset
<1>2. \A i \in S : /\ Amounts(c)[i] <= Amounts(d)[i]
                   /\ Amounts(c)[i] \in Int /\ Amounts(d)[i] \in Int
  BY SeqFacts
<1> QED BY <1>1, <1>2, SumMonotone

\* AmountOf is such a sum.
LEMMA AmountOfIs ==
  ASSUME NEW S
  PROVE  AmountOf(S) = SumFunctionOnSet(Amounts(commission), S)
BY DEF AmountOf, Amounts, Ids

-----------------------------------------------------------------------------
(* A request for payment takes what it asks for.                            *)

\* What the available commissions before the id n give of amount.
Given(n, amount) ==
  SumFunctionOnSet([i \in Ids |-> Taken(i, amount)], {i \in Available : i < n})

\* A commission gives no more than it has, and only if it is available.
LEMMA TakenBounds ==
  ASSUME commission \in Seq(RowType), NEW amount \in Nat, NEW i \in Ids
  PROVE  /\ Taken(i, amount) \in 0..commission[i].amount
         /\ commission[i].amount \in Nat
         /\ i \notin Available => Taken(i, amount) = 0
<1> DEFINE before == AmountOf({j \in Available : j < i})
<1>1. before \in Nat
  BY AmountSums, AmountOfIs DEF Available, Ids
<1>2. commission[i].amount \in Nat
  BY SeqFacts DEF Ids
<1>3. CASE i \notin Available \/ before >= amount
  BY <1>2, <1>3 DEF Taken
<1>4. CASE i \in Available /\ before < amount
  <2>1. Taken(i, amount) = Min({commission[i].amount, amount - before})
    BY <1>1, <1>4 DEF Taken
  <2> DEFINE left == amount - before
  <2>2. left \in Int /\ left > 0
    BY <1>1, <1>4
  <2>3. Taken(i, amount) = Min({commission[i].amount, left})
    BY <2>1
  <2> HIDE DEF before, left
  <2>4. commission[i].amount \in Int
    BY <1>2
  <2>5. Taken(i, amount) = IF commission[i].amount <= left THEN commission[i].amount ELSE left
    BY <2>2, <2>3, <2>4, MaxMin, Zenon
  <2> QED BY <1>2, <1>4, <2>2, <2>5
<1> QED BY <1>1, <1>3, <1>4 DEF Taken

\* The first n - 1 give all they have, or all that is asked for.
LEMMA GivenByFirst ==
  ASSUME commission \in Seq(RowType), NEW amount \in Nat, NEW n \in 1..(Len(commission) + 1)
  PROVE  LET had == AmountOf({i \in Available : i < n})
         IN Given(n, amount) = IF had <= amount THEN had ELSE amount
<1> DEFINE First(m) == {i \in Available : i < m}
           had(m) == AmountOf(First(m))
           Good(m) == Given(m, amount) = IF had(m) <= amount THEN had(m) ELSE amount
           f == [i \in Ids |-> Taken(i, amount)]
           wrong == {m \in 1..(Len(commission) + 1) : ~Good(m)}
<1>1. /\ Ids = 1..Len(commission) /\ Len(commission) \in Nat /\ Available \subseteq Ids
      /\ \A i \in Available : i \in Int /\ 1 <= i /\ i <= Len(commission)
  BY SeqFacts DEF Ids, Available
<1>2. SUFFICES ASSUME wrong # {} PROVE FALSE
  OBVIOUS
<1>3. PICK m \in wrong : \A k \in wrong : m <= k
  <2>1. wrong \subseteq Nat
    BY <1>1
  <2> HIDE DEF wrong
  <2> QED BY <1>2, <2>1, LeastNatural
<1>4. m \in 1..(Len(commission) + 1) /\ ~Good(m)
  OBVIOUS
<1>5. \A i \in Ids : f[i] = Taken(i, amount) /\ f[i] \in Nat /\ f[i] \in Int
  BY TakenBounds
<1>6. \A k : First(k) \subseteq Ids /\ IsFiniteSet(First(k)) /\ had(k) \in Nat
  BY <1>1, AmountSums, AmountOfIs DEF Ids
<1>7. \A k : Given(k, amount) = SumFunctionOnSet(f, First(k))
  BY DEF Given
<1>8. m # 1
  <2>1. ASSUME m = 1 PROVE FALSE
    <3>1. \A i \in Available : ~(i < m)
      BY <1>1, <2>1
    <3>2. First(m) = {}
      BY <3>1
    <3>3. had(m) = 0 /\ SumFunctionOnSet(f, First(m)) = 0
      BY <3>2, SumPick, FS_EmptySet, AmountOfIs
    <3> QED BY <1>4, <1>7, <3>3
  <2> QED BY <2>1
<1> DEFINE p == m - 1
<1>9. p \in 1..(Len(commission) + 1) /\ p \in Ids /\ p \notin wrong /\ m = p + 1
  BY <1>1, <1>3, <1>4, <1>8
<1>10. Good(p)
  BY <1>9
<1>11. First(m) = IF p \in Available THEN First(p) \union {p} ELSE First(p)
  <2>1. \A i \in Available : i < m <=> (i < p \/ i = p)
    BY <1>1, <1>9
  <2> QED BY <2>1
<1>12. p \notin First(p)
  BY <1>9
<1> HIDE DEF wrong, p, f
<1>13. CASE p \notin Available
  <2>1. First(m) = First(p)
    BY <1>11, <1>13
  <2> HIDE DEF First
  <2> QED BY <1>4, <1>7, <1>10, <2>1
<1>14. CASE p \in Available
  <2>1. First(m) = First(p) \union {p}
    BY <1>11, <1>14
  <2>2. SumFunctionOnSet(f, First(m)) = SumFunctionOnSet(f, First(p)) + f[p]
    BY <1>5, <1>6, <1>9, <1>12, <2>1, SumAdd
  <2>3. had(m) = had(p) + commission[p].amount
    <3>1. p \in DOMAIN commission /\ \A i \in DOMAIN commission : Amounts(commission)[i] \in Int
      BY <1>9, SeqFacts DEF Ids
    <3>2. SumFunctionOnSet(Amounts(commission), First(m))
            = SumFunctionOnSet(Amounts(commission), First(p)) + Amounts(commission)[p]
      BY <1>6, <1>12, <2>1, <3>1, SumAdd DEF Ids
    <3> QED BY <3>1, <3>2, AmountOfIs, SeqFacts
  <2>4. Taken(p, amount) = IF had(p) >= amount THEN 0
                           ELSE Min({commission[p].amount, amount - had(p)})
    BY <1>14 DEF Taken
  <2>5. commission[p].amount \in Nat /\ had(p) \in Nat /\ had(m) \in Nat
    BY <1>6, <1>9, TakenBounds
  <2>6. Given(m, amount) = Given(p, amount) + Taken(p, amount)
    BY <1>5, <1>7, <1>9, <2>2
  <2> HIDE DEF First
  <2> HIDE DEF had
  <2>7. CASE had(p) >= amount
    BY <1>4, <1>10, <2>3, <2>4, <2>5, <2>6, <2>7
  <2>8. CASE had(p) < amount
    <3> DEFINE left == amount - had(p)
    <3>1. left \in Int /\ left > 0 /\ amount = had(p) + left
      BY <2>5, <2>8
    <3>2. Taken(p, amount) = Min({commission[p].amount, left})
      BY <2>4, <2>5, <2>8
    <3> HIDE DEF left
    <3>3. Taken(p, amount) = IF commission[p].amount <= left THEN commission[p].amount ELSE left
      <4>1. commission[p].amount \in Int
        BY <2>5
      <4> QED BY <3>1, <3>2, <4>1, MaxMin, Zenon
    <3> QED BY <1>4, <1>10, <2>3, <2>5, <2>6, <3>1, <3>3
  <2> QED BY <2>5, <2>7, <2>8
<1> QED BY <1>13, <1>14

\* Together they give all that is asked for, if there is as much.
LEMMA RequestIsFilled ==
  ASSUME commission \in Seq(RowType), NEW amount \in 1..AmountOf(Available)
  PROVE  SumFunctionOnSet([i \in Ids |-> Taken(i, amount)], Available) = amount
<1> DEFINE n == Len(commission) + 1
<1>1. /\ Ids = 1..Len(commission) /\ Len(commission) \in Nat /\ Available \subseteq Ids
      /\ \A i \in Available : i \in Int /\ 1 <= i /\ i <= Len(commission)
  BY SeqFacts DEF Ids, Available
<1>2. {i \in Available : i < n} = Available
  <2>1. \A i \in Available : i < n
    BY <1>1
  <2> QED BY <2>1
<1>3. AmountOf(Available) \in Nat
  BY <1>1, AmountSums, AmountOfIs DEF Ids
<1>4. amount \in Nat /\ amount <= AmountOf(Available) /\ n \in 1..(Len(commission) + 1)
  BY <1>1, <1>3
<1>5. Given(n, amount) = IF AmountOf(Available) <= amount THEN AmountOf(Available) ELSE amount
  BY <1>2, <1>4, GivenByFirst
<1>6. Given(n, amount) = SumFunctionOnSet([i \in Ids |-> Taken(i, amount)], Available)
  BY <1>2, Zenon DEF Given
<1>7. Given(n, amount) = amount
  BY <1>3, <1>4, <1>5
<1> QED BY <1>6, <1>7

-----------------------------------------------------------------------------
(* The rows, their requests and the copies a cancellation holds.            *)

\* A request for payment.
WithdrawType == [amount : Nat, status : {"pending_review", "rejected", "paid"}]

\* A commission that was taken back is in no request; one that is in a request ends
\* with it; and unless taken back, it dates from before the refunds of its order.
RowOK(row, ref, requests) ==
  /\ row.status # "rejected" => row.share.since <= ref[row.order]
  /\ row.request \in 0..Len(requests)
  /\ row.status = "rejected" => row.request = Unbound
  /\ row.request # Unbound =>
       \/ requests[row.request].status = "pending_review" /\ row.status = "available"
       \/ requests[row.request].status = "paid" /\ row.status = "withdrawn"

\* Every commission is so.
RowsInv == \A i \in Ids : RowOK(commission[i], refunded, withdraw)

\* What a cancellation has read is about the order it will be saved for.
CopiesInv ==
  /\ DOMAIN canceling = Handlers
  /\ \A h \in Handlers : \A i \in DOMAIN canceling[h] :
       canceling[h][i].order = commission[i].order

\* The structure the sums below rest on.
StructInv == TypeOK /\ RowsInv /\ CopiesInv

\* No request is forgotten, none changes its amount, and one that was decided stays so.
RequestsKept ==
  /\ withdraw' \in Seq(WithdrawType) /\ Len(withdraw') <= MaxRequests
  /\ Len(withdraw) <= Len(withdraw') /\ overwritten' \subseteq 1..Len(withdraw')

\* Refunds only grow, up to the total.
RefundsGrow ==
  /\ refunded' \in [Orders -> Nat] /\ records' \in [Orders -> Nat]
  /\ \A o \in Orders : refunded[o] <= refunded'[o] /\ refunded'[o] <= Total[o]

\* The copies are as they were, or fewer.
CopiesKept ==
  /\ DOMAIN canceling' = Handlers
  /\ \A h \in Handlers : /\ DOMAIN canceling'[h] \subseteq DOMAIN canceling[h]
                         /\ \A i \in DOMAIN canceling'[h] : canceling'[h][i] = canceling[h][i]

\* The rows keep their orders, and new ones follow them.
RowsFollow ==
  /\ commission' \in Seq(RowType) /\ Len(commission) <= Len(commission')
  /\ \A i \in 1..Len(commission) : commission'[i].order = commission[i].order
  /\ \A i \in 1..Len(commission') : RowOK(commission'[i], refunded', withdraw')

\* Such steps keep the structure.
LEMMA StructKept ==
  ASSUME StructInv, RequestsKept, RefundsGrow, CopiesKept, RowsFollow
  PROVE  StructInv'
<1>1. /\ Ids' = 1..Len(commission') /\ Ids = 1..Len(commission) /\ Ids \subseteq Ids'
      /\ DOMAIN withdraw' = 1..Len(withdraw')
  BY DEF StructInv, TypeOK, RowsFollow, RequestsKept, Ids
<1>2. TypeOK'
  <2>1. ASSUME NEW h \in Handlers, NEW i \in DOMAIN canceling'[h]
        PROVE  i \in Ids' /\ canceling'[h][i] \in RowType /\ canceling'[h][i].request = Unbound
    BY <1>1 DEF StructInv, TypeOK, CopiesKept
  <2>2. \A i \in Ids' : commission'[i].request \in 0..Len(withdraw')
    BY <1>1 DEF RowsFollow, RowOK
  <2> QED BY <1>1, <2>1, <2>2
          DEF TypeOK, RefundsGrow, RowsFollow, RequestsKept, WithdrawType, Ids
<1>3. RowsInv'
  BY <1>1 DEF RowsInv, RowsFollow
<1>4. CopiesInv'
  BY <1>1 DEF CopiesInv, CopiesKept, StructInv, RowsFollow, TypeOK
<1> QED BY <1>2, <1>3, <1>4 DEF StructInv

\* The fields of a new row.
LEMMA RowFields ==
  ASSUME refunded \in [Orders -> Nat], NEW o \in Orders, NEW amount \in Nat,
         NEW st \in {"pending_confirm", "available", "rejected", "withdrawn"}, NEW r \in Nat
  PROVE  /\ Row(o, amount, st, r) \in RowType
         /\ Row(o, amount, st, r).order = o /\ Row(o, amount, st, r).amount = amount
         /\ Row(o, amount, st, r).status = st /\ Row(o, amount, st, r).request = r
         /\ Row(o, amount, st, r).share = [of |-> amount, since |-> refunded[o]]
BY DEF Row, RowType

\* What the structure says of one row.
LEMMA RowIs ==
  ASSUME StructInv, NEW i \in Ids
  PROVE  /\ i \in 1..Len(commission) /\ commission[i] \in RowType
         /\ commission[i].order \in Orders /\ commission[i].amount \in Nat
         /\ commission[i].request \in 0..Len(withdraw)
         /\ commission[i].request \in Nat
         /\ RowOK(commission[i], refunded, withdraw)
BY SeqFacts DEF StructInv, TypeOK, RowsInv, RowType, Ids

\* A rewritten sequence of rows.
LEMMA Rewritten ==
  ASSUME StructInv, NEW f \in [Ids -> RowType], commission' = f
  PROVE  commission' \in Seq(RowType) /\ Len(commission') = Len(commission) /\ Ids' = Ids
BY DEF StructInv, TypeOK, Ids

\* A row that is not touched stays right while refunds grow and requests are added.
LEMMA RowStays ==
  ASSUME NEW row \in RowType, RowOK(row, refunded, withdraw), RefundsGrow,
         refunded \in [Orders -> Nat], Len(withdraw) \in Nat, Len(withdraw') \in Nat,
         Len(withdraw) <= Len(withdraw'),
         row.request # Unbound => withdraw'[row.request] = withdraw[row.request]
  PROVE  RowOK(row, refunded', withdraw')
<1>1. row.order \in Orders /\ row.share.since \in Nat /\ row.request \in Nat
  BY DEF RowType
<1>2. row.status # "rejected" => row.share.since <= refunded'[row.order]
  BY <1>1 DEF RowOK, RefundsGrow
<1> QED BY <1>1, <1>2 DEF RowOK

-----------------------------------------------------------------------------
(* The actions keep the structure.                                          *)

\* What is left alone is kept.
LEMMA Untouched ==
  ASSUME StructInv
  PROVE  /\ withdraw' = withdraw /\ overwritten' = overwritten => RequestsKept
         /\ refunded' = refunded /\ records' = records => RefundsGrow
         /\ canceling' = canceling => CopiesKept
BY DEF StructInv, TypeOK, CopiesInv, RequestsKept, RefundsGrow, CopiesKept, WithdrawType

\* A commission is earned.
LEMMA EarnedRow ==
  ASSUME StructInv, NEW o \in Orders, HandleOrderPaid(o)
  PROVE  \E row \in RowType :
           /\ commission' = Append(commission, row)
           /\ row.order = o /\ row.amount = Commission[o] /\ row.request = Unbound
           /\ row.status \in {"pending_confirm", "available"}
           /\ row.share = [of |-> Commission[o], since |-> refunded[o]]
<1>1. PICK st \in {"pending_confirm", "available"} :
        commission' = Append(commission, Row(o, Commission[o], st, Unbound))
  BY DEF HandleOrderPaid
<1>2. Commission[o] \in Nat /\ Unbound \in Nat /\ refunded \in [Orders -> Nat]
  BY AffiliateAssumption DEF Unbound, StructInv, TypeOK
<1> DEFINE row == Row(o, Commission[o], st, Unbound)
<1>3. /\ row \in RowType /\ row.order = o /\ row.amount = Commission[o] /\ row.status = st
      /\ row.request = Unbound /\ row.share = [of |-> Commission[o], since |-> refunded[o]]
  BY <1>2, RowFields
<1>4. commission' = Append(commission, row)
  BY <1>1
<1> HIDE DEF row
<1> QED BY <1>3, <1>4

\* HandleOrderPaid.
LEMMA StructPaid ==
  ASSUME StructInv, NEW o \in Orders, HandleOrderPaid(o)
  PROVE  StructInv'
<1>0. PICK row \in RowType :
           /\ commission' = Append(commission, row)
           /\ row.order = o /\ row.amount = Commission[o] /\ row.request = Unbound
           /\ row.status \in {"pending_confirm", "available"}
           /\ row.share = [of |-> Commission[o], since |-> refunded[o]]
  BY EarnedRow
<1>1. /\ commission' = Append(commission, row) /\ row.order = o
      /\ row.status # "rejected" /\ row.request = Unbound
      /\ row.share.since = refunded[o]
  BY <1>0
<1>2. /\ refunded' = refunded /\ records' = records /\ withdraw' = withdraw
      /\ canceling' = canceling /\ overwritten' = overwritten
  BY DEF HandleOrderPaid
<1>3. commission \in Seq(RowType) /\ refunded \in [Orders -> Nat] /\ Len(withdraw) \in Nat
      /\ Len(commission) \in Nat
  BY DEF StructInv, TypeOK
<1>4. /\ commission' \in Seq(RowType) /\ Len(commission') = Len(commission) + 1
      /\ \A i \in 1..Len(commission) : commission'[i] = commission[i]
      /\ commission'[Len(commission) + 1] = row
  BY <1>1, <1>3
<1>5. RowOK(row, refunded, withdraw)
  BY <1>1, <1>3 DEF RowOK, Unbound
<1>6. ASSUME NEW i \in 1..Len(commission) PROVE RowOK(commission[i], refunded, withdraw)
  BY <1>3 DEF StructInv, RowsInv, Ids
<1>7. RowsFollow
  BY <1>2, <1>3, <1>4, <1>5, <1>6 DEF RowsFollow
<1> QED BY <1>2, <1>7, Untouched, StructKept

\* Rows are rewritten in place while requests and copies stay.
LEMMA RowsInPlace ==
  ASSUME StructInv, NEW f \in [Ids -> RowType], commission' = f,
         \A i \in Ids : f[i].order = commission[i].order /\ RowOK(f[i], refunded', withdraw')
  PROVE  RowsFollow
<1>1. /\ commission' \in Seq(RowType) /\ Len(commission') = Len(commission)
      /\ Ids = 1..Len(commission) /\ Len(commission) \in Nat
  BY Rewritten DEF StructInv, TypeOK, Ids
<1> QED BY <1>1 DEF RowsFollow

\* Commissions come due.
LEMMA StructDue ==
  ASSUME StructInv, ConfirmDueCommissions
  PROVE  StructInv'
<1>1. PICK due \in SUBSET {i \in Ids : Confirmable(i)} :
        commission' = [i \in Ids |-> IF i \in due
                                       THEN [commission[i] EXCEPT !.status = "available"]
                                       ELSE commission[i]]
  BY DEF ConfirmDueCommissions
<1>2. /\ refunded' = refunded /\ records' = records /\ withdraw' = withdraw
      /\ canceling' = canceling /\ overwritten' = overwritten
  BY DEF ConfirmDueCommissions
<1>3. ASSUME NEW i \in Ids
      PROVE  /\ commission'[i] \in RowType
             /\ commission'[i].order = commission[i].order
             /\ RowOK(commission'[i], refunded, withdraw)
    <2>1. commission[i] \in RowType /\ RowOK(commission[i], refunded, withdraw)
      BY RowIs
    <2>2. CASE i \in due
      <3>1. commission[i].request = Unbound /\ commission[i].status # "rejected"
        BY <1>1, <2>2 DEF Confirmable
      <3>2. commission'[i] = [commission[i] EXCEPT !.status = "available"]
        BY <1>1, <2>2
      <3> QED BY <2>1, <3>1, <3>2 DEF RowType, RowOK
    <2>3. CASE i \notin due
      BY <1>1, <2>1, <2>3
    <2> QED BY <2>2, <2>3
<1>4. commission' \in [Ids -> RowType]
  BY <1>1, <1>3
<1>5. RowsFollow
  BY <1>2, <1>3, <1>4, RowsInPlace
<1> QED BY <1>2, <1>5, Untouched, StructKept

\* What a refund leaves of a commission.
LEMMA CutBounds ==
  ASSUME StructInv, NEW o \in Orders, NEW delta \in 1..Total[o], delta <= Refundable(o),
         NEW amount \in Nat
  PROVE  /\ Total[o] - refunded[o] \in Nat \ {0} /\ delta \in 1..(Total[o] - refunded[o])
         /\ Rounded(amount * delta, Total[o] - refunded[o]) \in 0..amount
         /\ Cut(amount, delta, o) = amount - Rounded(amount * delta, Total[o] - refunded[o])
         /\ Cut(amount, delta, o) \in 0..amount
<1> DEFINE kept == Total[o] - refunded[o]
           R == Rounded(amount * delta, kept)
<1>1. Total[o] \in Nat /\ refunded[o] \in Nat
  BY AffiliateAssumption DEF StructInv, TypeOK
<1>2. kept \in Nat \ {0} /\ delta \in 1..kept
  BY <1>1 DEF Refundable
<1>3. Cut(amount, delta, o) = Max({amount - R, 0})
  BY DEF Cut
<1> HIDE DEF kept
<1>4. R \in 0..amount
  BY <1>2, RoundedPart
<1> DEFINE left == amount - R
<1> HIDE DEF R
<1>5. left \in Nat /\ left \in Int /\ 0 \in Int /\ left <= amount
  BY <1>4
<1>6. Cut(amount, delta, o) = Max({left, 0})
  BY <1>3
<1> HIDE DEF left
<1>7. Max({left, 0}) = IF left >= 0 THEN left ELSE 0
  BY <1>5, MaxMin, Zenon
<1>8. Cut(amount, delta, o) = left
  BY <1>5, <1>6, <1>7
<1> QED BY <1>2, <1>4, <1>5, <1>8 DEF kept, R, left

\* The fields of a cut row.
LEMMA AfterCutFields ==
  ASSUME NEW row \in RowType, NEW amount \in Nat
  PROVE  /\ AfterCut(row, amount) \in RowType
         /\ AfterCut(row, amount).order = row.order /\ AfterCut(row, amount).amount = amount
         /\ AfterCut(row, amount).request = row.request
         /\ AfterCut(row, amount).share = row.share
         /\ AfterCut(row, amount).status = IF amount = 0 THEN "rejected" ELSE row.status
BY DEF AfterCut, RowType

\* A refund, row by row.
LEMMA RefundedRows ==
  ASSUME StructInv, NEW o \in Orders, NEW delta \in 1..Total[o], Refund(o, delta), NEW i \in Ids
  PROVE  \/ /\ Revocable(commission[i], o) /\ o \notin GuestOrders
            /\ commission'[i] = AfterCut(commission[i], Cut(commission[i].amount, delta, o))
         \/ /\ ~(Revocable(commission[i], o) /\ o \notin GuestOrders)
            /\ commission'[i] = commission[i]
BY DEF Refund

\* A refund keeps the rows, requests and copies in order.
LEMMA StructRefund ==
  ASSUME StructInv, NEW o \in Orders, NEW delta \in 1..Total[o], Refund(o, delta)
  PROVE  StructInv'
<1>1. /\ refunded' = [refunded EXCEPT ![o] = @ + delta]
      /\ records' = [records EXCEPT ![o] = @ + 1] /\ withdraw' = withdraw
      /\ canceling' = canceling /\ overwritten' = overwritten /\ delta <= Refundable(o)
  BY DEF Refund
<1>2. /\ refunded \in [Orders -> Nat] /\ records \in [Orders -> Nat] /\ delta \in Nat
      /\ Total \in [Orders -> Nat] /\ \A q \in Orders : refunded[q] <= Total[q]
      /\ Len(withdraw) \in Nat
  BY AffiliateAssumption DEF StructInv, TypeOK
<1>3. RefundsGrow
  BY <1>1, <1>2 DEF RefundsGrow, Refundable
<1>4. ASSUME NEW i \in Ids
      PROVE  /\ commission'[i] \in RowType
             /\ commission'[i].order = commission[i].order
             /\ RowOK(commission'[i], refunded', withdraw')
    <2>1. /\ commission[i] \in RowType /\ RowOK(commission[i], refunded, withdraw)
          /\ commission[i].amount \in Nat
      BY RowIs
    <2>2. RowOK(commission[i], refunded', withdraw')
      <3>1. commission[i].order \in Orders /\ commission[i].share.since \in Nat
        BY <2>1 DEF RowType
      <3>2. refunded[commission[i].order] <= refunded'[commission[i].order]
            /\ refunded[commission[i].order] \in Nat /\ refunded'[commission[i].order] \in Nat
        BY <1>2, <1>3, <3>1 DEF RefundsGrow
      <3> QED BY <1>1, <2>1, <3>1, <3>2 DEF RowOK
    <2>3. CASE /\ Revocable(commission[i], o)
               /\ commission'[i] = AfterCut(commission[i], Cut(commission[i].amount, delta, o))
      <3>1. Cut(commission[i].amount, delta, o) \in Nat
        BY <1>1, <2>1, CutBounds
      <3>2. commission[i].request = Unbound /\ commission[i].status # "rejected"
        BY <2>3 DEF Revocable, Open
      <3> DEFINE new == AfterCut(commission[i], Cut(commission[i].amount, delta, o))
      <3>3. /\ new \in RowType /\ new.order = commission[i].order
            /\ new.request = Unbound /\ new.share = commission[i].share
        BY <2>1, <3>1, <3>2, AfterCutFields
      <3>4. commission'[i] = new
        BY <2>3
      <3> HIDE DEF new
      <3> QED BY <2>1, <2>2, <3>2, <3>3, <3>4 DEF RowOK
    <2>4. CASE commission'[i] = commission[i]
      BY <2>1, <2>2, <2>4
    <2> QED BY <2>3, <2>4, RefundedRows
<1>5. commission' \in [Ids -> RowType]
  BY <1>4 DEF Refund
<1>6. RowsFollow
  BY <1>4, <1>5, RowsInPlace
<1> QED BY <1>1, <1>3, <1>6, Untouched, StructKept

\* A cancellation reads, or gives up.
LEMMA StructRead ==
  ASSUME StructInv, NEW h \in Handlers, GiveUp(h) \/ \E o \in Orders : BeginCanceled(h, o)
  PROVE  StructInv'
<1>1. /\ refunded' = refunded /\ records' = records /\ withdraw' = withdraw
      /\ commission' = commission /\ overwritten' = overwritten
  BY DEF GiveUp, BeginCanceled
<1>2. /\ DOMAIN canceling' = Handlers
      /\ \A g \in Handlers : \A i \in DOMAIN canceling'[g] :
           \/ i \in DOMAIN canceling[g] /\ canceling'[g][i] = canceling[g][i]
           \/ /\ i \in Ids /\ canceling'[g][i] = commission[i]
              /\ commission[i].request = Unbound
  <2>1. DOMAIN canceling = Handlers
    BY DEF StructInv, CopiesInv
  <2>2. CASE GiveUp(h)
    <3>1. canceling' = [canceling EXCEPT ![h] = NoRows] /\ DOMAIN NoRows = {}
      BY <2>2 DEF GiveUp, NoRows
    <3> QED BY <2>1, <3>1
  <2>3. ASSUME NEW o \in Orders, BeginCanceled(h, o)
        PROVE  \A g \in Handlers : \A i \in DOMAIN canceling'[g] :
                 \/ i \in DOMAIN canceling[g] /\ canceling'[g][i] = canceling[g][i]
                 \/ /\ i \in Ids /\ canceling'[g][i] = commission[i]
                    /\ commission[i].request = Unbound
    <3> DEFINE rows == {i \in Ids : Revocable(commission[i], o)}
               read == [i \in rows |-> commission[i]]
    <3>1. canceling' = [canceling EXCEPT ![h] = read]
      BY <2>3 DEF BeginCanceled
    <3>2. /\ DOMAIN read = rows /\ \A i \in rows : read[i] = commission[i]
          /\ \A i \in rows : i \in Ids /\ commission[i].request = Unbound
      BY DEF Revocable
    <3> HIDE DEF rows, read
    <3> QED BY <2>1, <3>1, <3>2
  <2>4. DOMAIN canceling' = Handlers
    BY <2>1 DEF GiveUp, BeginCanceled
  <2> QED BY <2>2, <2>3, <2>4, <2>1
<1>3. ASSUME NEW g \in Handlers, NEW i \in DOMAIN canceling'[g]
      PROVE  /\ i \in Ids /\ canceling'[g][i] \in RowType /\ canceling'[g][i].request = Unbound
             /\ canceling'[g][i].order = commission[i].order
  <2>1. CASE i \in DOMAIN canceling[g] /\ canceling'[g][i] = canceling[g][i]
    BY <2>1 DEF StructInv, TypeOK, CopiesInv
  <2>2. CASE /\ i \in Ids /\ canceling'[g][i] = commission[i]
             /\ commission[i].request = Unbound
    BY <2>2, RowIs
  <2> QED BY <1>2, <2>1, <2>2
<1>4. Ids' = Ids
  BY <1>1 DEF Ids
<1>5. TypeOK'
  BY <1>1, <1>3, <1>4 DEF StructInv, TypeOK
<1>6. RowsInv' /\ CopiesInv'
  BY <1>1, <1>2, <1>3, <1>4 DEF StructInv, RowsInv, CopiesInv
<1> QED BY <1>5, <1>6 DEF StructInv

\* A cancellation saves a row as rejected.
LEMMA SavedRow ==
  ASSUME StructInv, NEW h \in Handlers, NEW i \in Ids, SaveRejected(h, i)
  PROVE  \E row \in RowType :
           /\ commission' = [commission EXCEPT ![i] = row]
           /\ row.order = commission[i].order /\ row.status = "rejected"
           /\ row.request = Unbound
<1> DEFINE row == [canceling[h][i] EXCEPT !.status = "rejected"]
<1>1. /\ canceling[h][i] \in RowType /\ canceling[h][i].request = Unbound
      /\ canceling[h][i].order = commission[i].order
  BY DEF SaveRejected, StructInv, TypeOK, CopiesInv
<1>2. /\ row \in RowType /\ row.order = commission[i].order /\ row.status = "rejected"
      /\ row.request = Unbound
  BY <1>1 DEF RowType
<1>3. commission' = [commission EXCEPT ![i] = row]
  BY DEF SaveRejected
<1> HIDE DEF row
<1> QED BY <1>2, <1>3

\* SaveRejected.
LEMMA StructSaved ==
  ASSUME StructInv, NEW h \in Handlers, NEW i \in Ids, SaveRejected(h, i)
  PROVE  StructInv'
<1>1. PICK row \in RowType :
           /\ commission' = [commission EXCEPT ![i] = row]
           /\ row.order = commission[i].order /\ row.status = "rejected"
           /\ row.request = Unbound
  BY SavedRow
<1>2. /\ refunded' = refunded /\ records' = records /\ withdraw' = withdraw
      /\ overwritten' = overwritten \union ({commission[i].request} \ {Unbound})
      /\ canceling' = [canceling EXCEPT ![h] = [j \in DOMAIN canceling[h] \ {i} |-> canceling[h][j]]]
  BY DEF SaveRejected
<1>3. commission[i].request \in 0..Len(withdraw) /\ Len(withdraw) \in Nat
  BY RowIs DEF StructInv, TypeOK
<1>4. RequestsKept
  <2>1. overwritten \subseteq 1..Len(withdraw)
    BY DEF StructInv, TypeOK
  <2>2. overwritten' \subseteq 1..Len(withdraw)
    BY <1>2, <1>3, <2>1 DEF Unbound
  <2> QED BY <1>2, <1>3, <2>2 DEF RequestsKept, StructInv, TypeOK, WithdrawType
<1>5. RefundsGrow
  BY <1>2, Untouched
<1>6. CopiesKept
  BY <1>2 DEF CopiesKept, StructInv, CopiesInv
<1>7. ASSUME NEW j \in Ids
      PROVE  /\ commission'[j] \in RowType
             /\ commission'[j].order = commission[j].order
             /\ RowOK(commission'[j], refunded', withdraw')
  <2>1. commission[j] \in RowType /\ RowOK(commission[j], refunded, withdraw)
    BY RowIs
  <2>2. CASE j = i
    <3>1. commission'[j] = row
      BY <1>1, <2>2 DEF Ids
    <3> QED BY <1>1, <1>3, <1>2, <2>2, <3>1 DEF RowOK, Unbound
  <2>3. CASE j # i
    BY <1>1, <1>2, <2>1, <2>3 DEF Ids
  <2> QED BY <2>2, <2>3
<1>8. DOMAIN commission' = Ids
  BY <1>1 DEF Ids
<1>9. commission' \in [Ids -> RowType]
  BY <1>1, <1>7 DEF Ids
<1>10. RowsFollow
  BY <1>7, <1>9, RowsInPlace
<1> QED BY <1>4, <1>5, <1>6, <1>10, StructKept

-----------------------------------------------------------------------------
(* A request for payment, row by row.                                       *)

\* What ApplyWithdraw makes of commission i, and what it leaves of it.
TakenRow(i, amount) ==
  Row(commission[i].order, Taken(i, amount), "available", Len(withdraw) + 1)
RestRow(i, amount) == Row(commission[i].order, Rest(i, amount), "available", Unbound)

\* Their fields.
LEMMA TakenFields ==
  ASSUME StructInv, NEW amount \in Nat, NEW i \in Ids
  PROVE  /\ TakenRow(i, amount) \in RowType
         /\ TakenRow(i, amount).order = commission[i].order
         /\ TakenRow(i, amount).amount = Taken(i, amount)
         /\ TakenRow(i, amount).status = "available"
         /\ TakenRow(i, amount).request = Len(withdraw) + 1
         /\ TakenRow(i, amount).share.since = refunded[commission[i].order]
<1>1. commission \in Seq(RowType) /\ refunded \in [Orders -> Nat] /\ Len(withdraw) + 1 \in Nat
  BY DEF StructInv, TypeOK
<1>2. commission[i].order \in Orders /\ Taken(i, amount) \in Nat
  BY <1>1, RowIs, TakenBounds
<1> DEFINE o == commission[i].order
           n == Taken(i, amount)
           r == Len(withdraw) + 1
<1>3. TakenRow(i, amount) = Row(o, n, "available", r)
  BY DEF TakenRow
<1>4. o \in Orders /\ n \in Nat /\ r \in Nat
  BY <1>1, <1>2
<1> HIDE DEF o, n, r
<1>5. /\ Row(o, n, "available", r) \in RowType
      /\ Row(o, n, "available", r).order = o /\ Row(o, n, "available", r).amount = n
      /\ Row(o, n, "available", r).status = "available" /\ Row(o, n, "available", r).request = r
      /\ Row(o, n, "available", r).share = [of |-> n, since |-> refunded[o]]
  BY <1>1, <1>4, RowFields
<1>6. TakenRow(i, amount).share = [of |-> n, since |-> refunded[o]]
  BY <1>3, <1>5
<1> QED BY <1>3, <1>5, <1>6 DEF o, n, r

\* Those of the rest; it is what the request does not take.
LEMMA RestFields ==
  ASSUME StructInv, NEW amount \in Nat, NEW i \in Ids
  PROVE  /\ Rest(i, amount) \in Nat
         /\ Rest(i, amount) > 0 => /\ i \in Available /\ Taken(i, amount) # 0
                                   /\ Rest(i, amount) = commission[i].amount - Taken(i, amount)
         /\ RestRow(i, amount) \in RowType
         /\ RestRow(i, amount).order = commission[i].order
         /\ RestRow(i, amount).amount = Rest(i, amount)
         /\ RestRow(i, amount).status = "available"
         /\ RestRow(i, amount).request = Unbound
         /\ RestRow(i, amount).share = [of |-> Rest(i, amount),
                                        since |-> refunded[commission[i].order]]
<1>1. commission \in Seq(RowType) /\ refunded \in [Orders -> Nat] /\ Unbound \in Nat
  BY DEF StructInv, TypeOK, Unbound
<1>2. /\ commission[i].order \in Orders /\ Taken(i, amount) \in 0..commission[i].amount
      /\ commission[i].amount \in Nat
      /\ i \notin Available => Taken(i, amount) = 0
  BY <1>1, RowIs, TakenBounds
<1>3. Rest(i, amount) \in Nat
  <2> DEFINE t == Taken(i, amount)
             a == commission[i].amount
  <2>1. t \in 0..a /\ a \in Nat
    BY <1>2
  <2>2. Rest(i, amount) = IF t = 0 THEN 0 ELSE a - t
    BY DEF Rest
  <2> HIDE DEF t, a
  <2> QED BY <2>1, <2>2
<1>4. Rest(i, amount) > 0 => /\ i \in Available /\ Taken(i, amount) # 0
                             /\ Rest(i, amount) = commission[i].amount - Taken(i, amount)
  <2>1. Taken(i, amount) = 0 => Rest(i, amount) = 0
    BY DEF Rest
  <2>2. Taken(i, amount) # 0 => Rest(i, amount) = commission[i].amount - Taken(i, amount)
    BY DEF Rest
  <2> QED BY <1>2, <2>1, <2>2
<1> DEFINE o == commission[i].order
           n == Rest(i, amount)
<1>5. RestRow(i, amount) = Row(o, n, "available", Unbound)
  BY DEF RestRow
<1>6. o \in Orders /\ n \in Nat
  BY <1>2, <1>3
<1> HIDE DEF o, n
<1>7. /\ Row(o, n, "available", Unbound) \in RowType
      /\ Row(o, n, "available", Unbound).order = o /\ Row(o, n, "available", Unbound).amount = n
      /\ Row(o, n, "available", Unbound).status = "available"
      /\ Row(o, n, "available", Unbound).request = Unbound
      /\ Row(o, n, "available", Unbound).share = [of |-> n, since |-> refunded[o]]
  BY <1>1, <1>6, RowFields
<1> QED BY <1>3, <1>4, <1>5, <1>7 DEF o, n

\* The rows after a request: those it takes from are bound to it, with what it takes,
\* and the rest of one may follow them as a new row.
Applied(amount) ==
  /\ commission' \in Seq(RowType)
  /\ \A i \in Ids : commission'[i] = IF Taken(i, amount) = 0 THEN commission[i]
                                     ELSE TakenRow(i, amount)
  /\ \/ Len(commission') = Len(commission) /\ \A i \in Ids : Rest(i, amount) = 0
     \/ \E i \in Ids : /\ Rest(i, amount) > 0 /\ Len(commission') = Len(commission) + 1
                       /\ commission'[Len(commission) + 1] = RestRow(i, amount)

\* ApplyWithdraw is that.
LEMMA AppliedRows ==
  ASSUME StructInv, NEW amount \in Nat, ApplyWithdraw(amount)
  PROVE  Applied(amount)
<1> DEFINE bound == [i \in Ids |-> IF Taken(i, amount) = 0 THEN commission[i]
                                   ELSE TakenRow(i, amount)]
<1>1. /\ Len(commission) \in Nat /\ Ids = 1..Len(commission)
  BY DEF StructInv, TypeOK, Ids
<1>2. \A i \in Ids : bound[i] \in RowType
  BY RowIs, TakenFields
<1>3. bound \in [Ids -> RowType]
  BY <1>2
<1>4. /\ bound \in Seq(RowType) /\ Len(bound) = Len(commission)
      /\ \A i \in Ids : bound[i] = IF Taken(i, amount) = 0 THEN commission[i]
                                   ELSE TakenRow(i, amount)
  BY <1>1, <1>3
<1>5. \/ commission' = bound /\ \A i \in Ids : Rest(i, amount) = 0
      \/ \E i \in Ids : Rest(i, amount) > 0 /\ commission' = Append(bound, RestRow(i, amount))
  BY DEF ApplyWithdraw, TakenRow, RestRow
<1> HIDE DEF bound
<1>6. ASSUME NEW i \in Ids, Rest(i, amount) > 0, commission' = Append(bound, RestRow(i, amount))
      PROVE  Applied(amount)
  <2>1. RestRow(i, amount) \in RowType
    BY RestFields
  <2> DEFINE rest == RestRow(i, amount)
  <2> HIDE DEF rest
  <2>2. /\ commission' \in Seq(RowType) /\ Len(commission') = Len(commission) + 1
        /\ \A j \in Ids : commission'[j] = bound[j]
        /\ commission'[Len(commission) + 1] = rest
    BY <1>1, <1>4, <1>6, <2>1 DEF rest
  <2> QED BY <1>4, <1>6, <2>2 DEF Applied, rest
<1>7. CASE commission' = bound /\ \A i \in Ids : Rest(i, amount) = 0
  BY <1>4, <1>7 DEF Applied
<1> QED BY <1>5, <1>6, <1>7

\* The requests after a request.
LEMMA AppliedRequests ==
  ASSUME StructInv, NEW amount \in Nat, ApplyWithdraw(amount)
  PROVE  /\ withdraw' \in Seq(WithdrawType) /\ Len(withdraw') = Len(withdraw) + 1
         /\ Len(withdraw') <= MaxRequests /\ Len(withdraw) \in Nat
         /\ \A r \in 1..Len(withdraw) : withdraw'[r] = withdraw[r]
         /\ withdraw'[Len(withdraw) + 1].amount = amount
         /\ withdraw'[Len(withdraw) + 1].status = "pending_review"
<1> DEFINE new == [amount |-> amount, status |-> "pending_review"]
<1>1. new \in WithdrawType /\ new.amount = amount /\ new.status = "pending_review"
  BY DEF WithdrawType
<1>2. withdraw' = Append(withdraw, new) /\ Len(withdraw) < MaxRequests
  BY DEF ApplyWithdraw
<1>3. withdraw \in Seq(WithdrawType) /\ MaxRequests \in Nat
  BY AffiliateAssumption DEF StructInv, TypeOK, WithdrawType
<1> HIDE DEF new
<1> QED BY <1>1, <1>2, <1>3

\* ApplyWithdraw.
LEMMA StructApplied ==
  ASSUME StructInv, NEW amount \in Nat, ApplyWithdraw(amount)
  PROVE  StructInv'
<1>1. /\ refunded' = refunded /\ records' = records
      /\ canceling' = canceling /\ overwritten' = overwritten
  BY DEF ApplyWithdraw
<1>2. Applied(amount)
  BY AppliedRows
<1>3. /\ withdraw' \in Seq(WithdrawType) /\ Len(withdraw') = Len(withdraw) + 1
      /\ Len(withdraw') <= MaxRequests /\ Len(withdraw) \in Nat
      /\ \A r \in 1..Len(withdraw) : withdraw'[r] = withdraw[r]
      /\ withdraw'[Len(withdraw) + 1].status = "pending_review"
  BY AppliedRequests
<1>4. /\ refunded \in [Orders -> Nat] /\ Len(commission) \in Nat /\ Ids = 1..Len(commission)
      /\ overwritten \subseteq 1..Len(withdraw)
  BY DEF StructInv, TypeOK, Ids
<1>5. RequestsKept /\ RefundsGrow /\ CopiesKept
  <2>1. overwritten' \subseteq 1..Len(withdraw')
    BY <1>1, <1>3, <1>4
  <2> QED BY <1>1, <1>3, <2>1, Untouched DEF RequestsKept
<1>6. ASSUME NEW i \in Ids
      PROVE  /\ commission'[i].order = commission[i].order
             /\ RowOK(commission'[i], refunded', withdraw')
  <2>1. commission[i] \in RowType /\ RowOK(commission[i], refunded, withdraw)
        /\ commission[i].order \in Orders
    BY RowIs
  <2>2. CASE Taken(i, amount) = 0
    <3>1. commission'[i] = commission[i]
      BY <1>2, <2>2 DEF Applied
    <3> QED BY <1>1, <1>3, <2>1, <3>1 DEF RowOK, Unbound, RowType
  <2>3. CASE Taken(i, amount) # 0
    <3>1. commission'[i] = TakenRow(i, amount)
      BY <1>2, <2>3 DEF Applied
    <3>2. /\ commission'[i].order = commission[i].order
          /\ commission'[i].status = "available"
          /\ commission'[i].request = Len(withdraw) + 1
          /\ commission'[i].share.since = refunded[commission[i].order]
      BY <3>1, TakenFields
    <3> QED BY <1>1, <1>3, <1>4, <2>1, <3>2 DEF RowOK
  <2> QED BY <2>2, <2>3
<1>7. ASSUME NEW i \in Ids, commission'[Len(commission) + 1] = RestRow(i, amount)
      PROVE  RowOK(commission'[Len(commission) + 1], refunded', withdraw')
  <2> DEFINE rest == RestRow(i, amount)
  <2>0. /\ rest.order = commission[i].order /\ rest.status = "available"
        /\ rest.request = Unbound
        /\ rest.share = [of |-> Rest(i, amount), since |-> refunded[commission[i].order]]
    BY RestFields
  <2>1. /\ rest.order = commission[i].order /\ rest.status = "available"
        /\ rest.request = Unbound /\ rest.share.since = refunded[commission[i].order]
    BY <2>0
  <2>2. commission[i].order \in Orders
    BY RowIs
  <2>3. commission'[Len(commission) + 1] = rest
    BY <1>7
  <2> HIDE DEF rest
  <2> QED BY <1>1, <1>3, <1>4, <2>1, <2>2, <2>3 DEF RowOK, Unbound
<1>8. RowsFollow
  <2>1. ASSUME NEW j \in 1..Len(commission') PROVE RowOK(commission'[j], refunded', withdraw')
    <3>1. j \in Ids \/ (j = Len(commission) + 1 /\ Len(commission') = Len(commission) + 1)
      BY <1>2, <1>4 DEF Applied
    <3>2. CASE j \in Ids
      BY <1>6, <3>2
    <3>3. CASE j = Len(commission) + 1 /\ Len(commission') = Len(commission) + 1
      <4>1. \E i \in Ids : commission'[Len(commission) + 1] = RestRow(i, amount)
        BY <1>2, <1>4, <3>3 DEF Applied
      <4> QED BY <1>7, <3>3, <4>1
    <3> QED BY <3>1, <3>2, <3>3
  <2>2. commission' \in Seq(RowType) /\ Len(commission) <= Len(commission')
    BY <1>2, <1>4 DEF Applied
  <2> QED BY <1>4, <1>6, <2>1, <2>2 DEF RowsFollow
<1> QED BY <1>5, <1>8, StructKept

\* A review, request by request and row by row: paid or released.
Reviewed(r, st) ==
  /\ withdraw' = [withdraw EXCEPT ![r].status = st]
  /\ commission' \in [Ids -> RowType]
  /\ \A i \in Ids :
       LET row == commission[i]
           new == commission'[i]
       IN /\ new.order = row.order /\ new.amount = row.amount
          /\ row.request # r => new = row
          /\ row.request = r =>
               \/ /\ st = "paid" /\ new.status = "withdrawn" /\ new.request = r
                  /\ new.share = row.share
               \/ /\ st = "rejected" /\ new.status = row.status /\ new.request = Unbound
                  /\ new.share = [of |-> row.amount, since |-> refunded[row.order]]

\* ReviewWithdraw is that.
LEMMA ReviewedRows ==
  ASSUME StructInv, NEW r \in DOMAIN withdraw, ReviewWithdraw(r)
  PROVE  Reviewed(r, "paid") \/ Reviewed(r, "rejected")
<1>1. \A i \in Ids : i \in Bound(r) <=> commission[i].request = r
  BY DEF Bound
<1>2. CASE /\ withdraw' = [withdraw EXCEPT ![r].status = "paid"]
           /\ commission' = [i \in Ids |-> IF i \in Bound(r)
                                             THEN [commission[i] EXCEPT !.status = "withdrawn"]
                                             ELSE commission[i]]
  <2>1. ASSUME NEW i \in Ids
        PROVE  /\ commission'[i] \in RowType /\ commission'[i].order = commission[i].order
               /\ commission'[i].amount = commission[i].amount
               /\ commission[i].request # r => commission'[i] = commission[i]
               /\ commission[i].request = r =>
                    /\ commission'[i].status = "withdrawn" /\ commission'[i].request = r
                    /\ commission'[i].share = commission[i].share
    <3>1. commission[i] \in RowType
      BY RowIs
    <3>2. commission'[i] = IF commission[i].request = r
                             THEN [commission[i] EXCEPT !.status = "withdrawn"]
                             ELSE commission[i]
      BY <1>1, <1>2
    <3> QED BY <3>1, <3>2 DEF RowType
  <2>2. commission' \in [Ids -> RowType]
    BY <1>2, <2>1
  <2> QED BY <1>2, <2>1, <2>2 DEF Reviewed
<1>3. CASE /\ withdraw' = [withdraw EXCEPT ![r].status = "rejected"]
           /\ commission' = [i \in Ids |->
                LET row == commission[i]
                IN IF i \in Bound(r) THEN Row(row.order, row.amount, row.status, Unbound) ELSE row]
  <2>1. ASSUME NEW i \in Ids
        PROVE  /\ commission'[i] \in RowType /\ commission'[i].order = commission[i].order
               /\ commission'[i].amount = commission[i].amount
               /\ commission[i].request # r => commission'[i] = commission[i]
               /\ commission[i].request = r =>
                    /\ commission'[i].status = commission[i].status
                    /\ commission'[i].request = Unbound
                    /\ commission'[i].share = [of |-> commission[i].amount,
                                               since |-> refunded[commission[i].order]]
    <3> DEFINE o == commission[i].order
               a == commission[i].amount
               s == commission[i].status
    <3>1. /\ commission[i] \in RowType /\ o \in Orders /\ a \in Nat
          /\ s \in {"pending_confirm", "available", "rejected", "withdrawn"}
      BY RowIs DEF RowType
    <3>2. commission'[i] = IF commission[i].request = r THEN Row(o, a, s, Unbound)
                                                         ELSE commission[i]
      BY <1>1, <1>3
    <3>3. refunded \in [Orders -> Nat] /\ Unbound \in Nat
      BY DEF StructInv, TypeOK, Unbound
    <3> HIDE DEF o, a, s
    <3>4. /\ Row(o, a, s, Unbound) \in RowType
          /\ Row(o, a, s, Unbound).order = o /\ Row(o, a, s, Unbound).amount = a
          /\ Row(o, a, s, Unbound).status = s /\ Row(o, a, s, Unbound).request = Unbound
          /\ Row(o, a, s, Unbound).share = [of |-> a, since |-> refunded[o]]
      BY <3>1, <3>3, RowFields
    <3> QED BY <3>1, <3>2, <3>4 DEF o, a, s
  <2>2. commission' \in [Ids -> RowType]
    BY <1>3, <2>1
  <2> QED BY <1>3, <2>1, <2>2 DEF Reviewed
<1> QED BY <1>2, <1>3 DEF ReviewWithdraw

\* ReviewWithdraw.
LEMMA StructReviewed ==
  ASSUME StructInv, NEW r \in DOMAIN withdraw, ReviewWithdraw(r)
  PROVE  StructInv'
<1>1. /\ refunded' = refunded /\ records' = records
      /\ canceling' = canceling /\ overwritten' = overwritten
      /\ withdraw[r].status = "pending_review"
  BY DEF ReviewWithdraw
<1>2. /\ withdraw \in Seq(WithdrawType) /\ Len(withdraw) \in Nat /\ r \in 1..Len(withdraw)
      /\ overwritten \subseteq 1..Len(withdraw) /\ Len(withdraw) <= MaxRequests
      /\ refunded \in [Orders -> Nat]
  BY DEF StructInv, TypeOK, WithdrawType
<1>3. ASSUME NEW st \in {"paid", "rejected"}, Reviewed(r, st) PROVE StructInv'
  <2> DEFINE w == [withdraw[r] EXCEPT !.status = st]
  <2>1. w \in WithdrawType /\ w.status = st
    <3>1. withdraw[r] \in WithdrawType
      BY <1>2
    <3> QED BY <3>1 DEF WithdrawType
  <2>2. withdraw' = [withdraw EXCEPT ![r] = w]
    BY <1>3 DEF Reviewed
  <2> HIDE DEF w
  <2>3. /\ withdraw' \in Seq(WithdrawType) /\ Len(withdraw') = Len(withdraw)
        /\ withdraw'[r].status = st /\ \A s \in 1..Len(withdraw) : s # r => withdraw'[s] = withdraw[s]
    BY <1>2, <2>1, <2>2
  <2>4. RequestsKept /\ RefundsGrow /\ CopiesKept
    BY <1>1, <1>2, <2>3, Untouched DEF RequestsKept
  <2>5. ASSUME NEW i \in Ids
        PROVE  /\ commission'[i].order = commission[i].order
               /\ RowOK(commission'[i], refunded', withdraw')
    <3>1. /\ commission[i] \in RowType /\ RowOK(commission[i], refunded, withdraw)
          /\ commission[i].order \in Orders /\ commission[i].request \in 0..Len(withdraw)
      BY RowIs
    <3>2. CASE commission[i].request # r
      <4>1. commission'[i] = commission[i]
        BY <1>3, <3>2 DEF Reviewed
      <4>2. commission[i].request # Unbound
              => withdraw'[commission[i].request] = withdraw[commission[i].request]
        BY <2>3, <3>1, <3>2 DEF Unbound
      <4> QED BY <1>1, <2>3, <3>1, <4>1, <4>2 DEF RowOK
    <3>3. CASE commission[i].request = r
      <4>1. r # Unbound /\ commission[i].status = "available"
        BY <1>1, <1>2, <3>1, <3>3 DEF RowOK, Unbound
      <4>2. CASE st = "paid"
        <5>1. /\ commission'[i].order = commission[i].order
              /\ commission'[i].status = "withdrawn" /\ commission'[i].request = r
              /\ commission'[i].share = commission[i].share
          BY <1>3, <3>3, <4>2 DEF Reviewed
        <5> QED BY <1>1, <2>3, <3>1, <3>3, <4>1, <4>2, <5>1 DEF RowOK
      <4>3. CASE st = "rejected"
        <5>1. /\ commission'[i].order = commission[i].order
              /\ commission'[i].status = "available" /\ commission'[i].request = Unbound
              /\ commission'[i].share = [of |-> commission[i].amount,
                                         since |-> refunded[commission[i].order]]
          BY <1>3, <3>3, <4>1, <4>3 DEF Reviewed
        <5>2. commission'[i].share.since = refunded[commission[i].order]
          BY <5>1
        <5>3. refunded[commission[i].order] \in Nat
          BY <1>2, <3>1
        <5> QED BY <1>1, <1>2, <2>3, <5>1, <5>2, <5>3 DEF RowOK, Unbound
      <4> QED BY <4>2, <4>3
    <3> QED BY <3>2, <3>3
  <2>6. commission' \in [Ids -> RowType]
    BY <1>3 DEF Reviewed
  <2>7. RowsFollow
    BY <2>5, <2>6, RowsInPlace
  <2> QED BY <2>4, <2>7, StructKept
<1> QED BY <1>3, ReviewedRows

\* Every step keeps the structure.
LEMMA StructStep ==
  ASSUME StructInv, [Next]_affiliateVars
  PROVE  StructInv'
<1>1. AmountOf(Available) \in Nat
  BY AmountSums, AmountOfIs DEF StructInv, TypeOK, Available, Ids
<1>2. ASSUME NEW amount \in 1..AmountOf(Available), ApplyWithdraw(amount) PROVE StructInv'
  <2>1. amount \in Nat
    BY <1>1
  <2> QED BY <1>2, <2>1, StructApplied
<1>3. CASE UNCHANGED affiliateVars
  <2>1. RequestsKept /\ RefundsGrow /\ CopiesKept
    BY <1>3, Untouched DEF affiliateVars
  <2>2. StructInv'
    BY <1>3 DEF affiliateVars, StructInv, TypeOK, RowsInv, CopiesInv, Ids
  <2> QED BY <2>2
<1> QED BY <1>2, <1>3, StructPaid, StructRefund, StructDue, StructRead, StructSaved, StructReviewed
        DEF Next

\* The initial state has it.
LEMMA StructInit == Init => StructInv
<1> SUFFICES ASSUME Init PROVE StructInv
  OBVIOUS
<1>1. commission = << >> /\ withdraw = << >> /\ overwritten = {} /\ Ids = {}
  BY DEF Init, Ids
<1>2. DOMAIN NoRows = {}
  BY DEF NoRows
<1>3. MaxRequests \in Nat /\ \A o \in Orders : Total[o] \in Nat /\ 0 <= Total[o]
  BY AffiliateAssumption
<1>4. TypeOK
  BY <1>1, <1>2, <1>3 DEF Init, TypeOK
<1> QED BY <1>1, <1>2, <1>4 DEF Init, StructInv, RowsInv, CopiesInv

\* The structure always holds.
LEMMA StructAlways == Spec => []StructInv
BY StructInit, StructStep, PTL DEF Spec

\* Refunds, requests, commissions and the copies a cancellation holds keep their
\* types: no refund exceeds its order, no commission becomes negative by a refund or
\* a split, and one names a request that exists (affiliate_service.go).
THEOREM AffiliateTypeCorrect == Spec => []TypeOK
<1>1. StructInv => TypeOK
  BY DEF StructInv
<1> QED BY <1>1, StructAlways, PTL

\* For any number of handlers, requests, refunds and reviews in any order, a
\* commission that was taken back stays so, and no request gets it
\* (HandleOrderCanceled, ConfirmDueCommissions, ReviewWithdraw).
THEOREM RejectedStaysRejected == Spec => TakenBackForGood
<1>1. ASSUME StructInv, [Next]_affiliateVars
      PROVE  [\A i \in Ids : commission[i].status = "rejected" =>
                commission'[i].status = "rejected" /\ commission'[i].request = Unbound]_affiliateVars
  <2>1. ASSUME NEW i \in Ids, commission[i].status = "rejected", Next
        PROVE  commission'[i].status = "rejected" /\ commission'[i].request = Unbound
    <3>1. /\ i \in 1..Len(commission) /\ commission[i].request = Unbound
          /\ commission[i] \in RowType /\ commission \in Seq(RowType)
          /\ Len(commission) \in Nat
      BY <1>1, <2>1, RowIs DEF RowOK, StructInv, TypeOK
    <3>2. ASSUME commission'[i] = commission[i]
          PROVE  commission'[i].status = "rejected" /\ commission'[i].request = Unbound
      BY <2>1, <3>1, <3>2
    <3>3. ASSUME NEW o \in Orders, HandleOrderPaid(o) PROVE commission'[i] = commission[i]
      <4>1. PICK row \in RowType : commission' = Append(commission, row)
        <5>1. PICK row \in RowType :
                /\ commission' = Append(commission, row)
                /\ row.order = o /\ row.amount = Commission[o] /\ row.request = Unbound
                /\ row.status \in {"pending_confirm", "available"}
                /\ row.share = [of |-> Commission[o], since |-> refunded[o]]
          BY <1>1, <3>3, EarnedRow
        <5> QED BY <5>1
      <4> QED BY <3>1, <4>1
    <3>4. ASSUME NEW o \in Orders, NEW delta \in 1..Total[o], Refund(o, delta)
          PROVE  commission'[i] = commission[i]
      BY <2>1, <3>4 DEF Refund, Revocable, Open
    <3>5. CASE ConfirmDueCommissions
      BY <2>1, <3>2, <3>5 DEF ConfirmDueCommissions, Confirmable
    <3>6. ASSUME NEW h \in Handlers, NEW j \in Ids, SaveRejected(h, j)
          PROVE  commission'[i].status = "rejected" /\ commission'[i].request = Unbound
      <4>1. PICK row \in RowType :
              /\ commission' = [commission EXCEPT ![j] = row]
              /\ row.order = commission[j].order /\ row.status = "rejected"
              /\ row.request = Unbound
        BY <1>1, <3>6, SavedRow
      <4> QED BY <2>1, <3>1, <4>1
    <3>7. ASSUME NEW h \in Handlers, GiveUp(h) \/ \E o \in Orders : BeginCanceled(h, o)
          PROVE  commission'[i] = commission[i]
      BY <3>7 DEF GiveUp, BeginCanceled
    <3>8. ASSUME NEW amount \in 1..AmountOf(Available), ApplyWithdraw(amount)
          PROVE  commission'[i] = commission[i]
      <4>1. amount \in Nat
        BY <1>1, AmountSums, AmountOfIs DEF StructInv, TypeOK, Available, Ids
      <4>2. Applied(amount) /\ Taken(i, amount) = 0
        BY <1>1, <2>1, <3>1, <3>8, <4>1, AppliedRows, TakenBounds DEF Available
      <4> QED BY <4>2 DEF Applied
    <3>9. ASSUME NEW r \in DOMAIN withdraw, ReviewWithdraw(r)
          PROVE  commission'[i] = commission[i]
      <4>1. commission[i].request # r
        BY <1>1, <3>1 DEF StructInv, TypeOK, Unbound
      <4> QED BY <1>1, <3>9, <4>1, ReviewedRows DEF Reviewed
    <3> QED BY <2>1, <3>2, <3>3, <3>4, <3>5, <3>6, <3>7, <3>8, <3>9 DEF Next
  <2> QED BY <1>1, <2>1
<1> QED BY <1>1, StructAlways, PTL DEF Spec, TakenBackForGood

-----------------------------------------------------------------------------
(* What a request holds.                                                    *)

\* Until it is rejected a request holds commissions worth no more than its amount,
\* and exactly its amount if no cancellation took one out.
CoverOf(r) ==
  withdraw[r].status # "rejected" =>
    /\ AmountOf(Bound(r)) <= withdraw[r].amount
    /\ r \notin overwritten => AmountOf(Bound(r)) = withdraw[r].amount

\* Every request is so.
CoverInv == \A r \in DOMAIN withdraw : CoverOf(r)

\* A request that loses no commission, or is marked for it.
BoundKept(r) ==
  /\ \A j \in Ids' : commission'[j].request = r =>
       j \in Ids /\ commission[j].request = r /\ commission'[j].amount = commission[j].amount
  /\ r \notin overwritten' =>
       /\ r \notin overwritten
       /\ \A j \in Ids : commission[j].request = r => j \in Ids' /\ commission'[j].request = r
  /\ withdraw'[r].amount = withdraw[r].amount
  /\ withdraw'[r].status # "rejected" => withdraw[r].status # "rejected"

\* It stays covered.
LEMMA CoverKept ==
  ASSUME StructInv, StructInv', CoverInv, NEW r \in DOMAIN withdraw, BoundKept(r)
  PROVE  CoverOf(r)'
<1>1. /\ commission \in Seq(RowType) /\ commission' \in Seq(RowType)
      /\ Ids = DOMAIN commission /\ Ids' = DOMAIN commission'
      /\ withdraw[r].amount \in Nat
  <2>1. withdraw \in Seq(WithdrawType) /\ commission \in Seq(RowType)
    BY DEF StructInv, TypeOK, WithdrawType
  <2>2. withdraw[r] \in WithdrawType
    BY <2>1
  <2>3. commission' \in Seq(RowType)
    BY DEF StructInv, TypeOK
  <2> QED BY <2>1, <2>2, <2>3 DEF Ids, WithdrawType
<1>2. /\ Bound(r) \subseteq Ids /\ Bound(r)' \subseteq Bound(r) /\ Bound(r)' \subseteq Ids'
      /\ \A j \in Bound(r)' : commission'[j].amount = commission[j].amount
      /\ r \notin overwritten' => Bound(r)' = Bound(r)
  BY DEF Bound, BoundKept
<1>3. SumFunctionOnSet(Amounts(commission'), Bound(r)')
        = SumFunctionOnSet(Amounts(commission), Bound(r)')
  BY <1>1, <1>2, SameAmounts
<1>4. AmountOf(Bound(r))' = SumFunctionOnSet(Amounts(commission'), Bound(r)')
  BY DEF AmountOf, Amounts, Ids
<1>5. /\ SumFunctionOnSet(Amounts(commission), Bound(r)')
           <= SumFunctionOnSet(Amounts(commission), Bound(r))
      /\ SumFunctionOnSet(Amounts(commission), Bound(r)') \in Nat
      /\ SumFunctionOnSet(Amounts(commission), Bound(r)) \in Nat
  BY <1>1, <1>2, AmountSums
<1>6. AmountOf(Bound(r)) = SumFunctionOnSet(Amounts(commission), Bound(r))
  BY AmountOfIs
<1>7. CoverOf(r)
  BY DEF CoverInv
<1> QED BY <1>1, <1>2, <1>3, <1>4, <1>5, <1>6, <1>7 DEF CoverOf, BoundKept

\* Requests other than a new one are kept by every step.
LEMMA BoundSteps ==
  ASSUME StructInv, [Next]_affiliateVars, NEW r \in DOMAIN withdraw,
         ~(ReviewWithdraw(r) /\ withdraw'[r].status = "rejected")
  PROVE  BoundKept(r)
<1>1. /\ commission \in Seq(RowType) /\ Len(commission) \in Nat /\ Ids = 1..Len(commission)
      /\ r \in 1..Len(withdraw) /\ Len(withdraw) \in Nat /\ r # Unbound
      /\ withdraw \in Seq(WithdrawType)
  BY DEF StructInv, TypeOK, Ids, Unbound, WithdrawType
<1>2. Ids' = DOMAIN commission'
  BY DEF Ids
<1>3. ASSUME NEW o \in Orders, HandleOrderPaid(o) PROVE BoundKept(r)
  <2>1. PICK row \in RowType :
           /\ commission' = Append(commission, row)
           /\ row.order = o /\ row.amount = Commission[o] /\ row.request = Unbound
           /\ row.status \in {"pending_confirm", "available"}
           /\ row.share = [of |-> Commission[o], since |-> refunded[o]]
    BY <1>3, EarnedRow
  <2>2. /\ Ids' = 1..(Len(commission) + 1) /\ commission'[Len(commission) + 1] = row
        /\ \A j \in Ids : commission'[j] = commission[j]
    BY <1>1, <1>2, <2>1
  <2>3. withdraw' = withdraw /\ overwritten' = overwritten
    BY <1>3 DEF HandleOrderPaid
  <2> QED BY <1>1, <2>1, <2>2, <2>3 DEF BoundKept
<1>4. CASE ConfirmDueCommissions
  <2>1. PICK due \in SUBSET {i \in Ids : Confirmable(i)} :
        commission' = [i \in Ids |-> IF i \in due
                                       THEN [commission[i] EXCEPT !.status = "available"]
                                       ELSE commission[i]]
    BY <1>4 DEF ConfirmDueCommissions
  <2>2. Ids' = Ids /\ \A j \in Ids : /\ commission'[j].request = commission[j].request
                                     /\ commission'[j].amount = commission[j].amount
    BY <1>2, <2>1, RowIs DEF RowType
  <2>3. withdraw' = withdraw /\ overwritten' = overwritten
    BY <1>4 DEF ConfirmDueCommissions
  <2> QED BY <2>2, <2>3 DEF BoundKept
<1>5. ASSUME NEW o \in Orders, NEW delta \in 1..Total[o], Refund(o, delta) PROVE BoundKept(r)
  <2>1. withdraw' = withdraw /\ overwritten' = overwritten /\ Ids' = Ids /\ delta <= Refundable(o)
    BY <1>2, <1>5 DEF Refund
  <2>2. ASSUME NEW j \in Ids
        PROVE  /\ commission'[j].request = commission[j].request
               /\ commission[j].request # Unbound => commission'[j] = commission[j]
    <3>1. CASE /\ Revocable(commission[j], o)
               /\ commission'[j] = AfterCut(commission[j], Cut(commission[j].amount, delta, o))
      <4>1. commission[j].request = Unbound
        BY <3>1 DEF Revocable
      <4>0. commission[j].amount \in Nat
        BY RowIs
      <4>2. Cut(commission[j].amount, delta, o) \in Nat
        BY <2>1, <4>0, CutBounds
      <4>3. AfterCut(commission[j], Cut(commission[j].amount, delta, o)).request
              = commission[j].request
        BY <4>2, RowIs, AfterCutFields
      <4> QED BY <3>1, <4>1, <4>3
    <3>2. CASE commission'[j] = commission[j]
      BY <3>2
    <3> QED BY <1>5, <3>1, <3>2, RefundedRows
  <2> QED BY <1>1, <2>1, <2>2 DEF BoundKept
<1>6. ASSUME NEW h \in Handlers, NEW i \in Ids, SaveRejected(h, i) PROVE BoundKept(r)
  <2>1. PICK row \in RowType :
           /\ commission' = [commission EXCEPT ![i] = row]
           /\ row.order = commission[i].order /\ row.status = "rejected"
           /\ row.request = Unbound
    BY <1>6, SavedRow
  <2>2. /\ withdraw' = withdraw
        /\ overwritten' = overwritten \union ({commission[i].request} \ {Unbound})
    BY <1>6 DEF SaveRejected
  <2>3. /\ Ids' = Ids /\ commission'[i] = row
        /\ \A j \in Ids : j # i => commission'[j] = commission[j]
    BY <1>1, <1>2, <2>1
  <2> QED BY <1>1, <2>1, <2>2, <2>3 DEF BoundKept
<1>7. ASSUME NEW h \in Handlers, GiveUp(h) \/ \E o \in Orders : BeginCanceled(h, o)
      PROVE  BoundKept(r)
  BY <1>7 DEF GiveUp, BeginCanceled, BoundKept, Ids
<1>8. ASSUME NEW amount \in 1..AmountOf(Available), ApplyWithdraw(amount) PROVE BoundKept(r)
  <2>1. amount \in Nat
    BY AmountSums, AmountOfIs DEF StructInv, TypeOK, Available, Ids
  <2>2. Applied(amount) /\ overwritten' = overwritten /\ withdraw'[r] = withdraw[r]
    BY <1>1, <1>8, <2>1, AppliedRows, AppliedRequests DEF ApplyWithdraw
  <2>3. ASSUME NEW j \in Ids
        PROVE  /\ commission'[j].request = r => commission'[j] = commission[j]
               /\ commission[j].request = r => commission'[j] = commission[j]
    <3>1. CASE Taken(j, amount) = 0
      BY <2>2, <3>1 DEF Applied
    <3>2. CASE Taken(j, amount) # 0
      <4>1. commission'[j] = TakenRow(j, amount)
        BY <2>2, <3>2 DEF Applied
      <4>2. commission'[j].request = Len(withdraw) + 1
        BY <2>1, <4>1, TakenFields
      <4>3. commission[j].request = Unbound
        BY <1>1, <2>1, <3>2, TakenBounds DEF Available
      <4> QED BY <1>1, <4>2, <4>3
    <3> QED BY <3>1, <3>2
  <2>4. ASSUME NEW j \in Ids', j \notin Ids PROVE commission'[j].request = Unbound
    <3>1. /\ j = Len(commission) + 1
          /\ \E i \in Ids : commission'[Len(commission) + 1] = RestRow(i, amount)
      BY <1>1, <1>2, <2>2, <2>4 DEF Applied
    <3> QED BY <2>1, <3>1, RestFields
  <2>5. Ids \subseteq Ids'
    BY <1>1, <1>2, <2>2 DEF Applied
  <2> QED BY <1>1, <2>2, <2>3, <2>4, <2>5 DEF BoundKept
<1>9. ASSUME NEW s \in DOMAIN withdraw, ReviewWithdraw(s) PROVE BoundKept(r)
  <2>1. ASSUME NEW st, st = "paid" \/ (st = "rejected" /\ r # s), Reviewed(s, st)
        PROVE  BoundKept(r)
    <3>1. Ids' = Ids /\ overwritten' = overwritten
      BY <1>2, <1>9, <2>1 DEF Reviewed, ReviewWithdraw
    <3>2. ASSUME NEW j \in Ids
          PROVE  /\ commission'[j].amount = commission[j].amount
                 /\ commission'[j].request = r <=> commission[j].request = r
      BY <1>1, <2>1 DEF Reviewed
    <3>3. /\ withdraw'[r].amount = withdraw[r].amount
          /\ withdraw'[r].status # "rejected" => withdraw[r].status # "rejected"
      <4>1. withdraw' = [withdraw EXCEPT ![s].status = st] /\ withdraw[r] \in WithdrawType
            /\ withdraw[s].status = "pending_review"
        BY <1>1, <1>9, <2>1 DEF Reviewed, ReviewWithdraw
      <4> QED BY <1>1, <4>1 DEF WithdrawType
    <3> QED BY <3>1, <3>2, <3>3 DEF BoundKept
  <2>2. ASSUME Reviewed(r, "rejected"), r = s PROVE FALSE
    <3>1. withdraw'[r].status = "rejected"
      <4>1. withdraw' = [withdraw EXCEPT ![r].status = "rejected"] /\ withdraw[r] \in WithdrawType
        BY <1>1, <2>2 DEF Reviewed
      <4> QED BY <1>1, <4>1 DEF WithdrawType
    <3> QED BY <1>9, <2>2, <3>1
  <2> QED BY <1>9, <2>1, <2>2, ReviewedRows
<1>10. CASE UNCHANGED affiliateVars
  BY <1>10 DEF affiliateVars, BoundKept, Ids
<1> QED BY <1>3, <1>4, <1>5, <1>6, <1>7, <1>8, <1>9, <1>10 DEF Next

\* What a request takes, over the commissions it takes from.
TakenFrom(amount) == {i \in Ids : Taken(i, amount) # 0}

\* It is what it asks for.
LEMMA TakenSum ==
  ASSUME StructInv, NEW amount \in 1..AmountOf(Available)
  PROVE  /\ TakenFrom(amount) \subseteq Available /\ Available \subseteq Ids
         /\ SumFunctionOnSet([i \in Ids |-> Taken(i, amount)], TakenFrom(amount)) = amount
<1> DEFINE f == [i \in Ids |-> Taken(i, amount)]
           T == TakenFrom(amount)
<1>1. /\ commission \in Seq(RowType) /\ Available \subseteq Ids /\ IsFiniteSet(Ids)
      /\ Ids = DOMAIN commission
  BY SeqFacts DEF StructInv, TypeOK, Available, Ids
<1>2. amount \in Nat
  BY <1>1, AmountSums, AmountOfIs
<1>3. \A i \in Ids : Taken(i, amount) \in Nat /\ (i \notin Available => Taken(i, amount) = 0)
  BY <1>1, <1>2, TakenBounds
<1>4. T \subseteq Available
  BY <1>3 DEF TakenFrom
<1>5. /\ IsFiniteSet(T) /\ IsFiniteSet(Available \ T) /\ T \intersect (Available \ T) = {}
      /\ T \union (Available \ T) = Available
  <2>1. T \subseteq Ids /\ Available \ T \subseteq Ids
    BY <1>1, <1>4
  <2> HIDE DEF T
  <2> QED BY <1>1, <1>4, <2>1, FS_Subset
<1>6. /\ \A i \in Available : f[i] \in Nat /\ f[i] \in Int
      /\ \A i \in Available \ T : f[i] = 0
  BY <1>1, <1>3 DEF TakenFrom
<1>7. SumFunctionOnSet(f, Available) = amount
  BY <1>1, RequestIsFilled
<1> HIDE DEF f, T
<1>8. SumFunctionOnSet(f, T \union (Available \ T))
        = SumFunctionOnSet(f, T) + SumFunctionOnSet(f, Available \ T)
  BY <1>4, <1>5, <1>6, SumUnion
<1>9. SumFunctionOnSet(f, Available \ T) = 0
  BY <1>5, <1>6, SumZero
<1>10. SumFunctionOnSet(f, T) \in Nat
  BY <1>4, <1>5, <1>6, SumNat
<1>11. SumFunctionOnSet(f, T) = amount
  <2>1. SumFunctionOnSet(f, Available) = SumFunctionOnSet(f, T) + SumFunctionOnSet(f, Available \ T)
    BY <1>5, <1>8, Zenon
  <2> QED BY <1>7, <1>9, <1>10, <2>1
<1> QED BY <1>1, <1>4, <1>11 DEF f, T

\* The new request is covered.
LEMMA NewRequestCovered ==
  ASSUME StructInv, StructInv', NEW amount \in 1..AmountOf(Available), ApplyWithdraw(amount),
         NEW r, r = Len(withdraw) + 1
  PROVE  CoverOf(r)'
<1> DEFINE f == [i \in Ids |-> Taken(i, amount)]
           T == TakenFrom(amount)
<1>1. /\ commission \in Seq(RowType) /\ Len(commission) \in Nat /\ Ids = 1..Len(commission)
      /\ commission' \in Seq(RowType) /\ Ids' = DOMAIN commission' /\ Len(withdraw) \in Nat
      /\ IsFiniteSet(Ids)
  BY SeqFacts DEF StructInv, TypeOK, Ids
<1>2. amount \in Nat
  BY AmountSums, AmountOfIs DEF StructInv, TypeOK, Available, Ids
<1>3. Applied(amount) /\ withdraw'[r].amount = amount
  BY <1>2, AppliedRows, AppliedRequests
<1>4. \A i \in Ids : /\ i \in T => /\ commission'[i].request = r
                                   /\ commission'[i].amount = Taken(i, amount)
                     /\ i \notin T => commission'[i].request # r
  <2>1. ASSUME NEW i \in Ids, i \in T
        PROVE  commission'[i].request = r /\ commission'[i].amount = Taken(i, amount)
    <3>1. commission'[i] = TakenRow(i, amount)
      BY <1>3, <2>1 DEF Applied, TakenFrom
    <3> QED BY <1>2, <3>1, TakenFields
  <2>2. ASSUME NEW i \in Ids, i \notin T
        PROVE  commission'[i].request # r
    <3>1. commission'[i] = commission[i]
      BY <1>3, <2>2 DEF Applied, TakenFrom
    <3> QED BY <1>1, <3>1, RowIs
  <2> QED BY <2>1, <2>2
<1>5. ASSUME NEW j \in Ids', j \notin Ids PROVE commission'[j].request # r
  <2>1. /\ j = Len(commission) + 1
        /\ \E i \in Ids : commission'[Len(commission) + 1] = RestRow(i, amount)
    BY <1>1, <1>3, <1>5 DEF Applied
  <2>2. commission'[j].request = Unbound
    BY <1>2, <2>1, RestFields
  <2> QED BY <1>1, <2>2 DEF Unbound
<1>6. T \subseteq Ids /\ T \subseteq Ids' /\ IsFiniteSet(T)
  <2>1. T \subseteq Ids
    BY DEF TakenFrom
  <2>2. Ids \subseteq Ids'
    BY <1>1, <1>3 DEF Applied
  <2> HIDE DEF T
  <2> QED BY <1>1, <2>1, <2>2, FS_Subset
<1>7. Bound(r)' = T
  <2>1. Bound(r)' = {j \in Ids' : commission'[j].request = r}
    BY DEF Bound
  <2> HIDE DEF T
  <2> QED BY <1>4, <1>5, <1>6, <2>1
<1>8. \A i \in T : f[i] = Amounts(commission')[i]
  BY <1>1, <1>4, <1>6 DEF Amounts
<1>9. SumFunctionOnSet(f, T) = amount
  BY TakenSum
<1> HIDE DEF f, T
<1>10. SumFunctionOnSet(Amounts(commission'), T) = amount
  BY <1>6, <1>8, <1>9, SumAgree
<1>11. AmountOf(Bound(r))' = SumFunctionOnSet(Amounts(commission'), Bound(r)')
  BY DEF AmountOf, Amounts, Ids
<1> QED BY <1>2, <1>3, <1>7, <1>10, <1>11 DEF CoverOf

\* Every step keeps requests covered.
LEMMA CoverStep ==
  ASSUME StructInv, StructInv', CoverInv, [Next]_affiliateVars
  PROVE  CoverInv'
<1> SUFFICES ASSUME NEW r \in DOMAIN withdraw' PROVE CoverOf(r)'
  BY DEF CoverInv
<1>1. CASE r \in DOMAIN withdraw
  <2>1. CASE ReviewWithdraw(r) /\ withdraw'[r].status = "rejected"
    BY <2>1 DEF CoverOf
  <2> QED BY <1>1, <2>1, BoundSteps, CoverKept
<1>2. CASE r \notin DOMAIN withdraw
  <2>1. withdraw \in Seq(WithdrawType) /\ Len(withdraw) \in Nat /\ DOMAIN withdraw = 1..Len(withdraw)
    BY DEF StructInv, TypeOK, WithdrawType
  <2>2. ASSUME NEW amount \in 1..AmountOf(Available), ApplyWithdraw(amount) PROVE CoverOf(r)'
    <3>1. amount \in Nat
      BY AmountSums, AmountOfIs DEF StructInv, TypeOK, Available, Ids
    <3>2. withdraw' \in Seq(WithdrawType) /\ Len(withdraw') = Len(withdraw) + 1
      BY <2>2, <3>1, AppliedRequests
    <3>3. r = Len(withdraw) + 1
      BY <1>2, <2>1, <3>2
    <3> QED BY <2>2, <3>3, NewRequestCovered
  <2>3. ASSUME ~\E amount \in 1..AmountOf(Available) : ApplyWithdraw(amount)
        PROVE  DOMAIN withdraw' = DOMAIN withdraw
    <3>1. ASSUME NEW s \in DOMAIN withdraw, ReviewWithdraw(s) PROVE DOMAIN withdraw' = DOMAIN withdraw
      BY <3>1, ReviewedRows DEF Reviewed
    <3> QED BY <2>3, <3>1 DEF Next, HandleOrderPaid, Refund, ConfirmDueCommissions, BeginCanceled,
                              SaveRejected, GiveUp, affiliateVars
  <2> QED BY <1>2, <2>2, <2>3
<1> QED BY <1>1, <1>2

\* It always holds.
LEMMA CoverAlways == Spec => []CoverInv
<1>1. Init => CoverInv
  BY DEF Init, CoverInv
<1>2. StructInv /\ StructInv' /\ CoverInv /\ [Next]_affiliateVars => CoverInv'
  BY CoverStep
<1> QED BY <1>1, <1>2, StructAlways, PTL DEF Spec

\* For any number of commissions and requests: a request holds commissions worth its
\* amount until it is rejected, withdrawn ones once it is paid, whatever is refunded
\* or canceled meanwhile, unless a cancellation that had read one before takes it out
\* (ApplyWithdraw, HandleOrderRefundedTx, HandleOrderCanceled).
THEOREM RequestsAreCovered == Spec => []RequestIsCovered
<1>1. StructInv /\ CoverInv => RequestIsCovered
  <2> SUFFICES ASSUME StructInv, CoverInv, NEW r \in DOMAIN withdraw,
                      withdraw[r].status # "rejected", r \notin overwritten
               PROVE  /\ AmountOf(Bound(r)) = withdraw[r].amount
                      /\ \A i \in Bound(r) : commission[i].status =
                           IF withdraw[r].status = "paid" THEN "withdrawn" ELSE "available"
    BY DEF RequestIsCovered
  <2>1. AmountOf(Bound(r)) = withdraw[r].amount
    BY DEF CoverInv, CoverOf
  <2>2. ASSUME NEW i \in Bound(r)
        PROVE  commission[i].status = IF withdraw[r].status = "paid" THEN "withdrawn" ELSE "available"
    <3>1. i \in Ids /\ commission[i].request = r /\ r # Unbound
      BY DEF Bound, StructInv, TypeOK, Unbound
    <3>2. RowOK(commission[i], refunded, withdraw)
      BY <3>1, RowIs
    <3> QED BY <3>1, <3>2 DEF RowOK
  <2> QED BY <2>1, <2>2
<1> QED BY <1>1, StructAlways, CoverAlways, PTL

-----------------------------------------------------------------------------
(* What is paid out was earned.                                             *)

\* The orders that earned a commission.
Earners == {commission[i].order : i \in Ids}

\* The invariant: they are finitely many, whatever the number of orders there could be.
PaidOutInv == PaidOutWasEarned /\ IsFiniteSet(Earners)

\* A sum over the requests that were not rejected.
Asked(w) ==
  SumFunctionOnSet([r \in DOMAIN w |-> w[r].amount],
                   {r \in DOMAIN w : w[r].status # "rejected"})

\* How it moves with the requests.
LEMMA AskedFacts ==
  ASSUME NEW w \in Seq(WithdrawType)
  PROVE  /\ Asked(w) \in Nat
         /\ \A v \in Seq(WithdrawType) :
              /\ (/\ Len(v) = Len(w)
                  /\ \A r \in DOMAIN w : v[r].amount = w[r].amount
                                         /\ (v[r].status = "rejected" <=> w[r].status = "rejected"))
                   => Asked(v) = Asked(w)
              /\ (/\ Len(v) = Len(w) + 1 /\ \A r \in DOMAIN w : v[r] = w[r]
                  /\ v[Len(w) + 1].status # "rejected")
                   => Asked(v) = Asked(w) + v[Len(w) + 1].amount
              /\ \A r \in DOMAIN w :
                   (/\ Len(v) = Len(w) /\ \A s \in DOMAIN w : s # r => v[s] = w[s]
                    /\ w[r].status # "rejected" /\ v[r].status = "rejected")
                     => Asked(w) = Asked(v) + w[r].amount
<1> DEFINE f(u) == [r \in DOMAIN u |-> u[r].amount]
           S(u) == {r \in DOMAIN u : u[r].status # "rejected"}
<1>1. ASSUME NEW u \in Seq(WithdrawType)
      PROVE  /\ DOMAIN u = 1..Len(u) /\ Len(u) \in Nat /\ S(u) \subseteq DOMAIN u
             /\ IsFiniteSet(S(u)) /\ Asked(u) = SumFunctionOnSet(f(u), S(u))
             /\ \A r \in DOMAIN u : f(u)[r] = u[r].amount /\ u[r].amount \in Nat
             /\ \A r \in S(u) : f(u)[r] \in Nat /\ f(u)[r] \in Int
             /\ Asked(u) \in Nat
  <2>1. DOMAIN u = 1..Len(u) /\ Len(u) \in Nat /\ S(u) \subseteq DOMAIN u
    OBVIOUS
  <2>2. \A r \in DOMAIN u : u[r] \in WithdrawType
    BY <2>1
  <2>3. \A r \in DOMAIN u : f(u)[r] = u[r].amount /\ u[r].amount \in Nat
    BY <2>2 DEF WithdrawType
  <2>4. IsFiniteSet(1..Len(u))
    BY <2>1, FS_Interval
  <2>5. IsFiniteSet(S(u))
    BY <2>1, <2>4, FS_Subset
  <2>6. Asked(u) = SumFunctionOnSet(f(u), S(u)) /\ \A r \in S(u) : f(u)[r] \in Nat
    BY <2>1, <2>3 DEF Asked
  <2>7. Asked(u) \in Nat
    <3> HIDE DEF f, S
    <3> QED BY <2>5, <2>6, SumNat
  <2> QED BY <2>1, <2>3, <2>5, <2>6, <2>7
<1>2. Asked(w) \in Nat
  BY <1>1
<1>3. ASSUME NEW v \in Seq(WithdrawType), Len(v) = Len(w),
             \A r \in DOMAIN w : v[r].amount = w[r].amount
                                 /\ (v[r].status = "rejected" <=> w[r].status = "rejected")
      PROVE  Asked(v) = Asked(w)
  <2>1. DOMAIN v = DOMAIN w /\ S(v) = S(w)
    BY <1>1, <1>3
  <2>2. \A r \in S(w) : f(v)[r] = f(w)[r]
    BY <1>1, <1>3, <2>1
  <2>3. IsFiniteSet(S(w)) /\ Asked(w) = SumFunctionOnSet(f(w), S(w))
        /\ Asked(v) = SumFunctionOnSet(f(v), S(w))
    BY <1>1, <2>1
  <2> HIDE DEF f, S
  <2> QED BY <2>2, <2>3, SumAgree
<1>4. ASSUME NEW v \in Seq(WithdrawType), Len(v) = Len(w) + 1, \A r \in DOMAIN w : v[r] = w[r],
             v[Len(w) + 1].status # "rejected"
      PROVE  Asked(v) = Asked(w) + v[Len(w) + 1].amount
  <2> DEFINE n == Len(w) + 1
  <2>1. /\ n \in DOMAIN v /\ n \notin DOMAIN w /\ S(v) = S(w) \union {n}
        /\ DOMAIN w \subseteq DOMAIN v
    BY <1>1, <1>4
  <2>2. \A r \in S(w) : f(v)[r] = f(w)[r] /\ f(v)[r] \in Int
    BY <1>1, <1>4, <2>1
  <2>3. /\ IsFiniteSet(S(w)) /\ Asked(w) = SumFunctionOnSet(f(w), S(w))
        /\ Asked(v) = SumFunctionOnSet(f(v), S(w) \union {n})
        /\ f(v)[n] = v[n].amount /\ f(v)[n] \in Int /\ n \notin S(w)
    BY <1>1, <2>1
  <2> HIDE DEF f, S, n
  <2>4. SumFunctionOnSet(f(v), S(w)) = SumFunctionOnSet(f(w), S(w))
    BY <2>2, <2>3, SumAgree
  <2>5. SumFunctionOnSet(f(v), S(w) \union {n}) = SumFunctionOnSet(f(v), S(w)) + f(v)[n]
    BY <2>2, <2>3, SumAdd
  <2> QED BY <2>3, <2>4, <2>5 DEF n
<1>5. ASSUME NEW v \in Seq(WithdrawType), NEW r \in DOMAIN w, Len(v) = Len(w),
             \A s \in DOMAIN w : s # r => v[s] = w[s],
             w[r].status # "rejected", v[r].status = "rejected"
      PROVE  Asked(w) = Asked(v) + w[r].amount
  <2>1. DOMAIN v = DOMAIN w /\ r \in S(w) /\ S(v) = S(w) \ {r}
    BY <1>1, <1>5
  <2>2. \A s \in S(w) \ {r} : f(v)[s] = f(w)[s]
    BY <1>1, <1>5, <2>1
  <2>3. /\ IsFiniteSet(S(w)) /\ Asked(w) = SumFunctionOnSet(f(w), S(w))
        /\ Asked(v) = SumFunctionOnSet(f(v), S(w) \ {r})
        /\ f(w)[r] = w[r].amount /\ \A s \in S(w) : f(w)[s] \in Int
    BY <1>1, <2>1
  <2>4. IsFiniteSet(S(w) \ {r})
    BY <2>3, FS_RemoveElement
  <2>5. Asked(v) \in Nat /\ w[r].amount \in Nat
    BY <1>1
  <2> HIDE DEF f, S
  <2>6. SumFunctionOnSet(f(v), S(w) \ {r}) = SumFunctionOnSet(f(w), S(w) \ {r})
    BY <2>2, <2>4, SumAgree
  <2>7. SumFunctionOnSet(f(w), S(w)) = f(w)[r] + SumFunctionOnSet(f(w), S(w) \ {r})
    BY <2>1, <2>3, SumTake
  <2> QED BY <2>3, <2>5, <2>6, <2>7
<1> HIDE DEF f, S
<1> QED BY <1>2, <1>3, <1>4, <1>5

\* The three sums of PaidOutWasEarned, now and next.
LEMMA PaidOutTerms ==
  ASSUME StructInv, StructInv', IsFiniteSet(Earners)
  PROVE  /\ Requested = Asked(withdraw) /\ Requested' = Asked(withdraw')
         /\ withdraw \in Seq(WithdrawType) /\ withdraw' \in Seq(WithdrawType)
         /\ Asked(withdraw) \in Nat /\ Asked(withdraw') \in Nat
         /\ commission \in Seq(RowType) /\ commission' \in Seq(RowType)
         /\ Len(commission) \in Nat
         /\ Ids = DOMAIN commission /\ Ids' = DOMAIN commission' /\ Ids = 1..Len(commission)
         /\ Free \subseteq Ids /\ Free' \subseteq Ids'
         /\ AmountOf(Free) = SumFunctionOnSet(Amounts(commission), Free)
         /\ AmountOf(Free)' = SumFunctionOnSet(Amounts(commission'), Free')
         /\ AmountOf(Free) \in Nat /\ AmountOf(Free)' \in Nat
         /\ SumFunctionOnSet(Commission, Earners) \in Nat
<1>1. /\ withdraw \in Seq(WithdrawType) /\ withdraw' \in Seq(WithdrawType)
      /\ commission \in Seq(RowType) /\ commission' \in Seq(RowType)
      /\ Ids = DOMAIN commission /\ Ids' = DOMAIN commission'
  BY DEF StructInv, TypeOK, WithdrawType, Ids
<1>2. Ids = 1..Len(commission) /\ Len(commission) \in Nat
  BY <1>1
<1>3. Free \subseteq Ids /\ Free' \subseteq Ids'
  BY DEF Free
<1>4. /\ AmountOf(Free) = SumFunctionOnSet(Amounts(commission), Free)
      /\ AmountOf(Free)' = SumFunctionOnSet(Amounts(commission'), Free')
  BY AmountOfIs DEF AmountOf, Amounts, Ids
<1>5. AmountOf(Free) \in Nat /\ AmountOf(Free)' \in Nat
  BY <1>1, <1>3, <1>4, AmountSums
<1>6. Asked(withdraw) \in Nat /\ Asked(withdraw') \in Nat
  BY <1>1, AskedFacts
<1>7. \A o \in Earners : Commission[o] \in Nat
  BY AffiliateAssumption, RowIs DEF Earners
<1>8. SumFunctionOnSet(Commission, Earners) \in Nat
  BY <1>7, SumNat
<1>9. Requested = Asked(withdraw) /\ Requested' = Asked(withdraw')
  BY DEF Requested, Asked
<1> QED BY <1>1, <1>2, <1>3, <1>4, <1>5, <1>6, <1>8, <1>9

\* PaidOutWasEarned in these terms.
LEMMA PaidOutIs ==
  PaidOutWasEarned <=>
    Requested + AmountOf(Free) <= SumFunctionOnSet(Commission, Earners)
BY DEF PaidOutWasEarned, Earners

\* No commission becomes free or grows, no request is added or reopened.
FreeShrinks ==
  /\ Ids' = Ids
  /\ \A i \in Ids : commission'[i].order = commission[i].order
  /\ \A i \in Ids : Open(commission'[i]) /\ commission'[i].request = Unbound =>
       /\ Open(commission[i]) /\ commission[i].request = Unbound
       /\ commission'[i].amount <= commission[i].amount
  /\ Len(withdraw') = Len(withdraw)
  /\ \A r \in DOMAIN withdraw :
       withdraw'[r].amount = withdraw[r].amount
       /\ (withdraw'[r].status = "rejected" <=> withdraw[r].status = "rejected")

\* Then what is paid out stays earned.
LEMMA PaidOutShrinks ==
  ASSUME StructInv, StructInv', PaidOutInv, FreeShrinks
  PROVE  PaidOutInv'
<1> DEFINE a == Amounts(commission)
           b == Amounts(commission')
<1>1. IsFiniteSet(Earners) /\ PaidOutWasEarned
  BY DEF PaidOutInv
<1>2. Asked(withdraw') = Asked(withdraw)
  BY <1>1, PaidOutTerms, AskedFacts DEF FreeShrinks
<1>3. Earners' = Earners
  BY DEF Earners, FreeShrinks
<1>4. /\ Free' \subseteq Free /\ Free' \subseteq Ids
      /\ \A i \in Free' : commission'[i].amount <= commission[i].amount
  BY DEF Free, FreeShrinks
<1>5. SumFunctionOnSet(b, Free') <= SumFunctionOnSet(a, Free')
  BY <1>1, <1>4, PaidOutTerms, SmallerAmounts
<1>6. SumFunctionOnSet(a, Free') <= SumFunctionOnSet(a, Free) /\ SumFunctionOnSet(a, Free') \in Nat
  BY <1>1, <1>4, PaidOutTerms, AmountSums
<1> HIDE DEF a, b
<1>7. AmountOf(Free)' <= AmountOf(Free)
  BY <1>1, <1>5, <1>6, PaidOutTerms DEF a, b
<1>8. Requested + AmountOf(Free) <= SumFunctionOnSet(Commission, Earners)
  BY <1>1, PaidOutIs
<1>9. Requested' + AmountOf(Free)' <= SumFunctionOnSet(Commission, Earners)
  BY <1>1, <1>2, <1>7, <1>8, PaidOutTerms
<1>10. PaidOutWasEarned'
  BY <1>3, <1>9 DEF PaidOutWasEarned, Earners
<1> QED BY <1>1, <1>3, <1>10 DEF PaidOutInv

\* HandleOrderPaid earns what it adds.
LEMMA PaidOutEarns ==
  ASSUME StructInv, StructInv', PaidOutInv, NEW o \in Orders, HandleOrderPaid(o)
  PROVE  PaidOutInv'
<1> DEFINE a == Amounts(commission)
           b == Amounts(commission')
           n == Len(commission) + 1
<1>1. IsFiniteSet(Earners) /\ PaidOutWasEarned
  BY DEF PaidOutInv
<1>2. PICK row \in RowType :
           /\ commission' = Append(commission, row)
           /\ row.order = o /\ row.amount = Commission[o] /\ row.request = Unbound
           /\ row.status \in {"pending_confirm", "available"}
           /\ row.share = [of |-> Commission[o], since |-> refunded[o]]
  BY EarnedRow
<1>3. /\ Ids' = Ids \union {n} /\ n \notin Ids /\ n \in Ids' /\ commission'[n] = row
      /\ \A i \in Ids : commission'[i] = commission[i]
  BY <1>1, <1>2, PaidOutTerms
<1>4. /\ Earners' = Earners \union {o} /\ o \notin Earners
  <2>1. o \notin Earners
    BY DEF Earners, HandleOrderPaid
  <2>2. \A i \in Ids : commission'[i].order = commission[i].order
    BY <1>3
  <2>3. commission'[n].order = o
    BY <1>2, <1>3
  <2>4. Earners' = {commission'[i].order : i \in Ids'}
    BY DEF Earners
  <2> HIDE DEF n
  <2> QED BY <1>3, <2>1, <2>2, <2>3, <2>4 DEF Earners
<1>5. Free' = Free \union {n} /\ n \notin Free
  BY <1>2, <1>3 DEF Free, Open
<1>6. \A q \in Earners : Commission[q] \in Int
  BY AffiliateAssumption, RowIs DEF Earners
<1>7. Commission[o] \in Nat /\ Commission[o] \in Int
  BY AffiliateAssumption
<1>8. IsFiniteSet(Earners')
  BY <1>1, <1>4, FS_AddElement
<1>9. SumFunctionOnSet(Commission, Earners') = SumFunctionOnSet(Commission, Earners) + Commission[o]
  BY <1>1, <1>4, <1>6, <1>7, SumAdd
<1>10. SumFunctionOnSet(b, Free) = SumFunctionOnSet(a, Free)
  <2>1. Free \subseteq DOMAIN commission' \intersect DOMAIN commission
    BY <1>1, <1>3, PaidOutTerms
  <2>2. \A i \in Free : commission'[i].amount = commission[i].amount
    BY <1>3 DEF Free
  <2>3. commission \in Seq(RowType) /\ commission' \in Seq(RowType)
    BY <1>1, PaidOutTerms
  <2> QED BY <2>1, <2>2, <2>3, SameAmounts
<1>11. SumFunctionOnSet(b, Free') = SumFunctionOnSet(b, Free) + Commission[o]
  <2>1. /\ IsFiniteSet(Free) /\ \A i \in Free : b[i] \in Int
    <3>1. IsFiniteSet(Free)
      BY <1>1, PaidOutTerms, AmountSums
    <3>2. Free \subseteq DOMAIN commission' /\ commission' \in Seq(RowType)
      BY <1>1, <1>3, PaidOutTerms
    <3> QED BY <3>1, <3>2, SeqFacts
  <2>2. b[n] = Commission[o]
    BY <1>2, <1>3 DEF Amounts, Ids
  <2> HIDE DEF b, n
  <2> QED BY <1>5, <1>7, <2>1, <2>2, SumAdd
<1> HIDE DEF a, b, n
<1>12. AmountOf(Free)' = AmountOf(Free) + Commission[o]
  BY <1>1, <1>10, <1>11, PaidOutTerms DEF a, b
<1>13. withdraw' = withdraw
  BY DEF HandleOrderPaid
<1>14. Requested + AmountOf(Free) <= SumFunctionOnSet(Commission, Earners)
  BY <1>1, PaidOutIs
<1>15. Requested' + AmountOf(Free)' <= SumFunctionOnSet(Commission, Earners')
  BY <1>1, <1>7, <1>9, <1>12, <1>13, <1>14, PaidOutTerms
<1>16. PaidOutWasEarned'
  BY <1>15 DEF PaidOutWasEarned, Earners
<1> QED BY <1>8, <1>16 DEF PaidOutInv

\* The commissions a request takes from are worth what it asks for and what is left.
LEMMA TakenAndRest ==
  ASSUME StructInv, NEW amount \in 1..AmountOf(Available), NEW i \in Ids
  PROVE  amount + Rest(i, amount)
           <= SumFunctionOnSet(Amounts(commission), TakenFrom(amount))
<1> DEFINE f == [j \in Ids |-> Taken(j, amount)]
           a == Amounts(commission)
           T == TakenFrom(amount)
           R == Rest(i, amount)
<1>1. /\ commission \in Seq(RowType) /\ Ids = DOMAIN commission /\ T \subseteq Ids
      /\ T \subseteq DOMAIN commission
  BY DEF StructInv, TypeOK, TakenFrom, Ids
<1>2. amount \in Nat
  BY <1>1, AmountSums, AmountOfIs DEF Available
<1>3. IsFiniteSet(T)
  BY <1>1, AmountSums
<1>4. ASSUME NEW j \in Ids
      PROVE  /\ f[j] = Taken(j, amount) /\ f[j] \in Int /\ a[j] \in Int /\ f[j] <= a[j]
             /\ a[j] = commission[j].amount
  <2>1. Taken(j, amount) \in 0..commission[j].amount /\ commission[j].amount \in Nat
    BY <1>1, <1>2, TakenBounds
  <2>2. a[j] = commission[j].amount
    BY <1>1, SeqFacts
  <2> QED BY <2>1, <2>2
<1>5. SumFunctionOnSet(f, T) = amount
  BY TakenSum
<1>6. /\ R \in Nat
      /\ R > 0 => i \in T /\ R = a[i] - f[i]
  BY <1>2, <1>4, RestFields DEF TakenFrom
<1>7. SumFunctionOnSet(a, T) \in Nat
  BY <1>1, AmountSums
<1> HIDE DEF f, a, T, R
<1>8. CASE R = 0
  <2>1. SumFunctionOnSet(f, T) <= SumFunctionOnSet(a, T)
    BY <1>1, <1>3, <1>4, SumMonotone
  <2> QED BY <1>2, <1>5, <1>7, <1>8, <2>1 DEF a, T, R
<1>9. CASE R > 0
  <2> DEFINE U == T \ {i}
  <2>1. i \in T /\ R = a[i] - f[i] /\ U \subseteq T /\ IsFiniteSet(U)
    BY <1>3, <1>6, <1>9, FS_RemoveElement
  <2>2. /\ SumFunctionOnSet(f, T) = f[i] + SumFunctionOnSet(f, U)
        /\ SumFunctionOnSet(a, T) = a[i] + SumFunctionOnSet(a, U)
    <3>1. \A j \in T : f[j] \in Int /\ a[j] \in Int
      BY <1>1, <1>4
    <3> QED BY <1>3, <2>1, <3>1, SumTake
  <2> HIDE DEF U
  <2>3. SumFunctionOnSet(f, U) <= SumFunctionOnSet(a, U)
    BY <1>1, <1>4, <2>1, SumMonotone
  <2>4. SumFunctionOnSet(f, U) \in Int /\ SumFunctionOnSet(a, U) \in Int
    BY <1>1, <1>4, <2>1, SumType
  <2>5. amount + R <= SumFunctionOnSet(a, T)
    BY <1>2, <1>4, <1>5, <1>6, <1>7, <2>1, <2>2, <2>3, <2>4
  <2> QED BY <2>5 DEF a, T, R
<1> QED BY <1>6, <1>8, <1>9

\* What is free after a request is at most what was, less what it asks for.
LEMMA FreeAfterRequest ==
  ASSUME StructInv, StructInv', IsFiniteSet(Earners),
         NEW amount \in 1..AmountOf(Available), ApplyWithdraw(amount)
  PROVE  AmountOf(Free)' + amount <= AmountOf(Free)
<1> DEFINE a == Amounts(commission)
           b == Amounts(commission')
           T == TakenFrom(amount)
           U == Free \ T
           n == Len(commission) + 1
<1>1. /\ commission \in Seq(RowType) /\ commission' \in Seq(RowType) /\ Len(commission) \in Nat
      /\ Ids = DOMAIN commission /\ Ids' = DOMAIN commission' /\ Ids = 1..Len(commission)
      /\ Free \subseteq Ids /\ Free' \subseteq Ids'
      /\ AmountOf(Free) = SumFunctionOnSet(a, Free)
      /\ AmountOf(Free)' = SumFunctionOnSet(b, Free')
  BY PaidOutTerms
<1>2. amount \in Nat
  BY <1>1, AmountSums, AmountOfIs DEF Available
<1>3. Applied(amount) /\ Ids \subseteq Ids'
  <2>1. Applied(amount)
    BY <1>2, AppliedRows
  <2> QED BY <1>1, <2>1 DEF Applied
<1>4. T \subseteq Available /\ Available \subseteq Free
  BY TakenSum DEF Available, Free, Open
<1>5. ASSUME NEW j \in Ids
      PROVE  /\ j \notin T => commission'[j] = commission[j]
             /\ j \in T => commission'[j].request # Unbound
  <2>1. CASE Taken(j, amount) = 0
    BY <1>3, <2>1 DEF Applied, TakenFrom
  <2>2. CASE Taken(j, amount) # 0
    <3>1. commission'[j] = TakenRow(j, amount)
      BY <1>3, <2>2 DEF Applied
    <3>2. commission'[j].request = Len(withdraw) + 1
      BY <1>2, <3>1, TakenFields
    <3>3. Len(withdraw) + 1 # Unbound
      BY DEF StructInv, TypeOK, Unbound
    <3> QED BY <2>2, <3>2, <3>3 DEF TakenFrom
  <2> QED BY <2>1, <2>2
<1>6. \A j \in Ids : j \in Free' <=> j \in U
  BY <1>3, <1>5 DEF Free
<1>7. /\ U \subseteq Ids /\ U \subseteq Ids' /\ U \subseteq DOMAIN commission \intersect DOMAIN commission'
      /\ \A j \in U : commission[j].amount = commission'[j].amount
  BY <1>1, <1>3, <1>5
<1>8. SumFunctionOnSet(a, U) = SumFunctionOnSet(b, U)
  BY <1>1, <1>7, SameAmounts
<1>9. /\ SumFunctionOnSet(a, Free) = SumFunctionOnSet(a, T) + SumFunctionOnSet(a, U)
      /\ SumFunctionOnSet(a, T) \in Nat /\ SumFunctionOnSet(a, Free) \in Nat
  BY <1>1, <1>4, AmountSums
<1>10. SumFunctionOnSet(a, U) \in Nat
  BY <1>1, <1>7, AmountSums
<1>11. ASSUME Len(commission') = Len(commission), \A i \in Ids : Rest(i, amount) = 0
       PROVE  AmountOf(Free)' + amount <= AmountOf(Free)
  <2>1. Ids' = Ids
    BY <1>1, <1>11
  <2>2. Free' = U
    BY <1>1, <1>6, <1>7, <2>1
  <2>3. \E i \in Ids : TRUE
    <3>1. CASE Ids = {}
      <4>1. Available = {}
        BY <3>1 DEF Available
      <4>2. AmountOf(Available) = 0
        BY <4>1, <1>1, AmountOfIs, AmountSums
      <4> QED BY <1>2, <4>2
    <3> QED BY <3>1
  <2>4. PICK i \in Ids : TRUE
    BY <2>3
  <2>5. amount + Rest(i, amount) <= SumFunctionOnSet(a, T)
    BY TakenAndRest
  <2>6. amount <= SumFunctionOnSet(a, T)
    BY <1>2, <1>9, <1>11, <2>5
  <2> HIDE DEF a, b, T, U
  <2> QED BY <1>1, <1>2, <1>8, <1>9, <1>10, <2>2, <2>6
<1>12. ASSUME NEW i \in Ids, Rest(i, amount) > 0, Len(commission') = n,
              commission'[n] = RestRow(i, amount)
       PROVE  AmountOf(Free)' + amount <= AmountOf(Free)
  <2> DEFINE R == Rest(i, amount)
  <2>1. /\ R \in Nat /\ commission'[n].amount = R /\ commission'[n].status = "available"
        /\ commission'[n].request = Unbound
    <3> DEFINE rest == RestRow(i, amount)
    <3>1. R \in Nat /\ rest.amount = R /\ rest.status = "available" /\ rest.request = Unbound
      BY <1>2, RestFields
    <3>2. commission'[n] = rest
      BY <1>12
    <3> HIDE DEF rest
    <3> QED BY <3>1, <3>2
  <2>2. Ids' = Ids \union {n} /\ n \notin Ids
    BY <1>1, <1>12
  <2>3. n \in Free'
    BY <2>1, <2>2 DEF Free, Open
  <2>4. Free' = U \union {n} /\ n \notin U
    BY <1>1, <1>6, <1>7, <2>2, <2>3
  <2>5. /\ IsFiniteSet(U) /\ b[n] = R /\ R \in Int /\ \A j \in U : b[j] \in Int
    <3>1. IsFiniteSet(U) /\ n \in DOMAIN commission'
      BY <1>1, <1>7, <2>2, AmountSums
    <3>2. \A j \in DOMAIN commission' : b[j] = commission'[j].amount /\ b[j] \in Int
      BY <1>1, SeqFacts
    <3> QED BY <1>7, <2>1, <3>1, <3>2
  <2>6. amount + R <= SumFunctionOnSet(a, T)
    BY TakenAndRest
  <2> HIDE DEF a, b, T, U, n, R
  <2>7. SumFunctionOnSet(b, U \union {n}) = SumFunctionOnSet(b, U) + b[n]
    BY <2>4, <2>5, SumAdd
  <2> QED BY <1>1, <1>2, <1>8, <1>9, <1>10, <2>1, <2>4, <2>5, <2>6, <2>7
<1> QED BY <1>3, <1>11, <1>12 DEF Applied

\* The requests keep their orders' commissions: a rest has the order it is left of.
LEMMA EarnersAfterRequest ==
  ASSUME StructInv, StructInv', NEW amount \in Nat, ApplyWithdraw(amount)
  PROVE  Earners' = Earners
<1>1. /\ commission' \in Seq(RowType) /\ Len(commission) \in Nat /\ Ids' = DOMAIN commission'
      /\ Ids = 1..Len(commission)
  BY DEF StructInv, TypeOK, Ids
<1>2. Applied(amount)
  BY AppliedRows
<1>3. Ids \subseteq Ids'
  BY <1>1, <1>2 DEF Applied
<1>4. ASSUME NEW j \in Ids PROVE commission'[j].order = commission[j].order
  BY <1>2, TakenFields DEF Applied
<1>5. ASSUME NEW j \in Ids' PROVE \E i \in Ids : commission'[j].order = commission[i].order
  <2>1. CASE j \in Ids
    BY <1>4, <2>1
  <2>2. CASE j \notin Ids
    <3>1. j = Len(commission) + 1
      BY <1>1, <1>2, <2>2 DEF Applied
    <3>2. PICK i \in Ids : commission'[Len(commission) + 1] = RestRow(i, amount)
      BY <1>1, <1>2, <2>2 DEF Applied
    <3>3. RestRow(i, amount).order = commission[i].order
      BY RestFields
    <3> QED BY <3>1, <3>2, <3>3
  <2> QED BY <2>1, <2>2
<1>6. Earners' = {commission'[i].order : i \in Ids'}
  BY DEF Earners
<1> QED BY <1>3, <1>4, <1>5, <1>6 DEF Earners

\* ApplyWithdraw asks for what was free.
LEMMA PaidOutAsks ==
  ASSUME StructInv, StructInv', PaidOutInv, NEW amount \in 1..AmountOf(Available),
         ApplyWithdraw(amount)
  PROVE  PaidOutInv'
<1>1. IsFiniteSet(Earners) /\ PaidOutWasEarned
  BY DEF PaidOutInv
<1>2. amount \in Nat
  BY AmountSums, AmountOfIs DEF StructInv, TypeOK, Available, Ids
<1>3. Earners' = Earners
  BY <1>2, EarnersAfterRequest
<1>4. AmountOf(Free)' + amount <= AmountOf(Free)
  BY <1>1, FreeAfterRequest
<1>5. Asked(withdraw') = Asked(withdraw) + amount
  <2>1. /\ withdraw' \in Seq(WithdrawType) /\ Len(withdraw') = Len(withdraw) + 1
        /\ \A r \in 1..Len(withdraw) : withdraw'[r] = withdraw[r]
        /\ withdraw'[Len(withdraw) + 1].amount = amount
        /\ withdraw'[Len(withdraw) + 1].status # "rejected"
    BY <1>2, AppliedRequests
  <2>2. withdraw \in Seq(WithdrawType) /\ DOMAIN withdraw = 1..Len(withdraw)
    BY <1>1, PaidOutTerms
  <2> QED BY <2>1, <2>2, AskedFacts
<1>6. Requested + AmountOf(Free) <= SumFunctionOnSet(Commission, Earners)
  BY <1>1, PaidOutIs
<1>7. Requested' + AmountOf(Free)' <= SumFunctionOnSet(Commission, Earners)
  BY <1>1, <1>2, <1>4, <1>5, <1>6, PaidOutTerms
<1>8. PaidOutWasEarned'
  BY <1>3, <1>7 DEF PaidOutWasEarned, Earners
<1> QED BY <1>1, <1>3, <1>8 DEF PaidOutInv

\* A rejected request frees no more than it asked for.
LEMMA PaidOutReleases ==
  ASSUME StructInv, StructInv', CoverInv, PaidOutInv, NEW r \in DOMAIN withdraw,
         ReviewWithdraw(r), Reviewed(r, "rejected")
  PROVE  PaidOutInv'
<1> DEFINE a == Amounts(commission)
           b == Amounts(commission')
           B == Bound(r)
           both == Free \union B
<1>1. IsFiniteSet(Earners) /\ PaidOutWasEarned
  BY DEF PaidOutInv
<1>2. /\ commission \in Seq(RowType) /\ commission' \in Seq(RowType)
      /\ Ids = DOMAIN commission /\ Ids' = DOMAIN commission' /\ Free \subseteq Ids
      /\ AmountOf(Free) = SumFunctionOnSet(a, Free)
      /\ AmountOf(Free)' = SumFunctionOnSet(b, Free')
      /\ withdraw \in Seq(WithdrawType)
  BY <1>1, PaidOutTerms
<1>3. Ids' = Ids
  BY <1>2 DEF Reviewed
<1>4. /\ B \subseteq Ids /\ Free \intersect B = {} /\ both \subseteq Ids /\ r # Unbound
  BY <1>2 DEF Bound, Free, StructInv, TypeOK, Unbound
<1>5. ASSUME NEW j \in Free' PROVE j \in both /\ commission'[j].amount = commission[j].amount
  <2>1. j \in Ids /\ Open(commission'[j]) /\ commission'[j].request = Unbound
    BY <1>3, <1>5 DEF Free
  <2>2. CASE commission[j].request = r
    BY <2>1, <2>2 DEF Reviewed, Bound
  <2>3. CASE commission[j].request # r
    BY <2>1, <2>3 DEF Reviewed, Free
  <2> QED BY <2>2, <2>3
<1>6. Free' \subseteq both /\ Free' \subseteq DOMAIN commission \intersect DOMAIN commission'
  BY <1>2, <1>3, <1>4, <1>5
<1>7. SumFunctionOnSet(a, Free') = SumFunctionOnSet(b, Free')
  BY <1>2, <1>5, <1>6, SameAmounts
<1>8. /\ SumFunctionOnSet(a, Free') <= SumFunctionOnSet(a, both)
      /\ SumFunctionOnSet(a, Free') \in Nat /\ SumFunctionOnSet(a, both) \in Nat
  BY <1>2, <1>4, <1>6, AmountSums
<1>9. SumFunctionOnSet(a, both) = SumFunctionOnSet(a, Free) + SumFunctionOnSet(a, B)
  <2>1. both \ Free = B /\ Free \subseteq both /\ both \subseteq DOMAIN commission
    BY <1>2, <1>4
  <2> HIDE DEF both, B
  <2>2. SumFunctionOnSet(a, both) = SumFunctionOnSet(a, Free) + SumFunctionOnSet(a, both \ Free)
    <3>1. \A T \in SUBSET both :
            SumFunctionOnSet(a, both) = SumFunctionOnSet(a, T) + SumFunctionOnSet(a, both \ T)
      <4>1. commission \in Seq(RowType) /\ both \in SUBSET (DOMAIN commission)
        BY <1>2, <2>1
      <4> QED BY <4>1, AmountSums, Zenon
    <3> QED BY <2>1, <3>1
  <2> HIDE DEF a
  <2> QED BY <2>1, <2>2
<1>10. /\ SumFunctionOnSet(a, B) = AmountOf(Bound(r)) /\ SumFunctionOnSet(a, B) \in Nat
       /\ SumFunctionOnSet(a, Free) \in Nat
  BY <1>2, <1>4, AmountOfIs, AmountSums
<1>11. AmountOf(Bound(r)) <= withdraw[r].amount /\ withdraw[r].status = "pending_review"
  BY DEF CoverInv, CoverOf, ReviewWithdraw
<1>12. Asked(withdraw) = Asked(withdraw') + withdraw[r].amount /\ withdraw[r].amount \in Nat
  <2>1. withdraw[r] \in WithdrawType
    BY <1>2
  <2>2. /\ withdraw' \in Seq(WithdrawType) /\ Len(withdraw') = Len(withdraw)
        /\ \A s \in DOMAIN withdraw : s # r => withdraw'[s] = withdraw[s]
        /\ withdraw'[r].status = "rejected"
    <3>1. withdraw' = [withdraw EXCEPT ![r].status = "rejected"]
      BY DEF Reviewed
    <3>2. withdraw' \in Seq(WithdrawType)
      BY <1>1, PaidOutTerms
    <3> QED BY <1>2, <2>1, <3>1, <3>2 DEF WithdrawType
  <2> QED BY <1>2, <1>11, <2>1, <2>2, AskedFacts DEF WithdrawType
<1>13. Earners' = Earners
  <2>1. \A i \in Ids : commission'[i].order = commission[i].order
    BY DEF Reviewed
  <2>2. Earners' = {commission'[i].order : i \in Ids'}
    BY DEF Earners
  <2> QED BY <1>3, <2>1, <2>2 DEF Earners
<1>14. Requested + AmountOf(Free) <= SumFunctionOnSet(Commission, Earners)
  BY <1>1, PaidOutIs
<1>15. /\ Requested = Asked(withdraw) /\ Requested' = Asked(withdraw')
       /\ Asked(withdraw) \in Nat /\ Asked(withdraw') \in Nat
       /\ SumFunctionOnSet(Commission, Earners) \in Nat
  BY <1>1, PaidOutTerms
<1> HIDE DEF a, b, B, both
<1>16. AmountOf(Free)' <= AmountOf(Free) + withdraw[r].amount
  BY <1>2, <1>7, <1>8, <1>9, <1>10, <1>11, <1>12
<1>17. AmountOf(Free)' \in Nat /\ AmountOf(Free) \in Nat
  BY <1>1, PaidOutTerms
<1>18. Requested' + AmountOf(Free)' <= SumFunctionOnSet(Commission, Earners)
  BY <1>12, <1>14, <1>15, <1>16, <1>17
<1>19. PaidOutWasEarned'
  BY <1>13, <1>18 DEF PaidOutWasEarned, Earners
<1> QED BY <1>1, <1>13, <1>19 DEF PaidOutInv

\* Every step keeps what is paid out earned.
LEMMA PaidOutStep ==
  ASSUME StructInv, StructInv', CoverInv, PaidOutInv, [Next]_affiliateVars
  PROVE  PaidOutInv'
<1>1. ASSUME withdraw' = withdraw, Ids' = Ids,
             \A i \in Ids : commission'[i].order = commission[i].order,
             \A i \in Ids : Open(commission'[i]) /\ commission'[i].request = Unbound =>
               /\ Open(commission[i]) /\ commission[i].request = Unbound
               /\ commission'[i].amount <= commission[i].amount
      PROVE  PaidOutInv'
  BY <1>1, PaidOutShrinks DEF FreeShrinks
<1>2. \A i \in Ids : commission[i] \in RowType /\ commission[i].amount \in Nat
                     /\ commission[i].amount <= commission[i].amount
  BY RowIs
<1>3. CASE ConfirmDueCommissions
  <2>1. PICK due \in SUBSET {i \in Ids : Confirmable(i)} :
        commission' = [i \in Ids |-> IF i \in due
                                       THEN [commission[i] EXCEPT !.status = "available"]
                                       ELSE commission[i]]
    BY <1>3 DEF ConfirmDueCommissions
  <2>2. withdraw' = withdraw /\ Ids' = Ids
    BY <1>3, <2>1 DEF ConfirmDueCommissions, Ids
  <2>3. ASSUME NEW i \in Ids
        PROVE  /\ commission'[i].order = commission[i].order
               /\ commission'[i].request = commission[i].request
               /\ commission'[i].amount = commission[i].amount
               /\ Open(commission'[i]) => Open(commission[i])
    <3>1. CASE i \in due
      <4>1. commission'[i] = [commission[i] EXCEPT !.status = "available"]
        BY <2>1, <3>1
      <4> QED BY <1>2, <2>1, <3>1, <4>1 DEF Confirmable, Open, RowType
    <3>2. CASE i \notin due
      BY <2>1, <3>2
    <3> QED BY <3>1, <3>2
  <2> QED BY <1>1, <1>2, <2>2, <2>3
<1>4. ASSUME NEW o \in Orders, NEW delta \in 1..Total[o], Refund(o, delta) PROVE PaidOutInv'
  <2>1. withdraw' = withdraw /\ Ids' = Ids /\ delta <= Refundable(o)
    BY <1>4 DEF Refund, Ids
  <2>2. ASSUME NEW i \in Ids
        PROVE  /\ commission'[i].order = commission[i].order
               /\ commission'[i].request = commission[i].request
               /\ commission'[i].amount <= commission[i].amount
               /\ Open(commission'[i]) => Open(commission[i])
    <3>1. CASE /\ Revocable(commission[i], o)
               /\ commission'[i] = AfterCut(commission[i], Cut(commission[i].amount, delta, o))
      <4> DEFINE cut == Cut(commission[i].amount, delta, o)
      <4>1. cut \in 0..commission[i].amount /\ cut \in Nat
        BY <1>2, <2>1, CutBounds
      <4> HIDE DEF cut
      <4>2. /\ AfterCut(commission[i], cut).order = commission[i].order
            /\ AfterCut(commission[i], cut).amount = cut
            /\ AfterCut(commission[i], cut).request = commission[i].request
        BY <1>2, <4>1, AfterCutFields
      <4>3. commission'[i] = AfterCut(commission[i], cut) /\ Open(commission[i])
        BY <3>1 DEF cut, Revocable
      <4> QED BY <4>1, <4>2, <4>3
    <3>2. CASE commission'[i] = commission[i]
      BY <1>2, <3>2
    <3> QED BY <1>4, <3>1, <3>2, RefundedRows
  <2> QED BY <1>1, <2>1, <2>2
<1>5. ASSUME NEW h \in Handlers, NEW i \in Ids, SaveRejected(h, i) PROVE PaidOutInv'
  <2>1. PICK row \in RowType :
           /\ commission' = [commission EXCEPT ![i] = row]
           /\ row.order = commission[i].order /\ row.status = "rejected"
           /\ row.request = Unbound
    BY <1>5, SavedRow
  <2>2. withdraw' = withdraw /\ Ids' = Ids
    BY <1>5, <2>1 DEF SaveRejected, Ids
  <2>3. commission'[i] = row /\ \A j \in Ids : j # i => commission'[j] = commission[j]
    BY <2>1 DEF Ids
  <2>4. ~Open(row)
    BY <2>1 DEF Open
  <2> QED BY <1>1, <1>2, <2>1, <2>2, <2>3, <2>4
<1>6. ASSUME NEW h \in Handlers, GiveUp(h) \/ \E o \in Orders : BeginCanceled(h, o)
      PROVE  PaidOutInv'
  <2>1. withdraw' = withdraw /\ commission' = commission
    BY <1>6 DEF GiveUp, BeginCanceled
  <2> QED BY <1>1, <1>2, <2>1 DEF Ids
<1>7. ASSUME NEW r \in DOMAIN withdraw, ReviewWithdraw(r), Reviewed(r, "paid") PROVE PaidOutInv'
  <2>1. /\ withdraw' = [withdraw EXCEPT ![r].status = "paid"]
        /\ withdraw \in Seq(WithdrawType) /\ withdraw[r] \in WithdrawType
        /\ withdraw[r].status = "pending_review"
    <3>1. withdraw \in Seq(WithdrawType)
      BY DEF StructInv, TypeOK, WithdrawType
    <3> QED BY <1>7, <3>1 DEF Reviewed, ReviewWithdraw
  <2>2. /\ Len(withdraw') = Len(withdraw)
        /\ \A s \in DOMAIN withdraw :
             withdraw'[s].amount = withdraw[s].amount
             /\ (withdraw'[s].status = "rejected" <=> withdraw[s].status = "rejected")
    BY <2>1 DEF WithdrawType
  <2>3. Ids' = Ids /\ \A i \in Ids : commission'[i].order = commission[i].order
    BY <1>7 DEF Reviewed, Ids
  <2>4. ASSUME NEW i \in Ids, Open(commission'[i]), commission'[i].request = Unbound
        PROVE  /\ Open(commission[i]) /\ commission[i].request = Unbound
               /\ commission'[i].amount <= commission[i].amount
    <3>1. CASE commission[i].request = r
      BY <1>7, <2>4, <3>1 DEF Reviewed, Open
    <3>2. CASE commission[i].request # r
      BY <1>2, <1>7, <2>4, <3>2 DEF Reviewed
    <3> QED BY <3>1, <3>2
  <2> QED BY <2>2, <2>3, <2>4, PaidOutShrinks DEF FreeShrinks
<1>8. CASE UNCHANGED affiliateVars
  BY <1>1, <1>2, <1>8 DEF affiliateVars, Ids
<1> QED BY <1>3, <1>4, <1>5, <1>6, <1>7, <1>8, PaidOutEarns, PaidOutAsks, PaidOutReleases,
           ReviewedRows
        DEF Next

\* For any number of orders, refunds, cancellations, requests and reviews in any order:
\* what is paid out, asked for or still to be asked for was earned; neither splits,
\* releases nor old copies make a commission twice (ApplyWithdraw, ReviewWithdraw,
\* HandleOrderCanceled).
THEOREM PayoutsAreEarned == Spec => []PaidOutWasEarned
<1>1. Init => PaidOutInv
  <2> SUFFICES ASSUME Init PROVE PaidOutInv
    OBVIOUS
  <2>1. Ids = {} /\ Earners = {} /\ Free = {}
    BY DEF Init, Ids, Earners, Free
  <2>2. commission \in Seq(RowType) /\ withdraw = << >>
    BY DEF Init
  <2>3. AmountOf(Free) = 0
    BY <2>1, <2>2, AmountOfIs, AmountSums
  <2>4. {r \in DOMAIN withdraw : withdraw[r].status # "rejected"} = {}
    BY <2>2
  <2>5. IsFiniteSet({})
    BY FS_EmptySet
  <2>6. Requested = 0
    BY <2>4, <2>5, SumPick DEF Requested
  <2>7. SumFunctionOnSet(Commission, Earners) = 0
    BY <2>1, <2>5, SumPick
  <2> QED BY <2>1, <2>3, <2>5, <2>6, <2>7, PaidOutIs DEF PaidOutInv
<1>2. StructInv /\ StructInv' /\ CoverInv /\ PaidOutInv /\ [Next]_affiliateVars => PaidOutInv'
  BY PaidOutStep
<1>3. PaidOutInv => PaidOutWasEarned
  BY DEF PaidOutInv
<1> QED BY <1>1, <1>2, <1>3, StructAlways, CoverAlways, PTL DEF Spec

-----------------------------------------------------------------------------
(* Refunds leave the share that was not refunded.                           *)

\* ShareFollowsRefunds for one row, with the refunds ref in n[o] records.
ShareOf(row, ref, n) ==
  LET o == row.order
      kept == Total[o] - ref[o]
      whole == Total[o] - row.share.since
      error == whole * row.amount - row.share.of * kept
  IN Open(row) /\ row.request = Unbound /\ o \notin GuestOrders =>
       /\ 2 * error <= whole * n[o]
       /\ 2 * (-error) <= whole * n[o]
       /\ kept = 0 => whole = 0

\* For every row.
ShareInv == \A i \in Ids : ShareOf(commission[i], refunded, records)

\* A row that has just been created, split or released has all its share.
LEMMA FreshShare ==
  ASSUME NEW row \in RowType, NEW ref \in [Orders -> Nat], NEW n \in [Orders -> Nat],
         ref[row.order] <= Total[row.order],
         row.share = [of |-> row.amount, since |-> ref[row.order]]
  PROVE  ShareOf(row, ref, n)
<1> DEFINE o == row.order
           kept == Total[o] - ref[o]
           whole == Total[o] - row.share.since
           a == row.amount
           of == row.share.of
           m == n[o]
<1>1. o \in Orders /\ a \in Nat /\ of = a /\ row.share.since = ref[o]
  BY DEF RowType
<1>2. Total[o] \in Nat /\ ref[o] \in Nat /\ m \in Nat /\ ref[o] <= Total[o]
  BY <1>1, AffiliateAssumption
<1>3. whole = kept /\ kept \in Nat
  BY <1>1, <1>2
<1> HIDE DEF kept, whole, a, of, m
<1>4. whole * a - of * kept = 0
  <2>1. whole * a = of * kept /\ whole * a \in Int
    BY <1>1, <1>3
  <2> QED BY <2>1
<1>5. whole * m \in Nat
  BY <1>2, <1>3
<1>6. /\ 2 * (whole * a - of * kept) <= whole * m
      /\ 2 * (-(whole * a - of * kept)) <= whole * m
      /\ kept = 0 => whole = 0
  BY <1>3, <1>4, <1>5
<1> QED BY <1>6 DEF ShareOf, kept, whole, a, of, m

\* A row that keeps its amount and its share while its order is not refunded.
LEMMA SameShare ==
  ASSUME NEW row, NEW new, NEW ref, NEW ref1, NEW n, NEW n1, ShareOf(row, ref, n),
         new.order = row.order, new.amount = row.amount, new.share = row.share,
         Open(new) /\ new.request = Unbound => Open(row) /\ row.request = Unbound,
         ref1[row.order] = ref[row.order], n1[row.order] = n[row.order]
  PROVE  ShareOf(new, ref1, n1)
BY DEF ShareOf

\* A refund of the row's order.
LEMMA CutShare ==
  ASSUME StructInv, ShareInv, NEW o \in Orders, NEW delta \in 1..Total[o], Refund(o, delta),
         NEW i \in Ids, Revocable(commission[i], o), o \notin GuestOrders
  PROVE  ShareOf(AfterCut(commission[i], Cut(commission[i].amount, delta, o)), refunded', records')
<1> DEFINE row == commission[i]
           a == row.amount
           of == row.share.of
           kept == Total[o] - refunded[o]
           whole == Total[o] - row.share.since
           n == records[o]
           R == Rounded(a * delta, kept)
           new == AfterCut(row, Cut(a, delta, o))
<1>1. /\ row \in RowType /\ row.order = o /\ a \in Nat /\ of \in Nat /\ row.share.since \in Nat
      /\ row.share.since <= refunded[o] /\ Open(row) /\ row.request = Unbound
  <2>1. row.order = o /\ Open(row) /\ row.request = Unbound /\ row.status # "rejected"
    BY DEF Revocable, Open
  <2>2. row \in RowType /\ row.share.since <= refunded[o]
    BY <2>1, RowIs DEF RowOK
  <2> QED BY <2>1, <2>2 DEF RowType
<1>2. /\ Total[o] \in Nat /\ refunded[o] \in Nat /\ n \in Nat /\ refunded[o] <= Total[o]
      /\ delta <= Refundable(o) /\ refunded \in [Orders -> Nat] /\ records \in [Orders -> Nat]
  BY AffiliateAssumption DEF StructInv, TypeOK, Refund
<1>3. kept \in Nat \ {0} /\ delta \in 1..kept /\ R \in 0..a /\ Cut(a, delta, o) = a - R
  BY <1>1, <1>2, CutBounds
<1>4. delta = kept => R = a
  BY <1>1, <1>3, RoundedPart
<1>5. whole \in Nat
  BY <1>1, <1>2
<1>6. /\ 2 * (kept * R) <= 2 * (a * delta) + kept
      /\ 2 * (a * delta) - kept <= 2 * (kept * R)
  <2>1. a * delta \in Nat
    BY <1>1, <1>3
  <2>2. R \in Nat /\ 2 * (kept * R) <= 2 * (a * delta) + kept
        /\ 2 * (a * delta) - kept < 2 * (kept * R)
    BY <1>3, <2>1, RoundedBounds
  <2>3. kept * R \in Nat
    BY <1>3, <2>2
  <2> HIDE DEF R, kept
  <2> QED BY <1>3, <2>1, <2>2, <2>3
<1>7. /\ 2 * (whole * a - of * kept) <= whole * n
      /\ 2 * (-(whole * a - of * kept)) <= whole * n
  BY <1>1 DEF ShareInv, ShareOf
<1>8. /\ a - R \in Nat /\ new.order = o /\ new.amount = a - R /\ new.share = row.share
      /\ a - R = 0 => new.status = "rejected"
  <2>1. a - R \in Nat
    BY <1>1, <1>3
  <2>2. /\ new.order = row.order /\ new.amount = Cut(a, delta, o) /\ new.share = row.share
        /\ new.status = IF Cut(a, delta, o) = 0 THEN "rejected" ELSE row.status
    <3> DEFINE cut == Cut(a, delta, o)
    <3>1. cut \in Nat /\ row \in RowType /\ new = AfterCut(row, cut)
      BY <1>1, <1>3, <2>1
    <3> HIDE DEF cut, row, new
    <3> QED BY <3>1, AfterCutFields DEF cut
  <2> QED BY <1>1, <1>3, <2>1, <2>2
<1>9. refunded'[o] = refunded[o] + delta /\ records'[o] = n + 1
  BY <1>2 DEF Refund
<1>10. Total[o] - refunded'[o] = kept - delta
  BY <1>2, <1>3, <1>9
<1> HIDE DEF a, of, kept, whole, n, R, row
<1>11. whole * a \in Int /\ of * kept \in Int /\ whole * n \in Int
  BY <1>1, <1>2, <1>3, <1>5
<1>12. 2 * (of * kept - whole * a) <= whole * n
  BY <1>7, <1>11
<1>13. R \in Nat
  BY <1>1, <1>3
<1>14. /\ 2 * (whole * (a - R) - of * (kept - delta)) <= whole * (n + 1)
       /\ 2 * (of * (kept - delta) - whole * (a - R)) <= whole * (n + 1)
  BY <1>1, <1>2, <1>3, <1>5, <1>6, <1>7, <1>12, <1>13, ShareErrorGrows
<1>15. /\ whole * (a - R) \in Int /\ of * (kept - delta) \in Int
  BY <1>1, <1>3, <1>5, <1>8
<1>16. 2 * (-(whole * (a - R) - of * (kept - delta))) <= whole * (n + 1)
  BY <1>14, <1>15
<1>17. ASSUME Open(new), kept - delta = 0 PROVE FALSE
  <2>1. delta = kept
    BY <1>3, <1>17
  <2>2. a - R = 0
    BY <1>1, <1>4, <2>1
  <2> QED BY <1>8, <1>17, <2>2 DEF Open
<1>18. Total[o] - new.share.since = whole /\ new.share.of = of
  BY <1>8 DEF whole, of
<1> HIDE DEF new
<1>19. ShareOf(new, refunded', records')
  BY <1>8, <1>9, <1>10, <1>14, <1>16, <1>17, <1>18 DEF ShareOf
<1> QED BY <1>19 DEF new, row, a

\* Rows that keep what ShareOf looks at, and new ones that have all their share.
LEMMA SharesKept ==
  ASSUME StructInv, StructInv', ShareInv, refunded' = refunded, records' = records,
         \A j \in Ids' :
           \/ /\ j \in Ids /\ commission'[j].order = commission[j].order
              /\ commission'[j].amount = commission[j].amount
              /\ commission'[j].share = commission[j].share
              /\ Open(commission'[j]) /\ commission'[j].request = Unbound =>
                   Open(commission[j]) /\ commission[j].request = Unbound
           \/ commission'[j].share = [of |-> commission'[j].amount,
                                      since |-> refunded[commission'[j].order]]
           \/ ~Open(commission'[j])
           \/ commission'[j].request # Unbound
  PROVE  ShareInv'
<1> SUFFICES ASSUME NEW j \in Ids' PROVE ShareOf(commission'[j], refunded', records')
  BY DEF ShareInv
<1>1. /\ commission'[j] \in RowType /\ commission'[j].order \in Orders
      /\ refunded \in [Orders -> Nat] /\ records \in [Orders -> Nat]
      /\ \A o \in Orders : refunded[o] <= Total[o]
  <2>1. commission' \in Seq(RowType) /\ Ids' = DOMAIN commission'
    BY DEF StructInv, TypeOK, Ids
  <2>2. commission'[j] \in RowType
    BY <2>1
  <2> QED BY <2>2 DEF StructInv, TypeOK, RowType
<1>2. CASE /\ j \in Ids /\ commission'[j].order = commission[j].order
           /\ commission'[j].amount = commission[j].amount
           /\ commission'[j].share = commission[j].share
           /\ Open(commission'[j]) /\ commission'[j].request = Unbound =>
                Open(commission[j]) /\ commission[j].request = Unbound
  <2>1. ShareOf(commission[j], refunded, records)
    BY <1>2 DEF ShareInv
  <2> QED BY <1>2, <2>1, SameShare
<1>3. CASE commission'[j].share = [of |-> commission'[j].amount,
                                   since |-> refunded[commission'[j].order]]
  BY <1>1, <1>3, FreshShare
<1>4. CASE ~Open(commission'[j]) \/ commission'[j].request # Unbound
  BY <1>4 DEF ShareOf
<1> QED BY <1>2, <1>3, <1>4

\* Every step keeps the shares.
LEMMA ShareStep ==
  ASSUME StructInv, StructInv', ShareInv, [Next]_affiliateVars
  PROVE  ShareInv'
<1>1. /\ commission \in Seq(RowType) /\ Len(commission) \in Nat /\ Ids = 1..Len(commission)
      /\ Ids' = DOMAIN commission'
  BY DEF StructInv, TypeOK, Ids
<1>2. ASSUME NEW o \in Orders, HandleOrderPaid(o) PROVE ShareInv'
  <2>1. PICK row \in RowType :
           /\ commission' = Append(commission, row)
           /\ row.order = o /\ row.amount = Commission[o] /\ row.request = Unbound
           /\ row.status \in {"pending_confirm", "available"}
           /\ row.share = [of |-> Commission[o], since |-> refunded[o]]
    BY <1>2, EarnedRow
  <2>2. /\ Ids' = 1..(Len(commission) + 1) /\ commission'[Len(commission) + 1] = row
        /\ \A j \in Ids : commission'[j] = commission[j]
    BY <1>1, <2>1
  <2>3. refunded' = refunded /\ records' = records
    BY <1>2 DEF HandleOrderPaid
  <2>4. row.share = [of |-> row.amount, since |-> refunded[row.order]]
    BY <2>1
  <2>5. \A j \in Ids' : j \in Ids \/ commission'[j] = row
    BY <1>1, <2>2
  <2> QED BY <2>2, <2>3, <2>4, <2>5, SharesKept
<1>3. CASE ConfirmDueCommissions
  <2>1. PICK due \in SUBSET {i \in Ids : Confirmable(i)} :
        commission' = [i \in Ids |-> IF i \in due
                                       THEN [commission[i] EXCEPT !.status = "available"]
                                       ELSE commission[i]]
    BY <1>3 DEF ConfirmDueCommissions
  <2>2. refunded' = refunded /\ records' = records /\ Ids' = Ids
    BY <1>3, <2>1 DEF ConfirmDueCommissions, Ids
  <2>3. ASSUME NEW i \in Ids
        PROVE  /\ commission'[i].order = commission[i].order
               /\ commission'[i].request = commission[i].request
               /\ commission'[i].amount = commission[i].amount
               /\ commission'[i].share = commission[i].share
               /\ Open(commission'[i]) => Open(commission[i])
    <3>1. CASE i \in due
      <4>1. commission'[i] = [commission[i] EXCEPT !.status = "available"]
        BY <2>1, <3>1
      <4> QED BY <2>1, <3>1, <4>1, RowIs DEF Confirmable, Open, RowType
    <3>2. CASE i \notin due
      BY <2>1, <3>2
    <3> QED BY <3>1, <3>2
  <2> QED BY <2>2, <2>3, SharesKept
<1>4. ASSUME NEW o \in Orders, NEW delta \in 1..Total[o], Refund(o, delta) PROVE ShareInv'
  <2>1. Ids' = Ids
    BY <1>4 DEF Refund, Ids
  <2>2. ASSUME NEW i \in Ids PROVE ShareOf(commission'[i], refunded', records')
    <3>1. CASE /\ Revocable(commission[i], o) /\ o \notin GuestOrders
               /\ commission'[i] = AfterCut(commission[i], Cut(commission[i].amount, delta, o))
      <4>1. ShareOf(AfterCut(commission[i], Cut(commission[i].amount, delta, o)),
                    refunded', records')
        BY <1>4, <3>1, CutShare
      <4> QED BY <3>1, <4>1
    <3>2. CASE /\ ~(Revocable(commission[i], o) /\ o \notin GuestOrders)
               /\ commission'[i] = commission[i]
      <4>1. CASE commission[i].order = o
        BY <3>2, <4>1 DEF ShareOf, Revocable
      <4>2. CASE commission[i].order # o
        <5>1. /\ refunded'[commission[i].order] = refunded[commission[i].order]
              /\ records'[commission[i].order] = records[commission[i].order]
          BY <1>4, <4>2, RowIs DEF Refund, StructInv, TypeOK
        <5>2. ShareOf(commission[i], refunded, records)
          BY DEF ShareInv
        <5> QED BY <3>2, <5>1, <5>2, SameShare
      <4> QED BY <4>1, <4>2
    <3> QED BY <1>4, <3>1, <3>2, RefundedRows
  <2> QED BY <2>1, <2>2 DEF ShareInv
<1>5. ASSUME NEW h \in Handlers, NEW i \in Ids, SaveRejected(h, i) PROVE ShareInv'
  <2>1. PICK row \in RowType :
           /\ commission' = [commission EXCEPT ![i] = row]
           /\ row.order = commission[i].order /\ row.status = "rejected"
           /\ row.request = Unbound
    BY <1>5, SavedRow
  <2>2. refunded' = refunded /\ records' = records /\ Ids' = Ids
    BY <1>5, <2>1 DEF SaveRejected, Ids
  <2>3. commission'[i] = row /\ \A j \in Ids : j # i => commission'[j] = commission[j]
    BY <2>1 DEF Ids
  <2>4. ~Open(row)
    BY <2>1 DEF Open
  <2> QED BY <2>2, <2>3, <2>4, SharesKept
<1>6. ASSUME NEW h \in Handlers, GiveUp(h) \/ \E o \in Orders : BeginCanceled(h, o)
      PROVE  ShareInv'
  BY <1>6 DEF GiveUp, BeginCanceled, ShareInv, Ids
<1>7. ASSUME NEW amount \in 1..AmountOf(Available), ApplyWithdraw(amount) PROVE ShareInv'
  <2>1. amount \in Nat
    BY AmountSums, AmountOfIs DEF StructInv, TypeOK, Available, Ids
  <2>2. Applied(amount) /\ refunded' = refunded /\ records' = records
    BY <1>7, <2>1, AppliedRows DEF ApplyWithdraw
  <2>3. ASSUME NEW j \in Ids' PROVE
           \/ j \in Ids /\ commission'[j] = commission[j]
           \/ commission'[j].share = [of |-> commission'[j].amount,
                                      since |-> refunded[commission'[j].order]]
           \/ commission'[j].request # Unbound
    <3>1. CASE j \in Ids
      <4>1. CASE Taken(j, amount) = 0
        BY <2>2, <3>1, <4>1 DEF Applied
      <4>2. CASE Taken(j, amount) # 0
        <5>1. commission'[j] = TakenRow(j, amount)
          BY <2>2, <3>1, <4>2 DEF Applied
        <5>2. commission'[j].request = Len(withdraw) + 1
          BY <2>1, <3>1, <5>1, TakenFields
        <5>3. Len(withdraw) + 1 # Unbound
          BY DEF StructInv, TypeOK, Unbound
        <5> QED BY <5>2, <5>3
      <4> QED BY <4>1, <4>2
    <3>2. CASE j \notin Ids
      <4>1. j = Len(commission) + 1
        BY <1>1, <2>2, <3>2 DEF Applied
      <4>2. PICK i \in Ids : commission'[Len(commission) + 1] = RestRow(i, amount)
        BY <1>1, <2>2, <3>2 DEF Applied
      <4> DEFINE rest == RestRow(i, amount)
      <4>3. rest.share = [of |-> rest.amount, since |-> refunded[rest.order]]
        BY <2>1, RestFields
      <4>4. commission'[j] = rest
        BY <4>1, <4>2
      <4> HIDE DEF rest
      <4> QED BY <4>3, <4>4
    <3> QED BY <3>1, <3>2
  <2> QED BY <2>2, <2>3, SharesKept
<1>8. ASSUME NEW r \in DOMAIN withdraw, ReviewWithdraw(r) PROVE ShareInv'
  <2>1. refunded' = refunded /\ records' = records
    BY <1>8 DEF ReviewWithdraw
  <2>2. ASSUME NEW st, st = "paid" \/ st = "rejected", Reviewed(r, st) PROVE ShareInv'
    <3>1. Ids' = Ids
      BY <1>1, <2>2 DEF Reviewed
    <3>2. ASSUME NEW j \in Ids
          PROVE  \/ commission'[j] = commission[j]
                 \/ commission'[j].share = [of |-> commission'[j].amount,
                                            since |-> refunded[commission'[j].order]]
                 \/ ~Open(commission'[j])
      <4>1. CASE commission[j].request # r
        BY <2>2, <4>1 DEF Reviewed
      <4>2. CASE commission[j].request = r /\ st = "paid"
        BY <2>2, <4>2 DEF Reviewed, Open
      <4>3. CASE commission[j].request = r /\ st = "rejected"
        <5>1. /\ commission'[j].order = commission[j].order
              /\ commission'[j].amount = commission[j].amount
              /\ commission'[j].share = [of |-> commission[j].amount,
                                         since |-> refunded[commission[j].order]]
          BY <2>2, <4>3 DEF Reviewed
        <5> QED BY <5>1
      <4> QED BY <2>2, <4>1, <4>2, <4>3
    <3> QED BY <2>1, <3>1, <3>2, SharesKept
  <2> QED BY <1>8, <2>2, ReviewedRows
<1>9. CASE UNCHANGED affiliateVars
  BY <1>9 DEF affiliateVars, ShareInv, Ids
<1> QED BY <1>2, <1>3, <1>4, <1>5, <1>6, <1>7, <1>8, <1>9 DEF Next

\* Refunds, in however many parts and of whatever sizes, leave of a commission the
\* share of its order that is not refunded, up to half a cent for each, and of a
\* whole order's nothing (HandleOrderRefundedTx).
THEOREM SharesFollowRefunds == Spec => []ShareFollowsRefunds
<1>1. Init => ShareInv
  BY DEF Init, ShareInv, Ids
<1>2. StructInv /\ StructInv' /\ ShareInv /\ [Next]_affiliateVars => ShareInv'
  BY ShareStep
<1>3. ASSUME StructInv, ShareInv PROVE ShareFollowsRefunds
  <2> SUFFICES ASSUME NEW i \in Ids, Revocable(commission[i], commission[i].order),
                      commission[i].order \notin GuestOrders
               PROVE  LET o == commission[i].order
                          share == commission[i].share
                          kept == Total[o] - refunded[o]
                          whole == Total[o] - share.since
                          error == whole * commission[i].amount - share.of * kept
                      IN /\ 2 * Max({error, -error}) <= whole * records[o]
                         /\ kept = 0 => whole = 0
    BY DEF ShareFollowsRefunds
  <2> DEFINE o == commission[i].order
             kept == Total[o] - refunded[o]
             whole == Total[o] - commission[i].share.since
             error == whole * commission[i].amount - commission[i].share.of * kept
             minus == -error
  <2>1. /\ 2 * error <= whole * records[o] /\ 2 * minus <= whole * records[o]
        /\ kept = 0 => whole = 0
    <3>1. ShareOf(commission[i], refunded, records)
      BY <1>3 DEF ShareInv
    <3> QED BY <3>1 DEF ShareOf, Revocable
  <2>2. error \in Int /\ minus \in Int
    <3>1. /\ o \in Orders /\ commission[i].amount \in Nat /\ commission[i] \in RowType
          /\ refunded \in [Orders -> Nat]
      BY <1>3, RowIs DEF StructInv, TypeOK
    <3>2. /\ Total[o] \in Nat /\ refunded[o] \in Nat
          /\ commission[i].share.since \in Nat /\ commission[i].share.of \in Nat
      BY <3>1, AffiliateAssumption DEF RowType
    <3> QED BY <3>1, <3>2
  <2> HIDE DEF error, minus, whole
  <2>3. Max({error, minus}) = IF error >= minus THEN error ELSE minus
    BY <2>2, MaxMin
  <2>4. 2 * Max({error, minus}) <= whole * records[o]
    BY <2>1, <2>3
  <2> QED BY <2>1, <2>4 DEF error, minus, whole
<1> QED BY <1>1, <1>2, <1>3, StructAlways, PTL DEF Spec
=============================================================================
