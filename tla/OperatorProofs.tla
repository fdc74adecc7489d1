--------------------------- MODULE OperatorProofs ---------------------------
(***************************************************************************)
(* Facts about the operators the components are built from, for all of     *)
(* their arguments: the statuses of OrderStatus, the rows of ManualStock,  *)
(* the first members of a finite set of numbers, and sums over finite sets.*)
(* Definitions that recurse over a set are reasoned about by a smallest    *)
(* counterexample.                                                         *)
(***************************************************************************)
EXTENDS OrderStatus, ManualStock, Functions, FiniteSetTheorems, WellFoundedInduction, TLAPS

-----------------------------------------------------------------------------
(* Order statuses.                                                          *)

\* The statuses calcParentStatus counts: a child that is partially_delivered is
\* counted by no case of it.
Counted == OrderStatuses \ {"partially_delivered"}

\* calcParentStatus yields a status, whatever it is given.
LEMMA AggregateType ==
  ASSUME NEW C, NEW st, NEW cur \in OrderStatuses
  PROVE  CalcParentStatus(C, st, cur) \in OrderStatuses
BY DEF CalcParentStatus, OrderStatuses

\* The aggregate of children whose statuses are all counted does not depend on
\* the parent's former status: syncParentStatus repairs whatever it finds.
THEOREM AggregateIgnoresCurrent ==
  ASSUME NEW C, C # {}, NEW st \in [C -> Counted], NEW cur1, NEW cur2
  PROVE  CalcParentStatus(C, st, cur1) = CalcParentStatus(C, st, cur2)
<1>1. PICK c \in C : TRUE OBVIOUS
<1>2. st[c] \in Counted OBVIOUS
<1>3. CASE \A d \in C : st[d] = "canceled"
  BY <1>3 DEF CalcParentStatus
<1>4. CASE \E d \in C : st[d] # "canceled"
  BY <1>4 DEF CalcParentStatus, Counted, OrderStatuses
<1> QED BY <1>3, <1>4

\* When one child takes a step the table of order_service.go allows, the
\* aggregate takes one too, or none, as long as no child is partially_delivered:
\* syncParentStatus writes the aggregate without consulting the table.
THEOREM AggregateStepAllowed ==
  ASSUME NEW C, NEW st \in [C -> Counted], NEW c \in C, NEW t \in Counted,
         NEW cur \in OrderStatuses,
         IsTransitionAllowed(st[c], t)
  PROVE  IsTransitionAllowed(CalcParentStatus(C, st, cur),
                             CalcParentStatus(C, [st EXCEPT ![c] = t], cur))
<1> DEFINE new == [st EXCEPT ![c] = t]
<1>1. /\ C # {}
      /\ st[c] \in Counted /\ new[c] = t
      /\ \A d \in C : st[d] \in Counted
      /\ \A d \in C : d # c => new[d] = st[d]
  OBVIOUS
<1> HIDE DEF new
<1>2. CASE \A d \in C \ {c} : st[d] = "canceled"
  BY <1>1, <1>2 DEF CalcParentStatus, IsTransitionAllowed, Transitions, Counted, OrderStatuses
<1>3. CASE \E d \in C \ {c} : st[d] # "canceled"
  BY <1>1, <1>3 DEF CalcParentStatus, IsTransitionAllowed, Transitions, Counted, OrderStatuses
<1> QED BY <1>2, <1>3 DEF new

-----------------------------------------------------------------------------
(* Manual stock.                                                            *)

\* The fields of a stock row and their ranges.
LEMMA StockRowFields ==
  ASSUME NEW row \in StockRow
  PROVE  /\ row = [total |-> row.total, locked |-> row.locked, sold |-> row.sold]
         /\ row.total \in Int /\ row.total >= -1
         /\ row.locked \in Nat /\ row.sold \in Nat
         /\ IsEnforced(row) => row.total \in Nat
BY DEF StockRow, IsEnforced, ManualStockUnlimited

\* A row of three numbers is the row of an enforced SKU.
LEMMA StockRowOfFields ==
  ASSUME NEW t \in Nat, NEW l \in Nat, NEW s \in Nat
  PROVE  /\ [total |-> t, locked |-> l, sold |-> s] \in StockRow
         /\ IsEnforced([total |-> t, locked |-> l, sold |-> s])
BY DEF StockRow, IsEnforced, ManualStockUnlimited

\* A reservation of a SKU with enough free stock.
LEMMA ReserveKeepsUnits ==
  ASSUME NEW row \in StockRow, NEW q \in Nat, IsEnforced(row), CanReserve(row, q)
  PROVE  /\ ReserveManualStock(row, q) \in StockRow
         /\ IsEnforced(ReserveManualStock(row, q))
         /\ Units(ReserveManualStock(row, q)) = Units(row)
<1> DEFINE new == [total |-> row.total - q, locked |-> row.locked + q, sold |-> row.sold]
<1>1. ReserveManualStock(row, q) = new
  BY DEF ReserveManualStock
<1>2. new \in StockRow /\ IsEnforced(new)
  BY StockRowFields, StockRowOfFields DEF CanReserve
<1>3. Units(new) = Units(row)
  BY StockRowFields DEF Units
<1> QED BY <1>1, <1>2, <1>3

\* A release, whatever has become of the reservation it is called for.
LEMMA ReleaseKeepsUnits ==
  ASSUME NEW row \in StockRow, NEW q \in Nat
  PROVE  /\ ReleaseManualStock(row, q) \in StockRow
         /\ IsEnforced(ReleaseManualStock(row, q)) <=> IsEnforced(row)
         /\ Units(ReleaseManualStock(row, q)) = Units(row)
<1> DEFINE new == [total |-> row.total + q, locked |-> row.locked - q, sold |-> row.sold]
<1>1. CASE IsEnforced(row) /\ row.locked >= q
  <2>1. ReleaseManualStock(row, q) = new
    BY <1>1 DEF ReleaseManualStock
  <2>2. new \in StockRow /\ IsEnforced(new)
    <3>1. row.total + q \in Nat /\ row.locked - q \in Nat /\ row.sold \in Nat
      BY <1>1, StockRowFields
    <3> QED BY <3>1, StockRowOfFields
  <2>3. Units(new) = Units(row)
    BY StockRowFields DEF Units
  <2> QED BY <1>1, <2>1, <2>2, <2>3
<1>2. CASE ~(IsEnforced(row) /\ row.locked >= q)
  BY <1>2 DEF ReleaseManualStock
<1> QED BY <1>1, <1>2

\* A consumption, whether the reservation covers it, free stock does, or neither.
LEMMA ConsumeKeepsUnits ==
  ASSUME NEW row \in StockRow, NEW q \in Nat
  PROVE  /\ ConsumeManualStock(row, q) \in StockRow
         /\ IsEnforced(ConsumeManualStock(row, q)) <=> IsEnforced(row)
         /\ Units(ConsumeManualStock(row, q)) = Units(row)
<1> DEFINE short == IF row.locked >= q THEN 0 ELSE q - row.locked
           new == [total |-> row.total - short, locked |-> row.locked - (q - short),
                   sold |-> row.sold + q]
<1>1. short \in Nat /\ row.locked - (q - short) \in Nat
  BY StockRowFields
<1>2. CASE IsEnforced(row) /\ row.total >= short
  <2>1. ConsumeManualStock(row, q) = new
    BY <1>2 DEF ConsumeManualStock
  <2>2. new \in StockRow /\ IsEnforced(new)
    <3> HIDE DEF short
    <3> QED BY <1>1, <1>2, StockRowFields, StockRowOfFields
  <2>3. Units(new) = Units(row)
    <3> HIDE DEF short
    <3> QED BY <1>1, StockRowFields DEF Units
  <2> QED BY <1>2, <2>1, <2>2, <2>3
<1>3. CASE ~(IsEnforced(row) /\ row.total >= short)
  BY <1>3 DEF ConsumeManualStock
<1> QED BY <1>2, <1>3

-----------------------------------------------------------------------------
(* Counting.                                                                *)

\* Among naturals there is a least one.
LEMMA LeastNatural ==
  ASSUME NEW S \in SUBSET Nat, S # {}
  PROVE  \E n \in S : \A m \in S : n <= m
<1> DEFINE below == {1..n : n \in S}
<1>1. below \subseteq FiniteSubsetsOf(Nat) /\ below # {}
  <2>1. ASSUME NEW n \in S PROVE 1..n \in FiniteSubsetsOf(Nat)
    <3>1. n \in Nat /\ 1..n \subseteq Nat OBVIOUS
    <3>2. IsFiniteSet(1..n) BY <3>1, FS_Interval
    <3> QED BY <3>1, <3>2 DEF FiniteSubsetsOf
  <2> QED BY <2>1
<1>2. PICK x \in below : \A y \in below : <<y, x>> \notin StrictSubsetOrdering(Nat)
  <2> HIDE DEF below
  <2> QED BY <1>1, FS_StrictSubsetOrderingWellFounded, WFMin
<1>3. PICK n \in S : x = 1..n BY <1>2
<1>4. ASSUME NEW m \in S, m < n PROVE FALSE
  <2>1. 1..m \subseteq 1..n /\ 1..m \subseteq Nat /\ 1..n \subseteq Nat BY <1>4
  <2>2. n \in 1..n /\ n \notin 1..m BY <1>4
  <2>3. 1..m # 1..n BY <2>2
  <2>4. <<1..m, 1..n>> \in StrictSubsetOrdering(Nat) BY <2>1, <2>3 DEF StrictSubsetOrdering
  <2> QED BY <1>2, <1>3, <2>4
<1> QED BY <1>4


\* How many members of S are below c, and the members with fewer than n below them.
Rank(S, c) == Cardinality({d \in S : d < c})
Firsts(S, n) == {c \in S : Rank(S, c) < n}

\* Of a finite set of naturals that has n members there are n first ones.
LEMMA CountFirsts ==
  ASSUME NEW S \in SUBSET Nat, IsFiniteSet(S), NEW n \in Nat, n <= Cardinality(S)
  PROVE  Cardinality(Firsts(S, n)) = n
<1> DEFINE wrong == {m \in Nat : m <= Cardinality(S) /\ Cardinality(Firsts(S, m)) # m}
<1> SUFFICES ASSUME wrong # {} PROVE FALSE
  OBVIOUS
<1>1. PICK m \in wrong : \A i \in wrong : m <= i
  <2> HIDE DEF wrong
  <2>1. wrong \in SUBSET Nat BY DEF wrong
  <2> QED BY <2>1, LeastNatural
<1>2. ASSUME NEW T \in SUBSET S PROVE IsFiniteSet(T) /\ Cardinality(T) \in Nat
  BY FS_Subset, FS_CardinalityType
<1>3. \A c \in Nat : Rank(S, c) \in Nat
  BY <1>2 DEF Rank
<1>4. CASE m = 0
  <2>1. \A c \in S : ~(Rank(S, c) < 0)
    <3>1. ASSUME NEW c \in S PROVE Rank(S, c) \in Nat
      BY <1>3
    <3>2. ASSUME NEW n1 \in Nat PROVE ~(n1 < 0)
      OBVIOUS
    <3> QED BY <3>1, <3>2
  <2>2. Firsts(S, 0) = {}
    BY <2>1 DEF Firsts
  <2> QED BY <1>1, <1>4, <2>2, FS_EmptySet
<1>5. CASE m # 0
  <2> DEFINE before == Firsts(S, m - 1)
  <2>1. /\ m - 1 \in Nat /\ Cardinality(before) = m - 1 /\ before \subseteq S
        /\ m <= Cardinality(S)
    <3>1. m \in Nat /\ m <= Cardinality(S) /\ Cardinality(S) \in Nat
      BY <1>1, <1>2
    <3>2. m - 1 \in Nat /\ m - 1 <= Cardinality(S) /\ ~(m <= m - 1)
      BY <3>1, <1>5
    <3>3. m - 1 \notin wrong
      BY <1>1, <3>2
    <3>4. Cardinality(before) = m - 1
      BY <3>2, <3>3
    <3> QED BY <3>1, <3>2, <3>4 DEF Firsts
  <2>2. before # S
    BY <1>2, <2>1
  <2> HIDE DEF before
  <2>3. S \ before # {} /\ S \ before \in SUBSET Nat
    BY <2>1, <2>2
  <2>4. PICK x \in S \ before : \A y \in S \ before : x <= y
    BY <2>3, LeastNatural
  <2>5. \A c \in S : c \in before <=> Rank(S, c) < m - 1
    BY DEF before, Firsts
  <2>6. ASSUME NEW c \in S, NEW d \in S, c <= d PROVE Rank(S, c) <= Rank(S, d)
    <3>1. {e \in S : e < c} \subseteq {e \in S : e < d}
      <4>1. ASSUME NEW e \in S, e < c PROVE e < d
        <5>1. e \in Nat /\ c \in Nat /\ d \in Nat OBVIOUS
        <5> QED BY <2>6, <4>1, <5>1
      <4> QED BY <4>1
    <3> QED BY <1>2, <3>1, FS_Subset DEF Rank
  <2>7. {d \in S : d < x} = before
    <3>1. ASSUME NEW d \in S, d < x PROVE d \in before
      BY <2>4, <3>1
    <3>2. ASSUME NEW d \in before PROVE d < x
      <4>1. d \in S /\ x \in S /\ d \in Nat /\ x \in Nat /\ d # x
        BY <2>1, <2>4
      <4>2. CASE x < d
        BY <1>3, <2>1, <2>4, <2>5, <2>6, <4>1, <4>2
      <4> QED BY <4>1, <4>2
    <3> QED BY <2>1, <3>1, <3>2
  <2>8. x \in S /\ x \in Nat /\ x \notin before /\ Rank(S, x) = m - 1
    BY <2>1, <2>4, <2>7 DEF Rank
  <2>9. Firsts(S, m) = before \union {x}
    <3>1. ASSUME NEW c \in S, Rank(S, c) < m, c # x PROVE c \in before
      <4>1. c \in Nat
        OBVIOUS
      <4>2. CASE c < x
        BY <2>7, <4>2
      <4>3. CASE x < c
        <5>1. before \union {x} \subseteq {d \in S : d < c}
          BY <2>1, <2>7, <2>8, <4>1, <4>3
        <5>2. Cardinality(before \union {x}) = m
          BY <1>2, <2>1, <2>8, FS_AddElement
        <5>3. m <= Rank(S, c)
          BY <1>2, <5>1, <5>2, FS_Subset DEF Rank
        <5> QED BY <1>1, <1>3, <3>1, <4>1, <5>3
      <4> QED BY <2>8, <3>1, <4>1, <4>2, <4>3
    <3>2. before \union {x} \subseteq Firsts(S, m)
      BY <1>1, <1>3, <2>1, <2>5, <2>8 DEF Firsts
    <3> QED BY <3>1, <3>2 DEF Firsts
  <2>10. Cardinality(before \union {x}) = m
    BY <1>2, <2>1, <2>8, FS_AddElement
  <2> QED BY <1>1, <2>9, <2>10
<1> QED BY <1>4, <1>5

-----------------------------------------------------------------------------
(* Sums.                                                                    *)

\* The member of a set that folds take first.
Pick(s) == CHOOSE x \in s : TRUE

\* g adds f up over every subset of S.
Adds(f, S, g) ==
  g = [s \in SUBSET S |-> IF s = {} THEN 0 ELSE f[Pick(s)] + g[s \ {Pick(s)}]]

\* SumFunctionOnSet applies such a g to S.
LEMMA SumUnfold ==
  ASSUME NEW f, NEW S
  PROVE  SumFunctionOnSet(f, S) = (CHOOSE g : Adds(f, S, g))[S]
BY DEF SumFunctionOnSet, FoldFunctionOnSet, MapThenFoldSet, Adds, Pick

\* Of any finite sets there is one that contains no other of them.
LEMMA SmallestSet ==
  ASSUME NEW E, NEW W \in SUBSET FiniteSubsetsOf(E), W # {}
  PROVE  \E T \in W : \A U \in W : U \subseteq T => U = T
<1>1. PICK T \in W : \A U \in W : <<U, T>> \notin StrictSubsetOrdering(E)
  BY FS_StrictSubsetOrderingWellFounded, WFMin
<1>2. ASSUME NEW U \in W, U \subseteq T, U # T PROVE FALSE
  BY <1>1, <1>2 DEF StrictSubsetOrdering, FiniteSubsetsOf
<1> QED BY <1>2

\* The same for the subsets of a finite set.
LEMMA SmallestSubset ==
  ASSUME NEW S, IsFiniteSet(S), NEW W \in SUBSET (SUBSET S), W # {}
  PROVE  \E T \in W : \A U \in W : U \subseteq T => U = T
BY SmallestSet, FS_FiniteSubsetsOfFinite

\* Picking takes a member.
LEMMA PickMember ==
  ASSUME NEW s, s # {}
  PROVE  Pick(s) \in s /\ s \ {Pick(s)} # s
BY DEF Pick

\* Two such functions agree where both are defined.
LEMMA AddsUnique ==
  ASSUME NEW f, NEW S, IsFiniteSet(S), NEW T \in SUBSET S,
         NEW g, Adds(f, S, g), NEW h, Adds(f, T, h), NEW s \in SUBSET T
  PROVE  g[s] = h[s]
<1> DEFINE wrong == {u \in SUBSET T : g[u] # h[u]}
<1> SUFFICES ASSUME wrong # {} PROVE FALSE
  OBVIOUS
<1>1. IsFiniteSet(T)
  BY FS_Subset
<1>2. PICK u \in wrong : \A w \in wrong : w \subseteq u => w = u
  <2> HIDE DEF wrong
  <2>1. wrong \in SUBSET (SUBSET T) BY DEF wrong
  <2> QED BY <1>1, <2>1, SmallestSubset
<1>3. \A w \in SUBSET T :
        /\ g[w] = IF w = {} THEN 0 ELSE f[Pick(w)] + g[w \ {Pick(w)}]
        /\ h[w] = IF w = {} THEN 0 ELSE f[Pick(w)] + h[w \ {Pick(w)}]
  BY DEF Adds
<1>4. u # {}
  BY <1>2, <1>3
<1>5. u \ {Pick(u)} \in SUBSET T /\ u \ {Pick(u)} # u /\ u \ {Pick(u)} \subseteq u
  BY <1>2, <1>4, PickMember
<1>6. g[u \ {Pick(u)}] = h[u \ {Pick(u)}]
  BY <1>2, <1>5
<1> QED BY <1>2, <1>3, <1>4, <1>6

\* There is one.
LEMMA AddsExists ==
  ASSUME NEW f, NEW S, IsFiniteSet(S)
  PROVE  \E g : Adds(f, S, g)
<1> DEFINE wrong == {T \in SUBSET S : ~ \E g : Adds(f, T, g)}
<1> SUFFICES ASSUME wrong # {} PROVE FALSE
  OBVIOUS
<1>1. PICK T \in wrong : \A U \in wrong : U \subseteq T => U = T
  <2> HIDE DEF wrong
  <2>1. wrong \in SUBSET (SUBSET S) BY DEF wrong
  <2> QED BY <2>1, SmallestSubset
<1> DEFINE G(U) == CHOOSE g : Adds(f, U, g)
           less(s) == s \ {Pick(s)}
           g == [s \in SUBSET T |-> IF s = {} THEN 0 ELSE f[Pick(s)] + G(less(s))[less(s)]]
<1>2. ASSUME NEW U \in SUBSET T, U # T PROVE Adds(f, U, G(U))
  <2>1. \E h : Adds(f, U, h)
    BY <1>1, <1>2
  <2> QED BY <2>1
<1>3. ASSUME NEW s \in SUBSET T, s # {} PROVE less(s) \in SUBSET T /\ less(s) # T /\ less(s) \subseteq s
  BY <1>3, PickMember
<1>4. ASSUME NEW s \in SUBSET T, s # T PROVE G(s)[s] = g[s]
  <2>1. Adds(f, s, G(s)) /\ IsFiniteSet(s)
    BY <1>1, <1>2, <1>4, FS_Subset
  <2>2. G(s)[s] = IF s = {} THEN 0 ELSE f[Pick(s)] + G(s)[less(s)]
    <3> HIDE DEF G
    <3> QED BY <2>1 DEF Adds
  <2>3. CASE s = {}
    BY <2>2, <2>3
  <2>4. CASE s # {}
    <3>1. Adds(f, less(s), G(less(s))) /\ less(s) \in SUBSET s
      BY <1>2, <1>3, <2>4
    <3>2. less(s) \in SUBSET less(s)
      OBVIOUS
    <3>3. G(s)[less(s)] = G(less(s))[less(s)]
      <4> HIDE DEF G, less
      <4> QED BY <2>1, <3>1, <3>2, AddsUnique
    <3> QED BY <2>2, <2>4, <3>3
  <2> QED BY <2>3, <2>4
<1>5. Adds(f, T, g)
  <2>1. ASSUME NEW s \in SUBSET T, s # {} PROVE G(less(s))[less(s)] = g[less(s)]
    <3>1. less(s) \in SUBSET T /\ less(s) # T
      BY <1>3, <2>1
    <3> HIDE DEF G, less, g
    <3> QED BY <1>4, <3>1
  <2>2. g = [s \in SUBSET T |-> IF s = {} THEN 0 ELSE f[Pick(s)] + g[less(s)]]
    <3>1. \A s \in SUBSET T : g[s] = IF s = {} THEN 0 ELSE f[Pick(s)] + G(less(s))[less(s)]
      OBVIOUS
    <3>2. g = [s \in SUBSET T |-> g[s]]
      OBVIOUS
    <3> HIDE DEF g, G, less
    <3>3. \A s \in SUBSET T : g[s] = IF s = {} THEN 0 ELSE f[Pick(s)] + g[less(s)]
      BY <2>1, <3>1
    <3> QED BY <3>2, <3>3
  <2> QED BY <2>2 DEF Adds
<1> QED BY <1>1, <1>5

\* What SumFunctionOnSet computes: nothing for no member, and else the picked
\* member's value more than for the others.
LEMMA SumPick ==
  ASSUME NEW f, NEW S, IsFiniteSet(S)
  PROVE  /\ SumFunctionOnSet(f, {}) = 0
         /\ S # {} => SumFunctionOnSet(f, S)
                        = f[Pick(S)] + SumFunctionOnSet(f, S \ {Pick(S)})
<1> DEFINE G(U) == CHOOSE g : Adds(f, U, g)
<1>1. ASSUME NEW U \in SUBSET S
      PROVE  Adds(f, U, G(U)) /\ SumFunctionOnSet(f, U) = G(U)[U]
  <2>1. \E g : Adds(f, U, g)
    BY FS_Subset, AddsExists
  <2> QED BY <2>1, SumUnfold
<1> HIDE DEF G
<1>2. SumFunctionOnSet(f, {}) = 0
  <2>1. {} \in SUBSET {} /\ {} \in SUBSET S
    OBVIOUS
  <2> QED BY <1>1, <2>1 DEF Adds
<1>3. ASSUME S # {}
      PROVE  SumFunctionOnSet(f, S) = f[Pick(S)] + SumFunctionOnSet(f, S \ {Pick(S)})
  <2> DEFINE less == S \ {Pick(S)}
  <2>1. S \in SUBSET S /\ less \in SUBSET S /\ less \in SUBSET less
    OBVIOUS
  <2>2. G(S)[S] = f[Pick(S)] + G(S)[less]
    BY <1>1, <1>3, <2>1 DEF Adds
  <2>3. G(S)[less] = G(less)[less]
    <3>1. Adds(f, S, G(S)) /\ Adds(f, less, G(less))
      BY <1>1, <2>1
    <3> HIDE DEF less
    <3> QED BY <2>1, <3>1, AddsUnique
  <2> QED BY <1>1, <2>1, <2>2, <2>3
<1> QED BY <1>2, <1>3

\* The sum of integers is one.
LEMMA SumType ==
  ASSUME NEW f, NEW S, IsFiniteSet(S), \A x \in S : f[x] \in Int
  PROVE  SumFunctionOnSet(f, S) \in Int
<1> DEFINE wrong == {T \in SUBSET S : SumFunctionOnSet(f, T) \notin Int}
<1> SUFFICES ASSUME wrong # {} PROVE FALSE
  OBVIOUS
<1>1. PICK T \in wrong : \A U \in wrong : U \subseteq T => U = T
  <2> HIDE DEF wrong
  <2>1. wrong \in SUBSET (SUBSET S) BY DEF wrong
  <2> QED BY <2>1, SmallestSubset
<1>2. IsFiniteSet(T)
  BY <1>1, FS_Subset
<1>3. T # {}
  <2>1. SumFunctionOnSet(f, T) \notin Int
    BY <1>1
  <2>2. SumFunctionOnSet(f, {}) = 0
    BY <1>2, SumPick
  <2> QED BY <2>1, <2>2
<1>4. SumFunctionOnSet(f, T) = f[Pick(T)] + SumFunctionOnSet(f, T \ {Pick(T)})
  BY <1>2, <1>3, SumPick
<1>5. f[Pick(T)] \in Int /\ T \ {Pick(T)} \notin wrong /\ T \ {Pick(T)} \in SUBSET S
  BY <1>1, <1>3, PickMember
<1> QED BY <1>1, <1>4, <1>5

\* Any member may be taken first.
LEMMA SumTake ==
  ASSUME NEW f, NEW S, IsFiniteSet(S), \A y \in S : f[y] \in Int, NEW x \in S
  PROVE  SumFunctionOnSet(f, S) = f[x] + SumFunctionOnSet(f, S \ {x})
<1> DEFINE Sum(T) == SumFunctionOnSet(f, T)
           wrong == {T \in SUBSET S : \E y \in T : Sum(T) # f[y] + Sum(T \ {y})}
<1> SUFFICES ASSUME wrong # {} PROVE FALSE
  OBVIOUS
<1>1. PICK T \in wrong : \A U \in wrong : U \subseteq T => U = T
  <2> HIDE DEF wrong
  <2>1. wrong \in SUBSET (SUBSET S) BY DEF wrong
  <2> QED BY <2>1, SmallestSubset
<1>2. PICK y \in T : Sum(T) # f[y] + Sum(T \ {y})
  BY <1>1
<1>3. PICK z \in T : Sum(T) = f[z] + Sum(T \ {z})
  BY <1>1, <1>2, FS_Subset, SumPick, PickMember
<1>4. y # z
  BY <1>2, <1>3
<1>5. T \ {z} \notin wrong /\ T \ {y} \notin wrong
  <2>1. T \ {z} \subseteq T /\ T \ {z} # T /\ T \ {y} \subseteq T /\ T \ {y} # T
    OBVIOUS
  <2> HIDE DEF wrong
  <2> QED BY <1>1, <2>1
<1>6. Sum(T \ {z}) = f[y] + Sum((T \ {z}) \ {y})
  BY <1>1, <1>4, <1>5
<1>7. Sum(T \ {y}) = f[z] + Sum((T \ {y}) \ {z})
  BY <1>1, <1>4, <1>5
<1>8. (T \ {z}) \ {y} = (T \ {y}) \ {z}
  OBVIOUS
<1>9. f[y] \in Int /\ f[z] \in Int /\ Sum((T \ {y}) \ {z}) \in Int
  <2>1. (T \ {y}) \ {z} \in SUBSET S
    BY <1>1
  <2> QED BY <1>1, <2>1, FS_Subset, SumType
<1> HIDE DEF Sum
<1> QED BY <1>2, <1>3, <1>6, <1>7, <1>8, <1>9

\* One member more.
LEMMA SumAdd ==
  ASSUME NEW f, NEW S, IsFiniteSet(S), NEW x, x \notin S, f[x] \in Int, \A y \in S : f[y] \in Int
  PROVE  SumFunctionOnSet(f, S \union {x}) = SumFunctionOnSet(f, S) + f[x]
<1>1. IsFiniteSet(S \union {x}) /\ (S \union {x}) \ {x} = S
  BY FS_AddElement
<1>2. SumFunctionOnSet(f, S \union {x}) = f[x] + SumFunctionOnSet(f, S)
  BY <1>1, SumTake
<1>3. SumFunctionOnSet(f, S) \in Int
  BY SumType
<1> QED BY <1>2, <1>3

\* Only the values at the members count.
LEMMA SumAgree ==
  ASSUME NEW f, NEW h, NEW S, IsFiniteSet(S), \A x \in S : f[x] = h[x]
  PROVE  SumFunctionOnSet(f, S) = SumFunctionOnSet(h, S)
<1> DEFINE wrong == {T \in SUBSET S : SumFunctionOnSet(f, T) # SumFunctionOnSet(h, T)}
<1> SUFFICES ASSUME wrong # {} PROVE FALSE
  OBVIOUS
<1>1. PICK T \in wrong : \A U \in wrong : U \subseteq T => U = T
  <2> HIDE DEF wrong
  <2>1. wrong \in SUBSET (SUBSET S) BY DEF wrong
  <2> QED BY <2>1, SmallestSubset
<1>2. IsFiniteSet(T) /\ SumFunctionOnSet(f, T) # SumFunctionOnSet(h, T) /\ T \in SUBSET S
  BY <1>1, FS_Subset
<1>3. T # {}
  <2>1. SumFunctionOnSet(f, {}) = 0 /\ SumFunctionOnSet(h, {}) = 0
    BY <1>2, SumPick
  <2> QED BY <1>2, <2>1
<1>4. /\ SumFunctionOnSet(f, T) = f[Pick(T)] + SumFunctionOnSet(f, T \ {Pick(T)})
      /\ SumFunctionOnSet(h, T) = h[Pick(T)] + SumFunctionOnSet(h, T \ {Pick(T)})
  BY <1>2, <1>3, SumPick
<1>5. Pick(T) \in S /\ T \ {Pick(T)} \notin wrong /\ T \ {Pick(T)} \in SUBSET S
  <2>1. Pick(T) \in T /\ T \ {Pick(T)} # T
    BY <1>3, PickMember
  <2> QED BY <1>1, <1>2, <2>1
<1>6. SumFunctionOnSet(f, T \ {Pick(T)}) = SumFunctionOnSet(h, T \ {Pick(T)})
  BY <1>5
<1> QED BY <1>2, <1>4, <1>5, <1>6

\* A sum of smaller values is smaller.
LEMMA SumMonotone ==
  ASSUME NEW f, NEW h, NEW S, IsFiniteSet(S),
         \A x \in S : f[x] \in Int /\ h[x] \in Int /\ f[x] <= h[x]
  PROVE  SumFunctionOnSet(f, S) <= SumFunctionOnSet(h, S)
<1> DEFINE wrong == {T \in SUBSET S : ~(SumFunctionOnSet(f, T) <= SumFunctionOnSet(h, T))}
<1> SUFFICES ASSUME wrong # {} PROVE FALSE
  <2>1. S \in SUBSET S
    OBVIOUS
  <2> QED BY <2>1
<1>1. PICK T \in wrong : \A U \in wrong : U \subseteq T => U = T
  <2> HIDE DEF wrong
  <2>1. wrong \in SUBSET (SUBSET S) BY DEF wrong
  <2> QED BY <2>1, SmallestSubset
<1>2. /\ IsFiniteSet(T) /\ T \in SUBSET S
      /\ ~(SumFunctionOnSet(f, T) <= SumFunctionOnSet(h, T))
  BY <1>1, FS_Subset
<1>3. T # {}
  <2>1. SumFunctionOnSet(f, {}) = 0 /\ SumFunctionOnSet(h, {}) = 0
    BY <1>2, SumPick
  <2> QED BY <1>2, <2>1
<1> DEFINE less == T \ {Pick(T)}
<1>4. /\ SumFunctionOnSet(f, T) = f[Pick(T)] + SumFunctionOnSet(f, less)
      /\ SumFunctionOnSet(h, T) = h[Pick(T)] + SumFunctionOnSet(h, less)
  BY <1>2, <1>3, SumPick
<1>5. Pick(T) \in S /\ less \notin wrong /\ less \in SUBSET S
  <2>1. Pick(T) \in T /\ T \ {Pick(T)} # T
    BY <1>3, PickMember
  <2> QED BY <1>1, <1>2, <2>1
<1>6. SumFunctionOnSet(f, less) <= SumFunctionOnSet(h, less)
  BY <1>5
<1>7. SumFunctionOnSet(f, less) \in Int /\ SumFunctionOnSet(h, less) \in Int
  BY <1>5, FS_Subset, SumType
<1> HIDE DEF less
<1>8. f[Pick(T)] \in Int /\ h[Pick(T)] \in Int /\ f[Pick(T)] <= h[Pick(T)]
  BY <1>5
<1> QED BY <1>2, <1>4, <1>6, <1>7, <1>8

\* The sum of nothing but zeros.
LEMMA SumZero ==
  ASSUME NEW f, NEW S, IsFiniteSet(S), \A x \in S : f[x] = 0
  PROVE  SumFunctionOnSet(f, S) = 0
<1> DEFINE wrong == {T \in SUBSET S : SumFunctionOnSet(f, T) # 0}
<1> SUFFICES ASSUME wrong # {} PROVE FALSE
  OBVIOUS
<1>1. PICK T \in wrong : \A U \in wrong : U \subseteq T => U = T
  <2> HIDE DEF wrong
  <2>1. wrong \in SUBSET (SUBSET S) BY DEF wrong
  <2> QED BY <2>1, SmallestSubset
<1>2. IsFiniteSet(T) /\ SumFunctionOnSet(f, T) # 0 /\ T \in SUBSET S
  BY <1>1, FS_Subset
<1>3. T # {}
  <2>1. SumFunctionOnSet(f, {}) = 0
    BY <1>2, SumPick
  <2> QED BY <1>2, <2>1
<1>4. SumFunctionOnSet(f, T) = f[Pick(T)] + SumFunctionOnSet(f, T \ {Pick(T)})
  BY <1>2, <1>3, SumPick
<1>5. f[Pick(T)] = 0 /\ SumFunctionOnSet(f, T \ {Pick(T)}) = 0
  <2>1. Pick(T) \in T /\ T \ {Pick(T)} # T
    BY <1>3, PickMember
  <2>2. T \ {Pick(T)} \notin wrong /\ T \ {Pick(T)} \in SUBSET S
    BY <1>1, <1>2, <2>1
  <2> QED BY <1>2, <2>1, <2>2
<1> QED BY <1>2, <1>4, <1>5

\* The sum over two sets apart.
LEMMA SumUnion ==
  ASSUME NEW f, NEW S, NEW T, IsFiniteSet(S), IsFiniteSet(T), S \intersect T = {},
         \A x \in S \union T : f[x] \in Int
  PROVE  SumFunctionOnSet(f, S \union T) = SumFunctionOnSet(f, S) + SumFunctionOnSet(f, T)
<1> DEFINE Sum(U) == SumFunctionOnSet(f, U)
           wrong == {U \in SUBSET T : Sum(S \union U) # Sum(S) + Sum(U)}
<1> SUFFICES ASSUME wrong # {} PROVE FALSE
  OBVIOUS
<1>1. PICK U \in wrong : \A V \in wrong : V \subseteq U => V = U
  <2> HIDE DEF wrong
  <2>1. wrong \in SUBSET (SUBSET T) BY DEF wrong
  <2> QED BY <2>1, SmallestSubset
<1>2. IsFiniteSet(U) /\ Sum(S \union U) # Sum(S) + Sum(U) /\ U \in SUBSET T /\ Sum(S) \in Int
  BY <1>1, FS_Subset, SumType
<1>3. ASSUME U = {} PROVE FALSE
  <2>1. Sum(U) = 0
    BY <1>2, <1>3, SumPick
  <2>2. S \union U = S
    BY <1>3
  <2>3. Sum(S \union U) = Sum(S)
    BY <2>2
  <2> HIDE DEF Sum
  <2> QED BY <1>2, <2>1, <2>3
<1>4. PICK x \in U : U \ {x} # U /\ x \notin S /\ x \in T
  BY <1>2, <1>3
<1> DEFINE less == U \ {x}
<1>5. Sum(U) = f[x] + Sum(less) /\ f[x] \in Int
  BY <1>2, <1>4, SumTake
<1>6. Sum(S \union U) = f[x] + Sum(S \union less)
  <2>1. IsFiniteSet(S \union U) /\ x \in S \union U /\ (S \union U) \ {x} = S \union less
    BY <1>2, <1>4, FS_Union
  <2>2. \A y \in S \union U : f[y] \in Int
    BY <1>2
  <2> QED BY <2>1, <2>2, SumTake
<1>7. Sum(S \union less) = Sum(S) + Sum(less) /\ Sum(less) \in Int
  <2>1. less \notin wrong /\ less \in SUBSET T
    BY <1>1, <1>2, <1>4
  <2> QED BY <2>1, FS_Subset, SumType
<1> HIDE DEF Sum, less
<1> QED BY <1>2, <1>5, <1>6, <1>7

\* Naturals add up to a natural, no less than each, nor than any part of them.
LEMMA SumNat ==
  ASSUME NEW f, NEW S, IsFiniteSet(S), \A x \in S : f[x] \in Nat
  PROVE  /\ SumFunctionOnSet(f, S) \in Nat
         /\ \A x \in S : f[x] <= SumFunctionOnSet(f, S)
         /\ \A T \in SUBSET S : SumFunctionOnSet(f, T) <= SumFunctionOnSet(f, S)
<1> DEFINE none == [x \in S |-> 0]
<1>1. ASSUME NEW T \in SUBSET S
      PROVE  SumFunctionOnSet(f, T) \in Nat
  <2>1. IsFiniteSet(T)
    BY FS_Subset
  <2>2. SumFunctionOnSet(none, T) = 0
    BY <2>1, SumZero
  <2>3. SumFunctionOnSet(none, T) <= SumFunctionOnSet(f, T)
    <3>1. \A x \in T : none[x] \in Int /\ f[x] \in Int /\ none[x] <= f[x]
      OBVIOUS
    <3> HIDE DEF none
    <3> QED BY <2>1, <3>1, SumMonotone
  <2>4. SumFunctionOnSet(f, T) \in Int
    BY <2>1, SumType
  <2> QED BY <2>2, <2>3, <2>4
<1>2. ASSUME NEW T \in SUBSET S
      PROVE  SumFunctionOnSet(f, T) <= SumFunctionOnSet(f, S)
  <2>1. IsFiniteSet(T) /\ IsFiniteSet(S \ T) /\ T \union (S \ T) = S /\ T \intersect (S \ T) = {}
    BY FS_Subset
  <2>2. SumFunctionOnSet(f, S) = SumFunctionOnSet(f, T) + SumFunctionOnSet(f, S \ T)
    BY <2>1, SumUnion
  <2>3. SumFunctionOnSet(f, T) \in Nat /\ SumFunctionOnSet(f, S \ T) \in Nat
    BY <1>1
  <2> QED BY <2>2, <2>3
<1>3. ASSUME NEW x \in S PROVE f[x] <= SumFunctionOnSet(f, S)
  <2>1. SumFunctionOnSet(f, S) = f[x] + SumFunctionOnSet(f, S \ {x})
    BY SumTake
  <2>2. SumFunctionOnSet(f, S \ {x}) \in Nat /\ f[x] \in Nat
    BY <1>1
  <2> QED BY <2>1, <2>2
<1> QED BY <1>1, <1>2, <1>3
=============================================================================
