---------------------------- MODULE ManualStock ----------------------------
(***************************************************************************)
(* The stock row of a manually delivered SKU and the three guarded UPDATEs *)
(* product_sku_repository.go applies to it.  Each UPDATE is one statement: *)
(* a row its WHERE clause excludes is left as it is, and the callers in    *)
(* manual_stock.go do not look at the number of rows affected.             *)
(***************************************************************************)
EXTENDS Integers

\* constants.ManualStockUnlimited: no stock is kept for the SKU.
ManualStockUnlimited == -1

StockRow == [total : Nat \union {ManualStockUnlimited}, locked : Nat, sold : Nat]

\* A SKU whose stock is kept; shouldEnforceManualSKUStock and the early
\* "continue" of applyManualStockByItems both skip the others.
IsEnforced(row) == row.total # ManualStockUnlimited

\* The WHERE clause of ReserveManualStock; createOrder fails without it.
CanReserve(row, q) == row.total >= q

\* Seeded fault: the units are taken but not locked.
ReserveWithoutLock(row, q) ==
  [total |-> row.total - q, locked |-> row.locked, sold |-> row.sold]

ReserveManualStock(row, q) ==
  [total |-> row.total - q, locked |-> row.locked + q, sold |-> row.sold]

\* Seeded fault: manual_stock_locked is not compared with q.
ReleaseUnguarded(row, q) ==
  IF IsEnforced(row)
    THEN [total |-> row.total + q, locked |-> row.locked - q, sold |-> row.sold]
    ELSE row

ReleaseManualStock(row, q) ==
  IF IsEnforced(row) /\ row.locked >= q
    THEN [total |-> row.total + q, locked |-> row.locked - q, sold |-> row.sold]
    ELSE row

\* Seeded fault: what a reservation lacks is not taken from the free stock.
ConsumeWithoutTopUp(row, q) ==
  LET short == IF row.locked >= q THEN 0 ELSE q - row.locked
  IN IF IsEnforced(row) /\ row.total >= short
       THEN [total |-> row.total, locked |-> row.locked - (q - short), sold |-> row.sold + q]
       ELSE row

\* A reservation that is too small is topped up from the free stock; when the
\* free stock does not cover the rest either, nothing changes and nobody hears.
ConsumeManualStock(row, q) ==
  LET short == IF row.locked >= q THEN 0 ELSE q - row.locked
  IN IF IsEnforced(row) /\ row.total >= short
       THEN [total  |-> row.total - short,
             locked |-> row.locked - (q - short),
             sold   |-> row.sold + q]
       ELSE row

\* Every unit of an enforced SKU, whatever became of it.
Units(row) == row.total + row.locked + row.sold
=============================================================================
