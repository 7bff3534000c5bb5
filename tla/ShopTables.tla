------------------------------ MODULE ShopTables -------------------------------
(*******************************************************************************)
(* The committed tables that the services of apps/api share, and what          *)
(* PostgreSQL at READ COMMITTED does with an UPDATE of a skus row.             *)
(*                                                                             *)
(* A statement sees the rows committed when it starts. An UPDATE that finds    *)
(* the row locked by another transaction waits, then tests its WHERE again on  *)
(* the newly committed row; one that matches no row changes and locks nothing. *)
(* A row stays locked until its transaction ends, and what the transaction     *)
(* wrote stays private ("pending") until then.                                 *)
(*******************************************************************************)
EXTENDS Integers, FiniteSets

CONSTANTS Sku, User, Order, Coupon,
          Modes,        \* the payment outcome modes customers choose from
          Tx, NoTx,     \* transactions (one per request or job step under way); nobody
          NoSku, NoCoupon,
          MaxQty        \* bound: units per cart line

OutcomeModes == {"AUTO_SUCCESS", "AUTO_FAILURE", "MANUAL"}
Statuses     == {"PENDING", "PAID", "SHIPPED", "COMPLETED", "CANCELLED", "REFUNDED"}

ASSUME TablesConstants ==
    /\ IsFiniteSet(Order) /\ IsFiniteSet(Tx)
    /\ Modes \subseteq OutcomeModes
    /\ NoTx \notin Tx
    /\ NoSku \notin Sku
    /\ NoCoupon \notin Coupon
    /\ MaxQty \in Nat

VARIABLES
    stock,     \* skus.stock, committed
    skuLock,   \* the transaction that holds the row of each SKU
    pending,   \* per transaction, its uncommitted change to each SKU
    orders,    \* the orders table: a function on the ids placed so far
    usage,     \* the coupon_usages table
    cart,      \* per user: how many carts were checked out before, and the lines of this one
    timers,    \* orders whose payment setTimeout is armed, in the memory of the process
    supplied   \* history: per SKU, the units that ever entered the shop

tableVars == <<stock, skuLock, pending, orders, usage, cart, timers, supplied>>
skuVars   == <<stock, skuLock, pending>>

Quantities == [Sku -> 0 .. MaxQty]
Carts      == [no : Nat, lines : Quantities]
OrderRow   == [status : Statuses, lines : Quantities, user : User, cart : Nat, mode : OutcomeModes]
UsageRow   == [coupon : Coupon, user : User, order : Order]

TablesTypeOK ==
    /\ stock \in [Sku -> Int]
    /\ skuLock \in [Sku -> Tx \cup {NoTx}]
    /\ pending \in [Tx -> [Sku -> Int]]
    /\ DOMAIN orders \subseteq Order
    /\ orders \in [DOMAIN orders -> OrderRow]
    /\ usage \subseteq UsageRow
    /\ cart \in [User -> Carts]
    /\ timers \subseteq DOMAIN orders
    /\ supplied \in [Sku -> Int]

--------------------------------------------------------------------------------
Nothing        == [s \in Sku |-> 0]
Wanted(lines)  == {s \in Sku : lines[s] > 0}
Placed(st)     == {o \in DOMAIN orders : orders[o].status = st}

\* A statement sees what is committed and what its own transaction wrote.
Seen(t, s) == stock[s] + pending[t][s]

HeldByOther(t, s) == skuLock[s] \notin {t, NoTx}

\* UPDATE skus SET stock = stock + d: the row is locked and the change private.
WriteRow(t, s, d) ==
    /\ ~ HeldByOther(t, s)
    /\ skuLock' = [skuLock EXCEPT ![s] = t]
    /\ pending' = [pending EXCEPT ![t][s] = @ + d]
    /\ UNCHANGED stock

FreeRows(t) == skuLock' = [s \in Sku |-> IF skuLock[s] = t THEN NoTx ELSE skuLock[s]]

\* COMMIT makes what the transaction wrote visible and frees its rows.
CommitRows(t) ==
    /\ stock' = [s \in Sku |-> stock[s] + pending[t][s]]
    /\ pending' = [pending EXCEPT ![t] = Nothing]
    /\ FreeRows(t)

RollbackRows(t) ==
    /\ pending' = [pending EXCEPT ![t] = Nothing]
    /\ FreeRows(t)
    /\ UNCHANGED stock
================================================================================
