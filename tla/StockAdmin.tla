------------------------------ MODULE StockAdmin -------------------------------
(*******************************************************************************)
(* routes/admin/products.ts, POST /skus/:skuId/adjust-stock: an administrator  *)
(* books units in, or writes units off, in a transaction of its own.           *)
(*******************************************************************************)
EXTENDS ShopTables

CONSTANTS StockTx, Deltas,
          MaxSupply     \* bound: units of a SKU that ever enter the shop

ASSUME StockConstants ==
    /\ StockTx \subseteq Tx
    /\ Deltas \subseteq Int
    /\ MaxSupply \in Nat

VARIABLE adj     \* per transaction, the adjustment it makes
stockVars == <<adj>>

None     == [pc |-> "idle"]
Requests == [pc : {"update", "commit"}, sku : Sku, delta : Int]

StockTypeOK == adj \in [StockTx -> {None} \cup Requests]
StockInit   == adj = [t \in StockTx |-> None]

InAdjust(t) == adj[t].pc # "idle"

ThrowAdjust(t) ==
    /\ RollbackRows(t)
    /\ adj' = [adj EXCEPT ![t] = None]
    /\ UNCHANGED <<orders, usage, cart, timers, supplied>>

BeginAdjust(t) ==
    /\ adj[t] = None
    /\ \E s \in Sku, d \in Deltas :
          /\ supplied[s] + d <= MaxSupply
          /\ adj' = [adj EXCEPT ![t] = [pc |-> "update", sku |-> s, delta |-> d]]
    /\ UNCHANGED tableVars

\* Faulty variant: the stock is compared with zero, not with what is written off.
ZeroFloor(d) == 0

\* The least stock that the WHERE of the updateMany accepts.
Floor(d) == IF d < 0 THEN - d ELSE 0

AdjustStock(t) ==
    LET a == adj[t]
    IN  /\ a.pc = "update"
        /\ \/ Seen(t, a.sku) < Floor(a.delta) /\ ThrowAdjust(t)
           \/ /\ Seen(t, a.sku) >= Floor(a.delta)
              /\ WriteRow(t, a.sku, a.delta)
              /\ adj' = [adj EXCEPT ![t].pc = "commit"]
              /\ UNCHANGED <<orders, usage, cart, timers, supplied>>

CommitAdjust(t) ==
    LET a == adj[t]
    IN  /\ a.pc = "commit"
        /\ CommitRows(t)
        /\ supplied' = [supplied EXCEPT ![a.sku] = @ + a.delta]
        /\ adj' = [adj EXCEPT ![t] = None]
        /\ UNCHANGED <<orders, usage, cart, timers>>

AdjustStep(t) == AdjustStock(t) \/ CommitAdjust(t)

AdjustWaits(t, u) ==
    /\ adj[t].pc = "update"
    /\ Seen(t, adj[t].sku) >= Floor(adj[t].delta)
    /\ HeldByOther(t, adj[t].sku)
    /\ skuLock[adj[t].sku] = u
================================================================================
