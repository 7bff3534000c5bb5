--------------------------------- MODULE Shop ----------------------------------
(*******************************************************************************)
(* The API process and its database: every service of the shop that reads or   *)
(* writes stock, orders, coupons' usages and carts, running at once. The       *)
(* transactions interleave statement by statement; any of them may be rolled   *)
(* back by a timeout or a lost connection, PostgreSQL breaks deadlocks, and    *)
(* the process may die, which loses the armed timers and the running sweeps.   *)
(*******************************************************************************)
EXTENDS CheckoutService, OrderService, StockAdmin

CONSTANTS Stock0,       \* units on the shelf at the start
          Cart0,        \* each user's cart at the start
          Seed,         \* orders found at the start (placed before a restart)
          MaxFaults     \* bound: transactions lost and process crashes

ASSUME ShopConstants ==
    /\ Stock0 \in [Sku -> Nat]
    /\ Cart0 \in [User -> Carts]
    /\ DOMAIN Seed \subseteq Order
    /\ Seed \in [DOMAIN Seed -> OrderRow]
    /\ \A o \in DOMAIN Seed :
          /\ Seed[o].status = "PENDING"
          /\ Wanted(Seed[o].lines) # {}
          /\ Seed[o].cart < Cart0[Seed[o].user].no
          /\ \A p \in DOMAIN Seed :
                (Seed[o].user = Seed[p].user /\ Seed[o].cart = Seed[p].cart) => o = p
    /\ CheckoutTx \cap MoveTx = {} /\ CheckoutTx \cap StockTx = {} /\ MoveTx \cap StockTx = {}
    /\ CartTx \cap (CheckoutTx \cup MoveTx \cup StockTx) = {}
    /\ Tx = CheckoutTx \cup MoveTx \cup StockTx \cup CartTx
    /\ MaxFaults \in Nat

VARIABLE faults     \* transactions lost and crashes so far

vars == <<tableVars, checkoutVars, editVars, orderVars, stockVars, faults>>

\* The units of SKU s that the orders found at the start hold.
HeldAtStart(s) == Cardinality(UNION {{o} \X (1 .. Seed[o].lines[s]) : o \in DOMAIN Seed})

Init ==
    /\ stock = Stock0
    /\ skuLock = [s \in Sku |-> NoTx]
    /\ pending = [t \in Tx |-> Nothing]
    /\ orders = Seed
    /\ usage = {}
    /\ cart = Cart0
    /\ timers \in SUBSET {o \in DOMAIN Seed : Seed[o].mode # "MANUAL"}
    /\ supplied = [s \in Sku |-> Stock0[s] + HeldAtStart(s)]
    /\ CheckoutInit
    /\ OrderInit
    /\ StockInit
    /\ faults = 0

--------------------------------------------------------------------------------

CheckoutNext(t) ==
    (Begin(t) \/ CheckoutStep(t)) /\ UNCHANGED <<editVars, orderVars, stockVars, faults>>
EditNext(t) ==
    (BeginEdit(t) \/ EditStep(t)) /\ UNCHANGED <<checkoutVars, orderVars, stockVars, faults>>

Callers(t)      == FireTimer(t) \/ Webhook(t) \/ Ship(t) \/ Refund(t)
MoveNext(t) ==
    (Callers(t) \/ MoveStep(t)) /\ UNCHANGED <<checkoutVars, editVars, stockVars, faults>>
SweepTurn(j, t) == SweepNext(j, t) /\ UNCHANGED <<checkoutVars, editVars, stockVars, faults>>
JobNext(j) == (Ripen(j) \/ Scan(j)) /\ UNCHANGED <<checkoutVars, editVars, stockVars, faults>>

AdjustNext(t) ==
    (BeginAdjust(t) \/ AdjustStep(t)) /\ UNCHANGED <<checkoutVars, editVars, orderVars, faults>>

\* A transaction under way is rolled back whatever statement it is at.
Rollback(t) ==
    \/ t \in CheckoutTx /\ InCheckout(t) /\ Throw(t) /\ UNCHANGED <<editVars, orderVars, stockVars>>
    \/ t \in CartTx /\ InEdit(t) /\ ThrowEdit(t) /\ UNCHANGED <<checkoutVars, orderVars, stockVars>>
    \/ t \in MoveTx /\ InMove(t) /\ ThrowMove(t) /\ UNCHANGED <<checkoutVars, editVars, stockVars>>
    \/ t \in StockTx /\ InAdjust(t) /\ ThrowAdjust(t) /\ UNCHANGED <<checkoutVars, editVars, orderVars>>

\* Prisma's 5 s limit on an interactive transaction, a lost connection, or an
\* INSERT that a constraint refuses.
Lose(t) ==
    /\ faults < MaxFaults
    /\ Rollback(t)
    /\ faults' = faults + 1

Waits(t, u) ==
    \/ t \in CheckoutTx /\ CheckoutWaits(t, u)
    \/ t \in CartTx /\ EditWaits(t, u)
    \/ t \in MoveTx /\ MoveWaits(t, u)
    \/ t \in StockTx /\ AdjustWaits(t, u)

Waiting == {t \in Tx : \E u \in Tx : Waits(t, u)}

\* C is a set of transactions that wait for one another in a circle.
WaitCycle(C) ==
    /\ C # {}
    /\ \A t \in C : (\E u \in C : Waits(t, u)) /\ (\E u \in C : Waits(u, t))

\* PostgreSQL's deadlock detector rolls back one transaction of a cycle.
BreakDeadlock(t) ==
    /\ \E C \in SUBSET Waiting : t \in C /\ WaitCycle(C)
    /\ Rollback(t)
    /\ UNCHANGED faults

\* The process dies: the database rolls back what was under way, and what lived in
\* memory (the setTimeout of each order, the loops of the jobs) is gone.
Crash ==
    /\ faults < MaxFaults
    /\ faults' = faults + 1
    /\ skuLock' = [s \in Sku |-> NoTx]
    /\ pending' = [t \in Tx |-> Nothing]
    /\ timers' = {}
    /\ co' = [t \in CheckoutTx |-> Idle]
    /\ couponLock' = [c \in Coupon |-> NoTx]
    /\ cartLock' = [u \in User |-> NoTx]
    /\ ed' = [t \in CartTx |-> NoEdit]
    /\ mv' = [t \in MoveTx |-> Rest]
    /\ orderLock' = [o \in Order |-> NoTx]
    /\ sweep' = [j \in Jobs |-> {}]
    /\ adj' = [t \in StockTx |-> None]
    /\ UNCHANGED <<stock, orders, usage, cart, supplied, log, shipments, refunds, audit, due>>

Next ==
    \/ \E t \in CheckoutTx : CheckoutNext(t)
    \/ \E t \in CartTx : EditNext(t)
    \/ \E t \in MoveTx : MoveNext(t)
    \/ \E j \in Jobs, t \in MoveTx : SweepTurn(j, t)
    \/ \E j \in Jobs : JobNext(j)
    \/ \E t \in StockTx : AdjustNext(t)
    \/ \E t \in Tx : Lose(t) \/ BreakDeadlock(t)
    \/ Crash

Spec == Init /\ [][Next]_vars

--------------------------------------------------------------------------------
(* Fairness. Node runs every continuation and PostgreSQL every statement;      *)
(* waiters of a row, of an advisory lock or of a connection of the pool are    *)
(* queued, so one that can be served again and again is served: SF, and for    *)
(* the waiter of a row that holds other rows too (ServeWaiter), or two sweeps  *)
(* could be one another's deadlock victims for ever. Time passes and cron      *)
(* fires: WF on Ripen and Scan. No request is ever owed.                       *)
StepOfCheckout(t) == CheckoutStep(t) /\ UNCHANGED <<editVars, orderVars, stockVars, faults>>
StepOfEdit(t)     == EditStep(t) /\ UNCHANGED <<checkoutVars, orderVars, stockVars, faults>>
StepOfMove(t)     == MoveStep(t) /\ UNCHANGED <<checkoutVars, editVars, stockVars, faults>>
StepOfAdjust(t)   == AdjustStep(t) /\ UNCHANGED <<checkoutVars, editVars, orderVars, faults>>
ServeWaiter(t, s) ==
    mv[t].pc = "restock" /\ mv[t].next = s /\ pending[t] # Nothing /\ StepOfMove(t)
TimerFires        == \E t \in MoveTx : FireTimer(t) /\ UNCHANGED <<checkoutVars, editVars, stockVars, faults>>
SweepGoesOn(j)    == \E t \in MoveTx : SweepTurn(j, t)

Fairness ==
    /\ \A t \in CheckoutTx : SF_vars(StepOfCheckout(t))
    /\ \A t \in CartTx : SF_vars(StepOfEdit(t))
    /\ \A t \in MoveTx : SF_vars(StepOfMove(t)) /\ \A s \in Sku : SF_vars(ServeWaiter(t, s))
    /\ \A t \in StockTx : SF_vars(StepOfAdjust(t))
    /\ WF_vars(\E t \in Tx : BreakDeadlock(t))
    /\ SF_vars(TimerFires)
    /\ \A j \in Jobs : WF_vars(JobNext(j)) /\ SF_vars(SweepGoesOn(j))

FairSpec == Spec /\ Fairness

--------------------------------------------------------------------------------
TypeOK ==
    /\ TablesTypeOK
    /\ CheckoutTypeOK
    /\ OrderTypeOK
    /\ StockTypeOK
    /\ faults \in 0 .. MaxFaults

(* A transaction has uncommitted changes only to the rows it holds, and what   *)
(* it will commit never drives a row below zero, whatever was committed around *)
(* it: the conditional UPDATE is safe without SELECT FOR UPDATE (ADR 0003).    *)
RowsGuarded ==
    /\ \A s \in Sku : stock[s] >= 0
    /\ \A t \in Tx, s \in Sku : pending[t][s] # 0 => skuLock[s] = t
    /\ \A t \in Tx, s \in Sku : stock[s] + pending[t][s] >= 0

(* A cart becomes at most one order, however often "place order" is sent.      *)
OneOrderPerCart ==
    \A o, p \in DOMAIN orders :
        (orders[o].user = orders[p].user /\ orders[o].cart = orders[p].cart) => o = p

(* The usages of a coupon never exceed its limit, although every checkout      *)
(* validated it before any of them committed (checkoutService.ts:115-127).     *)
CouponWithinLimit == \A c \in DOMAIN Limit : Cardinality(UsesOf(c)) <= Limit[c]

(* The status history of an order is a walk from PENDING to the status the     *)
(* order has, whichever callers raced for its steps.                           *)
HistoryIsAWalk ==
    \A o \in DOMAIN orders :
        LET h == log[o]
            at(i) == IF i = 0 THEN "PENDING" ELSE h[i][2]
        IN  /\ \A i \in 1 .. Len(h) : h[i][1] = at(i - 1) /\ h[i] \in ALLOWED
            /\ orders[o].status = at(Len(h))

(* An order has at most one shipment, and one refund row if and only if it is  *)
(* refunded: two administrators, or an administrator and a sweep, never both   *)
(* carry out the same transition.                                              *)
EffectsOnce ==
    \A o \in DOMAIN orders :
        /\ shipments[o] <= 1
        /\ orders[o].status \in {"SHIPPED", "COMPLETED"} => shipments[o] = 1
        /\ refunds[o] = IF orders[o].status = "REFUNDED" THEN 1 ELSE 0

\* The SKUs of the cart that a checkout turns into an order, or of the order that a
\* transition gives back.
ItemsOf(t) == IF t \in CheckoutTx THEN Wanted(co[t].cart.lines) ELSE Wanted(orders[mv[t].order].lines)

\* t holds the row of one of its items and waits for that of another.
StuckOnRows(t, C) ==
    /\ t \in CheckoutTx \cup MoveTx
    /\ \E s, x \in ItemsOf(t) :
          s # x /\ skuLock[s] = t /\ HeldByOther(t, x) /\ skuLock[x] \in C

\* t has deleted a cart and waits for who wrote one of its lines, ...
StuckOnLines(t, C) ==
    /\ t \in CheckoutTx
    /\ cartLock[co[t].user] = t
    /\ Writers(co[t].user, co[t].next) \cap C # {}

\* ... or has written one line of a cart and waits to write another, or to lock the cart
\* that it has inserted a line into.
StuckInMerge(t, C) ==
    /\ t \in CartTx
    /\ ed[t].wrote # {}
    /\ \/ ed[t].todo \ ed[t].wrote # {} /\ LineHolders(t) \cap C # {}
       \/ ed[t].pc = "key" /\ cartLock[ed[t].user] \in C

(* What a deadlock can be over. Who is in a circle of waiters holds one of     *)
(* several rows it needs, of skus or of one user's cart, and waits for the     *)
(* next. Never part of one: who waits for a coupon (checkoutService.ts:118),   *)
(* for an order's row (orderService.ts:137) or to delete a cart (188), a stock *)
(* correction, and a cart request for one line that is there already.          *)
DeadlocksOverRows ==
    \A C \in SUBSET Waiting : WaitCycle(C) =>
        \A t \in C : StuckOnRows(t, C) \/ StuckOnLines(t, C) \/ StuckInMerge(t, C)

(* Committed stock and orders behave like the shop of module Fulfilment.       *)
F == INSTANCE Fulfilment WITH
        Contents <- Quantities,
        status   <- [o \in Order |-> IF o \in DOMAIN orders THEN orders[o].status ELSE "NONE"],
        lines    <- [o \in Order |-> IF o \in DOMAIN orders THEN orders[o].lines ELSE Nothing]
ImplementsFulfilment == F!Spec

(* Payment, refusal or the sweep of old orders: no order stays PENDING for     *)
(* ever, even when crashes lose its timer and races roll the sweep back.       *)
PendingResolves ==
    \A o \in Order :
        (o \in DOMAIN orders /\ orders[o].status = "PENDING") ~>
        (o \in DOMAIN orders /\ orders[o].status # "PENDING")

(* Every checkout call ends, with an order or with nothing: carts that share   *)
(* SKUs, a coupon or a user never leave one another waiting.                   *)
EveryCheckoutEnds == \A t \in CheckoutTx : InCheckout(t) ~> ~ InCheckout(t)
================================================================================
