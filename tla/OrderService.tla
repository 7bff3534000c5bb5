----------------------------- MODULE OrderService ------------------------------
(*******************************************************************************)
(* services/orderService.ts: transitionOrder, the one way an order changes     *)
(* status, statement by statement, and its callers: the payment timer and the  *)
(* webhook (services/paymentService.ts), the administrators' ship and refund   *)
(* (routes/admin/orders.ts) and the two cron sweeps (jobs/).                   *)
(*******************************************************************************)
EXTENDS ShopTables, Sequences

CONSTANTS MoveTx,       \* transactions that run transitionOrder
          Actors,       \* roles of the administrators at work
          Jobs          \* the sweeps that run: cancelTimedOutOrders, autoCompleteShippedOrders

Roles == {"ADMIN", "SUPER_ADMIN"}

ASSUME OrderConstants ==
    /\ MoveTx \subseteq Tx
    /\ Actors \subseteq Roles
    /\ Jobs \subseteq {"cancel", "complete"}

VARIABLES
    mv,          \* per transaction: what its caller and transitionOrder hold in local variables
    orderLock,   \* the transaction that has updated, and not committed, the row of each order
    log,         \* order_status_logs: per order, its <<from, to>> rows
    shipments,   \* per order, the number of its shipment rows
    refunds,     \* per order, the number of its REFUNDED payment rows
    audit,       \* admin_action_logs: per order, the <<before, after>> of its rows
    due,         \* per job, the orders that have reached the age its query asks for
    sweep        \* per job, the orders its loop has still to do

orderVars == <<mv, orderLock, log, shipments, refunds, audit, due, sweep>>

Rest  == [pc |-> "idle"]
\* "before" is the status the audit row will show, "from" the one transitionOrder read.
Opening    == [pc : {"outcome", "before", "read"}, order : DOMAIN orders, to : Statuses,
               actor : Roles \cup {"system"}, before : Statuses \cup {"-"}, from : {"-"},
               todo : {{}}, next : {NoSku}]
Restoring  == [pc : {"restock"}, order : DOMAIN orders, to : Statuses,
               actor : Roles \cup {"system"}, before : Statuses \cup {"-"}, from : Statuses,
               todo : SUBSET Sku, next : Sku]
Finishing  == [pc : {"update", "commit"}, order : DOMAIN orders, to : Statuses,
               actor : Roles \cup {"system"}, before : Statuses \cup {"-"}, from : Statuses,
               todo : {{}}, next : {NoSku}]
Moves == Opening \cup Restoring \cup Finishing

StatusPairs == Statuses \X Statuses

OrderTypeOK ==
    /\ mv \in [MoveTx -> {Rest} \cup Moves]
    /\ orderLock \in [Order -> MoveTx \cup {NoTx}]
    /\ log \in [Order -> Seq(StatusPairs)]
    /\ shipments \in [Order -> Nat]
    /\ refunds \in [Order -> Nat]
    /\ audit \in [Order -> SUBSET ((Statuses \cup {"-"}) \X Statuses)]
    /\ due \in [Jobs -> SUBSET Order]
    /\ sweep \in [Jobs -> SUBSET DOMAIN orders]

OrderInit ==
    /\ mv = [t \in MoveTx |-> Rest]
    /\ orderLock = [o \in Order |-> NoTx]
    /\ log = [o \in Order |-> << >>]
    /\ shipments = [o \in Order |-> 0]
    /\ refunds = [o \in Order |-> 0]
    /\ audit = [o \in Order |-> {}]
    /\ due = [j \in Jobs |-> {}]
    /\ sweep = [j \in Jobs |-> {}]

--------------------------------------------------------------------------------
ALLOWED ==
  {<<"PENDING", "PAID">>, <<"PENDING", "CANCELLED">>,
   <<"PAID", "SHIPPED">>, <<"PAID", "REFUNDED">>,
   <<"SHIPPED", "COMPLETED">>, <<"SHIPPED", "REFUNDED">>,
   <<"COMPLETED", "REFUNDED">>}

ActorAllowed(to, actor) ==
    \/ actor = "system"
    \/ /\ to = "SHIPPED" => actor \in {"ADMIN", "SUPER_ADMIN"}
       /\ to = "REFUNDED" => actor = "SUPER_ADMIN"

\* Faulty variant: a refund gives money back and no units.
CancelRestocks == {"CANCELLED"}

\* The transitions that give the units back.
Restocking == {"CANCELLED", "REFUNDED"}

InMove(t) == mv[t].pc # "idle"

Call(pc, o, to, actor) ==
    [pc |-> pc, order |-> o, to |-> to, actor |-> actor, before |-> "-", from |-> "-",
     todo |-> {}, next |-> NoSku]

Start(t, call) ==
    /\ mv[t] = Rest
    /\ mv' = [mv EXCEPT ![t] = call]
    /\ UNCHANGED <<orderLock, log, shipments, refunds, audit, due>>

--------------------------------------------------------------------------------
(* The callers.                                                                *)

ToOf(mode) == IF mode = "AUTO_SUCCESS" THEN "PAID" ELSE "CANCELLED"

\* setTimeout fires: processPaymentOutcome(paymentIntentId).
FireTimer(t) ==
    \E o \in timers :
        /\ Start(t, Call("outcome", o, ToOf(orders[o].mode), "system"))
        /\ timers' = timers \ {o}
        /\ UNCHANGED <<skuVars, orders, usage, cart, supplied, sweep>>

\* POST /webhooks/payment/mock, as often as the caller likes.
Webhook(t) ==
    \E o \in DOMAIN orders :
        /\ Start(t, Call("outcome", o, ToOf(orders[o].mode), "system"))
        /\ UNCHANGED <<tableVars, sweep>>

\* processPaymentOutcome reads the outcome mode of the first payment of the order.
ReadOutcome(t) ==
    /\ mv[t].pc = "outcome"
    /\ mv' = IF orders[mv[t].order].mode = "MANUAL"
             THEN [mv EXCEPT ![t] = Rest]
             ELSE [mv EXCEPT ![t].pc = "read"]
    /\ UNCHANGED <<tableVars, orderLock, log, shipments, refunds, audit, due, sweep>>

\* The ship and refund routes: requireRole, then withAuditLog opens the transaction.
Ship(t) ==
    \E o \in DOMAIN orders, a \in Actors :
        /\ Start(t, Call("before", o, "SHIPPED", a))
        /\ UNCHANGED <<tableVars, sweep>>

Refund(t) ==
    \E o \in DOMAIN orders, a \in Actors \cap {"SUPER_ADMIN"} :
        /\ Start(t, Call("before", o, "REFUNDED", a))
        /\ UNCHANGED <<tableVars, sweep>>

\* The route's own SELECT of the status, for the audit row.
ReadBefore(t) ==
    /\ mv[t].pc = "before"
    /\ mv' = [mv EXCEPT ![t].pc = "read", ![t].before = orders[mv[t].order].status]
    /\ UNCHANGED <<tableVars, orderLock, log, shipments, refunds, audit, due, sweep>>

\* Faulty variant: the sweep looks for orders in the wrong status.
JobFromPaid(j) == IF j = "cancel" THEN "PAID" ELSE "SHIPPED"

JobFrom(j) == IF j = "cancel" THEN "PENDING" ELSE "SHIPPED"
JobTo(j)   == IF j = "cancel" THEN "CANCELLED" ELSE "COMPLETED"

\* Time: an order has been PENDING for 30 minutes, or SHIPPED for 7 days.
Ripen(j) ==
    /\ \E o \in Placed(JobFrom(j)) \ due[j] : due' = [due EXCEPT ![j] = @ \cup {o}]
    /\ UNCHANGED <<tableVars, mv, orderLock, log, shipments, refunds, audit, sweep>>

\* The job's query. A second run may overlap the loop of the first.
Scan(j) ==
    LET found == due[j] \cap Placed(JobFrom(j))
    IN  /\ ~ (found \subseteq sweep[j])
        /\ sweep' = [sweep EXCEPT ![j] = @ \cup found]
        /\ UNCHANGED <<tableVars, mv, orderLock, log, shipments, refunds, audit, due>>

\* One turn of its loop: a transaction of its own per order.
SweepNext(j, t) ==
    \E o \in sweep[j] :
        /\ Start(t, Call("read", o, JobTo(j), "system"))
        /\ sweep' = [sweep EXCEPT ![j] = @ \ {o}]
        /\ UNCHANGED tableVars

--------------------------------------------------------------------------------
(* transitionOrder.                                                            *)

\* Any throw: ROLLBACK. Every caller survives it; the timer and the sweeps log it.
ThrowMove(t) ==
    /\ RollbackRows(t)
    /\ orderLock' = [o \in Order |-> IF orderLock[o] = t THEN NoTx ELSE orderLock[o]]
    /\ mv' = [mv EXCEPT ![t] = Rest]
    /\ UNCHANGED <<orders, usage, cart, timers, supplied, log, shipments, refunds, audit, due, sweep>>

\* Read the order and its items, check the table and the role.
ReadOrder(t) ==
    LET m    == mv[t]
        from == orders[m.order].status
        list == Wanted(orders[m.order].lines)
        ok   == <<from, m.to>> \in ALLOWED /\ ActorAllowed(m.to, m.actor)
    IN  /\ m.pc = "read"
        /\ \/ ~ ok /\ ThrowMove(t)
           \/ /\ ok /\ m.to \notin Restocking
              /\ mv' = [mv EXCEPT ![t].pc = "update", ![t].from = from]
              /\ UNCHANGED <<tableVars, orderLock, log, shipments, refunds, audit, due, sweep>>
           \/ /\ ok /\ m.to \in Restocking
              /\ \E s \in list :
                    mv' = [mv EXCEPT ![t].pc = "restock", ![t].from = from,
                                     ![t].todo = list, ![t].next = s]
              /\ UNCHANGED <<tableVars, orderLock, log, shipments, refunds, audit, due, sweep>>

\* restock: one increment per item, waiting for whoever holds the row.
Restock(t) ==
    LET m == mv[t]
        left == m.todo \ {m.next}
    IN  /\ m.pc = "restock"
        /\ WriteRow(t, m.next, orders[m.order].lines[m.next])
        /\ \/ /\ left = {}
              /\ mv' = [mv EXCEPT ![t].pc = "update", ![t].todo = {}, ![t].next = NoSku]
           \/ \E n \in left : mv' = [mv EXCEPT ![t].todo = left, ![t].next = n]
        /\ UNCHANGED <<orders, usage, cart, timers, supplied,
                       orderLock, log, shipments, refunds, audit, due, sweep>>

\* Faulty variant: updateMany without the status in its WHERE.
StatusTrusted(t) == FALSE

StatusMoved(t) == orders[mv[t].order].status # mv[t].from

\* updateMany(WHERE id = orderId AND status = the status that was read).
UpdateStatus(t) ==
    LET o == mv[t].order
    IN  /\ mv[t].pc = "update"
        /\ \/ StatusMoved(t) /\ ThrowMove(t)
           \/ /\ ~ StatusMoved(t)
              /\ orderLock[o] = NoTx
              /\ orderLock' = [orderLock EXCEPT ![o] = t]
              /\ mv' = [mv EXCEPT ![t].pc = "commit"]
              /\ UNCHANGED <<tableVars, log, shipments, refunds, audit, due, sweep>>

\* COMMIT publishes the status, its log row, the shipment or refund row and the audit row.
CommitMove(t) ==
    LET m == mv[t]
        o == m.order
        one(to) == IF m.to = to THEN 1 ELSE 0
    IN  /\ m.pc = "commit"
        /\ orders' = [orders EXCEPT ![o].status = m.to]
        /\ log' = [log EXCEPT ![o] = Append(@, <<m.from, m.to>>)]
        /\ shipments' = [shipments EXCEPT ![o] = @ + one("SHIPPED")]
        /\ refunds' = [refunds EXCEPT ![o] = @ + one("REFUNDED")]
        /\ audit' = IF m.actor = "system" THEN audit
                    ELSE [audit EXCEPT ![o] = @ \cup {<<m.before, m.to>>}]
        /\ CommitRows(t)
        /\ orderLock' = [orderLock EXCEPT ![o] = NoTx]
        /\ mv' = [mv EXCEPT ![t] = Rest]
        /\ UNCHANGED <<usage, cart, timers, supplied, due, sweep>>

MoveStep(t) ==
    \/ ReadOutcome(t) \/ ReadBefore(t)
    \/ ReadOrder(t) \/ Restock(t) \/ UpdateStatus(t) \/ CommitMove(t)

MoveWaits(t, u) ==
    \/ /\ mv[t].pc = "restock"
       /\ HeldByOther(t, mv[t].next)
       /\ skuLock[mv[t].next] = u
    \/ /\ mv[t].pc = "update"
       /\ ~ StatusMoved(t)
       /\ orderLock[mv[t].order] \notin {NoTx, t}
       /\ orderLock[mv[t].order] = u
================================================================================
