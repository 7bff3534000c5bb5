---------------------------- MODULE CheckoutService ----------------------------
(*******************************************************************************)
(* services/checkoutService.ts: one transaction turns a cart into an order.    *)
(* Every statement of the transaction is a step, so other transactions run     *)
(* between any two of them. routes/checkout.ts, which answers the customer and *)
(* arms the timer of the simulated payment provider, is the step after COMMIT. *)
(* With it, the transactions that write the lines of a user's cart             *)
(* (services/cartService.ts), for the locks they and a checkout's DELETE of    *)
(* the cart wait for; what they read and compute is module Carts.              *)
(*******************************************************************************)
EXTENDS ShopTables

CONSTANTS CheckoutTx,
          CartTx,       \* transactions of cart requests
          Shoppers,     \* the users who change their carts
          Limit         \* coupons.usage_limit of the coupons that have one

ASSUME CheckoutConstants ==
    /\ CheckoutTx \subseteq Tx
    /\ CartTx \subseteq Tx
    /\ Shoppers \subseteq User
    /\ DOMAIN Limit \subseteq Coupon
    /\ Limit \in [DOMAIN Limit -> Nat]

VARIABLES
    co,           \* per transaction: what its checkout call holds in local variables
    couponLock,   \* pg_advisory_xact_lock of each coupon
    cartLock,     \* the transaction that has deleted, and not committed, the cart of each user
    ed            \* per transaction: the cart request it carries out

checkoutVars == <<co, couponLock, cartLock>>
editVars     == <<ed>>

Idle == [pc |-> "idle"]
Taking  == [pc   : {"stock"}, user : User, cart : Carts, todo : SUBSET Sku, next : Sku,
            code : Coupon \cup {NoCoupon}, mode : OutcomeModes]
Writing == [pc   : {"write", "cart", "commit"}, user : User, cart : Carts,
            todo : {{}}, next : {NoSku}, code : Coupon \cup {NoCoupon}, mode : OutcomeModes]
Couponing == [pc   : {"validate", "lock", "count"}, user : User, cart : Carts,
              todo : {{}}, next : {NoSku}, code : Coupon, mode : OutcomeModes]
Cascading == [pc   : {"cascade"}, user : User, cart : Carts, todo : SUBSET Sku, next : Sku,
              code : Coupon \cup {NoCoupon}, mode : OutcomeModes]
Calls   == Taking \cup Couponing \cup Writing \cup Cascading
Answers == [pc : {"respond"}, order : DOMAIN orders]

\* A request knows its cart by its id, and has written, not committed, "wrote" of its lines;
\* at "key" the line it has just inserted has yet to lock the cart's row.
NoEdit == [pc |-> "idle"]
Edits  == [pc : {"line", "key"}, user : User, no : Nat, todo : SUBSET Sku, next : Sku,
           wrote : SUBSET Sku, lines : Quantities]
          \cup
          [pc : {"commit"}, user : User, no : Nat, todo : {{}}, next : {NoSku},
           wrote : SUBSET Sku, lines : Quantities]

CheckoutTypeOK ==
    /\ co \in [CheckoutTx -> {Idle} \cup Calls \cup Answers]
    /\ couponLock \in [Coupon -> CheckoutTx \cup {NoTx}]
    /\ cartLock \in [User -> CheckoutTx \cup {NoTx}]
    /\ ed \in [CartTx -> {NoEdit} \cup Edits]

CheckoutInit ==
    /\ co = [t \in CheckoutTx |-> Idle]
    /\ couponLock = [c \in Coupon |-> NoTx]
    /\ cartLock = [u \in User |-> NoTx]
    /\ ed = [t \in CartTx |-> NoEdit]

--------------------------------------------------------------------------------
InCheckout(t) == co[t].pc \notin {"idle", "respond"}
Goto(t, pc)   == co' = [co EXCEPT ![t].pc = pc]

\* Faulty variant: a session lock that nobody unlocks.
KeepCoupons(t) == UNCHANGED couponLock

FreeCoupons(t) == couponLock' = [c \in Coupon |-> IF couponLock[c] = t THEN NoTx ELSE couponLock[c]]
FreeCarts(t)   == cartLock' = [u \in User |-> IF cartLock[u] = t THEN NoTx ELSE cartLock[u]]

\* Faulty variant: no transaction around the statements.
ThrowAndKeep(t) ==
    /\ CommitRows(t)
    /\ FreeCoupons(t)
    /\ FreeCarts(t)
    /\ co' = [co EXCEPT ![t] = Idle]
    /\ UNCHANGED <<orders, usage, cart, timers, supplied>>

\* Any throw inside the callback of $transaction: ROLLBACK, and the call is over.
Throw(t) ==
    /\ RollbackRows(t)
    /\ FreeCoupons(t)
    /\ FreeCarts(t)
    /\ co' = [co EXCEPT ![t] = Idle]
    /\ UNCHANGED <<orders, usage, cart, timers, supplied>>

\* Bound: a checkout starts only when an order id is left for each one under way.
RoomForOrder ==
    Cardinality(Order \ DOMAIN orders) > Cardinality({t \in CheckoutTx : InCheckout(t)})

\* The cart is read without a lock and without an order on its items. A cart with
\* no items is refused and nothing changes.
Begin(t) ==
    /\ co[t] = Idle
    /\ RoomForOrder
    /\ \E u \in User, code \in Coupon \cup {NoCoupon}, mode \in Modes :
          \E first \in Wanted(cart[u].lines) :
             co' = [co EXCEPT ![t] =
                      [pc |-> "stock", user |-> u, cart |-> cart[u],
                       todo |-> Wanted(cart[u].lines), next |-> first,
                       code |-> code, mode |-> mode]]
    /\ UNCHANGED <<tableVars, couponLock, cartLock>>

\* updateMany(WHERE stock >= qty): decrement and go on with the next item, ...
TakeStock(t) ==
    LET c == co[t]
        left == c.todo \ {c.next}
        after == IF c.code = NoCoupon THEN "write" ELSE "validate"
    IN  /\ c.pc = "stock"
        /\ Seen(t, c.next) >= c.cart.lines[c.next]
        /\ WriteRow(t, c.next, - c.cart.lines[c.next])
        /\ \/ /\ left = {}
              /\ co' = [co EXCEPT ![t].pc = after, ![t].todo = {}, ![t].next = NoSku]
           \/ \E n \in left : co' = [co EXCEPT ![t].todo = left, ![t].next = n]
        /\ UNCHANGED <<orders, usage, cart, timers, supplied, couponLock, cartLock>>

\* ... or match no row. A committed stock that is too low is not waited for.
OutOfStock(t) ==
    /\ co[t].pc = "stock"
    /\ Seen(t, co[t].next) < co[t].cart.lines[co[t].next]
    /\ Throw(t)

UsesOf(c)     == {x \in usage : x.coupon = c}
UsedBy(c, u)  == \E x \in usage : x.coupon = c /\ x.user = u
Exhausted(c)  == c \in DOMAIN Limit /\ Cardinality(UsesOf(c)) >= Limit[c]

\* validateCoupon(code, ..., tx): reads without a lock.
ValidateCoupon(t) ==
    /\ co[t].pc = "validate"
    /\ ~ Exhausted(co[t].code)
    /\ ~ UsedBy(co[t].code, co[t].user)
    /\ Goto(t, "lock")
    /\ UNCHANGED <<tableVars, couponLock, cartLock>>

\* Dates, minimum amount and an unknown code refuse a coupon in any state.
RejectCoupon(t) ==
    /\ co[t].pc = "validate"
    /\ Throw(t)

LockCoupon(t) ==
    /\ co[t].pc = "lock"
    /\ couponLock[co[t].code] = NoTx
    /\ couponLock' = [couponLock EXCEPT ![co[t].code] = t]
    /\ Goto(t, "count")
    /\ UNCHANGED <<tableVars, cartLock>>

\* Faulty variant: the validation before the lock is trusted.
LimitTrusted(t) == FALSE

LimitReached(t) == Exhausted(co[t].code)

CountUsages(t) ==
    /\ co[t].pc = "count"
    /\ \/ LimitReached(t) /\ Throw(t)
       \/ /\ ~ LimitReached(t)
          /\ Goto(t, "write")
          /\ UNCHANGED <<tableVars, couponLock, cartLock>>

\* The INSERTs of the order, its items, the coupon usage and the payment. They stay
\* private until COMMIT; UNIQUE(coupon_id, user_id) is what can refuse them.
WriteOrder(t) ==
    /\ co[t].pc = "write"
    /\ \/ UsedBy(co[t].code, co[t].user) /\ Throw(t)
       \/ /\ ~ UsedBy(co[t].code, co[t].user)
          /\ Goto(t, "cart")
          /\ UNCHANGED <<tableVars, couponLock, cartLock>>

\* Faulty variant: deleteMany, which does not mind a missing row.
CartIgnored(t) == FALSE

CartGone(t) == cart[co[t].user].no # co[t].cart.no

\* The cart requests that have written line s of user u's cart, and those that have
\* inserted a line: its foreign key takes a KEY SHARE lock of the carts row.
Writers(u, s) == {t \in CartTx : ed[t].pc # "idle" /\ ed[t].user = u /\ s \in ed[t].wrote}
Keyless(t, s) == ed[t].pc = "key" /\ ed[t].next = s
Sharers(u) ==
    UNION {{t \in Writers(u, s) : ~ Keyless(t, s)} : s \in Sku \ Wanted(cart[u].lines)}

\* cart.delete by id: throws (P2025) when the row is gone, waits for whoever has
\* deleted it or shares its lock, and then ...
DeleteCart(t) ==
    LET u == co[t].user
        lines == Wanted(cart[u].lines)
    IN  /\ co[t].pc = "cart"
        /\ \/ CartGone(t) /\ Throw(t)
           \/ /\ ~ CartGone(t)
              /\ cartLock[u] = NoTx
              /\ Sharers(u) = {}
              /\ cartLock' = [cartLock EXCEPT ![u] = t]
              /\ \/ lines = {} /\ Goto(t, "commit")
                 \/ \E s \in lines :
                       co' = [co EXCEPT ![t].pc = "cascade", ![t].todo = lines, ![t].next = s]
              /\ UNCHANGED <<tableVars, couponLock>>

\* ... ON DELETE CASCADE takes its lines one by one, waiting for whoever wrote one.
Cascade(t) ==
    LET c == co[t]
        left == c.todo \ {c.next}
    IN  /\ c.pc = "cascade"
        /\ Writers(c.user, c.next) = {}
        /\ \/ /\ left = {}
              /\ co' = [co EXCEPT ![t].pc = "commit", ![t].todo = {}, ![t].next = NoSku]
           \/ \E n \in left : co' = [co EXCEPT ![t].todo = left, ![t].next = n]
        /\ UNCHANGED <<tableVars, couponLock, cartLock>>

FreshOrder == CHOOSE o \in Order : o \notin DOMAIN orders

CommitCheckout(t) ==
    LET c == co[t]
        o == FreshOrder
    IN  /\ c.pc = "commit"
        /\ o \in Order \ DOMAIN orders      \* RoomForOrder left one
        /\ orders' = [x \in DOMAIN orders \cup {o} |->
                        IF x \in DOMAIN orders THEN orders[x]
                        ELSE [status |-> "PENDING", lines |-> c.cart.lines, user |-> c.user,
                              cart |-> c.cart.no, mode |-> c.mode]]
        /\ usage' = IF c.code = NoCoupon THEN usage
                    ELSE usage \cup {[coupon |-> c.code, user |-> c.user, order |-> o]}
        /\ cart' = [cart EXCEPT ![c.user] = [no |-> @.no + 1, lines |-> Nothing]]
        /\ CommitRows(t)
        /\ FreeCoupons(t)
        /\ FreeCarts(t)
        /\ co' = [co EXCEPT ![t] = [pc |-> "respond", order |-> o]]
        /\ UNCHANGED <<timers, supplied>>

\* The handler runs on: setTimeout for the two automatic modes, then the 201.
Respond(t) ==
    /\ co[t].pc = "respond"
    /\ timers' = IF orders[co[t].order].mode = "MANUAL" THEN timers
                 ELSE timers \cup {co[t].order}
    /\ co' = [co EXCEPT ![t] = Idle]
    /\ UNCHANGED <<skuVars, orders, usage, cart, supplied, couponLock, cartLock>>

CheckoutStep(t) ==
    \/ TakeStock(t) \/ OutOfStock(t)
    \/ ValidateCoupon(t) \/ RejectCoupon(t) \/ LockCoupon(t) \/ CountUsages(t)
    \/ WriteOrder(t) \/ DeleteCart(t) \/ Cascade(t) \/ CommitCheckout(t) \/ Respond(t)

--------------------------------------------------------------------------------
(* Cart requests: addItem writes one line, updateItem and removeItem too, and   *)
(* mergeGuestCart several, in one transaction.                                  *)

InEdit(t) == ed[t].pc # "idle"

ThrowEdit(t) ==
    /\ ed' = [ed EXCEPT ![t] = NoEdit]
    /\ UNCHANGED tableVars

\* getOrCreateCart and what the request reads: the cart, and the lines it will write.
BeginEdit(t) ==
    /\ ed[t] = NoEdit
    /\ \E u \in Shoppers, todo \in SUBSET Sku : \E first \in todo :
          ed' = [ed EXCEPT ![t] =
                   [pc |-> "line", user |-> u, no |-> cart[u].no, todo |-> todo,
                    next |-> first, wrote |-> {}, lines |-> Nothing]]
    /\ UNCHANGED tableVars

\* The cart was checked out: the foreign key or a missing row refuses the write.
EditRefused(t) == cart[ed[t].user].no # ed[t].no

\* The line is not there: an INSERT.
Inserts(t) == cart[ed[t].user].lines[ed[t].next] = 0

\* Whom the write of the next line waits for: who has written it, or whose cascade has
\* deleted it.
LineHolders(t) ==
    LET e == ed[t]
    IN  (Writers(e.user, e.next) \ {t})
        \cup {k \in CheckoutTx :
                 cartLock[e.user] = k /\ ~ Inserts(t) /\ e.next \notin co[k].todo}

\* Faulty variant: an increment, whose sum is not checked.
Incremented(t) == {cart[ed[t].user].lines[ed[t].next] + q : q \in 1 .. MaxQty}

\* The quantity depends on a stock read before, so any may be written; only a request
\* for one line removes it.
Granted(t) ==
    {q \in 0 .. MaxQty :
        q = 0 => ~ Inserts(t) /\ ed[t].todo \cup ed[t].wrote = {ed[t].next}}

\* The request e, its next line written, goes on with another one or to its COMMIT.
Onward(e) ==
    LET left == e.todo \ {e.next}
    IN  {[e EXCEPT !.pc = IF left = {} THEN "commit" ELSE "line", !.todo = left, !.next = n] :
            n \in IF left = {} THEN {NoSku} ELSE left}

WriteLine(t) ==
    /\ ed[t].pc = "line"
    /\ \/ EditRefused(t) /\ ThrowEdit(t)
       \/ /\ ~ EditRefused(t)
          /\ LineHolders(t) = {}
          /\ \E q \in Granted(t) :
                LET e == [ed[t] EXCEPT !.wrote = @ \cup {ed[t].next}, !.lines[ed[t].next] = q]
                IN  \E f \in IF Inserts(t) THEN {[e EXCEPT !.pc = "key"]} ELSE Onward(e) :
                       ed' = [ed EXCEPT ![t] = f]
          /\ UNCHANGED tableVars

\* The foreign key of an INSERT: it waits for who has deleted the cart.
ShareCart(t) ==
    /\ ed[t].pc = "key"
    /\ \/ EditRefused(t) /\ ThrowEdit(t)
       \/ /\ ~ EditRefused(t)
          /\ cartLock[ed[t].user] = NoTx
          /\ \E f \in Onward(ed[t]) : ed' = [ed EXCEPT ![t] = f]
          /\ UNCHANGED tableVars

\* COMMIT, or addItem finds that its line is more than the stock and throws.
EndEdit(t) ==
    LET e == ed[t]
    IN  /\ e.pc = "commit"
        /\ \/ Cardinality(e.wrote) = 1 /\ ThrowEdit(t)
           \/ /\ cart' = [cart EXCEPT ![e.user].lines =
                             [s \in Sku |-> IF s \in e.wrote THEN e.lines[s] ELSE @[s]]]
              /\ ed' = [ed EXCEPT ![t] = NoEdit]
              /\ UNCHANGED <<skuVars, orders, usage, timers, supplied>>

EditStep(t) == WriteLine(t) \/ ShareCart(t) \/ EndEdit(t)

EditWaits(t, u) ==
    \/ ed[t].pc = "line" /\ ~ EditRefused(t) /\ u \in LineHolders(t)
    \/ ed[t].pc = "key" /\ ~ EditRefused(t) /\ u = cartLock[ed[t].user]

\* What transaction u has that the next statement of t waits for.
CheckoutWaits(t, u) ==
    \/ /\ co[t].pc = "stock"
       /\ Seen(t, co[t].next) >= co[t].cart.lines[co[t].next]
       /\ HeldByOther(t, co[t].next)
       /\ skuLock[co[t].next] = u
    \/ co[t].pc = "lock" /\ couponLock[co[t].code] = u
    \/ /\ co[t].pc = "cart"
       /\ ~ CartGone(t)
       /\ u = cartLock[co[t].user] \/ u \in Sharers(co[t].user)
    \/ co[t].pc = "cascade" /\ u \in Writers(co[t].user, co[t].next)
================================================================================
