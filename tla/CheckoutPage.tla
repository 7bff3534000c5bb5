------------------------------ MODULE CheckoutPage -----------------------------
(*******************************************************************************)
(* The way of one tab from the cart to a paid order: the cached cart and its   *)
(* buttons (useCart.ts, CartDrawer.tsx, AddToCartButton.tsx), the checkout     *)
(* page with its coupon (Checkout.tsx, CouponInput.tsx, useCheckout.ts) and    *)
(* the page that waits for the payment (OrderSuccess.tsx). Every request is    *)
(* served at some moment after it was sent and its answer arrives after that,  *)
(* in any order, or gets lost; an axios request given up after 15 s may still  *)
(* be served. Meanwhile the same user edits the cart elsewhere, others use the *)
(* coupon and an administrator edits it; no route edits the price of a SKU. A  *)
(* callback, with the render and the effects it causes, is one step. A         *)
(* transaction of the server is one step here: CheckoutService takes it apart. *)
(* The cart has one line; `item` is its row of cart_items.                     *)
(*******************************************************************************)
EXTENDS Quotes, Sequences, FiniteSets

CONSTANTS Price, Terms,     \* of the SKU; what may become of the coupon
          Stock,            \* units on the shelf, which nobody takes meanwhile
          MaxTries,         \* bound: submissions of the form under way at once
          NoCart, NoChip,   \* a cache without data; no coupon applied
          Outdated,         \* a coupon applied that is late (history; see quote)
          MaxItems, MaxOrders,
          MaxCalls          \* bounds; the last one on the calls under way at once

ASSUME PageConstants ==
    /\ Price \in Nat /\ Terms \subseteq CouponTerms
    /\ Stock \in Nat /\ MaxItems \in Nat /\ MaxOrders \in Nat /\ MaxCalls \in Nat
    /\ MaxTries \in Nat
    /\ NoCart \notin [item : Nat, qty : Nat, subtotal : Nat]
    /\ NoChip \notin Nat /\ Outdated \notin Nat /\ NoChip # Outdated

VARIABLES
    terms,          \* of the coupon
    cart,           \* the line of the user's cart
    items,          \* cart_items rows there have been
    orders,         \* the user's orders, oldest first
    calls,          \* the mutations of useCart.ts and the cart query, at most one of each
    shown,          \* the query cache of the cart
    page,
    chip,           \* the subtotal that appliedCoupon was computed for, which tells its discount
    quote,          \* the request of useCouponValidate, with its subtotal; late: other cart data came
                    \* meanwhile, or the coupon was edited after the answer (history)
    tries, waiting, \* the requests of useCheckout; the one whose answer is awaited
    viewed,         \* the order on the success page
    resolved,       \* it has left PENDING (no other order's payment matters to the tab)
    seen            \* its status in the query cache

serverVars == <<terms, cart, items, orders, resolved>>
pageVars   == <<page, chip, quote, viewed, seen>>
vars == <<serverVars, calls, shown, pageVars, tries, waiting>>

Try     == 1 .. MaxTries
NoTry   == 0
NoLine  == [item |-> 0, qty |-> 0]
Dto     == [item |-> cart.item, qty |-> cart.qty, subtotal |-> Price * cart.qty]
Idle    == [pc |-> "idle", item |-> 0, qty |-> 0, dto |-> NoCart]
NoQuote == [pc |-> "idle", of |-> 0, late |-> FALSE]
Free    == [pc |-> "free", chip |-> NoChip, subtotal |-> 0, order |-> 0]
Mine    == \E n \in 1 .. Len(orders) : orders[n].redeemed

Control == {"add", "update", "remove", "get"}
CartDto == [item : 0 .. MaxItems, qty : 0 .. Stock, subtotal : Nat]
Chip     == Nat \cup {NoChip, Outdated}
OrderRow == [item : 1 .. MaxItems, redeemed : BOOLEAN, subtotal : Nat, discount : Nat, total : Int]
TypeOK ==
    /\ terms \in Terms
    /\ cart \in [item : 0 .. MaxItems, qty : 0 .. Stock] /\ items \in 0 .. MaxItems
    /\ orders \in Seq(OrderRow) /\ Len(orders) <= MaxOrders
    /\ calls \in [Control -> [pc : {"idle", "sent", "served"}, item : 0 .. MaxItems, qty : 0 .. Stock,
                              dto : CartDto \cup {NoCart}]]
    /\ shown \in CartDto \cup {NoCart}
    /\ page \in {"shop", "checkout", "done"} /\ chip \in Chip
    /\ quote \in [pc : {"idle", "sent", "served"}, of : Nat, late : BOOLEAN]
    /\ tries \in [Try -> [pc : {"free", "sent", "served"}, chip : Chip, subtotal : Nat,
                           order : 0 .. MaxOrders]]
    /\ waiting \in Try \cup {NoTry}
    /\ viewed \in 0 .. Len(orders) /\ resolved \in BOOLEAN /\ seen \in {"NONE", "FAILED", "PENDING", "RESOLVED"}

Init ==
    /\ terms \in Terms
    /\ cart = NoLine /\ items = 0 /\ orders = << >>
    /\ calls = [c \in Control |-> IF c = "get" THEN [Idle EXCEPT !.pc = "sent"] ELSE Idle]
    /\ shown = NoCart
    /\ page = "shop" /\ chip = NoChip /\ quote = NoQuote
    /\ tries = [t \in Try |-> Free] /\ waiting = NoTry
    /\ viewed = 0 /\ resolved = FALSE /\ seen = "NONE"

--------------------------------------------------------------------------------
(* The server: routes/cart.ts, coupons.ts, checkout.ts, orders.ts.             *)

\* Faulty variant: the stock is not looked at.
MorePlease(qty) == TRUE
InStock(qty) == qty <= Stock

\* addItem, updateItem, removeItem: TRUE iff the cart could be changed that way.
Change(c) ==
    \/ /\ c = "add" /\ cart.item # 0 /\ InStock(cart.qty + 1)
       /\ cart' = [cart EXCEPT !.qty = @ + 1] /\ UNCHANGED items
    \/ /\ c = "add" /\ cart.item = 0 /\ InStock(1) /\ items < MaxItems
       /\ items' = items + 1 /\ cart' = [item |-> items + 1, qty |-> 1]
    \/ /\ c = "update" /\ cart.item # 0 /\ calls[c].item = cart.item /\ InStock(calls[c].qty)
       /\ cart' = [cart EXCEPT !.qty = calls[c].qty] /\ UNCHANGED items
    \/ /\ c = "remove" /\ cart.item # 0 /\ calls[c].item = cart.item
       /\ cart' = NoLine /\ UNCHANGED items
    \/ c = "get" /\ UNCHANGED <<cart, items>>

\* The answer is the cart. An error changes nothing: CallLost.
ServeCall(c) ==
    /\ calls[c].pc = "sent"
    /\ Change(c)
    /\ calls' = [calls EXCEPT ![c].pc = "served",
                   ![c].dto = [item |-> cart'.item, qty |-> cart'.qty, subtotal |-> Price * cart'.qty]]
    /\ UNCHANGED <<terms, orders, resolved, shown, pageVars, tries, waiting>>

\* A refusal only shows a message: QuoteLost.
ServeQuote ==
    /\ quote.pc = "sent" /\ ~ Refused(terms, quote.of, Mine)
    /\ quote' = [quote EXCEPT !.pc = "served"]
    /\ UNCHANGED <<serverVars, calls, shown, page, chip, viewed, seen, tries, waiting>>

\* validateCoupon throws, and the transaction with it.
CouponHolds(t) == tries[t].chip # NoChip => ~ Refused(terms, Dto.subtotal, Mine)

\* Faulty variant: the cart stays.
KeepCart == UNCHANGED cart
\* tx.cart.delete.
DeleteCart == cart' = NoLine

\* checkout() and the answer of its route; an answer that nobody awaits is dropped. A
\* refusal changes nothing: NotOrdered, Forget.
ServeTry(t) ==
    LET subtotal == Dto.subtotal
        redeemed == tries[t].chip # NoChip /\ ~ Refused(terms, subtotal, Mine)
        discount == IF redeemed THEN Discount(terms, subtotal) ELSE 0 IN
    /\ tries[t].pc = "sent"
    /\ cart.item # 0 /\ CouponHolds(t) /\ Len(orders) < MaxOrders
    /\ orders' = Append(orders,
         [item |-> cart.item, redeemed |-> redeemed, subtotal |-> subtotal,
          discount |-> discount, total |-> subtotal - discount])
    /\ DeleteCart
    /\ tries' = [tries EXCEPT ![t] = IF t = waiting THEN [Free EXCEPT !.pc = "served", !.order = Len(orders) + 1] ELSE Free]
    /\ UNCHANGED <<terms, items, resolved, calls, shown, pageVars, waiting>>

\* The payment of the order, or the sweep (OrderService): PAID or CANCELLED.
Resolve ==
    /\ viewed # 0 /\ ~ resolved /\ resolved' = TRUE
    /\ UNCHANGED <<terms, cart, items, orders, calls, shown, pageVars, tries, waiting>>

\* Bound: the user is done after MaxOrders orders.
Shopping == Len(orders) < MaxOrders

\* Another device of the user.
Elsewhere ==
    /\ Shopping /\ cart.item # 0
    /\ \E qty \in 1 .. Stock : cart' = [cart EXCEPT !.qty = qty]
    /\ UNCHANGED <<terms, items, orders, resolved, calls, shown, pageVars, tries, waiting>>

\* What was quoted is out of date.
Late(c) == IF c = NoChip THEN NoChip ELSE Outdated
\* PATCH of the coupon; a checkout of another user with it.
Administer ==
    /\ Shopping
    /\ terms' \in Terms \ {terms}
    /\ quote' = [quote EXCEPT !.late = @ \/ quote.pc = "served"]
    /\ chip' = Late(chip)
    /\ tries' = [t \in Try |-> [tries[t] EXCEPT !.chip = Late(@)]]
    /\ UNCHANGED <<cart, items, orders, resolved, calls, shown, page, viewed, seen, waiting>>

--------------------------------------------------------------------------------
(* The tab.                                                                    *)

Subtotal(data) == IF data = NoCart THEN 0 ELSE data.subtotal

\* Faulty variant: the coupon stays.
StillThere(data) == chip
\* The effect of Checkout.tsx after a render with other cart data: the coupon goes if the
\* subtotal was known and is another one now.
Rendered(data) ==
    IF shown # NoCart /\ data.subtotal # shown.subtotal THEN NoChip ELSE chip

\* setQueryData, or the query's own answer.
CallAnswered(c) ==
    /\ calls[c].pc = "served"
    /\ calls' = [calls EXCEPT ![c] = Idle]
    /\ shown' = calls[c].dto /\ chip' = Rendered(calls[c].dto)
    /\ quote' = [quote EXCEPT !.late = @ \/ (quote.pc # "idle" /\ calls[c].dto.subtotal # quote.of)]
    /\ UNCHANGED <<serverVars, page, viewed, seen, tries, waiting>>

\* Lost before or after it was served, or an error: the cache stays as it is.
CallLost(c) ==
    /\ calls[c].pc # "idle"
    /\ calls' = [calls EXCEPT ![c] = Idle]
    /\ UNCHANGED <<serverVars, shown, pageVars, tries, waiting>>

Request(c, qty) ==
    /\ Shopping
    /\ calls[c].pc = "idle" /\ Cardinality({d \in Control : calls[d].pc # "idle"}) < MaxCalls
    /\ calls' = [calls EXCEPT ![c] = [Idle EXCEPT !.pc = "sent", !.qty = qty,
                                         !.item = IF shown = NoCart THEN 0 ELSE shown.item]]
    /\ UNCHANGED <<serverVars, shown, pageVars, tries, waiting>>

HasLine == shown # NoCart /\ shown.qty > 0
\* The buttons: each is disabled while its own mutation is pending. The drawer opens over
\* every page and asks for the quantity next to the one it shows.
Add    == page = "shop" /\ Stock > 0 /\ Request("add", 1)
Less   == HasLine /\ shown.qty > 1 /\ Request("update", shown.qty - 1)
More   == HasLine /\ shown.qty < Stock /\ Request("update", shown.qty + 1)
Remove == HasLine /\ Request("remove", 0)
\* A component mounts and finds the cart older than 30 s.
Refetch == Request("get", 0)

Enter(p, n) ==
    page' = p /\ chip' = NoChip /\ quote' = NoQuote /\ viewed' = n /\ resolved' = FALSE /\ seen' = "NONE"
\* The user follows a link. The page that is left takes its coupon and a pending quote with
\* it. (Bound: not while a submission is awaited.)
Go(p) ==
    /\ waiting = NoTry /\ page # p
    /\ Enter(p, 0)
    /\ UNCHANGED <<terms, cart, items, orders, calls, shown, tries, waiting>>

\* The page shows its form while the cart loads, and when the cart has a line.
FormShown == page = "checkout" /\ (shown = NoCart => calls["get"].pc # "idle") /\ (shown # NoCart => HasLine)

Apply ==
    /\ FormShown /\ Shopping /\ chip = NoChip /\ quote.pc = "idle"
    /\ quote' = [NoQuote EXCEPT !.pc = "sent", !.of = Subtotal(shown), !.late = shown = NoCart]
    /\ UNCHANGED <<serverVars, calls, shown, page, chip, viewed, seen, tries, waiting>>

\* onApply.
QuoteAnswered ==
    /\ quote.pc = "served"
    /\ chip' = (IF quote.late THEN Outdated ELSE quote.of) /\ quote' = NoQuote
    /\ UNCHANGED <<serverVars, calls, shown, page, viewed, seen, tries, waiting>>

QuoteLost ==
    /\ quote.pc # "idle" /\ quote' = NoQuote
    /\ UNCHANGED <<serverVars, calls, shown, page, chip, viewed, seen, tries, waiting>>

TakeOff ==
    /\ chip # NoChip /\ chip' = NoChip
    /\ UNCHANGED <<serverVars, calls, shown, page, quote, viewed, seen, tries, waiting>>

Submit(t) ==
    /\ FormShown /\ shown # NoCart /\ waiting = NoTry
    \* Bound: each may still become an order.
    /\ Len(orders) + Cardinality({u \in Try : tries[u] # Free}) < MaxOrders
    /\ tries[t] = Free /\ \A u \in Try : u < t => tries[u] # Free
    /\ tries' = [tries EXCEPT ![t] = [Free EXCEPT !.pc = "sent", !.chip = chip, !.subtotal = shown.subtotal]]
    /\ waiting' = t
    /\ UNCHANGED <<serverVars, calls, shown, pageVars>>

\* The order's page opens, and the cart is asked for again: whatever was on its way to the
\* query is ignored.
Ordered(t) ==
    /\ waiting = t /\ tries[t].order # 0
    /\ tries' = [tries EXCEPT ![t] = Free] /\ waiting' = NoTry
    /\ calls' = [calls EXCEPT !["get"] = [Idle EXCEPT !.pc = "sent"]]
    /\ Enter("done", tries[t].order)
    /\ UNCHANGED <<terms, cart, items, orders, shown>>

\* Refused, lost, or given up: in that case the server may still come to it.
NotOrdered(t) ==
    /\ waiting = t
    /\ waiting' = NoTry
    /\ tries' = [tries EXCEPT ![t] = IF @.pc = "sent" THEN @ ELSE Free]
    /\ UNCHANGED <<serverVars, calls, shown, pageVars>>
\* Such a submission never reaches the server after all.
Forget(t) ==
    /\ waiting # t /\ tries[t].pc = "sent"
    /\ tries' = [tries EXCEPT ![t] = Free]
    /\ UNCHANGED <<serverVars, calls, shown, pageVars, waiting>>

\* Faulty variant: the order is fetched once.
AskOnce == seen = "NONE"
\* The first fetch, and refetchInterval.
Asking == seen \in {"NONE", "PENDING"}

Poll ==
    /\ page = "done" /\ Asking
    /\ seen' = (IF resolved THEN "RESOLVED" ELSE "PENDING")
    /\ UNCHANGED <<serverVars, calls, shown, page, chip, quote, viewed, tries, waiting>>
\* No data, no interval. A later fetch that fails leaves the status that is known.
PollFails ==
    /\ page = "done" /\ seen = "NONE" /\ seen' = "FAILED"
    /\ UNCHANGED <<serverVars, calls, shown, page, chip, quote, viewed, tries, waiting>>

Next ==
    \/ \E c \in Control : ServeCall(c) \/ CallAnswered(c) \/ CallLost(c)
    \/ \E t \in Try : ServeTry(t) \/ Submit(t) \/ Ordered(t) \/ NotOrdered(t) \/ Forget(t)
    \/ \E p \in {"shop", "checkout"} : Go(p)
    \/ ServeQuote \/ Resolve \/ Elsewhere \/ Administer
    \/ Add \/ Less \/ More \/ Remove \/ Refetch
    \/ Apply \/ QuoteAnswered \/ QuoteLost \/ TakeOff
    \/ Poll \/ PollFails

Spec == Init /\ [][Next]_vars

\* The shop resolves its orders (OrderService!PendingResolves); one of the polls gets through.
FairSpec == Spec /\ WF_vars(Resolve) /\ WF_vars(Poll)

--------------------------------------------------------------------------------
(* Whatever the administrator makes of the coupon between the quote and the    *)
(* order, even a percentage above 100 or an amount above the order's: what is  *)
(* taken off lies between nothing and the subtotal and the total is the rest.  *)
TotalsAddUp ==
    \A n \in 1 .. Len(orders) :
        /\ orders[n].discount \in 0 .. orders[n].subtotal
        /\ orders[n].total = orders[n].subtotal - orders[n].discount

(* A line is ordered at most once, however often the form is submitted after   *)
(* answers that got lost or came too late, and however stale the cart it shows.*)
OrderedOnce ==
    \A m, n \in 1 .. Len(orders) : orders[m].item = orders[n].item => m = n

(* What is charged is what the page showed when the form was submitted,        *)
(* however late the submission is served and whatever became of others: unless *)
(* the cart is another one now, the coupon was edited after its quote, or the  *)
(* page's cart data came or changed while the quote was on its way.            *)
Off(c) == IF c = NoChip THEN 0 ELSE Discount(terms, c)
ChargedAsShown ==
    [][\A t \in Try :
          ServeTry(t) /\ Dto.subtotal = tries[t].subtotal /\ tries[t].chip # Outdated
              => orders'[Len(orders')].total = tries[t].subtotal - Off(tries[t].chip)]_vars

(* Who waits on the success page for a payment gets to see what became of it.  *)
OutcomeShown ==
    (page = "done" /\ seen = "PENDING") ~> (page # "done" \/ seen = "RESOLVED")
================================================================================
