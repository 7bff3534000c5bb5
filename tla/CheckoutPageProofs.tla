--------------------------- MODULE CheckoutPageProofs --------------------------
(*******************************************************************************)
(* Theorems of CheckoutPage, for any price, coupons, stock and bounds. What    *)
(* makes an order's amounts and lines right is the server's doing: IInv says   *)
(* nothing of the tab but that it sends numbers, so those theorems hold for a  *)
(* client with caches however stale. That the price is the one that was shown  *)
(* is the tab's doing as well: UpToDate.                                       *)
(*******************************************************************************)
EXTENDS CheckoutPage, TLAPS

Data    == [item : Nat, qty : Nat, subtotal : Nat] \cup {NoCart}
Call    == [pc : {"idle", "sent", "served"}, item : Nat, qty : Nat, dto : Data]
Row     == [item : Nat, redeemed : BOOLEAN, subtotal : Nat, discount : Nat, total : Int]

ShopType == terms \in CouponTerms
CartType == cart \in [item : Nat, qty : Nat] /\ items \in Nat
TabType  == calls \in [Control -> Call] /\ shown \in Data

\* The line in the cart is younger than every line that was ordered.
Fresh ==
    /\ cart.item <= items
    /\ \A n \in 1 .. Len(orders) :
          orders[n].item # 0 /\ orders[n].item <= items /\ orders[n].item # cart.item

OrdersRight == orders \in Seq(Row) /\ Fresh /\ TotalsAddUp /\ OrderedOnce

IInv == ShopType /\ CartType /\ TabType /\ OrdersRight

--------------------------------------------------------------------------------
(* What a coupon takes off, whatever percentage or amount is in the table.     *)
LEMMA DiscountFits ==
    ASSUME NEW c \in CouponTerms, NEW subtotal \in Nat
    PROVE  Discount(c, subtotal) \in 0 .. subtotal
<1>1. c.value \in Nat
  BY DEF CouponTerms
<1>2. Percent(c.value, subtotal) \in Nat
  <2>1. \A v, s \in Nat : 2 * s * v \in Nat
    OBVIOUS
  <2>2. PICK k \in Nat : k = 2 * subtotal * c.value
    BY <1>1, <2>1
  <2>3. (k + 100) \div 200 \in Nat
    BY <2>2
  <2> QED
    BY <2>2, <2>3 DEF Percent
<1>3. \A amount \in Nat : AtMost(subtotal, amount) \in 0 .. subtotal
  BY DEF AtMost
<1> QED
  BY <1>1, <1>2, <1>3 DEF Discount

LEMMA Blank ==
    /\ Idle \in Call
    /\ NoLine \in [item : Nat, qty : Nat] /\ NoLine.item = 0
<1>1. Idle \in Call
  BY DEF Idle, Call, Data
<1>2. NoLine \in [item : Nat, qty : Nat] /\ NoLine.item = 0
  BY DEF NoLine
<1> QED
  BY <1>1, <1>2

(* A step that leaves shop, cart and orders alone.                             *)
LEMMA TabOnly ==
    ASSUME IInv, UNCHANGED <<terms, cart, items, orders>>, TabType'
    PROVE  IInv'
<1>1. ShopType' /\ CartType'
  BY DEF IInv, ShopType, CartType
<1>2. OrdersRight'
  BY DEF IInv, OrdersRight, Fresh, TotalsAddUp, OrderedOnce
<1> QED
  BY <1>1, <1>2 DEF IInv

(* The cart keeps its line, loses it, or gets a new one.                       *)
LEMMA CartOnly ==
    ASSUME IInv, UNCHANGED <<terms, orders>>, TabType', CartType',
           \/ cart'.item \in {0, cart.item} /\ items' = items
           \/ cart'.item = items' /\ items' = items + 1
    PROVE  IInv'
<1>1. ShopType'
  BY DEF IInv, ShopType
<1>2. Fresh'
  <2>1. /\ cart.item \in Nat /\ items \in Nat /\ cart.item <= items
        /\ \A n \in 1 .. Len(orders) :
              /\ orders[n].item \in Nat /\ orders[n].item # 0
              /\ orders[n].item <= items /\ orders[n].item # cart.item
    <3>1. cart.item \in Nat /\ items \in Nat
      BY DEF IInv, CartType
    <3>2. \A n \in 1 .. Len(orders) : orders[n] \in Row
      BY DEF IInv, OrdersRight
    <3>3. \A n \in 1 .. Len(orders) : orders[n].item \in Nat
      BY <3>2 DEF Row
    <3> QED
      BY <3>1, <3>3 DEF IInv, OrdersRight, Fresh
  <2> QED
    BY <2>1 DEF Fresh
<1>3. OrdersRight'
  BY <1>2 DEF IInv, OrdersRight, TotalsAddUp, OrderedOnce
<1> QED
  BY <1>1, <1>3 DEF IInv

--------------------------------------------------------------------------------
LEMMA InitIInv == Init => IInv
<1> SUFFICES ASSUME Init PROVE IInv
  OBVIOUS
<1>1. ShopType
  BY PageConstants DEF Init, ShopType
<1>2. CartType
  BY Blank DEF Init, CartType
<1>3. calls \in [Control -> Call]
  <2>1. [Idle EXCEPT !.pc = "sent"] \in Call
    BY Blank DEF Call
  <2> QED
    BY <2>1, Blank DEF Init
<1>4. TabType
  BY <1>3, Blank DEF Init, TabType, Data
<1>5. orders = << >> /\ cart.item = 0 /\ items = 0
  BY Blank DEF Init
<1>6. OrdersRight
  BY <1>5 DEF OrdersRight, Fresh, TotalsAddUp, OrderedOnce
<1> QED
  BY <1>1, <1>2, <1>4, <1>6 DEF IInv

LEMMA ServeCallIInv ==
    ASSUME IInv, NEW c \in Control, ServeCall(c)
    PROVE  IInv'
<1>1. calls[c] \in Call /\ calls \in [Control -> Call]
  BY DEF IInv, TabType
<1>2. Price \in Nat /\ cart \in [item : Nat, qty : Nat] /\ items \in Nat
  <2>1. Price \in Nat
    BY PageConstants
  <2> QED
    BY <2>1 DEF IInv, CartType
<1>3. /\ CartType'
      /\ \/ cart'.item \in {0, cart.item} /\ items' = items
         \/ cart'.item = items' /\ items' = items + 1
  <2>1. Change(c)
    BY DEF ServeCall
  <2>2. CASE cart' = [cart EXCEPT !.qty = @ + 1] /\ UNCHANGED items
    BY <1>2, <2>2 DEF CartType
  <2>3. CASE items' = items + 1 /\ cart' = [item |-> items + 1, qty |-> 1]
    BY <1>2, <2>3 DEF CartType
  <2>4. CASE cart' = [cart EXCEPT !.qty = calls[c].qty] /\ UNCHANGED items
    <3>1. calls[c].qty \in Nat
      BY <1>1 DEF Call
    <3> QED
      BY <1>2, <2>4, <3>1 DEF CartType
  <2>5. CASE cart' = NoLine /\ UNCHANGED items
    BY <1>2, <2>5, Blank DEF CartType
  <2>6. CASE UNCHANGED <<cart, items>>
    BY <1>2, <2>6 DEF CartType
  <2> QED
    BY <2>1, <2>2, <2>3, <2>4, <2>5, <2>6 DEF Change
<1>4. TabType'
  <2> DEFINE dto == [item |-> cart'.item, qty |-> cart'.qty, subtotal |-> Price * cart'.qty]
  <2>1. cart' \in [item : Nat, qty : Nat]
    BY <1>3 DEF CartType
  <2>2. Price * cart'.qty \in Nat
    BY <1>2, <2>1
  <2>3. dto \in Data
    BY <2>1, <2>2 DEF Data
  <2>4. calls' = [calls EXCEPT ![c].pc = "served", ![c].dto = dto]
    BY DEF ServeCall
  <2> HIDE DEF dto
  <2>5. [calls[c] EXCEPT !.pc = "served", !.dto = dto] \in Call
    BY <1>1, <2>3 DEF Call
  <2>6. calls' \in [Control -> Call]
    BY <1>1, <2>4, <2>5
  <2> QED
    BY <2>6 DEF IInv, TabType, ServeCall
<1> QED
  BY <1>3, <1>4, CartOnly DEF ServeCall

LEMMA ServeTryIInv ==
    ASSUME IInv, NEW t \in Try, ServeTry(t)
    PROVE  IInv'
<1> DEFINE subtotal == Dto.subtotal
           redeemed == tries[t].chip # NoChip /\ ~ Refused(terms, subtotal, Mine)
           discount == IF redeemed THEN Discount(terms, subtotal) ELSE 0
           row == [item |-> cart.item, redeemed |-> redeemed, subtotal |-> subtotal,
                   discount |-> discount, total |-> subtotal - discount]
<1>1. /\ cart.item # 0
      /\ orders' = Append(orders, row)
      /\ cart' = NoLine
      /\ UNCHANGED <<terms, items, calls, shown>>
  BY DEF ServeTry, DeleteCart
<1>2. /\ Price \in Nat /\ terms \in CouponTerms /\ cart \in [item : Nat, qty : Nat] /\ items \in Nat
      /\ orders \in Seq(Row) /\ cart.item <= items
  <2>1. Price \in Nat
    BY PageConstants
  <2> QED
    BY <2>1 DEF IInv, ShopType, CartType, TabType, OrdersRight, Fresh
<1>3. subtotal \in Nat
  <2>1. subtotal = Price * cart.qty
    BY DEF Dto
  <2>2. cart.qty \in Nat
    BY <1>2
  <2> HIDE DEF subtotal
  <2> QED
    BY <1>2, <2>1, <2>2
<1>4. redeemed \in BOOLEAN
  OBVIOUS
<1> HIDE DEF subtotal, redeemed
<1>5. discount \in 0 .. subtotal
  <2>1. CASE redeemed
    BY <1>2, <1>3, <2>1, DiscountFits
  <2>2. CASE ~ redeemed
    <3>1. discount = 0
      BY <2>2
    <3> QED
      BY <1>3, <3>1
  <2> QED
    BY <2>1, <2>2
<1> HIDE DEF discount
<1>6. row \in Row
  BY <1>2, <1>3, <1>4, <1>5 DEF Row
<1>7. /\ row.item = cart.item /\ row.redeemed = redeemed
      /\ row.subtotal = subtotal /\ row.discount = discount /\ row.total = subtotal - discount
  OBVIOUS
<1> HIDE DEF row
<1>8. /\ orders' \in Seq(Row) /\ Len(orders') = Len(orders) + 1 /\ Len(orders) \in Nat
      /\ orders'[Len(orders) + 1] = row
      /\ \A n \in 1 .. Len(orders) : orders'[n] = orders[n]
  BY <1>1, <1>2, <1>6
<1>9. \A n \in 1 .. Len(orders') : n \in 1 .. Len(orders) \/ n = Len(orders) + 1
  BY <1>8
<1>10. Fresh'
  <2>1. cart'.item = 0
    BY <1>1, Blank
  <2>2. \A n \in 1 .. Len(orders') : orders'[n].item # 0 /\ orders'[n].item <= items
    BY <1>1, <1>2, <1>7, <1>8, <1>9 DEF IInv, OrdersRight, Fresh
  <2> QED
    BY <1>1, <1>2, <2>1, <2>2 DEF Fresh
<1>11. TotalsAddUp'
  BY <1>5, <1>7, <1>8, <1>9 DEF IInv, OrdersRight, TotalsAddUp
<1>12. OrderedOnce'
  <2>1. \A n \in 1 .. Len(orders) : orders[n].item # row.item
    BY <1>7 DEF IInv, OrdersRight, Fresh
  <2>2. \A m, n \in 1 .. Len(orders) : orders[m].item = orders[n].item => m = n
    BY DEF IInv, OrdersRight, OrderedOnce
  <2> QED
    BY <1>8, <1>9, <2>1, <2>2 DEF OrderedOnce
<1>14. TabType'
  BY <1>1 DEF IInv, TabType
<1>15. ShopType' /\ CartType'
  BY <1>1, <1>2, Blank DEF ShopType, CartType
<1> QED
  BY <1>8, <1>10, <1>11, <1>12, <1>14, <1>15 DEF IInv, OrdersRight

LEMMA ElsewhereIInv == ASSUME IInv, Elsewhere PROVE IInv'
<1>1. PICK qty \in 1 .. Stock : cart' = [cart EXCEPT !.qty = qty]
  BY DEF Elsewhere
<1>2. qty \in Nat /\ cart \in [item : Nat, qty : Nat] /\ items \in Nat
  BY PageConstants DEF IInv, CartType
<1>3. cart' \in [item : Nat, qty : Nat] /\ cart'.item = cart.item /\ items' = items
  BY <1>1, <1>2 DEF Elsewhere
<1>4. TabType'
  BY DEF Elsewhere, IInv, TabType
<1> QED
  BY <1>2, <1>3, <1>4, CartOnly DEF Elsewhere, CartType

LEMMA AdministerIInv == ASSUME IInv, Administer PROVE IInv'
<1>1. ShopType'
  BY PageConstants DEF Administer, IInv, ShopType
<1> QED
  BY <1>1 DEF Administer, IInv, CartType, TabType, OrdersRight, Fresh, TotalsAddUp, OrderedOnce

(* The mutations of useCart.ts and the cart query.                             *)
LEMMA CallsIInv ==
    ASSUME IInv,
           (\E c \in Control : CallAnswered(c) \/ CallLost(c)) \/ Add \/ Less \/ More \/ Remove \/ Refetch
    PROVE  IInv'
<1>1. UNCHANGED <<terms, cart, items, orders>>
  BY DEF CallAnswered, CallLost, Add, Less, More, Remove, Refetch, Request, serverVars
<1>2. calls \in [Control -> Call] /\ shown \in Data
  BY DEF IInv, TabType
<1>3. ASSUME NEW c \in Control, NEW qty \in Nat, Request(c, qty) PROVE TabType'
  <2>1. calls' = [calls EXCEPT ![c] = [Idle EXCEPT !.pc = "sent", !.qty = qty,
                                         !.item = IF shown = NoCart THEN 0 ELSE shown.item]]
    BY <1>3 DEF Request
  <2>2. PICK i \in Nat : i = IF shown = NoCart THEN 0 ELSE shown.item
    BY <1>2 DEF Data
  <2>3. [Idle EXCEPT !.pc = "sent", !.qty = qty, !.item = i] \in Call
    BY Blank DEF Call
  <2>4. shown' = shown
    BY <1>3 DEF Request
  <2> QED
    BY <1>1, <1>2, <2>1, <2>2, <2>3, <2>4 DEF TabType
<1>4. ASSUME Add \/ Remove \/ Refetch PROVE TabType'
  BY <1>3, <1>4 DEF Add, Remove, Refetch, Control
<1>5. ASSUME Less \/ More PROVE TabType'
  <2>1. shown.qty \in Nat /\ (Less => shown.qty > 1)
    BY <1>2, <1>5 DEF Less, More, HasLine, Data
  <2>2. /\ Less => shown.qty - 1 \in Nat /\ Request("update", shown.qty - 1)
        /\ More => shown.qty + 1 \in Nat /\ Request("update", shown.qty + 1)
    BY <2>1 DEF Less, More
  <2>3. "update" \in Control
    BY DEF Control
  <2> QED
    BY <1>3, <1>5, <2>2, <2>3
<1>6. ASSUME \E c \in Control : CallAnswered(c) \/ CallLost(c) PROVE TabType'
  <2>1. PICK c \in Control : CallAnswered(c) \/ CallLost(c)
    BY <1>6
  <2>2. calls' \in [Control -> Call]
    BY <1>2, <2>1, Blank DEF CallAnswered, CallLost
  <2>3. shown' \in Data
    <3>1. calls[c].dto \in Data
      BY <1>2 DEF Call
    <3> QED
      BY <1>2, <2>1, <3>1 DEF CallAnswered, CallLost
  <2> QED
    BY <1>1, <1>2, <2>2, <2>3 DEF TabType
<1> QED
  BY <1>1, <1>4, <1>5, <1>6, TabOnly

(* The submissions of the form.                                                *)
LEMMA TriesIInv ==
    ASSUME IInv, NEW t \in Try, Submit(t) \/ Ordered(t) \/ NotOrdered(t) \/ Forget(t)
    PROVE  IInv'
<1>1. UNCHANGED <<terms, cart, items, orders, shown>>
  BY DEF Submit, Ordered, NotOrdered, Forget, serverVars
<1>2. calls \in [Control -> Call] /\ shown \in Data
  BY DEF IInv, TabType
<1>3. calls' \in [Control -> Call]
  <2>1. [Idle EXCEPT !.pc = "sent"] \in Call
    BY Blank DEF Call
  <2>2. calls' = calls \/ calls' = [calls EXCEPT !["get"] = [Idle EXCEPT !.pc = "sent"]]
    BY DEF Submit, Ordered, NotOrdered, Forget
  <2> QED
    BY <1>2, <2>1, <2>2
<1> QED
  BY <1>1, <1>2, <1>3, TabOnly DEF TabType

LEMMA NextIInv == IInv /\ [Next]_vars => IInv'
<1> SUFFICES ASSUME IInv, [Next]_vars PROVE IInv'
  OBVIOUS
<1>1. ASSUME NEW c \in Control, ServeCall(c) PROVE IInv'
  BY <1>1, ServeCallIInv
<1>2. ASSUME NEW t \in Try, ServeTry(t) PROVE IInv'
  BY <1>2, ServeTryIInv
<1>3. ASSUME NEW t \in Try, Submit(t) \/ Ordered(t) \/ NotOrdered(t) \/ Forget(t) PROVE IInv'
  BY <1>3, TriesIInv
<1>4. CASE Elsewhere \/ Administer
  BY <1>4, ElsewhereIInv, AdministerIInv
<1>5. CASE (\E c \in Control : CallAnswered(c) \/ CallLost(c)) \/ Add \/ Less \/ More \/ Remove \/ Refetch
  BY <1>5, CallsIInv
<1>6. CASE \/ \E p \in {"shop", "checkout"} : Go(p)
           \/ ServeQuote \/ Resolve \/ Apply \/ QuoteAnswered \/ QuoteLost \/ TakeOff \/ Poll \/ PollFails
           \/ UNCHANGED vars
  <2>1. UNCHANGED <<terms, cart, items, orders, calls, shown, tries>>
    BY <1>6 DEF Go, ServeQuote, Resolve, Apply, QuoteAnswered, QuoteLost, TakeOff, Poll, PollFails,
                serverVars, vars
  <2> QED
    BY <2>1, TabOnly DEF IInv, TabType
<1> QED
  BY <1>1, <1>2, <1>3, <1>4, <1>5, <1>6 DEF Next

--------------------------------------------------------------------------------
(* Whatever an administrator makes of the coupon while a quote is shown, an    *)
(* order's discount lies between nothing and its subtotal, for any arithmetic  *)
(* of cents.                                                                   *)
THEOREM AmountsRight == Spec => []TotalsAddUp
<1>1. IInv => TotalsAddUp
  BY DEF IInv, OrdersRight
<1> QED
  BY <1>1, InitIInv, NextIInv, PTL DEF Spec

(* However often the form is submitted and however late the submissions are    *)
(* served, no line of a cart is ordered twice.                                 *)
THEOREM NothingOrderedTwice == Spec => []OrderedOnce
<1>1. IInv => OrderedOnce
  BY DEF IInv, OrdersRight
<1> QED
  BY <1>1, InitIInv, NextIInv, PTL DEF Spec

--------------------------------------------------------------------------------
(* The bounds of what the tab knows and asks for. An answer that is on its way *)
(* names an order that there is.                                               *)
CallOk == [pc : {"idle", "sent", "served"}, item : 0 .. MaxItems, qty : 0 .. Stock, dto : CartDto \cup {NoCart}]
TryOk  == [pc : {"free", "sent", "served"}, chip : Chip, subtotal : Nat, order : 0 .. MaxOrders]

QuoteOk == [pc : {"idle", "sent", "served"}, of : Nat, late : BOOLEAN]

KnownOrders == \A t \in Try : tries[t].order <= Len(orders)
TypeInv     == TypeOK /\ KnownOrders

ShopTypes ==
    /\ terms \in Terms
    /\ cart \in [item : 0 .. MaxItems, qty : 0 .. Stock] /\ items \in 0 .. MaxItems
    /\ orders \in Seq(OrderRow) /\ Len(orders) <= MaxOrders
CallTypes == calls \in [Control -> CallOk] /\ shown \in CartDto \cup {NoCart}
PageTypes ==
    /\ page \in {"shop", "checkout", "done"} /\ chip \in Chip
    /\ quote \in QuoteOk
    /\ resolved \in BOOLEAN /\ seen \in {"NONE", "FAILED", "PENDING", "RESOLVED"}
TryTypes ==
    /\ tries \in [Try -> TryOk] /\ waiting \in Try \cup {NoTry}
    /\ viewed \in 0 .. Len(orders) /\ KnownOrders

LEMMA TypeParts == TypeInv <=> ShopTypes /\ CallTypes /\ PageTypes /\ TryTypes
  BY DEF TypeInv, TypeOK, ShopTypes, CallTypes, PageTypes, TryTypes, CallOk, TryOk, QuoteOk

LEMMA Blanks ==
    /\ Idle \in CallOk /\ [Idle EXCEPT !.pc = "sent"] \in CallOk
    /\ Free \in TryOk /\ Free.order = 0
    /\ NoLine \in [item : 0 .. MaxItems, qty : 0 .. Stock]
    /\ NoQuote \in QuoteOk /\ NoChip \in Chip /\ Outdated \in Chip
<1>1. 0 \in 0 .. MaxItems /\ 0 \in 0 .. Stock /\ 0 \in 0 .. MaxOrders
  BY PageConstants
<1>2. Idle \in CallOk
  BY <1>1 DEF Idle, CallOk
<1>3. [Idle EXCEPT !.pc = "sent"] \in CallOk
  BY <1>2 DEF CallOk
<1>4. Free \in TryOk /\ Free.order = 0
  BY <1>1 DEF Free, TryOk, Chip
<1> QED
  BY <1>1, <1>2, <1>3, <1>4 DEF NoLine, NoQuote, QuoteOk, Chip

LEMMA TypeInit == Init => TypeInv
<1> SUFFICES ASSUME Init PROVE TypeInv
  OBVIOUS
<1>1. ShopTypes
  BY Blanks, PageConstants DEF Init, ShopTypes
<1>2. CallTypes
  BY Blanks DEF Init, CallTypes
<1>3. PageTypes
  BY Blanks DEF Init, PageTypes
<1>4. TryTypes
  BY Blanks DEF Init, TryTypes, KnownOrders
<1> QED
  BY <1>1, <1>2, <1>3, <1>4, TypeParts

(* The cart that an answer shows.                                              *)
LEMMA ServeCallTypes == ASSUME TypeInv, NEW c \in Control, ServeCall(c) PROVE TypeInv'
<1>1. /\ cart \in [item : 0 .. MaxItems, qty : 0 .. Stock] /\ items \in 0 .. MaxItems
      /\ calls \in [Control -> CallOk] /\ calls[c] \in CallOk
      /\ Price \in Nat /\ MaxItems \in Nat /\ Stock \in Nat
  BY TypeParts, PageConstants DEF ShopTypes, CallTypes
<1>2. cart' \in [item : 0 .. MaxItems, qty : 0 .. Stock] /\ items' \in 0 .. MaxItems
  <2>1. Change(c)
    BY DEF ServeCall
  <2>2. CASE cart' = [cart EXCEPT !.qty = @ + 1] /\ UNCHANGED items /\ InStock(cart.qty + 1)
    BY <1>1, <2>2 DEF InStock
  <2>3. CASE items' = items + 1 /\ cart' = [item |-> items + 1, qty |-> 1] /\ InStock(1) /\ items < MaxItems
    BY <1>1, <2>3 DEF InStock
  <2>4. CASE cart' = [cart EXCEPT !.qty = calls[c].qty] /\ UNCHANGED items
    <3>1. calls[c].qty \in 0 .. Stock
      BY <1>1 DEF CallOk
    <3> QED
      BY <1>1, <2>4, <3>1
  <2>5. CASE cart' = NoLine /\ UNCHANGED items
    BY <1>1, <2>5, Blanks
  <2>6. CASE UNCHANGED <<cart, items>>
    BY <1>1, <2>6
  <2> QED
    BY <2>1, <2>2, <2>3, <2>4, <2>5, <2>6 DEF Change
<1>3. CallTypes'
  <2>1. PICK dto : dto = [item |-> cart'.item, qty |-> cart'.qty, subtotal |-> Price * cart'.qty]
    OBVIOUS
  <2>2. cart'.item \in 0 .. MaxItems /\ cart'.qty \in 0 .. Stock /\ cart'.qty \in Nat
    BY <1>1, <1>2
  <2>3. Price * cart'.qty \in Nat
    BY <1>1, <2>2
  <2>4. dto \in CartDto
    BY <2>1, <2>2, <2>3 DEF CartDto
  <2>5. PICK q : q = [calls[c] EXCEPT !.pc = "served", !.dto = dto]
    OBVIOUS
  <2>6. q \in CallOk
    BY <1>1, <2>4, <2>5 DEF CallOk
  <2>7. calls' = [calls EXCEPT ![c] = q] /\ shown' = shown
    BY <1>1, <2>1, <2>5 DEF ServeCall
  <2> QED
    BY <1>1, <2>6, <2>7, TypeParts DEF CallTypes
<1>4. /\ UNCHANGED <<terms, orders, resolved, shown, page, chip, quote, viewed, seen, tries, waiting>>
  BY DEF ServeCall, pageVars
<1>5. ShopTypes' /\ PageTypes' /\ TryTypes'
  BY <1>2, <1>4, TypeParts DEF ShopTypes, PageTypes, TryTypes, KnownOrders
<1> QED
  BY <1>3, <1>5, TypeParts, PTL

(* The order that a submission becomes.                                        *)
LEMMA ServeTryTypes == ASSUME TypeInv, NEW t \in Try, ServeTry(t) PROVE TypeInv'
<1>1. /\ cart \in [item : 0 .. MaxItems, qty : 0 .. Stock] /\ terms \in CouponTerms
      /\ tries \in [Try -> TryOk] /\ orders \in Seq(OrderRow) /\ Len(orders) \in Nat
      /\ Price \in Nat /\ MaxItems \in Nat /\ Stock \in Nat /\ MaxOrders \in Nat
  BY TypeParts, PageConstants DEF ShopTypes, TryTypes
<1>2. PICK subtotal : subtotal = Dto.subtotal
  OBVIOUS
<1>3. subtotal \in Nat
  <2>1. cart.qty \in Nat /\ Dto.subtotal = Price * cart.qty
    BY <1>1 DEF Dto
  <2> QED
    BY <1>1, <1>2, <2>1
<1>4. PICK redeemed : redeemed = (tries[t].chip # NoChip /\ ~ Refused(terms, subtotal, Mine))
  OBVIOUS
<1>5. PICK discount : discount = IF redeemed THEN Discount(terms, subtotal) ELSE 0
  OBVIOUS
<1>6. discount \in Nat /\ subtotal - discount \in Int
  <2>1. Discount(terms, subtotal) \in 0 .. subtotal
    BY <1>1, <1>3, DiscountFits
  <2>2. discount \in 0 .. subtotal
    BY <1>3, <1>5, <2>1
  <2> QED
    BY <1>3, <2>2
<1>7. PICK row : row = [item |-> cart.item, redeemed |-> redeemed, subtotal |-> subtotal,
                        discount |-> discount, total |-> subtotal - discount]
  OBVIOUS
<1>8. row \in OrderRow
  <2>1. redeemed \in BOOLEAN
    BY <1>4
  <2>2. cart.item \in 1 .. MaxItems
    BY <1>1 DEF ServeTry
  <2> QED
    BY <1>3, <1>6, <1>7, <2>1, <2>2 DEF OrderRow
<1>9. orders' = Append(orders, row) /\ Len(orders) < MaxOrders
  BY <1>2, <1>4, <1>5, <1>7 DEF ServeTry
<1>10. orders' \in Seq(OrderRow) /\ Len(orders') = Len(orders) + 1
  BY <1>1, <1>8, <1>9
<1>11. /\ cart' = NoLine
       /\ tries' = [tries EXCEPT ![t] = IF t = waiting THEN [Free EXCEPT !.pc = "served", !.order = Len(orders) + 1] ELSE Free]
       /\ UNCHANGED <<terms, items, resolved, calls, shown, page, chip, quote, viewed, seen, waiting>>
  BY DEF ServeTry, DeleteCart, pageVars
<1>12. ShopTypes'
  BY <1>1, <1>9, <1>10, <1>11, Blanks, TypeParts DEF ShopTypes
<1>13. CallTypes' /\ PageTypes'
  BY <1>11, TypeParts DEF CallTypes, PageTypes
<1>14. TryTypes'
  <2>1. PICK new : new = Len(orders) + 1
    OBVIOUS
  <2>2. new \in 0 .. MaxOrders /\ new = Len(orders')
    BY <1>1, <1>9, <1>10, <2>1
  <2>3. PICK a : a = IF t = waiting THEN [Free EXCEPT !.pc = "served", !.order = new] ELSE Free
    OBVIOUS
  <2>4. a \in TryOk /\ a.order <= Len(orders')
    <3>1. CASE t = waiting
      <4>1. a = [Free EXCEPT !.pc = "served", !.order = new] /\ Free \in TryOk
        BY <2>3, <3>1, Blanks
      <4>2. a \in TryOk /\ a.order = new
        BY <2>2, <4>1 DEF TryOk
      <4> QED
        BY <1>1, <1>10, <2>2, <4>2
    <3>2. CASE t # waiting
      <4>1. a = Free
        BY <2>3, <3>2
      <4> QED
        BY <1>1, <1>10, <4>1, Blanks
    <3> QED
      BY <3>1, <3>2
  <2>5. tries' = [tries EXCEPT ![t] = a]
    BY <1>1, <1>11, <2>1, <2>3
  <2>6. tries' \in [Try -> TryOk] /\ \A u \in Try : tries'[u] = IF u = t THEN a ELSE tries[u]
    BY <1>1, <2>4, <2>5
  <2>7. \A u \in Try : tries[u].order \in Nat /\ tries[u].order <= Len(orders)
    BY <1>1, TypeParts DEF TryTypes, KnownOrders, TryOk
  <2>8. KnownOrders'
    BY <1>1, <1>10, <2>4, <2>6, <2>7 DEF KnownOrders
  <2>9. waiting' \in Try \cup {NoTry} /\ viewed' \in 0 .. Len(orders')
    BY <1>1, <1>10, <1>11, TypeParts DEF TryTypes
  <2> QED
    BY <2>6, <2>8, <2>9 DEF TryTypes
<1> QED
  BY <1>12, <1>13, <1>14, TypeParts, PTL

(* What a button of the cart asks for.                                         *)
LEMMA RequestTypes ==
    ASSUME TypeInv, NEW c \in Control, NEW qty \in 0 .. Stock, Request(c, qty)
    PROVE  TypeInv'
<1>1. PICK i : i = IF shown = NoCart THEN 0 ELSE shown.item
  OBVIOUS
<1>2. i \in 0 .. MaxItems /\ calls \in [Control -> CallOk]
  BY <1>1, TypeParts, PageConstants DEF CallTypes, CartDto
<1>3. PICK q : q = [Idle EXCEPT !.pc = "sent", !.qty = qty, !.item = i]
  OBVIOUS
<1>4. q \in CallOk
  BY <1>2, <1>3, Blanks DEF CallOk
<1>5. calls' = [calls EXCEPT ![c] = q]
  BY <1>1, <1>3 DEF Request
<1>6. UNCHANGED <<terms, cart, items, orders, resolved, shown, page, chip, quote, viewed, seen, tries, waiting>>
  BY DEF Request, serverVars, pageVars
<1>7. ShopTypes' /\ PageTypes' /\ TryTypes' /\ CallTypes'
  BY <1>2, <1>4, <1>5, <1>6, TypeParts DEF ShopTypes, PageTypes, TryTypes, CallTypes, KnownOrders
<1> QED
  BY <1>7, TypeParts, PTL

LEMMA CallEndTypes ==
    ASSUME TypeInv, NEW c \in Control, CallAnswered(c) \/ CallLost(c)
    PROVE  TypeInv'
<1>1. calls \in [Control -> CallOk] /\ calls[c] \in CallOk /\ shown \in CartDto \cup {NoCart}
  BY TypeParts DEF CallTypes
<1>2. calls' = [calls EXCEPT ![c] = Idle] /\ shown' \in {shown, calls[c].dto} /\ chip' \in {chip, NoChip}
  BY DEF CallAnswered, CallLost, Rendered, pageVars
<1>3. calls[c].dto \in CartDto \cup {NoCart}
  BY <1>1 DEF CallOk
<1>4. CallTypes'
  BY <1>1, <1>2, <1>3, Blanks DEF CallTypes
<1>5. UNCHANGED <<terms, cart, items, orders, resolved, page, viewed, seen, tries, waiting>>
  BY DEF CallAnswered, CallLost, serverVars, pageVars
<1>6. quote' \in QuoteOk /\ chip' \in Chip
  <2>1. \E b \in BOOLEAN : quote' = [quote EXCEPT !.late = b]
    <3>1. CASE CallAnswered(c)
      BY <3>1, TypeParts DEF CallAnswered, PageTypes, QuoteOk
    <3>2. CASE CallLost(c)
      <4>1. quote' = [quote EXCEPT !.late = quote.late] /\ quote.late \in BOOLEAN
        BY <3>2, TypeParts DEF CallLost, pageVars, PageTypes, QuoteOk
      <4> QED
        BY <4>1
    <3> QED
      BY <3>1, <3>2
  <2>2. quote \in QuoteOk /\ chip \in Chip
    BY TypeParts DEF PageTypes
  <2> QED
    BY <1>2, <2>1, <2>2, Blanks DEF QuoteOk
<1>7. ShopTypes' /\ PageTypes' /\ TryTypes'
  BY <1>5, <1>6, TypeParts DEF ShopTypes, PageTypes, TryTypes, KnownOrders
<1> QED
  BY <1>4, <1>7, TypeParts, PTL

LEMMA SubmissionTypes ==
    ASSUME TypeInv, NEW t \in Try, Submit(t) \/ Ordered(t) \/ NotOrdered(t) \/ Forget(t)
    PROVE  TypeInv'
<1>1. /\ tries \in [Try -> TryOk] /\ KnownOrders /\ calls \in [Control -> CallOk]
      /\ Len(orders) \in Nat /\ waiting \in Try \cup {NoTry} /\ viewed \in 0 .. Len(orders)
  BY TypeParts DEF ShopTypes, CallTypes, TryTypes
<1>2. UNCHANGED <<terms, cart, items, orders, shown>>
  BY DEF Submit, Ordered, NotOrdered, Forget, serverVars
<1>3. PICK a : tries' = [tries EXCEPT ![t] = a] /\ a \in TryOk /\ a.order <= Len(orders)
  <2>1. CASE Submit(t)
    <3>1. chip \in Chip /\ shown.subtotal \in Nat
      <4>1. shown \in CartDto /\ chip \in Chip
        BY <2>1, TypeParts DEF Submit, CallTypes, PageTypes
      <4> QED
        BY <4>1 DEF CartDto
    <3>2. PICK a : a = [Free EXCEPT !.pc = "sent", !.chip = chip, !.subtotal = shown.subtotal]
      OBVIOUS
    <3>3. tries' = [tries EXCEPT ![t] = a]
      BY <2>1, <3>2 DEF Submit
    <3>4. a \in TryOk /\ a.order = 0
      BY <3>1, <3>2, Blanks DEF TryOk
    <3>5. a.order <= Len(orders)
      BY <1>1, <3>4
    <3> QED
      BY <3>3, <3>4, <3>5
  <2>2. CASE ~ Submit(t)
    <3>1. tries' = [tries EXCEPT ![t] = Free] \/ tries' = [tries EXCEPT ![t] = tries[t]]
      BY <2>2 DEF Ordered, NotOrdered, Forget
    <3>2. tries[t] \in TryOk /\ tries[t].order <= Len(orders) /\ Free \in TryOk /\ Free.order <= Len(orders)
      BY <1>1, Blanks DEF KnownOrders
    <3> QED
      BY <3>1, <3>2
  <2> QED
    BY <2>1, <2>2
<1>4. TryTypes'
  <2>1. waiting' \in Try \cup {NoTry}
    BY <1>1 DEF Submit, Ordered, NotOrdered, Forget
  <2>2. viewed' \in 0 .. Len(orders)
    <3>1. tries[t].order \in Nat /\ tries[t].order <= Len(orders)
      BY <1>1 DEF KnownOrders, TryOk
    <3>2. viewed' \in {viewed, tries[t].order}
      BY DEF Submit, Ordered, NotOrdered, Forget, Enter, pageVars
    <3> QED
      BY <1>1, <3>1, <3>2
  <2>3. tries' \in [Try -> TryOk] /\ KnownOrders'
    BY <1>1, <1>2, <1>3 DEF KnownOrders
  <2> QED
    BY <1>2, <2>1, <2>2, <2>3 DEF TryTypes
<1>5. CallTypes'
  <2>1. calls' = calls \/ calls' = [calls EXCEPT !["get"] = [Idle EXCEPT !.pc = "sent"]]
    BY DEF Submit, Ordered, NotOrdered, Forget
  <2>2. calls' \in [Control -> CallOk]
    BY <1>1, <2>1, Blanks
  <2> QED
    BY <1>2, <2>2, TypeParts DEF CallTypes
<1>6. PageTypes'
  <2>1. \/ UNCHANGED <<page, chip, quote, resolved, seen>>
        \/ page' = "done" /\ chip' = NoChip /\ quote' = NoQuote /\ resolved' = FALSE /\ seen' = "NONE"
    BY DEF Submit, Ordered, NotOrdered, Forget, Enter, pageVars, serverVars
  <2> QED
    BY <2>1, Blanks, TypeParts DEF PageTypes
<1>7. ShopTypes'
  BY <1>2, TypeParts DEF ShopTypes
<1> QED
  BY <1>4, <1>5, <1>6, <1>7, TypeParts, PTL

LEMMA PageStepTypes ==
    ASSUME TypeInv,
           \/ \E p \in {"shop", "checkout"} : Go(p)
           \/ ServeQuote \/ Resolve \/ Apply \/ QuoteAnswered \/ QuoteLost \/ TakeOff \/ Poll \/ PollFails
           \/ UNCHANGED vars
    PROVE  TypeInv'
<1>1. UNCHANGED <<terms, cart, items, orders, calls, shown, tries, waiting>>
  BY DEF Go, ServeQuote, Resolve, Apply, QuoteAnswered, QuoteLost, TakeOff, Poll, PollFails, serverVars, vars
<1>2. ShopTypes' /\ CallTypes'
  BY <1>1, TypeParts DEF ShopTypes, CallTypes
<1>3. viewed' \in {viewed, 0}
  BY DEF Go, ServeQuote, Resolve, Apply, QuoteAnswered, QuoteLost, TakeOff, Poll, PollFails, Enter,
         serverVars, pageVars, vars
<1>4. TryTypes'
  BY <1>1, <1>3, TypeParts DEF TryTypes, ShopTypes, KnownOrders
<1>5. PageTypes'
  <2>1. CASE \E p \in {"shop", "checkout"} : Go(p)
    BY <2>1, Blanks, TypeParts DEF Go, Enter, PageTypes
  <2>2. CASE ServeQuote \/ QuoteLost
    BY <2>2, Blanks, TypeParts DEF ServeQuote, QuoteLost, PageTypes, QuoteOk, serverVars
  <2>3. CASE Apply
    <3>1. Subtotal(shown) \in Nat
      BY TypeParts DEF Subtotal, CallTypes, CartDto
    <3>2. PICK b \in BOOLEAN : b = (shown = NoCart)
      OBVIOUS
    <3>3. quote' = [NoQuote EXCEPT !.pc = "sent", !.of = Subtotal(shown), !.late = b]
      BY <2>3, <3>2 DEF Apply
    <3>4. quote' \in QuoteOk
      BY <3>1, <3>3, Blanks DEF QuoteOk
    <3> QED
      BY <2>3, <3>4, TypeParts DEF Apply, PageTypes, serverVars
  <2>4. CASE QuoteAnswered \/ TakeOff
    <3>1. quote.of \in Chip
      BY TypeParts DEF PageTypes, QuoteOk, Chip
    <3> QED
      BY <2>4, <3>1, Blanks, TypeParts DEF QuoteAnswered, TakeOff, PageTypes, serverVars
  <2>5. CASE Resolve \/ Poll \/ PollFails
    BY <2>5, TypeParts DEF Resolve, Poll, PollFails, PageTypes, serverVars, pageVars
  <2>6. CASE UNCHANGED vars
    BY <2>6, TypeParts DEF vars, PageTypes, serverVars, pageVars
  <2> QED
    BY <2>1, <2>2, <2>3, <2>4, <2>5, <2>6
<1> QED
  BY <1>2, <1>4, <1>5, TypeParts, PTL

(* An edit of the coupon.                                                      *)
LEMMA AdministerTypes == ASSUME TypeInv, Administer PROVE TypeInv'
<1>1. /\ UNCHANGED <<cart, items, orders, resolved, calls, shown, page, viewed, seen, waiting>>
      /\ terms' \in Terms /\ chip' = Late(chip)
      /\ tries' = [t \in Try |-> [tries[t] EXCEPT !.chip = Late(tries[t].chip)]]
  BY DEF Administer
<1>2. tries \in [Try -> TryOk] /\ KnownOrders /\ \A c \in Chip : Late(c) \in Chip
  BY Blanks, TypeParts DEF TryTypes, Late
<1>3. ASSUME NEW t \in Try
      PROVE  tries'[t] \in TryOk /\ tries'[t].order = tries[t].order
  <2>1. PICK c : c = Late(tries[t].chip)
    OBVIOUS
  <2>2. c \in Chip /\ tries[t] \in TryOk
    BY <1>2, <2>1 DEF TryOk
  <2>3. tries'[t] = [tries[t] EXCEPT !.chip = c]
    BY <1>1, <2>1
  <2> QED
    BY <2>2, <2>3 DEF TryOk
<1>4. tries' \in [Try -> TryOk]
  <2>1. \A t \in Try : [tries[t] EXCEPT !.chip = Late(tries[t].chip)] \in TryOk
    BY <1>1, <1>3
  <2> QED
    BY <1>1, <2>1
<1>5. TryTypes'
  BY <1>1, <1>2, <1>3, <1>4, TypeParts DEF TryTypes, KnownOrders
<1>6. PageTypes'
  <2>1. quote \in QuoteOk /\ chip \in Chip
    BY TypeParts DEF PageTypes
  <2>2. PICK b \in BOOLEAN : quote' = [quote EXCEPT !.late = b]
    BY <2>1 DEF Administer, QuoteOk
  <2>3. quote' \in QuoteOk
    BY <2>1, <2>2 DEF QuoteOk
  <2> QED
    BY <1>1, <1>2, <2>1, <2>3, TypeParts DEF PageTypes
<1>7. ShopTypes' /\ CallTypes'
  BY <1>1, TypeParts DEF ShopTypes, CallTypes
<1> QED
  BY <1>5, <1>6, <1>7, TypeParts, PTL

LEMMA TypeNext == TypeInv /\ [Next]_vars => TypeInv'
<1> SUFFICES ASSUME TypeInv, [Next]_vars PROVE TypeInv'
  OBVIOUS
<1>1. ASSUME NEW c \in Control, ServeCall(c) \/ CallAnswered(c) \/ CallLost(c) PROVE TypeInv'
  BY <1>1, ServeCallTypes, CallEndTypes
<1>2. ASSUME NEW t \in Try, ServeTry(t) \/ Submit(t) \/ Ordered(t) \/ NotOrdered(t) \/ Forget(t) PROVE TypeInv'
  BY <1>2, ServeTryTypes, SubmissionTypes
<1>3. CASE Administer
  BY <1>3, AdministerTypes
<1>4. CASE Elsewhere
  <2>1. /\ UNCHANGED <<terms, items, orders, resolved, calls, shown, page, chip, quote, viewed, seen, tries, waiting>>
        /\ cart' \in [item : 0 .. MaxItems, qty : 0 .. Stock]
    BY <1>4, TypeParts, PageConstants DEF Elsewhere, ShopTypes, pageVars
  <2>2. ShopTypes' /\ CallTypes' /\ PageTypes' /\ TryTypes'
    BY <2>1, TypeParts DEF ShopTypes, CallTypes, PageTypes, TryTypes, KnownOrders
  <2> QED
    BY <2>2, TypeParts, PTL
<1>5. CASE Add \/ Less \/ More \/ Remove \/ Refetch
  <2>1. HasLine => shown.qty \in 0 .. Stock
    BY TypeParts DEF HasLine, CallTypes, CartDto
  <2>2. \E c \in Control, qty \in 0 .. Stock : Request(c, qty)
    <3>1. "add" \in Control /\ "update" \in Control /\ "remove" \in Control /\ "get" \in Control
      BY DEF Control
    <3>2. CASE Add
      <4>1. 1 \in 0 .. Stock
        BY <3>2, PageConstants DEF Add
      <4> QED
        BY <3>1, <3>2, <4>1 DEF Add
    <3>3. CASE Remove \/ Refetch
      <4>1. 0 \in 0 .. Stock
        BY PageConstants
      <4> QED
        BY <3>1, <3>3, <4>1 DEF Remove, Refetch
    <3>4. CASE Less
      <4>1. shown.qty - 1 \in 0 .. Stock
        BY <2>1, <3>4, PageConstants DEF Less
      <4> QED
        BY <3>1, <3>4, <4>1 DEF Less
    <3>5. CASE More
      <4>1. shown.qty + 1 \in 0 .. Stock
        BY <2>1, <3>5, PageConstants DEF More
      <4> QED
        BY <3>1, <3>5, <4>1 DEF More
    <3> QED
      BY <1>5, <3>2, <3>3, <3>4, <3>5
  <2> QED
    BY <2>2, RequestTypes
<1>6. CASE \/ \E p \in {"shop", "checkout"} : Go(p)
           \/ ServeQuote \/ Resolve \/ Apply \/ QuoteAnswered \/ QuoteLost \/ TakeOff \/ Poll \/ PollFails
           \/ UNCHANGED vars
  BY <1>6, PageStepTypes
<1> QED
  BY <1>1, <1>2, <1>3, <1>4, <1>5, <1>6 DEF Next

(* No button asks for more than the shelf has, no cache shows a line that      *)
(* never was, and no answer leads to the page of an order that is not there    *)
(* (useCart.ts, useCheckout.ts, OrderSuccess.tsx).                             *)
THEOREM PageTypeCorrect == Spec => []TypeOK
<1>1. TypeInv => TypeOK
  BY DEF TypeInv
<1> QED
  BY <1>1, TypeInit, TypeNext, PTL DEF Spec

--------------------------------------------------------------------------------
(* What is quoted and still counts was quoted for the cart on the page, and a  *)
(* submission took both along.                                                 *)
QuoteFits == quote.pc # "idle" /\ ~ quote.late => shown # NoCart /\ quote.of = shown.subtotal
ChipFits  == chip \in Nat => shown # NoCart /\ chip = shown.subtotal
TriesFit  == \A t \in Try : tries[t].chip \in Nat => tries[t].chip = tries[t].subtotal
AnswersFull == \A c \in Control : calls[c].pc = "served" => calls[c].dto # NoCart

UpToDate == QuoteFits /\ ChipFits /\ TriesFit /\ AnswersFull

LEMMA Markers == NoChip \notin Nat /\ Outdated \notin Nat /\ NoChip # Outdated
  BY PageConstants

LEMMA UpToDateInit == Init => UpToDate
<1> SUFFICES ASSUME Init PROVE UpToDate
  OBVIOUS
<1>1. QuoteFits /\ ChipFits /\ TriesFit
  BY Markers DEF Init, NoQuote, Free, QuoteFits, ChipFits, TriesFit
<1>2. AnswersFull
  BY DEF Init, Idle, AnswersFull
<1> QED
  BY <1>1, <1>2 DEF UpToDate

(* Answers of the server, and cart data in the tab.                            *)
LEMMA CallsUpToDate ==
    ASSUME TypeInv, UpToDate, NEW c \in Control, ServeCall(c) \/ CallAnswered(c) \/ CallLost(c)
    PROVE  UpToDate'
<1>1. calls \in [Control -> CallOk] /\ quote \in QuoteOk /\ chip \in Chip
  BY TypeParts DEF CallTypes, PageTypes
<1>2. UNCHANGED tries
  BY DEF ServeCall, CallAnswered, CallLost
<1>3. CASE ServeCall(c)
  <2>1. PICK dto : dto = [item |-> cart'.item, qty |-> cart'.qty, subtotal |-> Price * cart'.qty]
    OBVIOUS
  <2>2. dto # NoCart
    <3>1. cart' \in [item : 0 .. MaxItems, qty : 0 .. Stock]
      <4>1. TypeInv'
        BY <1>3, ServeCallTypes
      <4>2. ShopTypes'
        BY <4>1, TypeParts, PTL
      <4> QED
        BY <4>2 DEF ShopTypes
    <3>2. Price * cart'.qty \in Nat
      <4>1. Price \in Nat /\ cart'.qty \in Nat
        BY <3>1, PageConstants
      <4> QED
        BY <4>1
    <3>3. dto \in [item : Nat, qty : Nat, subtotal : Nat]
      BY <2>1, <3>1, <3>2
    <3> QED
      BY <3>3, PageConstants
  <2>3. calls' = [calls EXCEPT ![c].pc = "served", ![c].dto = dto]
    BY <1>3, <2>1 DEF ServeCall
  <2>4. calls[c] \in CallOk
    BY <1>1
  <2>5. AnswersFull'
    BY <1>1, <2>2, <2>3, <2>4 DEF AnswersFull, UpToDate, CallOk
  <2>6. UNCHANGED <<shown, quote, chip>>
    BY <1>3 DEF ServeCall, pageVars
  <2> QED
    BY <1>2, <2>5, <2>6 DEF UpToDate, QuoteFits, ChipFits, TriesFit
<1>4. CASE CallLost(c)
  <2>1. UNCHANGED <<shown, quote, chip>> /\ calls' = [calls EXCEPT ![c] = Idle]
    BY <1>4 DEF CallLost, pageVars
  <2>2. AnswersFull'
    BY <1>1, <2>1 DEF AnswersFull, UpToDate, Idle
  <2> QED
    BY <1>2, <2>1, <2>2 DEF UpToDate, QuoteFits, ChipFits, TriesFit
<1>5. CASE CallAnswered(c)
  <2>1. /\ shown' = calls[c].dto /\ chip' = Rendered(calls[c].dto) /\ calls' = [calls EXCEPT ![c] = Idle]
        /\ calls[c].pc = "served"
        /\ quote' = [quote EXCEPT !.late = quote.late \/ (quote.pc # "idle" /\ calls[c].dto.subtotal # quote.of)]
    BY <1>5 DEF CallAnswered
  <2>2. shown' # NoCart
    BY <2>1 DEF UpToDate, AnswersFull
  <2>3. AnswersFull'
    BY <1>1, <2>1 DEF AnswersFull, UpToDate, Idle
  <2>4. ChipFits'
    BY <2>1, <2>2, Markers DEF Rendered, UpToDate, ChipFits
  <2>5. QuoteFits'
    <3>1. PICK b \in BOOLEAN : b = (quote.late \/ (quote.pc # "idle" /\ calls[c].dto.subtotal # quote.of))
      OBVIOUS
    <3>2. quote' = [quote EXCEPT !.late = b]
      BY <2>1, <3>1
    <3>3. quote'.pc = quote.pc /\ quote'.of = quote.of /\ quote'.late = b
      BY <1>1, <3>2 DEF QuoteOk
    <3> QED
      BY <2>1, <2>2, <3>1, <3>3 DEF QuoteFits
  <2> QED
    BY <1>2, <2>3, <2>4, <2>5 DEF UpToDate, TriesFit
<1> QED
  BY <1>3, <1>4, <1>5

(* The submissions of the form, and the orders they become.                    *)
LEMMA TriesUpToDate ==
    ASSUME TypeInv, UpToDate, NEW t \in Try,
           ServeTry(t) \/ Submit(t) \/ Ordered(t) \/ NotOrdered(t) \/ Forget(t)
    PROVE  UpToDate'
<1>1. tries \in [Try -> TryOk] /\ calls \in [Control -> CallOk]
  BY TypeParts DEF TryTypes, CallTypes
<1>2. TriesFit'
  <2>1. CASE Submit(t)
    <3>1. tries' = [tries EXCEPT ![t] = [Free EXCEPT !.pc = "sent", !.chip = chip, !.subtotal = shown.subtotal]]
      BY <2>1 DEF Submit
    <3>2. tries'[t].chip = chip /\ tries'[t].subtotal = shown.subtotal
      BY <1>1, <3>1 DEF Free
    <3>3. \A u \in Try : u # t => tries'[u] = tries[u]
      BY <1>1, <3>1
    <3> QED
      BY <3>2, <3>3 DEF UpToDate, TriesFit, ChipFits
  <2>2. CASE ~ Submit(t)
    <3>1. \A u \in Try : tries'[u] = tries[u] \/ tries'[u].chip = NoChip
      <4>1. CASE ServeTry(t)
        <5>1. PICK n : n = Len(orders) + 1
          OBVIOUS
        <5>2. tries' = [tries EXCEPT ![t] = IF t = waiting THEN [Free EXCEPT !.pc = "served", !.order = n] ELSE Free]
          BY <4>1, <5>1 DEF ServeTry
        <5> QED
          BY <1>1, <5>2 DEF Free
      <4>2. CASE Ordered(t) \/ NotOrdered(t) \/ Forget(t)
        BY <1>1, <4>2 DEF Ordered, NotOrdered, Forget, Free
      <4> QED
        BY <2>2, <4>1, <4>2
    <3> QED
      BY <3>1, Markers DEF UpToDate, TriesFit
  <2> QED
    BY <2>1, <2>2
<1>3. shown' = shown /\ (UNCHANGED <<chip, quote>> \/ (chip' = NoChip /\ quote' = NoQuote))
  BY DEF ServeTry, Submit, Ordered, NotOrdered, Forget, Enter, pageVars
<1>4. QuoteFits' /\ ChipFits'
  BY <1>3, Markers DEF UpToDate, QuoteFits, ChipFits, NoQuote
<1>5. AnswersFull'
  <2>1. calls' = calls \/ calls' = [calls EXCEPT !["get"] = [Idle EXCEPT !.pc = "sent"]]
    BY DEF ServeTry, Submit, Ordered, NotOrdered, Forget
  <2>2. \A c \in Control : calls'[c] = calls[c] \/ calls'[c].pc = "sent"
    BY <1>1, <2>1 DEF Idle
  <2> QED
    BY <2>2 DEF UpToDate, AnswersFull
<1> QED
  BY <1>2, <1>4, <1>5 DEF UpToDate

(* The coupon: asked for, answered, taken off, or edited by an administrator.  *)
LEMMA CouponUpToDate ==
    ASSUME TypeInv, UpToDate,
           \/ \E p \in {"shop", "checkout"} : Go(p)
           \/ ServeQuote \/ Apply \/ QuoteAnswered \/ QuoteLost \/ TakeOff \/ Administer
    PROVE  UpToDate'
<1>1. UNCHANGED <<shown, calls>> /\ quote \in QuoteOk /\ tries \in [Try -> TryOk]
  BY TypeParts DEF PageTypes, TryTypes, Go, ServeQuote, Apply, QuoteAnswered, QuoteLost, TakeOff, Administer, serverVars
<1>2. AnswersFull'
  BY <1>1 DEF UpToDate, AnswersFull
<1>3. TriesFit'
  <2>1. CASE Administer
    <3>1. tries' = [t \in Try |-> [tries[t] EXCEPT !.chip = Late(tries[t].chip)]]
      BY <2>1 DEF Administer
    <3>2. \A c : Late(c) \notin Nat
      BY Markers DEF Late
    <3>3. ASSUME NEW t \in Try PROVE tries'[t].chip \notin Nat
      <4>1. PICK c : c = Late(tries[t].chip)
        OBVIOUS
      <4>2. tries[t] \in TryOk /\ tries'[t] = [tries[t] EXCEPT !.chip = c]
        BY <1>1, <3>1, <4>1
      <4>3. tries'[t].chip = c
        BY <4>2 DEF TryOk
      <4> QED
        BY <3>2, <4>1, <4>3
    <3> QED
      BY <3>3 DEF TriesFit
  <2>2. CASE ~ Administer
    <3>1. UNCHANGED tries
      BY <2>2 DEF Go, ServeQuote, Apply, QuoteAnswered, QuoteLost, TakeOff
    <3> QED
      BY <3>1 DEF UpToDate, TriesFit
  <2> QED
    BY <2>1, <2>2
<1>4. QuoteFits'
  <2>1. CASE Apply
    <3>1. PICK b : b = (shown = NoCart)
      OBVIOUS
    <3>2. quote' = [NoQuote EXCEPT !.pc = "sent", !.of = Subtotal(shown), !.late = b]
      BY <2>1, <3>1 DEF Apply
    <3>3. quote'.late = b /\ quote'.of = Subtotal(shown)
      BY <3>2 DEF NoQuote
    <3> QED
      BY <1>1, <3>1, <3>3 DEF QuoteFits, Subtotal
  <2>2. CASE ServeQuote \/ Administer
    <3>1. /\ quote'.of = quote.of /\ (quote.late => quote'.late)
          /\ quote.pc = "idle" => quote'.pc = "idle"
      <4>1. CASE ServeQuote
        BY <1>1, <4>1 DEF ServeQuote, QuoteOk
      <4>2. CASE Administer
        <5>1. PICK b : b = (quote.late \/ quote.pc = "served")
          OBVIOUS
        <5>2. quote' = [quote EXCEPT !.late = b]
          BY <4>2, <5>1 DEF Administer
        <5>3. quote'.of = quote.of /\ quote'.pc = quote.pc /\ quote'.late = b
          BY <1>1, <5>2 DEF QuoteOk
        <5> QED
          BY <5>1, <5>3
      <4> QED
        BY <2>2, <4>1, <4>2
    <3> QED
      BY <1>1, <3>1 DEF UpToDate, QuoteFits
  <2>3. CASE QuoteAnswered \/ QuoteLost \/ \E p \in {"shop", "checkout"} : Go(p)
    BY <2>3 DEF QuoteFits, QuoteAnswered, QuoteLost, Go, Enter, NoQuote
  <2>4. CASE TakeOff
    BY <1>1, <2>4 DEF TakeOff, UpToDate, QuoteFits
  <2> QED
    BY <2>1, <2>2, <2>3, <2>4
<1>5. ChipFits'
  <2>1. CASE QuoteAnswered
    BY <1>1, <2>1, Markers DEF QuoteAnswered, UpToDate, QuoteFits, ChipFits
  <2>2. CASE Apply \/ ServeQuote \/ QuoteLost
    BY <1>1, <2>2 DEF Apply, ServeQuote, QuoteLost, UpToDate, ChipFits
  <2>3. CASE TakeOff \/ Administer \/ \E p \in {"shop", "checkout"} : Go(p)
    <3>1. chip' \in {NoChip, Outdated}
      BY <2>3 DEF TakeOff, Administer, Late, Go, Enter
    <3> QED
      BY <3>1, Markers DEF ChipFits
  <2> QED
    BY <2>1, <2>2, <2>3
<1> QED
  BY <1>2, <1>3, <1>4, <1>5 DEF UpToDate

LEMMA UpToDateNext == TypeInv /\ UpToDate /\ [Next]_vars => UpToDate'
<1> SUFFICES ASSUME TypeInv, UpToDate, [Next]_vars PROVE UpToDate'
  OBVIOUS
<1>1. ASSUME NEW c \in Control, ServeCall(c) \/ CallAnswered(c) \/ CallLost(c) PROVE UpToDate'
  BY <1>1, CallsUpToDate
<1>2. ASSUME NEW t \in Try, ServeTry(t) \/ Submit(t) \/ Ordered(t) \/ NotOrdered(t) \/ Forget(t) PROVE UpToDate'
  BY <1>2, TriesUpToDate
<1>3. CASE \/ \E p \in {"shop", "checkout"} : Go(p)
           \/ ServeQuote \/ Apply \/ QuoteAnswered \/ QuoteLost \/ TakeOff \/ Administer
  BY <1>3, CouponUpToDate
<1>4. CASE Add \/ Less \/ More \/ Remove \/ Refetch
  <2>1. PICK c \in Control : \E qty : Request(c, qty)
    BY <1>4 DEF Add, Less, More, Remove, Refetch, Control
  <2>2. PICK qty : Request(c, qty)
    BY <2>1
  <2>3. calls \in [Control -> CallOk]
    BY TypeParts DEF CallTypes
  <2>4. \A d \in Control : calls'[d] = calls[d] \/ calls'[d].pc = "sent"
    BY <2>2, <2>3 DEF Request, Idle
  <2>5. UNCHANGED <<shown, chip, quote, tries>>
    BY <2>2 DEF Request, pageVars
  <2> QED
    BY <2>4, <2>5 DEF UpToDate, QuoteFits, ChipFits, TriesFit, AnswersFull
<1>5. CASE Resolve \/ Elsewhere \/ Poll \/ PollFails \/ UNCHANGED vars
  <2>1. UNCHANGED <<shown, calls, chip, quote, tries>>
    BY <1>5 DEF Resolve, Elsewhere, Poll, PollFails, serverVars, pageVars, vars
  <2> QED
    BY <2>1 DEF UpToDate, QuoteFits, ChipFits, TriesFit, AnswersFull
<1> QED
  BY <1>1, <1>2, <1>3, <1>4, <1>5 DEF Next

(* A submission that was quoted for the cart the server finds is an order at   *)
(* the price that was shown, or none.                                          *)
LEMMA ServedAsShown ==
    ASSUME TypeInv, UpToDate, NEW t \in Try, ServeTry(t),
           Dto.subtotal = tries[t].subtotal, tries[t].chip # Outdated
    PROVE  orders'[Len(orders')].total = tries[t].subtotal - Off(tries[t].chip)
<1>1. PICK subtotal : subtotal = Dto.subtotal
  OBVIOUS
<1>2. PICK redeemed : redeemed = (tries[t].chip # NoChip /\ ~ Refused(terms, subtotal, Mine))
  OBVIOUS
<1>3. PICK discount : discount = IF redeemed THEN Discount(terms, subtotal) ELSE 0
  OBVIOUS
<1>4. PICK row : row = [item |-> cart.item, redeemed |-> redeemed, subtotal |-> subtotal,
                        discount |-> discount, total |-> subtotal - discount]
  OBVIOUS
<1>5. orders' = Append(orders, row) /\ CouponHolds(t)
  BY <1>1, <1>2, <1>3, <1>4 DEF ServeTry
<1>6. orders \in Seq(OrderRow)
  BY TypeParts DEF ShopTypes
<1>7. orders'[Len(orders')] = row
  <2>1. Len(orders') = Len(orders) + 1 /\ orders'[Len(orders) + 1] = row
    BY <1>5, <1>6
  <2> QED
    BY <2>1
<1>8. row.total = subtotal - discount
  BY <1>4
<1>9. discount = Off(tries[t].chip)
  <2>1. CASE tries[t].chip = NoChip
    BY <1>2, <1>3, <2>1 DEF Off
  <2>2. CASE tries[t].chip # NoChip
    <3>1. tries[t].chip \in Nat
      BY <2>2, TypeParts DEF TryTypes, TryOk, Chip
    <3>2. tries[t].chip = subtotal
      BY <1>1, <3>1 DEF UpToDate, TriesFit
    <3>3. redeemed
      BY <1>1, <1>2, <1>5, <2>2 DEF CouponHolds
    <3> QED
      BY <1>3, <2>2, <3>2, <3>3 DEF Off
  <2> QED
    BY <2>1, <2>2
<1> QED
  BY <1>1, <1>7, <1>8, <1>9

(* What is charged is what was shown at the submission, whatever answers came  *)
(* late, unless the coupon or the cart was edited or a quote was overtaken by  *)
(* cart data (Checkout.tsx:59-70, checkoutService.ts:105-132).                 *)
THEOREM PriceAsShown == Spec => ChargedAsShown
<1>1. TypeInv /\ UpToDate /\ [Next]_vars =>
        [\A t \in Try :
            ServeTry(t) /\ Dto.subtotal = tries[t].subtotal /\ tries[t].chip # Outdated
                => orders'[Len(orders')].total = tries[t].subtotal - Off(tries[t].chip)]_vars
  BY ServedAsShown
<1> QED
  BY <1>1, TypeInit, TypeNext, UpToDateInit, UpToDateNext, PTL DEF Spec, ChargedAsShown
================================================================================
