------------------------------- MODULE CartsProofs -----------------------------
(*******************************************************************************)
(* Theorems of Carts, for any SKUs, members, sessions, rows, requests and      *)
(* shelves: types, one cart per owner, no cart beyond the shelf, no lost add,  *)
(* and no unit that nobody asked for.                                          *)
(*******************************************************************************)
EXTENDS Carts, TLAPS

--------------------------------------------------------------------------------
(* What a request in flight knows still holds: the rows it names are gone or   *)
(* its own (a row's id is never used again), and what it has judged against    *)
(* the shelf is no more than the shelf has ever held.                          *)

Knows(q) ==
    /\ q.pc # "idle" => q.owner \in Owner
    /\ q.op = "merge" => q.owner \in Member /\ q.sid \in Session
    /\ q.op \in {"add", "set", "remove"} => q.sku \in Sku
    /\ q.pc = "add" => q.op = "add" /\ q.cart \in Cart
    /\ q.pc \in {"load", "write", "lost"} => q.op \in {"set", "remove"} /\ q.cart \in Cart
    /\ q.pc \in {"guest", "sum", "merge", "drop"} => q.op = "merge"
    /\ q.pc = "write" /\ q.op = "set" => q.qty <= MaxStock
    /\ \A s \in Sku : q.cap[s] <= MaxStock /\ (q.pc = "merge" => q.grant[s] <= MaxStock)

Names(q) ==
    /\ Exists(q.cart)  => carts[q.cart].owner = q.owner
    /\ Exists(q.guest) => carts[q.guest].owner = q.sid

RequestsOK == \A r \in Request : Knows(rq[r]) /\ Names(rq[r])

IInv == CartsTypeOK /\ RequestsOK /\ OneCartPerOwner /\ WithinStock /\ AddsAreSums

--------------------------------------------------------------------------------
Row == [owner : Owner \cup {NoOwner}, items : [Sku -> Nat], age : 0 .. 2]

LEMMA Resting ==
    /\ Zero \in [Sku -> Nat] /\ NoRow \in Row /\ NoRow.owner = NoOwner /\ NoRow.items = Zero
    /\ Rest \in Handlers /\ Knows(Rest) /\ ~ Exists(NoCart)
    /\ Rest.cart = NoCart /\ Rest.guest = NoCart /\ Rest.grant = Zero /\ Rest.cap = Zero /\ Rest.op = "get"
<1>1. Zero \in [Sku -> Nat]
  BY DEF Zero
<1>2. NoRow \in Row /\ NoRow.owner = NoOwner /\ NoRow.items = Zero
  BY <1>1 DEF NoRow, Row
<1>3. Rest \in Handlers
  BY <1>1 DEF Rest, Handlers
<1>4. ~ Exists(NoCart)
  BY CartConstants DEF Exists
<1>5. /\ Rest.pc = "idle" /\ Rest.op = "get" /\ Rest.cart = NoCart /\ Rest.guest = NoCart
      /\ Rest.grant = Zero /\ Rest.cap = Zero
  BY DEF Rest
<1>6. \A s \in Sku : Zero[s] = 0 /\ 0 <= MaxStock
  BY CartConstants DEF Zero
<1>7. Knows(Rest)
  BY <1>5, <1>6 DEF Knows
<1> QED
  BY <1>1, <1>2, <1>3, <1>4, <1>5, <1>7

LEMMA RestNames == ASSUME NEW q, q.cart = NoCart, q.guest = NoCart PROVE Names(q)
  BY Resting DEF Names

LEMMA LostKnows ==
    ASSUME NEW q \in Handlers, Knows(q), q.pc = "write"
    PROVE  [q EXCEPT !.pc = "lost"] \in Handlers /\ Knows([q EXCEPT !.pc = "lost"])
<1>1. PICK p : p = [q EXCEPT !.pc = "lost"]
  OBVIOUS
<1>2. /\ p \in Handlers
      /\ p.pc = "lost" /\ p.op = q.op /\ p.owner = q.owner /\ p.sid = q.sid /\ p.sku = q.sku
      /\ p.cart = q.cart /\ p.cap = q.cap /\ p.grant = q.grant
  BY <1>1 DEF Handlers
<1> QED
  BY <1>1, <1>2 DEF Knows

(* Types and what a request knows, in terms of the invariant.                  *)
LEMMA RequestFacts ==
    ASSUME IInv, NEW r \in Request
    PROVE  rq[r] \in Handlers /\ Knows(rq[r]) /\ Names(rq[r])
  BY DEF IInv, CartsTypeOK, RequestsOK

(* A step of one request that writes no cart.                                  *)
LEMMA QuietStep ==
    ASSUME IInv, NEW r \in Request, NEW q \in Handlers, Knows(q), Names(q),
           rq' = [rq EXCEPT ![r] = q], UNCHANGED <<carts, added, plain>>,
           shelf' \in [Sku -> Shelves], cookie' \in Session \cup {NoSession}, cookieAge' \in 0 .. 2
    PROVE  IInv'
<1>1. rq' \in [Request -> Handlers] /\ \A p \in Request : rq'[p] = IF p = r THEN q ELSE rq[p]
  BY DEF IInv, CartsTypeOK
<1>2. CartsTypeOK'
  BY <1>1 DEF IInv, CartsTypeOK
<1>3. RequestsOK'
  BY <1>1 DEF IInv, RequestsOK, Names, Exists
<1>4. OneCartPerOwner' /\ WithinStock' /\ AddsAreSums'
  BY DEF IInv, OneCartPerOwner, WithinStock, AddsAreSums, Exists, CartsOf
<1> QED
  BY <1>2, <1>3, <1>4 DEF IInv

(* The requests after a step that writes carts: a row that a request names     *)
(* changes hands only by disappearing.                                         *)
Answered(p) ==
    \/ rq'[p] = Rest
    \/ rq'[p] = rq[p]
    \/ rq[p].pc = "write" /\ rq'[p] = [rq[p] EXCEPT !.pc = "lost"]

LEMMA RequestsStep ==
    ASSUME IInv, \A p \in Request : Answered(p) \/ (rq'[p] \in Handlers /\ Knows(rq'[p]) /\ Names(rq[p])'),
           \A c \in Cart : (carts'[c].owner # NoOwner /\ ~ Unused(c)) => carts'[c].owner = carts[c].owner,
           rq' = [p \in Request |-> rq'[p]]
    PROVE  rq' \in [Request -> Handlers] /\ RequestsOK'
<1>1. ASSUME NEW p \in Request
      PROVE  rq'[p] \in Handlers /\ Knows(rq'[p]) /\ Names(rq[p])'
  <2>1. rq[p] \in Handlers /\ Knows(rq[p]) /\ Names(rq[p])
    BY RequestFacts
  <2>2. CASE Answered(p)
    <3>1. rq'[p] \in Handlers /\ Knows(rq'[p])
      BY <2>1, <2>2, Resting, LostKnows DEF Answered
    <3>2. \/ rq'[p].cart = NoCart /\ rq'[p].guest = NoCart
          \/ /\ rq'[p].cart = rq[p].cart /\ rq'[p].guest = rq[p].guest
             /\ rq'[p].owner = rq[p].owner /\ rq'[p].sid = rq[p].sid
      BY <2>1, <2>2, Resting DEF Answered, Handlers
    <3>3. ~ Unused(rq[p].cart) /\ ~ Unused(rq[p].guest)
      BY DEF Unused
    <3>4. Names(rq[p])'
      BY <2>1, <3>2, <3>3, CartConstants DEF Names, Exists
    <3> QED
      BY <3>1, <3>4
  <2> QED
    BY <1>1, <2>2
<1> QED
  BY <1>1 DEF RequestsOK

(* Carts that nothing but adds has written, and that a step leaves alone.      *)
LEMMA SumsKept ==
    ASSUME IInv, plain' \subseteq plain,
           \A o \in plain' : added'[o] = added[o],
           \A c \in Cart : \/ carts'[c].owner = carts[c].owner /\ carts'[c].items = carts[c].items
                           \/ {carts[c].owner, carts'[c].owner} \cap plain' = {}
    PROVE  AddsAreSums'
<1>1. ASSUME NEW o \in plain'
      PROVE  (\A c \in CartsOf(o)' : carts'[c].items = added'[o]) /\ (CartsOf(o)' = {} => added'[o] = Zero)
  <2>1. o \in plain /\ added'[o] = added[o]
    BY <1>1
  <2>2. CartsOf(o)' = CartsOf(o) /\ \A c \in CartsOf(o) : carts'[c].items = carts[c].items
    BY <1>1 DEF CartsOf
  <2>3. (\A c \in CartsOf(o) : carts[c].items = added[o]) /\ (CartsOf(o) = {} => added[o] = Zero)
    BY <2>1 DEF IInv, AddsAreSums
  <2> QED
    BY <2>1, <2>2, <2>3
<1> QED
  BY <1>1 DEF AddsAreSums

LEMMA CookieSet ==
    ASSUME IInv, NEW q, NEW wrote, SetCookie(q, wrote)
    PROVE  cookie' \in Session \cup {NoSession} /\ cookieAge' \in 0 .. 2
  BY DEF SetCookie, IInv, CartsTypeOK

LEMMA CookieCleared ==
    ASSUME IInv, ClearCookie
    PROVE  cookie' \in Session \cup {NoSession} /\ cookieAge' \in 0 .. 2
  BY DEF ClearCookie, IInv, CartsTypeOK

LEMMA FailStep == ASSUME IInv, NEW r \in Request, Fail(r), UNCHANGED shelf PROVE IInv'
<1>1. shelf' \in [Sku -> Shelves]
  BY DEF IInv, CartsTypeOK
<1>2. rq' = [rq EXCEPT ![r] = Rest] /\ UNCHANGED <<carts, added, plain>> /\ SetCookie(rq[r], FALSE)
  BY DEF Fail
<1> QED
  BY <1>1, <1>2, CookieSet, Resting, RestNames, QuietStep

LEMMA MergeFailsStep == ASSUME IInv, NEW r \in Request, MergeFails(r), UNCHANGED shelf PROVE IInv'
<1>1. shelf' \in [Sku -> Shelves]
  BY DEF IInv, CartsTypeOK
<1>2. rq' = [rq EXCEPT ![r] = Rest] /\ UNCHANGED <<carts, added, plain>> /\ ClearCookie
  BY DEF MergeFails
<1> QED
  BY <1>1, <1>2, CookieCleared, Resting, RestNames, QuietStep

--------------------------------------------------------------------------------
(* Requests arrive and find their cart.                                        *)

LEMMA AskFacts ==
    ASSUME IInv, NEW o \in Owner, NEW op \in {"get", "add", "set", "remove"}, NEW n \in Nat,
           NEW s, IF op = "get" THEN s = NoSku ELSE s \in Sku
    PROVE  LET q == Ask(o, op, s, n)
           IN  q \in Handlers /\ q.cart = NoCart /\ q.guest = NoCart /\ q.pc = "find" /\ Knows(q)
<1> DEFINE q == Ask(o, op, s, n)
<1>1. PICK sid : sid = IF o \in Session THEN cookie ELSE NoSession
  OBVIOUS
<1>2. q = [Rest EXCEPT !.pc = "find", !.op = op, !.owner = o, !.sku = s, !.qty = n, !.sid = sid]
  BY <1>1 DEF Ask
<1> HIDE DEF q
<1>3. sid \in Session \cup {NoSession} /\ s \in Sku \cup {NoSku}
  BY <1>1 DEF IInv, CartsTypeOK
<1>4. q \in Handlers /\ q.cap = Rest.cap /\ q.op = op /\ q.sku = s /\ q.pc = "find" /\ q.owner = o
  BY <1>2, <1>3, Resting DEF Handlers
<1>5. q.cart = NoCart /\ q.guest = NoCart /\ q.cap = Zero
  BY <1>2, <1>4, Resting DEF Handlers
<1>6. \A t \in Sku : Zero[t] <= MaxStock
  BY CartConstants DEF Zero
<1>7. Knows(q)
  BY <1>4, <1>5, <1>6 DEF Knows
<1> QED
  BY <1>4, <1>5, <1>7 DEF q

LEMMA AsksFacts ==
    ASSUME IInv, NEW o \in Owner, NEW q \in Asks(o)
    PROVE  q \in Handlers /\ q.cart = NoCart /\ q.guest = NoCart /\ q.pc = "find" /\ Knows(q)
<1>1. \/ q = Ask(o, "get", NoSku, 0)
      \/ \E s \in Sku, op \in {"add", "set", "remove"}, n \in Nat : q = Ask(o, op, s, n)
  BY CartConstants DEF Asks
<1>2. CASE q = Ask(o, "get", NoSku, 0)
  BY <1>2, AskFacts
<1>3. ASSUME NEW s \in Sku, NEW op \in {"add", "set", "remove"}, NEW n \in Nat, q = Ask(o, op, s, n)
      PROVE  q \in Handlers /\ q.cart = NoCart /\ q.guest = NoCart /\ q.pc = "find" /\ Knows(q)
  <2>1. op \in {"get", "add", "set", "remove"} /\ op # "get"
    OBVIOUS
  <2> QED
    BY <1>3, <2>1, AskFacts
<1> QED
  BY <1>1, <1>2, <1>3

LEMMA VisitStep == ASSUME IInv, NEW r \in Request, NEW o \in Owner, Visit(r, o) PROVE IInv'
<1>1. PICK q \in Asks(o) : rq' = [rq EXCEPT ![r] = q]
  BY DEF Visit
<1>2. q \in Handlers /\ Knows(q) /\ Names(q)
  BY AsksFacts, RestNames
<1>3. UNCHANGED <<carts, shelf, cookie, cookieAge, added, plain>>
  BY DEF Visit
<1>4. shelf' \in [Sku -> Shelves] /\ cookie' \in Session \cup {NoSession} /\ cookieAge' \in 0 .. 2
  BY <1>3 DEF IInv, CartsTypeOK
<1> QED
  BY <1>1, <1>2, <1>3, <1>4, QuietStep

LEMMA LoginStep == ASSUME IInv, NEW r \in Request, NEW m \in Member, Login(r, m) PROVE IInv'
<1>1. UNCHANGED <<carts, shelf, cookie, cookieAge, added, plain>> /\ cookie # NoSession
  BY DEF Login
<1>2. PICK q : q = [Rest EXCEPT !.pc = "guest", !.op = "merge", !.owner = m, !.sid = cookie]
  OBVIOUS
<1>3. rq' = [rq EXCEPT ![r] = q]
  BY <1>2 DEF Login
<1>4. cookie \in Session /\ m \in Owner
  BY <1>1 DEF IInv, CartsTypeOK, Owner
<1>5. /\ q \in Handlers /\ q.cart = NoCart /\ q.guest = NoCart /\ q.cap = Zero
      /\ q.op = "merge" /\ q.pc = "guest" /\ q.owner = m /\ q.sid = cookie
  BY <1>2, <1>4, Resting DEF Handlers
<1>6. \A s \in Sku : q.cap[s] <= MaxStock
  BY <1>5, CartConstants DEF Zero
<1>7. Knows(q) /\ Names(q)
  BY <1>4, <1>5, <1>6, RestNames DEF Knows
<1>8. shelf' \in [Sku -> Shelves] /\ cookie' \in Session \cup {NoSession} /\ cookieAge' \in 0 .. 2
  BY <1>1 DEF IInv, CartsTypeOK
<1> QED
  BY <1>1, <1>3, <1>5, <1>7, <1>8, QuietStep

(* What a request is once it has its cart c.                                   *)
LEMMA ThenHas ==
    ASSUME IInv, NEW r \in Request, NEW c \in Cart, Then(r, c),
           rq[r].pc \in {"find", "refetch", "create"}
    PROVE  /\ cookie' \in Session \cup {NoSession} /\ cookieAge' \in 0 .. 2
           /\ \E q \in Handlers :
                 /\ rq' = [rq EXCEPT ![r] = q] /\ Knows(q)
                 /\ \/ q = Rest /\ q.cart = NoCart /\ q.guest = NoCart
                    \/ /\ q.cart = c /\ q.guest = rq[r].guest
                       /\ q.owner = rq[r].owner /\ q.sid = rq[r].sid
                       /\ q.op = rq[r].op /\ q.grant = rq[r].grant /\ q.pc \in {"add", "sum", "load"}
<1>1. rq[r] \in Handlers /\ Knows(rq[r]) /\ rq \in [Request -> Handlers]
  BY RequestFacts DEF IInv, CartsTypeOK
<1>2. CASE rq[r].op = "get"
  BY <1>2, CookieSet, Resting DEF Then
<1>3. CASE rq[r].op # "get"
  <2>1. PICK pc : pc = CASE rq[r].op = "add" -> "add" [] rq[r].op = "merge" -> "sum" [] OTHER -> "load"
    OBVIOUS
  <2>2. rq' = [rq EXCEPT ![r].cart = c, ![r].pc = pc] /\ UNCHANGED <<cookie, cookieAge>>
    BY <1>3, <2>1 DEF Then
  <2>3. PICK q : q = [rq[r] EXCEPT !.cart = c, !.pc = pc]
    OBVIOUS
  <2>4. /\ rq[r].op \in {"add", "merge", "set", "remove"}
        /\ pc = IF rq[r].op = "add" THEN "add" ELSE IF rq[r].op = "merge" THEN "sum" ELSE "load"
    BY <1>1, <1>3, <2>1 DEF Handlers
  <2>5. /\ q \in Handlers /\ q.pc = pc /\ q.cart = c /\ q.guest = rq[r].guest /\ q.owner = rq[r].owner
        /\ q.sid = rq[r].sid /\ q.op = rq[r].op /\ q.sku = rq[r].sku /\ q.cap = rq[r].cap
        /\ q.grant = rq[r].grant /\ q.pc \in {"add", "sum", "load"}
    <3>1. pc \in {"add", "sum", "load"}
      BY <2>4
    <3> QED
      BY <1>1, <2>3, <3>1 DEF Handlers
  <2>6. Knows(q)
    BY <1>1, <2>4, <2>5 DEF Knows
  <2>7. rq' = [rq EXCEPT ![r] = q]
    BY <1>1, <2>2, <2>3
  <2> QED
    BY <2>2, <2>5, <2>6, <2>7 DEF IInv, CartsTypeOK
<1> QED
  BY <1>2, <1>3

LEMMA GotoStep ==
    ASSUME IInv, NEW r \in Request,
           NEW pc \in {"sum", "create", "refetch", "write"}, Goto(r, pc),
           pc = "sum" => rq[r].op = "merge",
           pc = "write" => /\ rq[r].pc = "load"
                           /\ rq[r].op = "set" => rq[r].qty <= MaxStock,
           rq[r].pc # "idle",
           UNCHANGED <<carts, shelf, added, plain, cookie, cookieAge>>
    PROVE  IInv'
<1>1. rq[r] \in Handlers /\ Knows(rq[r]) /\ Names(rq[r]) /\ rq \in [Request -> Handlers]
  BY RequestFacts DEF IInv, CartsTypeOK
<1>2. PICK q : q = [rq[r] EXCEPT !.pc = pc]
  OBVIOUS
<1>3. /\ q \in Handlers /\ q.pc = pc /\ q.cart = rq[r].cart /\ q.guest = rq[r].guest /\ q.owner = rq[r].owner
      /\ q.sid = rq[r].sid /\ q.op = rq[r].op /\ q.sku = rq[r].sku /\ q.cap = rq[r].cap /\ q.qty = rq[r].qty
  BY <1>1, <1>2 DEF Handlers
<1>4. Knows(q) /\ Names(q)
  BY <1>1, <1>3 DEF Knows, Names
<1>5. rq' = [rq EXCEPT ![r] = q]
  BY <1>1, <1>2 DEF Goto
<1> QED
  BY <1>3, <1>4, <1>5, QuietStep DEF IInv, CartsTypeOK

LEMMA FindStep == ASSUME IInv, NEW r \in Request, FindCart(r) PROVE IInv'
<1>1. rq[r] \in Handlers /\ Knows(rq[r]) /\ Names(rq[r])
  BY RequestFacts
<1>2. rq[r].pc \in {"find", "refetch"} /\ UNCHANGED shelf
  BY DEF FindCart
<1>3. ASSUME NEW c \in CartsOf(rq[r].owner), Then(r, c), UNCHANGED <<carts, added, plain>> PROVE IInv'
  <2>1. c \in Cart /\ carts[c].owner = rq[r].owner
    BY <1>3 DEF CartsOf
  <2>2. PICK q \in Handlers :
              /\ rq' = [rq EXCEPT ![r] = q] /\ Knows(q)
              /\ \/ q.cart = NoCart /\ q.guest = NoCart
                 \/ q.cart = c /\ q.guest = rq[r].guest /\ q.owner = rq[r].owner /\ q.sid = rq[r].sid
    BY <1>2, <1>3, <2>1, ThenHas
  <2>3. Names(q)
    BY <1>1, <2>1, <2>2, Resting DEF Names
  <2>4. cookie' \in Session \cup {NoSession} /\ cookieAge' \in 0 .. 2 /\ shelf' \in [Sku -> Shelves]
    BY <1>2, <1>3, <2>1, ThenHas DEF IInv, CartsTypeOK
  <2> QED
    BY <1>3, <2>2, <2>3, <2>4, QuietStep
<1>4. CASE Fail(r)
  BY <1>2, <1>4, FailStep
<1>5. CASE /\ Goto(r, IF rq[r].op = "merge" THEN "sum" ELSE "create")
           /\ UNCHANGED <<carts, cookie, cookieAge, added, plain>>
  BY <1>2, <1>5, GotoStep
<1> QED
  BY <1>3, <1>4, <1>5 DEF FindCart

LEMMA CreateStep == ASSUME IInv, NEW r \in Request, CreateCart(r) PROVE IInv'
<1> DEFINE o == rq[r].owner
<1>1. /\ rq[r] \in Handlers /\ Knows(rq[r]) /\ Names(rq[r]) /\ rq[r].pc = "create" /\ o \in Owner
      /\ rq \in [Request -> Handlers] /\ carts \in [Cart -> Row]
      /\ UNCHANGED <<shelf, added, plain>>
  BY RequestFacts DEF CreateCart, Knows, IInv, CartsTypeOK, Row
<1>2. CASE CartsOf(o) # {}
  <2>1. Goto(r, "refetch") /\ UNCHANGED <<carts, cookie, cookieAge>>
    BY <1>2 DEF CreateCart
  <2> QED
    BY <1>1, <2>1, GotoStep
<1>3. CASE CartsOf(o) = {}
  <2> DEFINE row == [NoRow EXCEPT !.owner = o]
  <2>1. PICK c \in Cart : Unused(c) /\ carts' = [carts EXCEPT ![c] = row] /\ Then(r, c)
    BY <1>3 DEF CreateCart
  <2>2. row \in Row /\ row.owner = o /\ row.items = Zero
    BY <1>1, Resting DEF Row
  <2> HIDE DEF row
  <2>3. carts' \in [Cart -> Row] /\ carts'[c] = row /\ \A d \in Cart \ {c} : carts'[d] = carts[d]
    BY <1>1, <2>1, <2>2
  <2>4. PICK q \in Handlers :
              /\ rq' = [rq EXCEPT ![r] = q] /\ Knows(q)
              /\ \/ q.cart = NoCart /\ q.guest = NoCart
                 \/ q.cart = c /\ q.guest = rq[r].guest /\ q.owner = o /\ q.sid = rq[r].sid
    BY <1>1, <2>1, ThenHas
  <2>5. /\ \A p \in Request : rq'[p] = IF p = r THEN q ELSE rq[p]
        /\ rq' = [p \in Request |-> rq'[p]]
    BY <1>1, <2>4
  <2>6. Names(rq[r])'
    <3>1. rq[r].guest # c
      BY <2>1 DEF Unused
    <3> QED
      BY <1>1, <2>2, <2>3, <2>4, <2>5, <3>1, CartConstants DEF Names, Exists
  <2>7. rq' \in [Request -> Handlers] /\ RequestsOK'
    <3>1. \A p \in Request : Answered(p) \/ (rq'[p] \in Handlers /\ Knows(rq'[p]) /\ Names(rq[p])')
      BY <2>4, <2>5, <2>6 DEF Answered
    <3>2. \A d \in Cart : (carts'[d].owner # NoOwner /\ ~ Unused(d)) => carts'[d].owner = carts[d].owner
      BY <2>1, <2>3
    <3> QED
      BY <2>5, <3>1, <3>2, RequestsStep
  <2>8. CartsTypeOK'
    BY <1>1, <2>1, <2>3, <2>7, ThenHas DEF IInv, CartsTypeOK, Row
  <2>9. OneCartPerOwner'
    <3>1. \A d \in Cart : carts[d].owner # o
      BY <1>3 DEF CartsOf
    <3> QED
      BY <2>2, <2>3, <3>1 DEF IInv, OneCartPerOwner, Exists
  <2>10. WithinStock'
    <3>1. \A s \in Sku : Zero[s] <= MaxStock
      BY CartConstants DEF Zero
    <3> QED
      BY <2>2, <2>3, <3>1 DEF IInv, WithinStock
  <2>11. AddsAreSums'
    <3>1. ASSUME NEW x \in plain
          PROVE  (\A d \in CartsOf(x)' : carts'[d].items = added[x]) /\ (CartsOf(x)' = {} => added[x] = Zero)
      <4>1. (\A d \in CartsOf(x) : carts[d].items = added[x]) /\ (CartsOf(x) = {} => added[x] = Zero)
        BY DEF IInv, AddsAreSums
      <4>2. CASE x = o
        BY <1>3, <2>2, <2>3, <4>1, <4>2 DEF CartsOf
      <4>3. CASE x # o
        <5> x # NoOwner
          BY CartConstants DEF IInv, CartsTypeOK
        <5>1. c \notin CartsOf(x) /\ c \notin CartsOf(x)'
          BY <2>1, <2>2, <2>3, <4>3 DEF CartsOf, Unused, Exists
        <5>2. CartsOf(x)' = CartsOf(x) /\ \A d \in CartsOf(x) : carts'[d] = carts[d]
          BY <2>3, <5>1 DEF CartsOf
        <5> QED
          BY <4>1, <5>2
      <4> QED
        BY <4>2, <4>3
    <3> QED
      BY <1>1, <3>1 DEF AddsAreSums
  <2> QED
    BY <2>7, <2>8, <2>9, <2>10, <2>11 DEF IInv
<1> QED
  BY <1>2, <1>3

--------------------------------------------------------------------------------
(* Writes to one item of a cart.                                               *)

LEMMA ItemWritten ==
    ASSUME IInv, NEW c \in Cart, NEW s \in Sku, NEW n \in Nat, n <= MaxStock,
           carts' = [carts EXCEPT ![c].items[s] = n]
    PROVE  /\ carts' \in [Cart -> Row]
           /\ \A d \in Cart : carts'[d].owner = carts[d].owner
           /\ \A d \in Cart \ {c} : carts'[d] = carts[d]
           /\ carts'[c].items = [carts[c].items EXCEPT ![s] = n]
           /\ OneCartPerOwner' /\ WithinStock'
<1>1. carts \in [Cart -> Row] /\ carts[c] \in Row
  BY DEF IInv, CartsTypeOK, Row
<1>2. PICK items : items = [carts[c].items EXCEPT ![s] = n]
  OBVIOUS
<1>3. items \in [Sku -> Nat] /\ \A t \in Sku : items[t] = IF t = s THEN n ELSE carts[c].items[t]
  BY <1>1, <1>2 DEF Row
<1>4. PICK row : row = [carts[c] EXCEPT !.items = items]
  OBVIOUS
<1>5. row \in Row /\ row.owner = carts[c].owner /\ row.items = items
  BY <1>1, <1>3, <1>4 DEF Row
<1>6. carts' = [carts EXCEPT ![c] = row]
  BY <1>1, <1>2, <1>4
<1>7. carts' \in [Cart -> Row] /\ carts'[c] = row /\ \A d \in Cart \ {c} : carts'[d] = carts[d]
  BY <1>1, <1>5, <1>6
<1>8. \A d \in Cart : carts'[d].owner = carts[d].owner
  BY <1>5, <1>7
<1>9. OneCartPerOwner' /\ WithinStock'
  BY <1>3, <1>5, <1>7, <1>8 DEF IInv, OneCartPerOwner, WithinStock, Exists
<1> QED
  BY <1>2, <1>5, <1>7, <1>8, <1>9

LEMMA AddStep == ASSUME IInv, NEW r \in Request, AddItem(r) PROVE IInv'
<1> DEFINE q == rq[r]
           n == carts[q.cart].items[q.sku] + q.qty
<1>1. /\ q \in Handlers /\ Knows(q) /\ Names(q) /\ q.pc = "add" /\ UNCHANGED shelf
      /\ q.cart \in Cart /\ q.sku \in Sku /\ q.owner \in Owner /\ q.qty \in Nat
      /\ shelf[q.sku] \in Shelves /\ carts[q.cart] \in Row
      /\ rq \in [Request -> Handlers] /\ added \in [Owner -> [Sku -> Nat]]
  BY RequestFacts DEF AddItem, Knows, Handlers, IInv, CartsTypeOK, Row
<1>2. CASE Exists(q.cart) /\ n <= shelf[q.sku].stock
  <2>1. /\ carts' = [carts EXCEPT ![q.cart].items[q.sku] = n]
        /\ added' = [added EXCEPT ![q.owner][q.sku] = @ + q.qty]
        /\ rq' = [rq EXCEPT ![r] = Rest] /\ SetCookie(q, TRUE) /\ UNCHANGED plain
    BY <1>2 DEF AddItem, Counting
  <2>2. n \in Nat /\ n <= MaxStock
    <3>1. shelf[q.sku].stock \in Nat /\ shelf[q.sku].stock <= MaxStock /\ MaxStock \in Nat
      BY <1>1, CartConstants
    <3>2. carts[q.cart].items[q.sku] \in Nat
      BY <1>1 DEF Row
    <3> QED
      BY <1>1, <1>2, <3>1, <3>2
  <2>3. carts[q.cart].owner = q.owner
    BY <1>1, <1>2 DEF Names
  <2> HIDE DEF n, q
  <2>4. /\ carts' \in [Cart -> Row]
        /\ \A d \in Cart : carts'[d].owner = carts[d].owner
        /\ \A d \in Cart \ {q.cart} : carts'[d] = carts[d]
        /\ carts'[q.cart].items = [carts[q.cart].items EXCEPT ![q.sku] = n]
        /\ OneCartPerOwner' /\ WithinStock'
    BY <1>1, <2>1, <2>2, ItemWritten
  <2>5. /\ added' \in [Owner -> [Sku -> Nat]]
        /\ \A o \in Owner \ {q.owner} : added'[o] = added[o]
        /\ added'[q.owner] = [added[q.owner] EXCEPT ![q.sku] = @ + q.qty]
    <3>1. PICK sums : sums = [added[q.owner] EXCEPT ![q.sku] = @ + q.qty]
      OBVIOUS
    <3>2. sums \in [Sku -> Nat]
      BY <1>1, <3>1
    <3>3. added' = [added EXCEPT ![q.owner] = sums]
      BY <1>1, <2>1, <3>1
    <3> QED
      BY <1>1, <3>1, <3>2, <3>3
  <2>6. rq' \in [Request -> Handlers] /\ RequestsOK'
    <3>1. \A p \in Request : Answered(p)
      BY <1>1, <2>1 DEF Answered
    <3>2. rq' = [p \in Request |-> rq'[p]]
      BY <1>1, <2>1
    <3> QED
      BY <2>4, <3>1, <3>2, RequestsStep
  <2>7. CartsTypeOK'
    BY <1>1, <2>1, <2>4, <2>5, <2>6, CookieSet DEF IInv, CartsTypeOK, Row
  <2>8. AddsAreSums'
    <3>1. ASSUME NEW o \in plain
          PROVE  (\A c \in CartsOf(o)' : carts'[c].items = added'[o]) /\ (CartsOf(o)' = {} => added'[o] = Zero)
      <4>1. /\ \A c \in CartsOf(o) : carts[c].items = added[o]
            /\ CartsOf(o) = {} => added[o] = Zero
            /\ CartsOf(o)' = CartsOf(o) /\ o \in Owner
        BY <2>4 DEF IInv, AddsAreSums, CartsOf, CartsTypeOK
      <4>2. CASE o = q.owner
        <5>1. CartsOf(o) = {q.cart}
          BY <1>1, <1>2, <2>3, <4>2 DEF IInv, OneCartPerOwner, CartsOf, Exists, q
        <5>2. carts[q.cart].items = added[o]
          BY <4>1, <5>1
        <5>3. n = added[o][q.sku] + q.qty
          BY <5>2 DEF n
        <5>4. carts'[q.cart].items = added'[o]
          BY <2>4, <2>5, <4>2, <5>2, <5>3
        <5> QED
          BY <4>1, <5>1, <5>4
      <4>3. CASE o # q.owner
        <5>1. q.cart \notin CartsOf(o)
          BY <2>3, <4>3 DEF CartsOf
        <5> QED
          BY <2>4, <2>5, <4>1, <4>3, <5>1 DEF CartsOf
      <4> QED
        BY <4>2, <4>3
    <3> QED
      BY <2>1, <3>1 DEF AddsAreSums
  <2> QED
    BY <2>4, <2>6, <2>7, <2>8 DEF IInv
<1>3. CASE ~ (Exists(q.cart) /\ n <= shelf[q.sku].stock)
  <2>1. Fail(r)
    BY <1>3 DEF AddItem
  <2> QED
    BY <1>1, <2>1, FailStep
<1> QED
  BY <1>2, <1>3

LEMMA LoadStep == ASSUME IInv, NEW r \in Request, LoadItem(r) PROVE IInv'
<1> DEFINE q == rq[r]
<1>1. /\ q \in Handlers /\ Knows(q) /\ q.pc = "load" /\ UNCHANGED shelf
  BY RequestFacts DEF LoadItem
<1>2. CASE Goto(r, "write") /\ UNCHANGED <<carts, added, plain, cookie, cookieAge>>
                             /\ (q.op = "set" => shelf[q.sku].active /\ q.qty <= shelf[q.sku].stock)
  <2>1. q.op = "set" => q.qty <= MaxStock
    <3> SUFFICES ASSUME q.op = "set" PROVE q.qty <= MaxStock
      OBVIOUS
    <3>1. q.sku \in Sku /\ q.qty \in Nat /\ q.qty <= shelf[q.sku].stock
      BY <1>1, <1>2 DEF Knows, Handlers
    <3>2. shelf[q.sku] \in Shelves
      BY <3>1 DEF IInv, CartsTypeOK
    <3>3. shelf[q.sku].stock \in 0 .. MaxStock
      BY <3>2, CartConstants
    <3> QED
      BY <3>1, <3>3, CartConstants
  <2> QED
    BY <1>1, <1>2, <2>1, GotoStep
<1>3. CASE Fail(r)
  BY <1>1, <1>3, FailStep
<1> QED
  BY <1>2, <1>3 DEF LoadItem

LEMMA LosingAnswered ==
    ASSUME IInv, NEW r \in Request, NEW C, NEW S,
           rq' = Losing(C, S) \/ rq' = [Losing(C, S) EXCEPT ![r] = Rest]
    PROVE  (\A p \in Request : Answered(p)) /\ rq' = [p \in Request |-> rq'[p]]
  BY DEF Losing, Answered

LEMMA WriteStep == ASSUME IInv, NEW r \in Request, WriteItem(r) PROVE IInv'
<1> DEFINE q == rq[r]
           old == carts[q.cart].items[q.sku]
           n == Written(q, old)
<1>1. /\ q \in Handlers /\ Knows(q) /\ Names(q) /\ q.pc = "write" /\ UNCHANGED shelf
      /\ q.cart \in Cart /\ q.sku \in Sku /\ q.owner \in Owner /\ q.qty \in Nat
      /\ carts[q.cart] \in Row
      /\ rq \in [Request -> Handlers] /\ added \in [Owner -> [Sku -> Nat]]
  BY RequestFacts DEF WriteItem, Knows, Handlers, IInv, CartsTypeOK, Row
<1>2. n \in Nat /\ n <= MaxStock /\ old \in Nat
  BY <1>1, CartConstants DEF Written, Knows, Row
<1>3. /\ carts' = [carts EXCEPT ![q.cart].items[q.sku] = n]
      /\ rq' = [rq EXCEPT ![r] = Rest] \/ rq' = [Losing({q.cart}, {q.sku}) EXCEPT ![r] = Rest]
      /\ added' = added \/ (q.qty > old /\ added' = [added EXCEPT ![q.owner][q.sku] = @ + (q.qty - old)])
      /\ plain' = plain \ {q.owner} /\ SetCookie(q, TRUE)
  BY DEF WriteItem, Counting
<1> HIDE DEF n, old, q
<1>4. /\ carts' \in [Cart -> Row]
      /\ \A d \in Cart : carts'[d].owner = carts[d].owner
      /\ \A d \in Cart \ {q.cart} : carts'[d] = carts[d]
      /\ OneCartPerOwner' /\ WithinStock'
  BY <1>1, <1>2, <1>3, ItemWritten
<1>5. added' \in [Owner -> [Sku -> Nat]] /\ \A o \in Owner \ {q.owner} : added'[o] = added[o]
  <2>1. CASE added' = added
    BY <1>1, <2>1
  <2>2. CASE q.qty > old /\ added' = [added EXCEPT ![q.owner][q.sku] = @ + (q.qty - old)]
    <3>1. PICK more : more = q.qty - old
      OBVIOUS
    <3>2. more \in Nat
      BY <1>1, <1>2, <2>2, <3>1
    <3>3. PICK sums : sums = [added[q.owner] EXCEPT ![q.sku] = @ + more]
      OBVIOUS
    <3>4. sums \in [Sku -> Nat]
      BY <1>1, <3>2, <3>3
    <3>5. added' = [added EXCEPT ![q.owner] = sums]
      BY <1>1, <2>2, <3>1, <3>3
    <3> QED
      BY <1>1, <3>4, <3>5
  <2> QED
    BY <1>3, <2>1, <2>2
<1>6. rq' \in [Request -> Handlers] /\ RequestsOK'
  <2>1. (\A p \in Request : Answered(p)) /\ rq' = [p \in Request |-> rq'[p]]
    <3>1. CASE rq' = [rq EXCEPT ![r] = Rest]
      BY <1>1, <3>1 DEF Answered
    <3>2. CASE rq' = [Losing({q.cart}, {q.sku}) EXCEPT ![r] = Rest]
      BY <3>2, LosingAnswered
    <3> QED
      BY <1>3, <3>1, <3>2
  <2> QED
    BY <1>4, <2>1, RequestsStep
<1>7. CartsTypeOK'
  BY <1>1, <1>3, <1>4, <1>5, <1>6, CookieSet DEF IInv, CartsTypeOK, Row
<1>8. AddsAreSums'
  <2>1. plain' \subseteq plain /\ plain' \subseteq Owner \ {q.owner}
    BY <1>3 DEF IInv, CartsTypeOK
  <2>2. carts[q.cart].owner \in {q.owner, NoOwner}
    BY <1>1 DEF Names, Exists, q
  <2>3. \A c \in Cart : \/ carts'[c].owner = carts[c].owner /\ carts'[c].items = carts[c].items
                        \/ {carts[c].owner, carts'[c].owner} \cap plain' = {}
    BY <1>1, <1>4, <2>1, <2>2, CartConstants
  <2> QED
    BY <1>5, <2>1, <2>3, SumsKept
<1> QED
  BY <1>4, <1>6, <1>7, <1>8 DEF IInv

LEMMA LoseStep == ASSUME IInv, NEW r \in Request, LoseItem(r) \/ Lose(r) PROVE IInv'
<1>1. CASE LoseItem(r)
  BY <1>1, FailStep DEF LoseItem
<1>2. CASE Lose(r)
  <2>1. rq' = [rq EXCEPT ![r] = Rest] /\ UNCHANGED <<carts, shelf, added, plain>>
    BY <1>2 DEF Lose
  <2>2. cookie' \in Session \cup {NoSession} /\ cookieAge' \in 0 .. 2
    BY <1>2, CookieCleared DEF Lose, IInv, CartsTypeOK
  <2>3. shelf' \in [Sku -> Shelves]
    BY <2>1 DEF IInv, CartsTypeOK
  <2> QED
    BY <2>1, <2>2, <2>3, Resting, RestNames, QuietStep
<1> QED
  BY <1>1, <1>2

--------------------------------------------------------------------------------
(* The merge of a guest's cart.                                                *)

LEMMA LesserOf ==
    ASSUME NEW a \in Nat, NEW b \in Nat
    PROVE  Min({a, b}) \in Nat /\ Min({a, b}) <= a /\ Min({a, b}) <= b
<1>1. \E x \in {a, b} : \A y \in {a, b} : x <= y
  BY DEF Min
<1>2. Min({a, b}) \in {a, b} /\ \A y \in {a, b} : Min({a, b}) <= y
  BY <1>1 DEF Min
<1> QED
  BY <1>2

LEMMA CutFacts ==
    ASSUME NEW q \in Handlers, NEW had \in [Sku -> Nat], \A s \in Sku : q.cap[s] <= MaxStock
    PROVE  /\ Cut(q, had) \in [Sku -> Nat]
           /\ \A s \in Sku : Cut(q, had)[s] <= MaxStock /\ Cut(q, had)[s] <= had[s] + q.grant[s]
<1>1. ASSUME NEW s \in Sku
      PROVE  /\ (IF q.grant[s] = 0 THEN 0 ELSE Min({had[s] + q.grant[s], q.cap[s]})) \in Nat
             /\ (IF q.grant[s] = 0 THEN 0 ELSE Min({had[s] + q.grant[s], q.cap[s]})) <= MaxStock
             /\ (IF q.grant[s] = 0 THEN 0 ELSE Min({had[s] + q.grant[s], q.cap[s]})) <= had[s] + q.grant[s]
  <2>1. q.grant[s] \in Nat /\ q.cap[s] \in Nat /\ had[s] + q.grant[s] \in Nat
    BY DEF Handlers
  <2>2. PICK m : m = Min({had[s] + q.grant[s], q.cap[s]})
    OBVIOUS
  <2>3. m \in Nat /\ m <= q.cap[s] /\ m <= had[s] + q.grant[s]
    BY <2>1, <2>2, LesserOf
  <2> QED
    BY <2>1, <2>2, <2>3, CartConstants
<1> QED
  BY <1>1 DEF Cut

LEMMA ReadStep == ASSUME IInv, NEW r \in Request, ReadGuest(r) PROVE IInv'
<1>1. /\ rq[r] \in Handlers /\ Knows(rq[r]) /\ Names(rq[r]) /\ rq[r].pc = "guest" /\ UNCHANGED shelf
      /\ rq \in [Request -> Handlers] /\ shelf \in [Sku -> Shelves] /\ carts \in [Cart -> Row]
  <2>1. rq[r].pc = "guest" /\ UNCHANGED shelf
    BY DEF ReadGuest
  <2> QED
    BY <2>1, RequestFacts DEF IInv, CartsTypeOK, Row
<1>2. CASE MergeFails(r)
  BY <1>1, <1>2, MergeFailsStep
<1>3. ASSUME NEW c \in CartsOf(rq[r].sid), NEW q, q = Holding(rq[r], c), rq' = [rq EXCEPT ![r] = q],
             UNCHANGED <<carts, added, plain, cookie, cookieAge>>
      PROVE  IInv'
  <2>1. c \in Cart /\ carts[c].owner = rq[r].sid /\ carts[c] \in Row
    BY <1>1, <1>3 DEF CartsOf
  <2>2. PICK kept : kept = [s \in Sku |-> IF shelf[s].active /\ shelf[s].stock > 0 THEN carts[c].items[s] ELSE 0]
    OBVIOUS
  <2>3. kept \in [Sku -> Nat]
    BY <2>1, <2>2 DEF Row
  <2>4. PICK caps : caps = [s \in Sku |-> shelf[s].stock]
    OBVIOUS
  <2>5. caps \in [Sku -> Nat] /\ \A s \in Sku : caps[s] <= MaxStock
    <3>1. \A s \in Sku : shelf[s].stock \in 0 .. MaxStock
      BY <1>1, CartConstants
    <3> QED
      BY <2>4, <3>1, CartConstants
  <2>6. PICK pc : pc = IF carts[c].items = Zero THEN "drop" ELSE "find"
    OBVIOUS
  <2>7. q = [rq[r] EXCEPT !.pc = pc, !.guest = c, !.grant = kept, !.cap = caps] /\ pc \in {"drop", "find"}
    BY <1>3, <2>2, <2>4, <2>6 DEF Holding
  <2>8. /\ q \in Handlers /\ q.pc = pc /\ q.guest = c /\ q.cap = caps /\ q.op = rq[r].op
        /\ q.cart = rq[r].cart /\ q.owner = rq[r].owner /\ q.sid = rq[r].sid /\ q.sku = rq[r].sku
    BY <1>1, <2>1, <2>3, <2>5, <2>7 DEF Handlers
  <2>9. Knows(q) /\ Names(q)
    BY <1>1, <2>1, <2>5, <2>7, <2>8 DEF Knows, Names
  <2>10. shelf' \in [Sku -> Shelves] /\ cookie' \in Session \cup {NoSession} /\ cookieAge' \in 0 .. 2
    BY <1>1, <1>3 DEF IInv, CartsTypeOK
  <2> QED
    BY <1>3, <2>8, <2>9, <2>10, QuietStep
<1> QED
  BY <1>1, <1>2, <1>3 DEF ReadGuest

LEMMA SumStep == ASSUME IInv, NEW r \in Request, SumItems(r) PROVE IInv'
<1> DEFINE had == IF rq[r].cart = NoCart THEN Zero ELSE carts[rq[r].cart].items
<1>1. /\ rq[r] \in Handlers /\ Knows(rq[r]) /\ Names(rq[r]) /\ rq[r].pc = "sum"
      /\ rq \in [Request -> Handlers] /\ carts \in [Cart -> Row]
      /\ UNCHANGED <<carts, shelf, cookie, cookieAge, added, plain>>
  BY RequestFacts DEF SumItems, IInv, CartsTypeOK, Row
<1>2. had \in [Sku -> Nat]
  BY <1>1, Resting DEF Handlers, Row
<1>3. PICK sums : sums = Cut(rq[r], had)
  OBVIOUS
<1>4. PICK pc : pc = IF sums = Zero /\ rq[r].cart # NoCart THEN "drop" ELSE "merge"
  OBVIOUS
<1>5. rq' = [rq EXCEPT ![r].grant = sums, ![r].pc = pc]
  BY <1>3, <1>4 DEF SumItems
<1>6. sums \in [Sku -> Nat] /\ (\A s \in Sku : sums[s] <= MaxStock) /\ pc \in {"drop", "merge"}
  BY <1>1, <1>2, <1>3, <1>4, CutFacts DEF Knows
<1>7. PICK q : q = [rq[r] EXCEPT !.grant = sums, !.pc = pc]
  OBVIOUS
<1>8. /\ q \in Handlers /\ q.pc = pc /\ q.grant = sums /\ q.cap = rq[r].cap /\ q.op = rq[r].op
      /\ q.guest = rq[r].guest /\ q.cart = rq[r].cart /\ q.owner = rq[r].owner /\ q.sid = rq[r].sid
      /\ q.sku = rq[r].sku
  BY <1>1, <1>6, <1>7 DEF Handlers
<1>9. Knows(q) /\ Names(q)
  BY <1>1, <1>6, <1>8 DEF Knows, Names
<1>10. rq' = [rq EXCEPT ![r] = q]
  BY <1>1, <1>5, <1>7
<1>11. shelf' \in [Sku -> Shelves] /\ cookie' \in Session \cup {NoSession} /\ cookieAge' \in 0 .. 2
  BY <1>1 DEF IInv, CartsTypeOK
<1> QED
  BY <1>1, <1>8, <1>9, <1>10, <1>11, QuietStep

(* What the ledger of units becomes.                                           *)
LEMMA HandedOn ==
    ASSUME IInv, NEW g \in Session, NEW m \in Member, HandingOn(g, m)
    PROVE  /\ added' \in [Owner -> [Sku -> Nat]]
           /\ \A s \in Sku : added'[m][s] = added[m][s] + added[g][s]
           /\ \A o \in Owner \ {g, m} : added'[o] = added[o]
<1>1. g \in Owner /\ m \in Owner /\ g # m /\ added \in [Owner -> [Sku -> Nat]]
  BY CartConstants DEF Owner, IInv, CartsTypeOK
<1>2. PICK zeroed : zeroed = [added EXCEPT ![g] = Zero]
  OBVIOUS
<1>3. zeroed[m] = added[m] /\ zeroed \in [Owner -> [Sku -> Nat]]
  BY <1>1, <1>2, Resting
<1>4. PICK sums : sums = [s \in Sku |-> added[m][s] + added[g][s]]
  OBVIOUS
<1>5. sums \in [Sku -> Nat]
  BY <1>1, <1>4
<1>6. added' = [zeroed EXCEPT ![m] = sums]
  BY <1>2, <1>3, <1>4 DEF HandingOn
<1> QED
  BY <1>1, <1>2, <1>3, <1>4, <1>5, <1>6

LEMMA Forgotten ==
    ASSUME IInv, NEW O, Forgetting(O)
    PROVE  /\ added' \in [Owner -> [Sku -> Nat]]
           /\ \A o \in Owner \ O : added'[o] = added[o]
  BY Resting DEF Forgetting, IInv, CartsTypeOK

(* Rows disappear, and with them what was only added to.                       *)
LEMMA RowsGone ==
    ASSUME IInv, NEW C, carts' = [c \in Cart |-> IF c \in C THEN NoRow ELSE carts[c]],
           \A c \in C \cap Cart : carts[c].owner \notin plain',
           plain' \subseteq plain, UNCHANGED shelf,
           added' \in [Owner -> [Sku -> Nat]], \A o \in plain' : added'[o] = added[o],
           \A p \in Request : Answered(p), rq' = [p \in Request |-> rq'[p]],
           cookie' \in Session \cup {NoSession}, cookieAge' \in 0 .. 2
    PROVE  IInv'
<1>1. \A c \in Cart : carts'[c] = IF c \in C THEN NoRow ELSE carts[c]
  OBVIOUS
<1>2. NoOwner \notin plain /\ plain \subseteq Owner
  BY CartConstants DEF IInv, CartsTypeOK
<1>3. rq' \in [Request -> Handlers] /\ RequestsOK'
  <2>1. \A c \in Cart : (carts'[c].owner # NoOwner /\ ~ Unused(c)) => carts'[c].owner = carts[c].owner
    BY <1>1, Resting
  <2> QED
    BY <2>1, RequestsStep
<1>4. CartsTypeOK'
  <2>1. carts' \in [Cart -> Row]
    BY Resting DEF IInv, CartsTypeOK, Row
  <2> QED
    BY <1>2, <1>3, <2>1 DEF IInv, CartsTypeOK, Row
<1>5. OneCartPerOwner'
  BY <1>1, Resting DEF IInv, OneCartPerOwner, Exists
<1>6. WithinStock'
  <2>1. \A s \in Sku : Zero[s] <= MaxStock
    BY CartConstants DEF Zero
  <2> QED
    BY <1>1, <2>1, Resting DEF IInv, WithinStock
<1>7. AddsAreSums'
  <2>1. \A c \in Cart : \/ carts'[c].owner = carts[c].owner /\ carts'[c].items = carts[c].items
                        \/ {carts[c].owner, carts'[c].owner} \cap plain' = {}
    BY <1>1, <1>2, Resting
  <2> QED
    BY <2>1, SumsKept
<1> QED
  BY <1>3, <1>4, <1>5, <1>6, <1>7 DEF IInv

LEMMA DropStep == ASSUME IInv, NEW r \in Request, DropGuest(r) PROVE IInv'
<1> DEFINE q == rq[r]
<1>1. Names(q) /\ q.pc = "drop" /\ UNCHANGED shelf
  BY RequestFacts DEF DropGuest
<1>2. CASE MergeFails(r)
  BY <1>1, <1>2, MergeFailsStep
<1>3. CASE ~ MergeFails(r)
  <2>1. /\ Exists(q.guest) /\ carts' = [carts EXCEPT ![q.guest] = NoRow]
        /\ rq' = [Losing({q.guest}, Sku) EXCEPT ![r] = Rest]
        /\ plain' = plain \ {q.sid} /\ ClearCookie /\ Forgetting({q.sid})
    BY <1>3 DEF DropGuest, GuestThere
  <2>2. q.guest \in Cart /\ carts[q.guest].owner = q.sid
    BY <1>1, <2>1 DEF Names, Exists
  <2>3. carts' = [c \in Cart |-> IF c \in {q.guest} THEN NoRow ELSE carts[c]]
    BY <2>1 DEF IInv, CartsTypeOK
  <2>4. cookie' \in Session \cup {NoSession} /\ cookieAge' \in 0 .. 2
    BY <2>1, CookieCleared
  <2>5. (\A p \in Request : Answered(p)) /\ rq' = [p \in Request |-> rq'[p]]
    BY <2>1, LosingAnswered
  <2>6. \A c \in {q.guest} \cap Cart : carts[c].owner \notin plain'
    BY <2>1, <2>2
  <2>7. plain' \subseteq plain /\ plain' \subseteq Owner \ {q.sid}
    BY <2>1 DEF IInv, CartsTypeOK
  <2>8. added' \in [Owner -> [Sku -> Nat]] /\ \A o \in plain' : added'[o] = added[o]
    BY <2>1, <2>7, Forgotten
  <2> QED
    BY <1>1, <2>1, <2>3, <2>4, <2>5, <2>6, <2>7, <2>8, RowsGone
<1> QED
  BY <1>2, <1>3

(* The rows after a merge that has its guest's row and its target c.            *)
Merged(q, c) ==
    /\ c # q.guest /\ Target(q, c) /\ carts[c].owner \in {q.owner, NoOwner}
    /\ \A d \in Cart : d # c => carts[d].owner # q.owner
    /\ carts' \in [Cart -> Row] /\ carts'[c].owner = q.owner
    /\ \A s \in Sku : carts'[c].items[s] = IF q.grant[s] > 0 THEN q.grant[s] ELSE carts[c].items[s]
    /\ \A s \in Sku : carts'[c].items[s] <= MaxStock
    /\ carts'[q.guest] = NoRow
    /\ \A d \in Cart \ {c, q.guest} : carts'[d] = carts[d]

LEMMA MergedRows ==
    ASSUME IInv, NEW r \in Request, MergeCarts(r), ~ MergeFails(r)
    PROVE  /\ Exists(rq[r].guest) /\ carts[rq[r].guest].owner = rq[r].sid
           /\ rq' = [Losing({rq[r].guest}, Sku) EXCEPT ![r] = Rest]
           /\ plain' = plain \ {rq[r].sid, rq[r].owner} /\ ClearCookie /\ HandingOn(rq[r].sid, rq[r].owner)
           /\ \E c \in Cart : Merged(rq[r], c)
<1> DEFINE q == rq[r]
           Filled(c) == [owner |-> q.owner, age |-> carts[c].age,
                         items |-> [s \in Sku |-> IF q.grant[s] > 0 THEN q.grant[s] ELSE carts[c].items[s]]]
<1>0. /\ q \in Handlers /\ Knows(q) /\ Names(q) /\ q.pc = "merge"
      /\ carts \in [Cart -> Row] /\ q.owner \in Member /\ q.sid \in Session
  BY RequestFacts DEF MergeCarts, Knows, IInv, CartsTypeOK, Row
<1>1. /\ Exists(q.guest) /\ rq' = [Losing({q.guest}, Sku) EXCEPT ![r] = Rest]
      /\ plain' = plain \ {q.sid, q.owner} /\ ClearCookie /\ HandingOn(q.sid, q.owner)
      /\ \E c \in Cart :
            /\ Target(q, c)
            /\ carts' = [carts EXCEPT ![q.guest] = NoRow, ![c] =
                  [owner |-> q.owner, age |-> @.age,
                   items |-> [s \in Sku |-> IF q.grant[s] > 0 THEN q.grant[s] ELSE @.items[s]]]]
  BY DEF MergeCarts, GuestThere
<1>2. q.guest \in Cart /\ carts[q.guest].owner = q.sid
  BY <1>0, <1>1 DEF Names, Exists
<1>3. PICK c \in Cart :
            /\ Target(q, c)
            /\ carts' = [carts EXCEPT ![q.guest] = NoRow, ![c] =
                  [owner |-> q.owner, age |-> @.age,
                   items |-> [s \in Sku |-> IF q.grant[s] > 0 THEN q.grant[s] ELSE @.items[s]]]]
  BY <1>1
<1>4. c # q.guest /\ carts[c].owner \in {q.owner, NoOwner}
  <2>1. CASE q.cart # NoCart
    <3>1. c = q.cart /\ Exists(c)
      BY <1>3, <2>1 DEF Target
    <3>2. carts[c].owner = q.owner
      BY <1>0, <3>1 DEF Names
    <3> QED
      BY <1>0, <1>2, <3>2, CartConstants
  <2>2. CASE q.cart = NoCart
    <3>1. Unused(c)
      BY <1>3, <2>2 DEF Target
    <3> QED
      BY <1>1, <3>1 DEF Unused, Exists
  <2> QED
    BY <2>1, <2>2
<1>5. \A d \in Cart : d # c => carts[d].owner # q.owner
  <2>1. CASE q.cart # NoCart
    <3>1. c = q.cart /\ Exists(c)
      BY <1>3, <2>1 DEF Target
    <3>2. carts[c].owner = q.owner
      BY <1>0, <3>1 DEF Names
    <3> QED
      BY <3>1, <3>2 DEF IInv, OneCartPerOwner
  <2>2. CASE q.cart = NoCart
    BY <1>3, <2>2 DEF Target, CartsOf
  <2> QED
    BY <2>1, <2>2
<1>6. PICK row : row = Filled(c)
  OBVIOUS
<1>7. /\ row \in Row /\ row.owner = q.owner
      /\ \A s \in Sku : row.items[s] = IF q.grant[s] > 0 THEN q.grant[s] ELSE carts[c].items[s]
      /\ \A s \in Sku : row.items[s] <= MaxStock
  <2>1. carts[c] \in Row /\ q.owner \in Owner
    BY <1>0 DEF Owner
  <2>2. \A s \in Sku : (IF q.grant[s] > 0 THEN q.grant[s] ELSE carts[c].items[s]) \in 0 .. MaxStock
    <3> SUFFICES ASSUME NEW s \in Sku
                 PROVE  (IF q.grant[s] > 0 THEN q.grant[s] ELSE carts[c].items[s]) \in 0 .. MaxStock
      OBVIOUS
    <3>1. q.grant[s] \in Nat /\ carts[c].items[s] \in Nat
      BY <1>0, <2>1 DEF Handlers, Row
    <3>2. q.grant[s] <= MaxStock /\ carts[c].items[s] <= MaxStock
      BY <1>0 DEF Knows, IInv, WithinStock
    <3> QED
      BY <3>1, <3>2, CartConstants
  <2>3. PICK items : items = [s \in Sku |-> IF q.grant[s] > 0 THEN q.grant[s] ELSE carts[c].items[s]]
    OBVIOUS
  <2>4. items \in [Sku -> Nat] /\ \A s \in Sku : items[s] <= MaxStock
    BY <2>2, <2>3, CartConstants
  <2>6. \A s \in Sku : items[s] = IF q.grant[s] > 0 THEN q.grant[s] ELSE carts[c].items[s]
    BY <2>3
  <2>5. row = [owner |-> q.owner, age |-> carts[c].age, items |-> items]
    BY <1>6, <2>3
  <2>7. row \in Row /\ row.owner = q.owner /\ row.items = items
    BY <2>1, <2>4, <2>5 DEF Row
  <2> QED
    BY <2>4, <2>6, <2>7
<1>8. carts' = [carts EXCEPT ![q.guest] = NoRow, ![c] = row]
  <2>1. [carts EXCEPT ![q.guest] = NoRow][c] = carts[c]
    BY <1>0, <1>2, <1>4
  <2> QED
    BY <1>3, <1>6, <2>1
<1> HIDE DEF q, Filled
<1>9. /\ carts' \in [Cart -> Row] /\ carts'[c] = row /\ carts'[q.guest] = NoRow
      /\ \A d \in Cart \ {c, q.guest} : carts'[d] = carts[d]
  BY <1>0, <1>2, <1>4, <1>7, <1>8, Resting
<1>10. Merged(q, c)
  BY <1>3, <1>4, <1>5, <1>7, <1>9 DEF Merged
<1> QED
  BY <1>1, <1>2, <1>10 DEF q

LEMMA MergeStep == ASSUME IInv, NEW r \in Request, MergeCarts(r) PROVE IInv'
<1> DEFINE q == rq[r]
<1>1. /\ q \in Handlers /\ Names(q) /\ UNCHANGED shelf /\ q.owner \in Member /\ q.sid \in Session
  BY RequestFacts DEF MergeCarts, Knows
<1>2. CASE MergeFails(r)
  BY <1>1, <1>2, MergeFailsStep
<1>3. CASE ~ MergeFails(r)
  <2>1. /\ Exists(q.guest) /\ carts[q.guest].owner = q.sid
        /\ rq' = [Losing({q.guest}, Sku) EXCEPT ![r] = Rest]
        /\ plain' = plain \ {q.sid, q.owner} /\ ClearCookie /\ HandingOn(q.sid, q.owner)
    BY <1>3, MergedRows
  <2>2. PICK c \in Cart : Merged(q, c)
    BY <1>3, MergedRows
  <2> HIDE DEF q
  <2>3. /\ c # q.guest /\ Target(q, c) /\ carts[c].owner \in {q.owner, NoOwner}
        /\ \A d \in Cart : d # c => carts[d].owner # q.owner
        /\ carts' \in [Cart -> Row] /\ carts'[c].owner = q.owner
        /\ \A s \in Sku : carts'[c].items[s] <= MaxStock
        /\ carts'[q.guest] = NoRow /\ \A d \in Cart \ {c, q.guest} : carts'[d] = carts[d]
    BY <2>2 DEF Merged
  <2>4. rq' \in [Request -> Handlers] /\ RequestsOK'
    <3>1. (\A p \in Request : Answered(p)) /\ rq' = [p \in Request |-> rq'[p]]
      BY <2>1, LosingAnswered
    <3>2. ASSUME NEW d \in Cart, carts'[d].owner # NoOwner, ~ Unused(d)
          PROVE  carts'[d].owner = carts[d].owner
      <4>1. CASE d = c
        <5>1. q.cart # NoCart
          BY <2>3, <3>2, <4>1 DEF Target
        <5>2. Exists(c)
          BY <2>3, <5>1 DEF Target
        <5> QED
          BY <2>3, <4>1, <5>2 DEF Exists
      <4> QED
        BY <2>3, <3>2, <4>1, Resting
    <3> QED
      BY <3>1, <3>2, RequestsStep
  <2>5. CartsTypeOK'
    BY <1>1, <2>1, <2>3, <2>4, CookieCleared, HandedOn DEF IInv, CartsTypeOK, Row
  <2>6. OneCartPerOwner'
    BY <2>3, Resting DEF IInv, OneCartPerOwner, Exists
  <2>7. WithinStock'
    <3>1. \A s \in Sku : Zero[s] <= MaxStock
      BY CartConstants DEF Zero
    <3> QED
      BY <2>3, <3>1, Resting DEF IInv, WithinStock
  <2>8. AddsAreSums'
    <3>1. plain' \subseteq plain /\ NoOwner \notin plain' /\ q.owner \notin plain' /\ q.sid \notin plain'
      BY <2>1, CartConstants DEF IInv, CartsTypeOK
    <3>2. \A d \in Cart : \/ carts'[d].owner = carts[d].owner /\ carts'[d].items = carts[d].items
                          \/ {carts[d].owner, carts'[d].owner} \cap plain' = {}
      BY <2>1, <2>3, <3>1, Resting
    <3>3. \A o \in plain' : added'[o] = added[o]
      BY <1>1, <2>1, HandedOn DEF IInv, CartsTypeOK
    <3> QED
      BY <2>1, <3>1, <3>2, <3>3, SumsKept
  <2> QED
    BY <2>4, <2>5, <2>6, <2>7, <2>8 DEF IInv
<1> QED
  BY <1>2, <1>3

--------------------------------------------------------------------------------
(* What happens around the requests.                                           *)

LEMMA VanishStep == ASSUME IInv, NEW C \in SUBSET Cart, Vanish(C) PROVE IInv'
<1>1. /\ carts' = [c \in Cart |-> IF c \in C THEN NoRow ELSE carts[c]]
      /\ rq' = Losing(C, Sku)
      /\ plain' = plain \ {carts[c].owner : c \in C}
      /\ UNCHANGED <<shelf, cookie, cookieAge>>
      /\ Forgetting({carts[c].owner : c \in C})
  BY DEF Vanish
<1>2. cookie' \in Session \cup {NoSession} /\ cookieAge' \in 0 .. 2
  BY <1>1 DEF IInv, CartsTypeOK
<1>3. (\A p \in Request : Answered(p)) /\ rq' = [p \in Request |-> rq'[p]]
  BY <1>1 DEF Losing, Answered
<1>4. plain' \subseteq plain /\ \A c \in C \cap Cart : carts[c].owner \notin plain'
  BY <1>1
<1>5. added' \in [Owner -> [Sku -> Nat]] /\ \A o \in plain' : added'[o] = added[o]
  BY <1>1, Forgotten DEF IInv, CartsTypeOK
<1> QED
  BY <1>1, <1>2, <1>3, <1>4, <1>5, RowsGone

LEMMA ShelfStep == ASSUME IInv, NEW s \in Sku, Stock(s) PROVE IInv'
<1>1. shelf' \in [Sku -> Shelves] /\ UNCHANGED <<carts, rq, cookie, cookieAge, added, plain>>
  BY DEF Stock, IInv, CartsTypeOK
<1>2. CartsTypeOK'
  BY <1>1 DEF IInv, CartsTypeOK
<1>3. RequestsOK' /\ OneCartPerOwner' /\ WithinStock' /\ AddsAreSums'
  BY <1>1 DEF IInv, RequestsOK, Names, OneCartPerOwner, WithinStock, AddsAreSums, Exists, CartsOf
<1> QED
  BY <1>2, <1>3 DEF IInv

LEMMA TimeStep == ASSUME IInv, HalfWeek PROVE IInv'
<1>1. \A c \in Cart : /\ carts'[c].owner = carts[c].owner /\ carts'[c].items = carts[c].items
                      /\ carts'[c] \in Row
  <2> SUFFICES ASSUME NEW c \in Cart
               PROVE  /\ carts'[c].owner = carts[c].owner /\ carts'[c].items = carts[c].items
                      /\ carts'[c] \in Row
    OBVIOUS
  <2>1. carts[c] \in Row
    BY DEF IInv, CartsTypeOK, Row
  <2>2. carts'[c] = carts[c] \/ (carts[c].age < 2 /\ carts'[c] = [carts[c] EXCEPT !.age = @ + 1])
    BY DEF HalfWeek
  <2> QED
    BY <2>1, <2>2 DEF Row
<1>2. carts' \in [Cart -> Row]
  BY <1>1 DEF HalfWeek
<1>3. /\ UNCHANGED <<shelf, rq, added, plain>>
      /\ cookie' \in Session \cup {NoSession} /\ cookieAge' \in 0 .. 2
  BY DEF HalfWeek, IInv, CartsTypeOK
<1>4. CartsTypeOK'
  BY <1>2, <1>3 DEF IInv, CartsTypeOK, Row
<1>5. RequestsOK'
  BY <1>1, <1>3 DEF IInv, RequestsOK, Names, Exists
<1>6. OneCartPerOwner' /\ WithinStock' /\ AddsAreSums'
  <2>1. \A o : CartsOf(o)' = CartsOf(o)
    BY <1>1 DEF CartsOf
  <2> QED
    BY <1>1, <1>3, <2>1 DEF IInv, OneCartPerOwner, WithinStock, AddsAreSums, Exists, CartsOf
<1> QED
  BY <1>4, <1>5, <1>6 DEF IInv

LEMMA CartsInit == Init => IInv
<1> SUFFICES ASSUME Init PROVE IInv
  OBVIOUS
<1>1. CartsTypeOK
  BY Resting DEF Init, CartsTypeOK, Row
<1>2. \A r \in Request : rq[r] = Rest /\ Names(rq[r])
  BY Resting, RestNames DEF Init
<1>3. RequestsOK
  BY <1>2, Resting DEF RequestsOK
<1>4. \A c \in Cart : carts[c] = NoRow /\ ~ Exists(c)
  BY Resting DEF Init, Exists
<1>5. OneCartPerOwner /\ WithinStock
  <2>1. \A s \in Sku : Zero[s] <= MaxStock
    BY CartConstants DEF Zero
  <2> QED
    BY <1>4, <2>1, Resting DEF OneCartPerOwner, WithinStock
<1>6. AddsAreSums
  <2>1. \A o \in Owner : CartsOf(o) = {} /\ added[o] = Zero
    BY <1>4, Resting, CartConstants DEF CartsOf, Init
  <2> QED
    BY <2>1 DEF AddsAreSums, Init
<1> QED
  BY <1>1, <1>3, <1>5, <1>6 DEF IInv

LEMMA CartsNext == ASSUME IInv, [Next]_vars PROVE IInv'
<1>1. ASSUME NEW r \in Request, FindCart(r) \/ CreateCart(r) \/ AddItem(r) \/ LoadItem(r) \/ WriteItem(r)
                                \/ LoseItem(r) \/ Lose(r)
      PROVE  IInv'
  BY <1>1, FindStep, CreateStep, AddStep, LoadStep, WriteStep, LoseStep
<1>2. ASSUME NEW r \in Request, ReadGuest(r) \/ SumItems(r) \/ MergeCarts(r) \/ DropGuest(r)
      PROVE  IInv'
  BY <1>2, ReadStep, SumStep, MergeStep, DropStep
<1>3. ASSUME NEW r \in Request, NEW o \in Owner, Visit(r, o) PROVE IInv'
  BY <1>3, VisitStep
<1>4. ASSUME NEW r \in Request, NEW m \in Member, Login(r, m) PROVE IInv'
  BY <1>4, LoginStep
<1>5. ASSUME NEW s \in Sku, Stock(s) PROVE IInv'
  BY <1>5, ShelfStep
<1>6. ASSUME NEW m \in Member, Order(m) PROVE IInv'
  BY <1>6, VanishStep DEF Order, CartsOf
<1>7. CASE HalfWeek
  BY <1>7, TimeStep
<1>8. CASE Sweep
  BY <1>8, VanishStep DEF Sweep, Stale
<1>9. CASE UNCHANGED vars
  <2>1. UNCHANGED <<carts, shelf, rq, cookie, cookieAge, added, plain>>
    BY <1>9 DEF vars, cartVars
  <2> QED
    BY <2>1 DEF IInv, CartsTypeOK, RequestsOK, Names, OneCartPerOwner, WithinStock, AddsAreSums, Exists, CartsOf
<1> QED
  BY <1>1, <1>2, <1>3, <1>4, <1>5, <1>6, <1>7, <1>8, <1>9 DEF Next

LEMMA CartsInductive == Spec => []IInv
<1> QED
  BY CartsInit, CartsNext, PTL DEF Spec

(* The tables, the requests and the cookie keep their types (cartService.ts,   *)
(* routes/cart.ts).                                                            *)
THEOREM CartsTypeCorrect == Spec => []CartsTypeOK
<1>1. IInv => CartsTypeOK
  BY DEF IInv
<1> QED
  BY <1>1, CartsInductive, PTL

(* However many requests race to make the cart of one owner, there is one      *)
(* (getOrCreateCart, cartService.ts:57-73).                                    *)
THEOREM OwnersHaveOneCart == Spec => []OneCartPerOwner
<1>1. IInv => OneCartPerOwner
  BY DEF IInv
<1> QED
  BY <1>1, CartsInductive, PTL

(* Adds never get lost or counted twice, whatever runs beside them             *)
(* (cartService.ts:75).                                                        *)
THEOREM NoAddIsLost == Spec => []AddsAreSums
<1>1. IInv => AddsAreSums
  BY DEF IInv
<1> QED
  BY <1>1, CartsInductive, PTL

(* What was judged against the shelf and is written later is never more than   *)
(* the shelf can hold (addItem, updateItem, mergeGuestCart).                   *)
THEOREM CartsWithinStock == Spec => []WithinStock
<1>1. IInv => WithinStock
  BY DEF IInv
<1> QED
  BY <1>1, CartsInductive, PTL

--------------------------------------------------------------------------------
(* The ledger of units. What a merge carries from one transaction's statement  *)
(* to the next stays covered by it for as long as the rows it was read from    *)
(* are there: an owner's ledger only grows while he has his cart, and a merge  *)
(* whose guest's row is gone writes nothing.                                   *)

Granted(q) ==
    (q.op = "merge" /\ Exists(q.guest)) =>
        \A s \in Sku :
            /\ q.pc \notin {"merge", "drop"} => q.grant[s] <= added[q.sid][s]
            /\ q.pc = "merge" =>
                  /\ q.cart = NoCart => q.grant[s] <= added[q.sid][s]
                  /\ Exists(q.cart)  => q.grant[s] <= added[q.sid][s] + added[q.owner][s]

(* An item that is about to be written by id is in a cart that exists.         *)
Loaded(q) == q.pc = "write" => Exists(q.cart)

BlankRows == \A c \in Cart : ~ Exists(c) => carts[c].items = Zero

LedgerInv ==
    /\ NoUnitInvented
    /\ BlankRows
    /\ \A r \in Request : Granted(rq[r]) /\ Loaded(rq[r])

LEMMA RestGranted == ASSUME NEW q, q.guest = NoCart \/ q.op # "merge" PROVE Granted(q)
  BY Resting DEF Granted

LEMMA QuietLedger ==
    ASSUME IInv, LedgerInv, NEW r \in Request, NEW q \in Handlers, Granted(q), Loaded(q),
           rq' = [rq EXCEPT ![r] = q], UNCHANGED <<carts, added>>
    PROVE  LedgerInv'
<1>1. \A p \in Request : rq'[p] = IF p = r THEN q ELSE rq[p]
  BY DEF IInv, CartsTypeOK
<1>2. NoUnitInvented' /\ BlankRows'
  BY DEF LedgerInv, NoUnitInvented, BlankRows, Exists
<1>3. \A p \in Request : Granted(rq[p])' /\ Loaded(rq[p])'
  BY <1>1 DEF LedgerInv, Granted, Loaded, Exists
<1> QED
  BY <1>2, <1>3 DEF LedgerInv

LEMMA FailLedger ==
    ASSUME IInv, LedgerInv, NEW r \in Request, Fail(r) \/ MergeFails(r)
    PROVE  LedgerInv'
<1>1. rq' = [rq EXCEPT ![r] = Rest] /\ UNCHANGED <<carts, added>>
  BY DEF Fail, MergeFails
<1>2. Rest.pc = "idle"
  BY DEF Rest
<1> QED
  BY <1>1, <1>2, Resting, RestGranted, QuietLedger DEF Loaded

(* Rows are written or, those of C, disappear: what the requests carry.        *)
LEMMA WriteLedger ==
    ASSUME IInv, LedgerInv, NEW C \in SUBSET Cart, added' \in [Owner -> [Sku -> Nat]],
           \A p \in Request : Answered(p) /\ (rq'[p].pc = "write" => rq[p].cart \notin C),
           \A c \in C : ~ Exists(c)',
           \A c \in Cart \ C : Exists(c) =>
               /\ carts'[c].owner = carts[c].owner
               /\ \A s \in Sku : added[carts[c].owner][s] <= added'[carts[c].owner][s],
           \A c \in Cart : (~ Exists(c) /\ ~ Unused(c)) => ~ Exists(c)'
    PROVE  \A p \in Request : Granted(rq[p])' /\ Loaded(rq[p])'
<1> SUFFICES ASSUME NEW p \in Request PROVE Granted(rq[p])' /\ Loaded(rq[p])'
  OBVIOUS
<1>1. rq[p] \in Handlers /\ Knows(rq[p]) /\ Names(rq[p]) /\ Granted(rq[p]) /\ Loaded(rq[p])
  BY RequestFacts DEF LedgerInv
<1>2. CASE rq'[p] = Rest
  <2>1. Rest.pc = "idle" /\ Rest.op = "get"
    BY DEF Rest
  <2> QED
    BY <1>2, <2>1 DEF Granted, Loaded
<1>3. CASE rq[p].pc = "write" /\ rq'[p] = [rq[p] EXCEPT !.pc = "lost"]
  <2>1. rq'[p].pc = "lost" /\ rq'[p].op = rq[p].op /\ rq[p].op # "merge"
    BY <1>1, <1>3 DEF Knows, Handlers
  <2> QED
    BY <2>1 DEF Granted, Loaded
<1>4. CASE rq'[p] = rq[p]
  <2>1. ASSUME NEW c \in Cart, ~ Unused(c), carts'[c].owner # NoOwner
        PROVE  /\ Exists(c) /\ c \notin C /\ carts'[c].owner = carts[c].owner
               /\ \A s \in Sku : added[carts[c].owner][s] <= added'[carts[c].owner][s]
    BY <2>1 DEF Exists
  <2>2. ~ Unused(rq[p].cart) /\ ~ Unused(rq[p].guest)
    BY DEF Unused
  <2>3. Loaded(rq[p])'
    BY <1>1, <1>4 DEF Loaded, Exists
  <2>4. ASSUME rq[p].op = "merge", rq[p].guest \in Cart, carts'[rq[p].guest].owner # NoOwner, NEW s \in Sku
        PROVE  /\ rq[p].pc \notin {"merge", "drop"} => rq[p].grant[s] <= added'[rq[p].sid][s]
               /\ rq[p].pc = "merge" =>
                     /\ rq[p].cart = NoCart => rq[p].grant[s] <= added'[rq[p].sid][s]
                     /\ (rq[p].cart \in Cart /\ carts'[rq[p].cart].owner # NoOwner)
                           => rq[p].grant[s] <= added'[rq[p].sid][s] + added'[rq[p].owner][s]
    <3>1. /\ Exists(rq[p].guest) /\ carts[rq[p].guest].owner = rq[p].sid
          /\ added[rq[p].sid][s] <= added'[rq[p].sid][s]
      BY <1>1, <2>1, <2>2, <2>4 DEF Names
    <3>2. (rq[p].cart \in Cart /\ carts'[rq[p].cart].owner # NoOwner) =>
             Exists(rq[p].cart) /\ added[rq[p].owner][s] <= added'[rq[p].owner][s]
      BY <1>1, <2>1, <2>2, <2>4 DEF Names
    <3>3. /\ rq[p].grant[s] \in Nat /\ added[rq[p].sid][s] \in Nat /\ added[rq[p].owner][s] \in Nat
          /\ added'[rq[p].sid][s] \in Nat /\ added'[rq[p].owner][s] \in Nat
      BY <1>1, <2>4 DEF Knows, Handlers, Owner, IInv, CartsTypeOK
    <3>4. /\ rq[p].pc \notin {"merge", "drop"} => rq[p].grant[s] <= added[rq[p].sid][s]
          /\ rq[p].pc = "merge" =>
                /\ rq[p].cart = NoCart => rq[p].grant[s] <= added[rq[p].sid][s]
                /\ Exists(rq[p].cart)  => rq[p].grant[s] <= added[rq[p].sid][s] + added[rq[p].owner][s]
      BY <1>1, <2>4, <3>1 DEF Granted
    <3> QED
      BY <3>1, <3>2, <3>3, <3>4
  <2> QED
    BY <1>4, <2>3, <2>4 DEF Granted, Exists
<1> QED
  BY <1>2, <1>3, <1>4 DEF Answered

LEMMA ArrivalLedger ==
    ASSUME IInv, LedgerInv, NEW r \in Request,
           (\E o \in Owner : Visit(r, o)) \/ (\E m \in Member : Login(r, m))
    PROVE  LedgerInv'
<1>1. ASSUME NEW o \in Owner, Visit(r, o) PROVE LedgerInv'
  <2>1. PICK q \in Asks(o) : rq' = [rq EXCEPT ![r] = q]
    BY <1>1 DEF Visit
  <2>2. q \in Handlers /\ Granted(q) /\ Loaded(q)
    BY AsksFacts, RestGranted DEF Loaded
  <2>3. UNCHANGED <<carts, added>>
    BY <1>1 DEF Visit
  <2> QED
    BY <2>1, <2>2, <2>3, QuietLedger
<1>2. ASSUME NEW m \in Member, Login(r, m) PROVE LedgerInv'
  <2>1. PICK q : q = [Rest EXCEPT !.pc = "guest", !.op = "merge", !.owner = m, !.sid = cookie]
    OBVIOUS
  <2>2. rq' = [rq EXCEPT ![r] = q] /\ UNCHANGED <<carts, added>>
    BY <1>2, <2>1 DEF Login
  <2>3. q \in Handlers /\ q.guest = NoCart /\ q.pc = "guest"
    BY <2>1, Resting DEF Handlers, Owner, IInv, CartsTypeOK
  <2> QED
    BY <2>2, <2>3, RestGranted, QuietLedger DEF Loaded
<1> QED
  BY <1>1, <1>2

(* A request moves on to pc.                                                   *)
LEMMA GotoLedger ==
    ASSUME IInv, LedgerInv, NEW r \in Request,
           NEW pc \in {"sum", "create", "refetch", "write"}, Goto(r, pc),
           rq[r].pc \notin {"merge", "drop"}, pc = "write" => Exists(rq[r].cart),
           UNCHANGED <<carts, added>>
    PROVE  LedgerInv'
<1>1. rq[r] \in Handlers /\ Granted(rq[r]) /\ rq \in [Request -> Handlers]
  BY RequestFacts DEF LedgerInv, IInv, CartsTypeOK
<1>2. PICK q : q = [rq[r] EXCEPT !.pc = pc]
  OBVIOUS
<1>3. /\ q \in Handlers /\ q.pc = pc /\ q.op = rq[r].op /\ q.guest = rq[r].guest /\ q.cart = rq[r].cart
      /\ q.sid = rq[r].sid /\ q.owner = rq[r].owner /\ q.grant = rq[r].grant
  BY <1>1, <1>2 DEF Handlers
<1>4. Granted(q) /\ Loaded(q)
  BY <1>1, <1>3 DEF Granted, Loaded
<1>5. rq' = [rq EXCEPT ![r] = q]
  BY <1>1, <1>2 DEF Goto
<1> QED
  BY <1>3, <1>4, <1>5, QuietLedger

(* The request has found its cart or made it: c.                               *)
LEMMA ThenGranted ==
    ASSUME IInv, LedgerInv, NEW r \in Request, NEW c \in Cart, Then(r, c),
           rq[r].pc \in {"find", "refetch", "create"}
    PROVE  \E q \in Handlers : rq' = [rq EXCEPT ![r] = q] /\ Granted(q) /\ Loaded(q)
                                /\ (q = Rest \/ (q.cart = c /\ q.guest = rq[r].guest /\ q.pc # "merge"))
<1>1. rq[r] \in Handlers /\ Granted(rq[r])
  BY RequestFacts DEF LedgerInv
<1>2. PICK q \in Handlers :
            /\ rq' = [rq EXCEPT ![r] = q]
            /\ \/ q = Rest
               \/ /\ q.cart = c /\ q.guest = rq[r].guest
                  /\ q.owner = rq[r].owner /\ q.sid = rq[r].sid
                  /\ q.op = rq[r].op /\ q.grant = rq[r].grant /\ q.pc \in {"add", "sum", "load"}
  BY ThenHas
<1>3. CASE q = Rest
  <2>1. Rest.pc = "idle"
    BY DEF Rest
  <2> QED
    BY <1>2, <1>3, <2>1, Resting, RestGranted DEF Loaded
<1>4. CASE q # Rest
  <2>1. Granted(q) /\ Loaded(q)
    BY <1>1, <1>2, <1>4 DEF Granted, Loaded
  <2> QED
    BY <1>2, <1>4, <2>1
<1> QED
  BY <1>3, <1>4

LEMMA FindLedger == ASSUME IInv, LedgerInv, NEW r \in Request, FindCart(r) PROVE LedgerInv'
<1>1. rq[r].pc \in {"find", "refetch"}
  BY DEF FindCart
<1>2. ASSUME NEW c \in CartsOf(rq[r].owner), Then(r, c), UNCHANGED <<carts, added>> PROVE LedgerInv'
  <2>1. c \in Cart
    BY <1>2 DEF CartsOf
  <2> QED
    BY <1>1, <1>2, <2>1, ThenGranted, QuietLedger
<1>3. CASE Fail(r)
  BY <1>3, FailLedger
<1>4. CASE Goto(r, IF rq[r].op = "merge" THEN "sum" ELSE "create") /\ UNCHANGED <<carts, added>>
  BY <1>1, <1>4, GotoLedger
<1> QED
  BY <1>2, <1>3, <1>4 DEF FindCart

LEMMA CreateLedger == ASSUME IInv, LedgerInv, NEW r \in Request, CreateCart(r) PROVE LedgerInv'
<1> DEFINE o == rq[r].owner
<1>1. /\ rq[r].pc = "create" /\ o \in Owner /\ UNCHANGED added
      /\ rq \in [Request -> Handlers] /\ carts \in [Cart -> Row] /\ added \in [Owner -> [Sku -> Nat]]
  BY RequestFacts DEF CreateCart, Knows, IInv, CartsTypeOK, Row
<1>2. CASE CartsOf(o) # {}
  BY <1>1, <1>2, GotoLedger DEF CreateCart
<1>3. CASE CartsOf(o) = {}
  <2> DEFINE row == [NoRow EXCEPT !.owner = o]
  <2>1. PICK c \in Cart : Unused(c) /\ carts' = [carts EXCEPT ![c] = row] /\ Then(r, c)
    BY <1>3 DEF CreateCart
  <2>2. row.owner = o /\ row.items = Zero
    BY <1>1, Resting DEF Row
  <2> HIDE DEF row
  <2>3. carts'[c] = row /\ \A d \in Cart \ {c} : carts'[d] = carts[d]
    BY <1>1, <2>1
  <2>4. PICK q \in Handlers : rq' = [rq EXCEPT ![r] = q] /\ Granted(q) /\ Loaded(q)
                              /\ (q = Rest \/ (q.cart = c /\ q.guest = rq[r].guest /\ q.pc # "merge"))
    BY <1>1, <2>1, ThenGranted
  <2>5. \A p \in Request : rq'[p] = IF p = r THEN q ELSE rq[p]
    BY <1>1, <2>4
  <2>6. NoUnitInvented'
    <3>1. \A s \in Sku : Zero[s] = 0 /\ added[o][s] \in Nat
      BY <1>1 DEF Zero
    <3> QED
      BY <1>1, <2>2, <2>3, <3>1 DEF LedgerInv, NoUnitInvented, Exists
  <2>7. BlankRows'
    BY <2>2, <2>3 DEF LedgerInv, BlankRows, Exists
  <2>8. ASSUME NEW p \in Request PROVE Granted(rq[p])' /\ Loaded(rq[p])'
    <3>1. CASE p # r
      <4>1. rq'[p] = rq[p] /\ rq[p].cart # c /\ rq[p].guest # c /\ Granted(rq[p]) /\ Loaded(rq[p])
        BY <2>1, <2>5, <3>1 DEF Unused, LedgerInv
      <4> QED
        BY <1>1, <2>3, <4>1 DEF Granted, Loaded, Exists
    <3>2. CASE p = r /\ q = Rest
      <4>1. Rest.pc = "idle" /\ Rest.op = "get" /\ rq'[p] = Rest
        BY <2>5, <3>2 DEF Rest
      <4> QED
        BY <4>1 DEF Granted, Loaded
    <3>3. CASE p = r /\ q # Rest
      <4>1. rq'[p] = q /\ q.cart = c /\ q.guest = rq[r].guest /\ q.guest # c /\ Granted(q) /\ Loaded(q)
        BY <2>1, <2>4, <2>5, <3>3 DEF Unused
      <4>2. ~ Exists(c) /\ c # NoCart
        BY <2>1, CartConstants DEF Unused
      <4>3. q.pc # "write"
        BY <4>1, <4>2 DEF Loaded
      <4>4. q.pc # "merge"
        BY <2>4, <3>3
      <4> QED
        BY <1>1, <2>3, <4>1, <4>3, <4>4 DEF Granted, Loaded, Exists
    <3> QED
      BY <3>1, <3>2, <3>3
  <2> QED
    BY <2>6, <2>7, <2>8 DEF LedgerInv
<1> QED
  BY <1>2, <1>3

LEMMA LoadLedger == ASSUME IInv, LedgerInv, NEW r \in Request, LoadItem(r) PROVE LedgerInv'
<1>1. rq[r].pc = "load"
  BY DEF LoadItem
<1>2. CASE Exists(rq[r].cart) /\ Goto(r, "write") /\ UNCHANGED <<carts, added>>
  BY <1>1, <1>2, GotoLedger
<1>3. CASE Fail(r)
  BY <1>3, FailLedger
<1> QED
  BY <1>2, <1>3 DEF LoadItem

(* Units are asked for: o's ledger grows.                                      *)
LEMMA Counted ==
    ASSUME IInv, NEW o \in Owner, NEW s \in Sku, NEW n \in Nat, Counting(o, s, n)
    PROVE  /\ added' \in [Owner -> [Sku -> Nat]]
           /\ added'[o][s] = added[o][s] + n
           /\ \A x \in Owner, t \in Sku : added[x][t] <= added'[x][t]
<1>1. added \in [Owner -> [Sku -> Nat]]
  BY DEF IInv, CartsTypeOK
<1>2. PICK units : units = [added[o] EXCEPT ![s] = @ + n]
  OBVIOUS
<1>3. units \in [Sku -> Nat] /\ units[s] = added[o][s] + n /\ \A t \in Sku : added[o][t] <= units[t]
  BY <1>1, <1>2
<1>4. added' = [added EXCEPT ![o] = units]
  BY <1>1, <1>2 DEF Counting
<1>5. added' \in [Owner -> [Sku -> Nat]] /\ added'[o] = units /\ \A x \in Owner \ {o} : added'[x] = added[x]
  BY <1>1, <1>3, <1>4
<1>6. \A x \in Owner, t \in Sku : added[x][t] <= added'[x][t]
  BY <1>1, <1>3, <1>5
<1> QED
  BY <1>3, <1>5, <1>6

(* One item of a cart that exists is written, and the ledger covers it.        *)
LEMMA ItemLedger ==
    ASSUME IInv, LedgerInv, NEW c \in Cart, Exists(c), NEW s \in Sku, NEW n \in Nat,
           \A d \in Cart : carts'[d].owner = carts[d].owner,
           \A d \in Cart \ {c} : carts'[d] = carts[d],
           carts'[c].items = [carts[c].items EXCEPT ![s] = n],
           \A p \in Request : Answered(p),
           added' \in [Owner -> [Sku -> Nat]],
           \A o \in Owner, t \in Sku : added[o][t] <= added'[o][t],
           n <= added'[carts[c].owner][s]
    PROVE  LedgerInv'
<1>1. /\ \A d \in Cart : carts'[d].owner = carts[d].owner
      /\ \A d \in Cart \ {c} : carts'[d] = carts[d]
      /\ carts'[c].items = [carts[c].items EXCEPT ![s] = n]
  OBVIOUS
<1>2. carts \in [Cart -> Row] /\ added \in [Owner -> [Sku -> Nat]]
  BY DEF IInv, CartsTypeOK, Row
<1>3. NoUnitInvented'
  <2> SUFFICES ASSUME NEW d \in Cart, carts[d].owner # NoOwner, NEW t \in Sku
               PROVE  carts'[d].items[t] <= added'[carts[d].owner][t]
    BY <1>1 DEF NoUnitInvented, Exists
  <2>1. carts[d].items[t] <= added[carts[d].owner][t]
    BY DEF LedgerInv, NoUnitInvented, Exists
  <2>2. carts[d].owner \in Owner /\ carts[d].items \in [Sku -> Nat]
    BY <1>2 DEF Row
  <2>3. carts[d].items[t] <= added'[carts[d].owner][t]
    <3>1. /\ carts[d].items[t] \in Nat /\ added[carts[d].owner][t] \in Nat /\ added'[carts[d].owner][t] \in Nat
          /\ added[carts[d].owner][t] <= added'[carts[d].owner][t]
      BY <1>2, <2>2
    <3> QED
      BY <2>1, <3>1
  <2>4. carts'[d].items[t] = IF d = c /\ t = s THEN n ELSE carts[d].items[t]
    BY <1>1, <2>2
  <2> QED
    BY <2>3, <2>4
<1>4. BlankRows'
  BY <1>1 DEF LedgerInv, BlankRows, Exists
<1>5. \A p \in Request : Granted(rq[p])' /\ Loaded(rq[p])'
  <2>1. \A d \in Cart : Exists(d) =>
            /\ carts'[d].owner = carts[d].owner
            /\ \A t \in Sku : added[carts[d].owner][t] <= added'[carts[d].owner][t]
    BY <1>1, <1>2 DEF Exists, Row
  <2>2. \A d \in Cart : ~ Exists(d) => ~ Exists(d)'
    BY <1>1 DEF Exists
  <2>3. PICK C \in SUBSET Cart : C = {}
    OBVIOUS
  <2>4. \A d \in Cart \ C : Exists(d) =>
            /\ carts'[d].owner = carts[d].owner
            /\ \A t \in Sku : added[carts[d].owner][t] <= added'[carts[d].owner][t]
    BY <2>1
  <2>5. /\ \A p \in Request : Answered(p) /\ (rq'[p].pc = "write" => rq[p].cart \notin C)
        /\ \A d \in C : ~ Exists(d)'
        /\ \A d \in Cart : (~ Exists(d) /\ ~ Unused(d)) => ~ Exists(d)'
    BY <2>2, <2>3
  <2> QED
    BY <2>4, <2>5, WriteLedger
<1> QED
  BY <1>3, <1>4, <1>5 DEF LedgerInv

LEMMA AddLedger == ASSUME IInv, LedgerInv, NEW r \in Request, AddItem(r) PROVE LedgerInv'
<1> DEFINE q == rq[r]
           n == carts[q.cart].items[q.sku] + q.qty
<1>1. /\ q \in Handlers /\ Names(q) /\ q.cart \in Cart /\ q.sku \in Sku /\ q.owner \in Owner /\ q.qty \in Nat
      /\ shelf[q.sku] \in Shelves /\ carts[q.cart] \in Row
      /\ rq \in [Request -> Handlers] /\ added \in [Owner -> [Sku -> Nat]]
  BY RequestFacts DEF AddItem, Knows, Handlers, IInv, CartsTypeOK, Row
<1>2. CASE Exists(q.cart) /\ n <= shelf[q.sku].stock
  <2>1. /\ carts' = [carts EXCEPT ![q.cart].items[q.sku] = n]
        /\ Counting(q.owner, q.sku, q.qty) /\ rq' = [rq EXCEPT ![r] = Rest]
    BY <1>2 DEF AddItem
  <2>2. shelf[q.sku].stock \in Nat /\ shelf[q.sku].stock <= MaxStock /\ MaxStock \in Nat
    BY <1>1, CartConstants
  <2>3. carts[q.cart].items[q.sku] \in Nat
    BY <1>1 DEF Row
  <2>4. n \in Nat /\ n <= MaxStock
    BY <1>1, <1>2, <2>2, <2>3
  <2>5. \A p \in Request : Answered(p)
    BY <1>1, <2>1 DEF Answered
  <2>6. carts[q.cart].owner = q.owner
    BY <1>1, <1>2 DEF Names
  <2>7. /\ added' \in [Owner -> [Sku -> Nat]] /\ added'[q.owner][q.sku] = added[q.owner][q.sku] + q.qty
        /\ \A o \in Owner, t \in Sku : added[o][t] <= added'[o][t]
    BY <1>1, <2>1, Counted
  <2>8. n <= added'[q.owner][q.sku]
    <3>1. carts[q.cart].items[q.sku] <= added[q.owner][q.sku]
      BY <1>1, <1>2, <2>6 DEF LedgerInv, NoUnitInvented
    <3>2. added[q.owner][q.sku] \in Nat
      BY <1>1
    <3> QED
      BY <1>1, <2>3, <2>7, <3>1, <3>2
  <2> HIDE DEF n, q
  <2>9. /\ carts' \in [Cart -> Row]
        /\ \A d \in Cart : carts'[d].owner = carts[d].owner
        /\ \A d \in Cart \ {q.cart} : carts'[d] = carts[d]
        /\ carts'[q.cart].items = [carts[q.cart].items EXCEPT ![q.sku] = n]
        /\ OneCartPerOwner' /\ WithinStock'
    BY <1>1, <2>1, <2>4, ItemWritten
  <2> QED
    BY <1>1, <1>2, <2>4, <2>5, <2>6, <2>7, <2>8, <2>9, ItemLedger
<1>3. CASE Fail(r)
  BY <1>3, FailLedger
<1> QED
  BY <1>2, <1>3 DEF AddItem

LEMMA WriteItemLedger == ASSUME IInv, LedgerInv, NEW r \in Request, WriteItem(r) PROVE LedgerInv'
<1> DEFINE q == rq[r]
           old == carts[q.cart].items[q.sku]
           n == Written(q, old)
<1>1. /\ q \in Handlers /\ Knows(q) /\ Names(q) /\ Loaded(q) /\ q.pc = "write"
      /\ q.cart \in Cart /\ q.sku \in Sku /\ q.owner \in Owner /\ q.qty \in Nat /\ carts[q.cart] \in Row
      /\ rq \in [Request -> Handlers] /\ added \in [Owner -> [Sku -> Nat]]
  BY RequestFacts DEF WriteItem, Knows, Handlers, IInv, CartsTypeOK, Row, LedgerInv
<1>2. n \in Nat /\ n <= MaxStock /\ old \in Nat /\ (n = q.qty \/ n = 0)
  BY <1>1, CartConstants DEF Written, Knows, Row
<1>3. Exists(q.cart) /\ carts[q.cart].owner = q.owner
  BY <1>1 DEF Loaded, Names
<1>4. /\ carts' = [carts EXCEPT ![q.cart].items[q.sku] = n]
      /\ rq' = [rq EXCEPT ![r] = Rest] \/ rq' = [Losing({q.cart}, {q.sku}) EXCEPT ![r] = Rest]
      /\ \/ added' = added /\ n <= old
         \/ q.qty > old /\ n = q.qty /\ Counting(q.owner, q.sku, q.qty - old)
  <2>1. /\ carts' = [carts EXCEPT ![q.cart].items[q.sku] = n]
        /\ IF q.op = "set"
           THEN /\ rq' = [rq EXCEPT ![r] = Rest]
                /\ IF q.qty > old THEN Counting(q.owner, q.sku, q.qty - old) ELSE UNCHANGED added
           ELSE /\ rq' = [Losing({q.cart}, {q.sku}) EXCEPT ![r] = Rest]
                /\ UNCHANGED added
    BY DEF WriteItem
  <2>2. n = IF q.op = "set" THEN q.qty ELSE 0
    BY DEF Written
  <2> HIDE DEF n, old, q
  <2>3. q.qty \in Nat /\ old \in Nat /\ 0 <= old
    BY <1>1, <1>2
  <2>4. CASE q.op = "set" /\ q.qty > old
    BY <2>1, <2>2, <2>4
  <2>5. CASE q.op = "set" /\ ~ (q.qty > old)
    <3>1. n <= old
      BY <2>2, <2>3, <2>5
    <3> QED
      BY <2>1, <2>5, <3>1
  <2>6. CASE q.op # "set"
    <3>1. n <= old
      BY <2>2, <2>3, <2>6
    <3> QED
      BY <2>1, <2>6, <3>1
  <2> QED
    BY <2>4, <2>5, <2>6
<1>5. \A p \in Request : Answered(p)
  <2>1. CASE rq' = [rq EXCEPT ![r] = Rest]
    BY <1>1, <2>1 DEF Answered
  <2>2. CASE rq' = [Losing({q.cart}, {q.sku}) EXCEPT ![r] = Rest]
    BY <2>2, LosingAnswered
  <2> QED
    BY <1>4, <2>1, <2>2
<1>6. old <= added[q.owner][q.sku] /\ added[q.owner][q.sku] \in Nat
  BY <1>1, <1>3 DEF LedgerInv, NoUnitInvented
<1> HIDE DEF n, old, q
<1>7. /\ added' \in [Owner -> [Sku -> Nat]] /\ \A o \in Owner, t \in Sku : added[o][t] <= added'[o][t]
      /\ n <= added'[q.owner][q.sku]
  <2>1. CASE added' = added /\ n <= old
    <3>1. \A o \in Owner, t \in Sku : added[o][t] \in Nat
      BY <1>1
    <3> QED
      BY <1>1, <1>2, <1>6, <2>1, <3>1
  <2>2. CASE q.qty > old /\ n = q.qty /\ Counting(q.owner, q.sku, q.qty - old)
    <3>1. PICK more : more = q.qty - old
      OBVIOUS
    <3>2. more \in Nat /\ n = old + more
      <4>1. q.qty \in Nat /\ old \in Nat /\ q.qty > old /\ n = q.qty
        BY <1>1, <1>2, <2>2
      <4> QED
        BY <3>1, <4>1
    <3>3. Counting(q.owner, q.sku, more)
      BY <2>2, <3>1
    <3>4. /\ added' \in [Owner -> [Sku -> Nat]] /\ added'[q.owner][q.sku] = added[q.owner][q.sku] + more
          /\ \A o \in Owner, t \in Sku : added[o][t] <= added'[o][t]
      BY <1>1, <3>2, <3>3, Counted
    <3>5. n <= added'[q.owner][q.sku]
      BY <1>2, <1>6, <3>2, <3>4
    <3> QED
      BY <3>4, <3>5
  <2> QED
    BY <1>4, <2>1, <2>2
<1>8. /\ carts' \in [Cart -> Row]
      /\ \A d \in Cart : carts'[d].owner = carts[d].owner
      /\ \A d \in Cart \ {q.cart} : carts'[d] = carts[d]
      /\ carts'[q.cart].items = [carts[q.cart].items EXCEPT ![q.sku] = n]
      /\ OneCartPerOwner' /\ WithinStock'
  BY <1>1, <1>2, <1>4, ItemWritten
<1> QED
  BY <1>1, <1>2, <1>3, <1>5, <1>7, <1>8, ItemLedger

LEMMA ReadLedger == ASSUME IInv, LedgerInv, NEW r \in Request, ReadGuest(r) PROVE LedgerInv'
<1>1. /\ rq[r] \in Handlers /\ rq[r].pc = "guest" /\ rq[r].op = "merge" /\ rq[r].sid \in Session
      /\ rq \in [Request -> Handlers] /\ carts \in [Cart -> Row] /\ shelf \in [Sku -> Shelves]
      /\ added \in [Owner -> [Sku -> Nat]]
  BY RequestFacts DEF ReadGuest, Knows, IInv, CartsTypeOK, Row
<1>2. CASE MergeFails(r)
  BY <1>2, FailLedger
<1>3. ASSUME NEW c \in CartsOf(rq[r].sid), NEW q, q = Holding(rq[r], c), rq' = [rq EXCEPT ![r] = q],
             UNCHANGED <<carts, added>>
      PROVE  LedgerInv'
  <2>1. c \in Cart /\ carts[c].owner = rq[r].sid /\ carts[c] \in Row /\ Exists(c)
    BY <1>1, <1>3, CartConstants DEF CartsOf, Exists, Owner
  <2>2. PICK kept : kept = [s \in Sku |-> IF shelf[s].active /\ shelf[s].stock > 0 THEN carts[c].items[s] ELSE 0]
    OBVIOUS
  <2>3. kept \in [Sku -> Nat] /\ \A s \in Sku : kept[s] = carts[c].items[s] \/ kept[s] = 0
    BY <2>1, <2>2 DEF Row
  <2>4. PICK caps : caps = [s \in Sku |-> shelf[s].stock]
    OBVIOUS
  <2>5. caps \in [Sku -> Nat]
    <3>1. \A s \in Sku : shelf[s].stock \in 0 .. MaxStock
      BY <1>1, CartConstants
    <3> QED
      BY <2>4, <3>1, CartConstants
  <2>6. PICK pc : pc = IF carts[c].items = Zero THEN "drop" ELSE "find"
    OBVIOUS
  <2>7. q = [rq[r] EXCEPT !.pc = pc, !.guest = c, !.grant = kept, !.cap = caps] /\ pc \in {"drop", "find"}
    BY <1>3, <2>2, <2>4, <2>6 DEF Holding
  <2>8. /\ q \in Handlers /\ q.pc = pc /\ q.guest = c /\ q.grant = kept /\ q.sid = rq[r].sid
    BY <1>1, <2>1, <2>3, <2>5, <2>7 DEF Handlers
  <2>9. \A s \in Sku : kept[s] <= added[rq[r].sid][s]
    <3> SUFFICES ASSUME NEW s \in Sku PROVE kept[s] <= added[rq[r].sid][s]
      OBVIOUS
    <3>1. added[rq[r].sid][s] \in Nat
      BY <1>1 DEF Owner
    <3>2. carts[c].items[s] <= added[rq[r].sid][s]
      BY <2>1 DEF LedgerInv, NoUnitInvented
    <3> QED
      BY <2>3, <3>1, <3>2
  <2>10. Granted(q) /\ Loaded(q)
    BY <2>7, <2>8, <2>9 DEF Granted, Loaded
  <2> QED
    BY <1>3, <2>8, <2>10, QuietLedger
<1> QED
  BY <1>2, <1>3 DEF ReadGuest

LEMMA SumLedger == ASSUME IInv, LedgerInv, NEW r \in Request, SumItems(r) PROVE LedgerInv'
<1> DEFINE had == IF rq[r].cart = NoCart THEN Zero ELSE carts[rq[r].cart].items
<1>1. /\ rq[r] \in Handlers /\ Knows(rq[r]) /\ Names(rq[r]) /\ Granted(rq[r]) /\ rq[r].pc = "sum"
      /\ rq[r].op = "merge" /\ rq[r].sid \in Session /\ rq[r].owner \in Member
      /\ rq \in [Request -> Handlers] /\ carts \in [Cart -> Row] /\ added \in [Owner -> [Sku -> Nat]]
      /\ UNCHANGED <<carts, added>>
  BY RequestFacts DEF SumItems, Knows, IInv, CartsTypeOK, Row, LedgerInv
<1>2. had \in [Sku -> Nat]
  BY <1>1, Resting DEF Handlers, Row
<1>3. PICK sums : sums = Cut(rq[r], had)
  OBVIOUS
<1>4. PICK pc : pc = IF sums = Zero /\ rq[r].cart # NoCart THEN "drop" ELSE "merge"
  OBVIOUS
<1>5. rq' = [rq EXCEPT ![r].grant = sums, ![r].pc = pc]
  BY <1>3, <1>4 DEF SumItems
<1>6. /\ sums \in [Sku -> Nat] /\ pc \in {"drop", "merge"}
      /\ \A s \in Sku : sums[s] <= had[s] + rq[r].grant[s]
  BY <1>1, <1>2, <1>3, <1>4, CutFacts DEF Knows
<1>7. PICK q : q = [rq[r] EXCEPT !.grant = sums, !.pc = pc]
  OBVIOUS
<1>8. /\ q \in Handlers /\ q.pc = pc /\ q.grant = sums /\ q.op = rq[r].op
      /\ q.guest = rq[r].guest /\ q.cart = rq[r].cart /\ q.owner = rq[r].owner /\ q.sid = rq[r].sid
  BY <1>1, <1>6, <1>7 DEF Handlers
<1>9. Granted(q)
  <2> SUFFICES ASSUME Exists(q.guest), NEW s \in Sku
               PROVE  /\ q.cart = NoCart => sums[s] <= added[q.sid][s]
                      /\ Exists(q.cart)  => sums[s] <= added[q.sid][s] + added[q.owner][s]
    BY <1>6, <1>8 DEF Granted
  <2>1. rq[r].grant[s] <= added[q.sid][s]
    BY <1>1, <1>8 DEF Granted
  <2>2. /\ rq[r].grant[s] \in Nat /\ sums[s] \in Nat /\ had[s] \in Nat
        /\ added[q.sid][s] \in Nat /\ added[q.owner][s] \in Nat
    BY <1>1, <1>2, <1>6, <1>8 DEF Handlers, Owner
  <2>3. q.cart = NoCart => had[s] = 0
    BY <1>8 DEF Zero
  <2>4. Exists(q.cart) => had[s] <= added[q.owner][s]
    <3>1. Exists(q.cart) => carts[q.cart].owner = q.owner /\ had = carts[q.cart].items
      BY <1>1, <1>8, CartConstants DEF Names, Exists
    <3> QED
      BY <3>1 DEF LedgerInv, NoUnitInvented, Exists
  <2>5. sums[s] <= had[s] + rq[r].grant[s]
    BY <1>6
  <2> HIDE DEF had
  <2> QED
    BY <2>1, <2>2, <2>3, <2>4, <2>5
<1>10. Loaded(q)
  BY <1>6, <1>8 DEF Loaded
<1>11. rq' = [rq EXCEPT ![r] = q]
  BY <1>1, <1>5, <1>7
<1> QED
  BY <1>1, <1>8, <1>9, <1>10, <1>11, QuietLedger

(* Rows disappear, and the ledgers of their owners with them.                  *)
LEMMA GoneLedger ==
    ASSUME IInv, LedgerInv, NEW C \in SUBSET Cart,
           carts' = [c \in Cart |-> IF c \in C THEN NoRow ELSE carts[c]],
           Forgetting({carts[c].owner : c \in C}),
           \A p \in Request : Answered(p) /\ (rq'[p].pc = "write" => rq[p].cart \notin C)
    PROVE  LedgerInv'
<1>1. /\ \A c \in Cart : carts'[c] = IF c \in C THEN NoRow ELSE carts[c]
      /\ carts \in [Cart -> Row] /\ added \in [Owner -> [Sku -> Nat]] /\ added' \in [Owner -> [Sku -> Nat]]
  BY Forgotten DEF IInv, CartsTypeOK, Row
<1>2. ASSUME NEW c \in Cart \ C, Exists(c)
      PROVE  carts'[c] = carts[c] /\ carts[c].owner \in Owner /\ added'[carts[c].owner] = added[carts[c].owner]
  <2>1. carts[c].owner \in Owner
    BY <1>1, <1>2 DEF Exists, Row
  <2>2. carts[c].owner \notin {carts[d].owner : d \in C}
    BY <1>2 DEF IInv, OneCartPerOwner
  <2> QED
    BY <1>1, <1>2, <2>1, <2>2, Forgotten
<1>3. NoUnitInvented'
  <2> SUFFICES ASSUME NEW c \in Cart, carts'[c].owner # NoOwner, NEW s \in Sku
               PROVE  carts'[c].items[s] <= added'[carts'[c].owner][s]
    BY DEF NoUnitInvented, Exists
  <2>1. c \in Cart \ C /\ Exists(c)
    BY <1>1, Resting DEF Exists
  <2> QED
    BY <1>2, <2>1 DEF LedgerInv, NoUnitInvented
<1>4. BlankRows'
  BY <1>1, Resting DEF LedgerInv, BlankRows, Exists
<1>5. \A p \in Request : Granted(rq[p])' /\ Loaded(rq[p])'
  <2>1. \A c \in Cart \ C : Exists(c) =>
            /\ carts'[c].owner = carts[c].owner
            /\ \A s \in Sku : added[carts[c].owner][s] <= added'[carts[c].owner][s]
    BY <1>1, <1>2
  <2>2. /\ \A c \in C : ~ Exists(c)'
        /\ \A c \in Cart : (~ Exists(c) /\ ~ Unused(c)) => ~ Exists(c)'
    BY <1>1, Resting DEF Exists
  <2> QED
    BY <1>1, <2>1, <2>2, WriteLedger
<1> QED
  BY <1>3, <1>4, <1>5 DEF LedgerInv

(* The requests that had loaded an item of a row of C find it gone.            *)
LEMMA LosingWrites ==
    ASSUME IInv, NEW r \in Request, NEW C,
           rq' = Losing(C, Sku) \/ rq' = [Losing(C, Sku) EXCEPT ![r] = Rest]
    PROVE  \A p \in Request : Answered(p) /\ (rq'[p].pc = "write" => rq[p].cart \notin C)
<1> SUFFICES ASSUME NEW p \in Request PROVE rq'[p].pc = "write" => rq[p].cart \notin C
  BY LosingAnswered
<1>1. rq[p] \in Handlers /\ Knows(rq[p]) /\ Rest.pc = "idle"
  BY RequestFacts DEF Rest
<1>2. rq[p].pc = "write" => rq[p].sku \in Sku
  BY <1>1 DEF Knows
<1>3. [rq[p] EXCEPT !.pc = "lost"].pc = "lost"
  BY <1>1 DEF Handlers
<1>4. \/ rq'[p] = Rest
      \/ rq'[p] = IF rq[p].pc = "write" /\ rq[p].cart \in C /\ rq[p].sku \in Sku
                  THEN [rq[p] EXCEPT !.pc = "lost"] ELSE rq[p]
  BY DEF Losing
<1> QED
  BY <1>1, <1>2, <1>3, <1>4

LEMMA DropLedger == ASSUME IInv, LedgerInv, NEW r \in Request, DropGuest(r) PROVE LedgerInv'
<1> DEFINE q == rq[r]
<1>1. CASE MergeFails(r)
  BY <1>1, FailLedger
<1>2. CASE ~ MergeFails(r)
  <2>1. /\ Exists(q.guest) /\ carts' = [carts EXCEPT ![q.guest] = NoRow]
        /\ rq' = [Losing({q.guest}, Sku) EXCEPT ![r] = Rest] /\ Forgetting({q.sid})
    BY <1>2 DEF DropGuest, GuestThere
  <2>2. q.guest \in Cart /\ carts[q.guest].owner = q.sid
    BY <2>1, RequestFacts DEF Names, Exists
  <2>3. PICK C \in SUBSET Cart : C = {q.guest}
    BY <2>2
  <2>4. carts' = [c \in Cart |-> IF c \in C THEN NoRow ELSE carts[c]]
    BY <2>1, <2>3 DEF IInv, CartsTypeOK
  <2>5. {carts[c].owner : c \in C} = {q.sid}
    BY <2>2, <2>3
  <2>6. \A p \in Request : Answered(p) /\ (rq'[p].pc = "write" => rq[p].cart \notin C)
    BY <2>1, <2>3, LosingWrites
  <2> QED
    BY <2>1, <2>4, <2>5, <2>6, GoneLedger
<1> QED
  BY <1>1, <1>2

LEMMA VanishLedger == ASSUME IInv, LedgerInv, NEW C \in SUBSET Cart, Vanish(C) PROVE LedgerInv'
<1>1. /\ carts' = [c \in Cart |-> IF c \in C THEN NoRow ELSE carts[c]]
      /\ rq' = Losing(C, Sku)
      /\ Forgetting({carts[c].owner : c \in C})
  BY DEF Vanish
<1>2. \A p \in Request : Answered(p) /\ (rq'[p].pc = "write" => rq[p].cart \notin C)
  BY <1>1, LosingWrites
<1> QED
  BY <1>1, <1>2, GoneLedger

LEMMA MergeLedger == ASSUME IInv, LedgerInv, NEW r \in Request, MergeCarts(r) PROVE LedgerInv'
<1> DEFINE q == rq[r]
<1>1. /\ q \in Handlers /\ Names(q) /\ Granted(q) /\ q.pc = "merge" /\ q.op = "merge"
      /\ q.owner \in Member /\ q.sid \in Session
      /\ carts \in [Cart -> Row] /\ added \in [Owner -> [Sku -> Nat]]
  BY RequestFacts DEF MergeCarts, Knows, IInv, CartsTypeOK, Row, LedgerInv
<1>2. CASE MergeFails(r)
  BY <1>2, FailLedger
<1>3. CASE ~ MergeFails(r)
  <2>1. /\ Exists(q.guest) /\ carts[q.guest].owner = q.sid
        /\ rq' = [Losing({q.guest}, Sku) EXCEPT ![r] = Rest] /\ HandingOn(q.sid, q.owner)
    BY <1>3, MergedRows
  <2>2. PICK c \in Cart : Merged(q, c)
    BY <1>3, MergedRows
  <2>3. \A p \in Request : Answered(p) /\ (rq'[p].pc = "write" => rq[p].cart \notin {q.guest})
    BY <2>1, LosingWrites
  <2> HIDE DEF q
  <2>4. /\ c # q.guest /\ Target(q, c) /\ carts[c].owner \in {q.owner, NoOwner}
        /\ \A d \in Cart : d # c => carts[d].owner # q.owner
        /\ carts' \in [Cart -> Row] /\ carts'[c].owner = q.owner
        /\ \A s \in Sku : carts'[c].items[s] = IF q.grant[s] > 0 THEN q.grant[s] ELSE carts[c].items[s]
        /\ carts'[q.guest] = NoRow /\ \A d \in Cart \ {c, q.guest} : carts'[d] = carts[d]
    BY <2>2 DEF Merged
  <2>5. /\ added' \in [Owner -> [Sku -> Nat]]
        /\ \A s \in Sku : added'[q.owner][s] = added[q.owner][s] + added[q.sid][s]
        /\ \A o \in Owner \ {q.sid, q.owner} : added'[o] = added[o]
    BY <1>1, <2>1, HandedOn
  <2>6. q.owner \in Owner /\ q.sid \in Owner /\ q.guest \in Cart /\ q.owner # NoOwner
    BY <1>1, <2>1, CartConstants DEF Exists, Owner
  <2>7. \A d \in Cart \ {c, q.guest} : Exists(d) => carts[d].owner \in Owner \ {q.sid, q.owner}
    BY <1>1, <2>1, <2>4, <2>6 DEF Exists, Row, IInv, OneCartPerOwner
  <2>8. ASSUME NEW s \in Sku PROVE carts'[c].items[s] <= added'[q.owner][s]
    <3>1. /\ added[q.owner][s] \in Nat /\ added[q.sid][s] \in Nat /\ carts[c].items[s] \in Nat
          /\ q.grant[s] \in Nat
      BY <1>1, <2>6 DEF Handlers, Row
    <3>2. carts[c].items[s] <= added[q.owner][s]
      <4>1. CASE Exists(c)
        <5>1. carts[c].owner = q.owner
          BY <2>4, <4>1 DEF Exists
        <5> QED
          BY <4>1, <5>1 DEF LedgerInv, NoUnitInvented
      <4>2. CASE ~ Exists(c)
        <5>1. carts[c].items[s] = 0
          BY <4>2 DEF LedgerInv, BlankRows, Zero
        <5> QED
          BY <3>1, <5>1
      <4> QED
        BY <4>1, <4>2
    <3>3. q.grant[s] <= added[q.owner][s] + added[q.sid][s]
      <4>1. CASE q.cart = NoCart
        <5>1. q.grant[s] <= added[q.sid][s]
          BY <1>1, <2>1, <4>1 DEF Granted
        <5> QED
          BY <3>1, <5>1
      <4>2. CASE q.cart # NoCart
        <5>1. Exists(q.cart)
          BY <2>4, <4>2 DEF Target
        <5>2. q.grant[s] <= added[q.sid][s] + added[q.owner][s]
          BY <1>1, <2>1, <5>1 DEF Granted
        <5> QED
          BY <3>1, <5>2
      <4> QED
        BY <4>1, <4>2
    <3> QED
      BY <2>4, <2>5, <3>1, <3>2, <3>3
  <2>9. NoUnitInvented'
    <3> SUFFICES ASSUME NEW d \in Cart, carts'[d].owner # NoOwner, NEW s \in Sku
                 PROVE  carts'[d].items[s] <= added'[carts'[d].owner][s]
      BY DEF NoUnitInvented, Exists
    <3>1. CASE d = c
      BY <2>4, <2>8, <3>1
    <3>2. CASE d # c
      <4>1. d \in Cart \ {c, q.guest} /\ carts'[d] = carts[d] /\ Exists(d)
        BY <2>4, <3>2, Resting DEF Exists
      <4>2. added'[carts[d].owner] = added[carts[d].owner]
        BY <2>5, <2>7, <4>1
      <4> QED
        BY <4>1, <4>2 DEF LedgerInv, NoUnitInvented
    <3> QED
      BY <3>1, <3>2
  <2>10. BlankRows'
    BY <2>4, <2>6, Resting DEF LedgerInv, BlankRows, Exists
  <2>11. \A p \in Request : Granted(rq[p])' /\ Loaded(rq[p])'
    <3>1. PICK C \in SUBSET Cart : C = {q.guest}
      BY <2>6
    <3>2. \A d \in Cart \ C : Exists(d) =>
              /\ carts'[d].owner = carts[d].owner
              /\ \A s \in Sku : added[carts[d].owner][s] <= added'[carts[d].owner][s]
      <4> SUFFICES ASSUME NEW d \in Cart \ C, Exists(d)
                   PROVE  /\ carts'[d].owner = carts[d].owner
                          /\ \A s \in Sku : added[carts[d].owner][s] <= added'[carts[d].owner][s]
        OBVIOUS
      <4>1. CASE d = c
        <5>1. carts'[d].owner = q.owner /\ carts[d].owner = q.owner
          BY <2>4, <4>1 DEF Exists
        <5>2. \A s \in Sku : added[q.owner][s] \in Nat /\ added[q.sid][s] \in Nat
          BY <1>1, <2>6
        <5> QED
          BY <2>5, <5>1, <5>2
      <4>2. CASE d # c
        <5>1. carts'[d] = carts[d] /\ added'[carts[d].owner] = added[carts[d].owner] /\ carts[d].owner \in Owner
          BY <2>4, <2>5, <2>7, <3>1, <4>2
        <5>2. \A s \in Sku : added[carts[d].owner][s] \in Nat
          BY <1>1, <5>1
        <5> QED
          BY <5>1, <5>2
      <4> QED
        BY <4>1, <4>2
    <3>3. \A d \in C : ~ Exists(d)'
      BY <2>4, <3>1, Resting DEF Exists
    <3>4. \A d \in Cart : (~ Exists(d) /\ ~ Unused(d)) => ~ Exists(d)'
      <4> SUFFICES ASSUME NEW d \in Cart, ~ Exists(d), ~ Unused(d) PROVE ~ Exists(d)'
        OBVIOUS
      <4>1. d # c
        BY <2>4 DEF Target
      <4> QED
        BY <2>4, <4>1, Resting DEF Exists
    <3> QED
      BY <2>3, <2>5, <3>1, <3>2, <3>3, <3>4, WriteLedger
  <2> QED
    BY <2>9, <2>10, <2>11 DEF LedgerInv
<1> QED
  BY <1>2, <1>3

LEMMA TimeLedger == ASSUME IInv, LedgerInv, HalfWeek PROVE LedgerInv'
<1>1. \A c \in Cart : carts'[c].owner = carts[c].owner /\ carts'[c].items = carts[c].items
  <2> SUFFICES ASSUME NEW c \in Cart
               PROVE  carts'[c].owner = carts[c].owner /\ carts'[c].items = carts[c].items
    OBVIOUS
  <2>1. carts[c] \in Row
    BY DEF IInv, CartsTypeOK, Row
  <2>2. carts'[c] = carts[c] \/ carts'[c] = [carts[c] EXCEPT !.age = @ + 1]
    BY DEF HalfWeek
  <2> QED
    BY <2>1, <2>2 DEF Row
<1>2. UNCHANGED <<rq, added>>
  BY DEF HalfWeek
<1> QED
  BY <1>1, <1>2 DEF LedgerInv, NoUnitInvented, BlankRows, Granted, Loaded, Exists

LEMMA LedgerInit == Init => LedgerInv
<1> SUFFICES ASSUME Init PROVE LedgerInv
  OBVIOUS
<1>1. (\A r \in Request : rq[r] = Rest) /\ (\A c \in Cart : carts[c] = NoRow)
  BY DEF Init
<1>2. Rest.pc = "idle"
  BY DEF Rest
<1> QED
  BY <1>1, <1>2, Resting, RestGranted DEF LedgerInv, NoUnitInvented, BlankRows, Loaded, Exists

LEMMA LedgerNext == ASSUME IInv, LedgerInv, [Next]_vars PROVE LedgerInv'
<1>1. ASSUME NEW r \in Request, FindCart(r) \/ CreateCart(r) \/ AddItem(r) \/ LoadItem(r) \/ WriteItem(r)
      PROVE  LedgerInv'
  BY <1>1, FindLedger, CreateLedger, AddLedger, LoadLedger, WriteItemLedger
<1>2. ASSUME NEW r \in Request, LoseItem(r) \/ Lose(r) PROVE LedgerInv'
  <2>1. CASE LoseItem(r)
    BY <2>1, FailLedger DEF LoseItem
  <2>2. CASE Lose(r)
    <3>1. rq' = [rq EXCEPT ![r] = Rest] /\ UNCHANGED <<carts, added>> /\ Rest.pc = "idle"
      BY <2>2 DEF Lose, Rest
    <3> QED
      BY <3>1, Resting, RestGranted, QuietLedger DEF Loaded
  <2> QED
    BY <1>2, <2>1, <2>2
<1>3. ASSUME NEW r \in Request, ReadGuest(r) \/ SumItems(r) \/ MergeCarts(r) \/ DropGuest(r)
      PROVE  LedgerInv'
  BY <1>3, ReadLedger, SumLedger, MergeLedger, DropLedger
<1>4. ASSUME NEW r \in Request, (\E o \in Owner : Visit(r, o)) \/ (\E m \in Member : Login(r, m))
      PROVE  LedgerInv'
  BY <1>4, ArrivalLedger
<1>5. ASSUME NEW s \in Sku, Stock(s) PROVE LedgerInv'
  <2>1. UNCHANGED <<carts, rq, added>>
    BY <1>5 DEF Stock
  <2> QED
    BY <2>1 DEF LedgerInv, NoUnitInvented, BlankRows, Granted, Loaded, Exists
<1>6. ASSUME NEW m \in Member, Order(m) PROVE LedgerInv'
  BY <1>6, VanishLedger DEF Order, CartsOf
<1>7. CASE HalfWeek
  BY <1>7, TimeLedger
<1>8. CASE Sweep
  BY <1>8, VanishLedger DEF Sweep, Stale
<1>9. CASE UNCHANGED vars
  <2>1. UNCHANGED <<carts, rq, added>>
    BY <1>9 DEF vars, cartVars
  <2> QED
    BY <2>1 DEF LedgerInv, NoUnitInvented, BlankRows, Granted, Loaded, Exists
<1> QED
  BY <1>1, <1>2, <1>3, <1>4, <1>5, <1>6, <1>7, <1>8, <1>9 DEF Next

(* A cart never holds a unit that was not asked for in it, or in a guest's     *)
(* cart that no other cart has been given: not with two logins on one cookie,  *)
(* a retried merge, edits or a checkout between the merge's reads and its      *)
(* writes (mergeGuestCart, cartService.ts:150-239).                            *)
THEOREM UnitsAskedFor == Spec => []NoUnitInvented
<1>1. Init => IInv /\ LedgerInv
  BY CartsInit, LedgerInit
<1>2. IInv /\ LedgerInv /\ [Next]_vars => (IInv /\ LedgerInv)'
  BY CartsNext, LedgerNext
<1>3. IInv /\ LedgerInv => NoUnitInvented
  BY DEF LedgerInv
<1> QED
  BY <1>1, <1>2, <1>3, PTL DEF Spec
================================================================================
