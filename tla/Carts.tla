--------------------------------- MODULE Carts ---------------------------------
(*******************************************************************************)
(* services/cartService.ts with its callers: the cart routes (routes/cart.ts), *)
(* the merge of a guest's cart at login (routes/auth.ts) and the sweep of      *)
(* stale guest carts (jobs/cleanupStaleGuestCarts.ts). Requests interleave     *)
(* statement by statement. One browser carries the cart_session cookie; the    *)
(* requests of a member may come from this browser or from another device.     *)
(* What one transaction writes under row locks it holds until COMMIT is one    *)
(* step here; the reads its decisions rest on are steps of their own.          *)
(*******************************************************************************)
EXTENDS Integers, FiniteSets, FiniteSetsExt

CONSTANTS Sku, Member,
          Session,      \* ids that newGuestSessionId may draw
          NoSession,    \* no cookie
          Cart,         \* ids of rows of the table carts
          NoCart, NoOwner, NoSku, Request,
          Qtys,         \* quantities a request may name
          Shelves,      \* what a SKU's stock and status may be
          MaxStock,     \* the most the shelf ever holds of a SKU
          MaxUnits      \* bound: requests ask for units while fewer have been granted

Owner == Member \cup Session

ASSUME CartConstants ==
    /\ Member \cap Session = {}
    /\ NoOwner \notin Owner /\ NoSession \notin Owner /\ NoCart \notin Cart /\ NoSku \notin Sku
    /\ Qtys \subseteq Nat \ {0}
    /\ MaxStock \in Nat /\ MaxUnits \in Nat
    /\ Shelves \subseteq [stock : 0 .. MaxStock, active : BOOLEAN]

VARIABLES
    carts,      \* the rows of carts with their cart_items; a quantity of 0 is no item
    shelf,      \* per SKU, its stock and whether it is ACTIVE (written by other services)
    rq,         \* per request, the locals of its handler
    cookie,     \* the browser's cart_session
    cookieAge,  \* half-weeks since the cookie was last set
    added,      \* per owner, the units that requests asked for and got in the cart he has now,
                \* those of a guest's cart that was merged into it among them (history)
    plain       \* owners whose cart nothing but "add to cart" has written (history)

cartVars == <<carts, rq, added, plain>>
vars == <<cartVars, shelf, cookie, cookieAge>>

Zero  == [s \in Sku |-> 0]
NoRow == [owner |-> NoOwner, items |-> Zero, age |-> 0]
Rest  == [pc |-> "idle", op |-> "get", owner |-> NoOwner, sid |-> NoSession, sku |-> NoSku, qty |-> 0,
          cart |-> NoCart, guest |-> NoCart, grant |-> Zero, cap |-> Zero]

\* cart: the row getOrCreateCart returned; guest, grant, cap: the guest's row, the units
\* mergeGuestCart will write into the member's and the stock it has read.
Handlers ==
    [pc : {"idle", "find", "create", "refetch", "add", "load", "write", "lost",
           "guest", "sum", "merge", "drop"},
     op : {"get", "add", "set", "remove", "merge"},
     owner : Owner \cup {NoOwner}, sid : Session \cup {NoSession}, sku : Sku \cup {NoSku}, qty : Nat,
     cart : Cart \cup {NoCart}, guest : Cart \cup {NoCart}, grant : [Sku -> Nat], cap : [Sku -> Nat]]

CartsTypeOK ==
    /\ carts \in [Cart -> [owner : Owner \cup {NoOwner}, items : [Sku -> Nat], age : 0 .. 2]]
    /\ shelf \in [Sku -> Shelves]
    /\ rq \in [Request -> Handlers]
    /\ cookie \in Session \cup {NoSession}
    /\ cookieAge \in 0 .. 2
    /\ added \in [Owner -> [Sku -> Nat]]
    /\ plain \in SUBSET Owner

Init ==
    /\ carts = [c \in Cart |-> NoRow]
    /\ shelf \in [Sku -> Shelves]
    /\ rq = [r \in Request |-> Rest]
    /\ cookie = NoSession
    /\ cookieAge = 0
    /\ added = [o \in Owner |-> Zero]
    /\ plain = Owner

--------------------------------------------------------------------------------

CartsOf(o)  == {c \in Cart : carts[c].owner = o}
Exists(c)   == c \in Cart /\ carts[c].owner # NoOwner
\* A cuid is never drawn twice: a row that a request still names is not reused.
Unused(c)   == ~ Exists(c) /\ \A r \in Request : rq[r].cart # c /\ rq[r].guest # c
\* Likewise a session that a cart, a cookie or a request names.
Mintable(g) == g # cookie /\ CartsOf(g) = {} /\ \A r \in Request : g \notin {rq[r].owner, rq[r].sid}

\* The owner a request without a Bearer token has: the cookie's, or a new session.
GuestOwner(o) == o \in Session /\ IF cookie = NoSession THEN Mintable(o) ELSE o = cookie

Goto(r, pc)  == rq' = [rq EXCEPT ![r].pc = pc]
\* The row of an item that a request has loaded is deleted: its UPDATE or DELETE by id
\* will find nothing (P2025).
Losing(C, S) == [q \in Request |->
    IF rq[q].pc = "write" /\ rq[q].cart \in C /\ rq[q].sku \in S THEN [rq[q] EXCEPT !.pc = "lost"] ELSE rq[q]]

\* The answer of a cart route carries the cookie of a session it has minted, and after a
\* write the guest's cookie again, for another seven days. The answer may be lost.
SetCookie(q, wrote) ==
    \/ q.owner \in Session /\ (wrote \/ q.sid = NoSession) /\ cookie' = q.owner /\ cookieAge' = 0
    \/ UNCHANGED <<cookie, cookieAge>>

Fail(r) == rq' = [rq EXCEPT ![r] = Rest] /\ SetCookie(rq[r], FALSE) /\ UNCHANGED <<carts, added, plain>>

--------------------------------------------------------------------------------
(* A request arrives.                                                          *)

Ask(o, op, s, n) == [Rest EXCEPT !.pc = "find", !.op = op, !.owner = o, !.sku = s, !.qty = n,
                                 !.sid = IF o \in Session THEN cookie ELSE NoSession]
\* The path and the body of a request are checked before; an add needs an ACTIVE SKU.
Asks(o) ==
    {Ask(o, "get", NoSku, 0)} \cup {Ask(o, "add", s, n) : s \in {t \in Sku : shelf[t].active}, n \in Qtys}
    \cup {Ask(o, "set", s, n) : s \in Sku, n \in Qtys} \cup {Ask(o, "remove", s, 0) : s \in Sku}

Visit(r, o) ==
    /\ rq[r] = Rest
    /\ o \in Member \/ GuestOwner(o)
    /\ \E q \in Asks(o) : rq' = [rq EXCEPT ![r] = q]
    /\ UNCHANGED <<carts, shelf, cookie, cookieAge, added, plain>>

\* A login or a registration from the browser: the merge that follows the auth's commit.
Login(r, m) ==
    /\ rq[r] = Rest
    /\ cookie # NoSession
    /\ rq' = [rq EXCEPT ![r] = [Rest EXCEPT !.pc = "guest", !.op = "merge", !.owner = m, !.sid = cookie]]
    /\ UNCHANGED <<carts, shelf, cookie, cookieAge, added, plain>>

--------------------------------------------------------------------------------
(* getOrCreateCart: find, or create, or find the row that won the race.        *)

\* What follows once the request has its cart c; GET /cart has all it needs.
Then(r, c) ==
    IF rq[r].op = "get" THEN rq' = [rq EXCEPT ![r] = Rest] /\ SetCookie(rq[r], FALSE)
    ELSE /\ rq' = [rq EXCEPT ![r].cart = c, ![r].pc =
               CASE rq[r].op = "add" -> "add" [] rq[r].op = "merge" -> "sum" [] OTHER -> "load"]
         /\ UNCHANGED <<cookie, cookieAge>>

FindCart(r) ==
    /\ rq[r].pc \in {"find", "refetch"}
    /\ \/ \E c \in CartsOf(rq[r].owner) : Then(r, c) /\ UNCHANGED <<carts, added, plain>>
       \/ /\ CartsOf(rq[r].owner) = {}
          /\ IF rq[r].pc = "refetch" THEN Fail(r)         \* findFirstOrThrow
             ELSE /\ Goto(r, IF rq[r].op = "merge" THEN "sum" ELSE "create")
                  /\ UNCHANGED <<carts, cookie, cookieAge, added, plain>>
    /\ UNCHANGED shelf

\* Faulty variant: no partial unique index, every first write makes a cart.
CreateAlways(r) ==
    /\ rq[r].pc = "create"
    /\ \E c \in Cart :
          /\ Unused(c)
          /\ carts' = [carts EXCEPT ![c] = [NoRow EXCEPT !.owner = rq[r].owner]]
          /\ Then(r, c)
    /\ UNCHANGED <<shelf, added, plain>>

CreateCart(r) ==
    /\ rq[r].pc = "create"
    /\ IF CartsOf(rq[r].owner) # {}
       THEN Goto(r, "refetch") /\ UNCHANGED <<carts, cookie, cookieAge>>      \* P2002
       ELSE \E c \in Cart :
               /\ Unused(c)
               /\ carts' = [carts EXCEPT ![c] = [NoRow EXCEPT !.owner = rq[r].owner]]
               /\ Then(r, c)
    /\ UNCHANGED <<shelf, added, plain>>

--------------------------------------------------------------------------------
(* The writes.                                                                 *)

Counting(o, s, n) == added' = [added EXCEPT ![o][s] = @ + n]
HandingOn(g, m)   == added' = [added EXCEPT ![g] = Zero, ![m] = [s \in Sku |-> @[s] + added[g][s]]]
Forgetting(O)     == added' = [o \in Owner |-> IF o \in O THEN Zero ELSE added[o]]

\* Faulty variant: the upsert's update is absolute.
AddAbsolute(r) ==
    LET q == rq[r] IN
    /\ q.pc = "add"
    /\ IF Exists(q.cart) /\ q.qty <= shelf[q.sku].stock
       THEN /\ carts' = [carts EXCEPT ![q.cart].items[q.sku] = q.qty]
            /\ Counting(q.owner, q.sku, q.qty)
            /\ rq' = [rq EXCEPT ![r] = Rest]
            /\ SetCookie(q, TRUE)
            /\ UNCHANGED plain
       ELSE Fail(r)
    /\ UNCHANGED shelf

\* addItem: one transaction increments, then reads the stock, and throws if it is exceeded.
AddItem(r) ==
    LET q == rq[r]
        n == carts[q.cart].items[q.sku] + q.qty
    IN
    /\ q.pc = "add"
    /\ IF Exists(q.cart) /\ n <= shelf[q.sku].stock
       THEN /\ carts' = [carts EXCEPT ![q.cart].items[q.sku] = n]
            /\ Counting(q.owner, q.sku, q.qty)
            /\ rq' = [rq EXCEPT ![r] = Rest]
            /\ SetCookie(q, TRUE)
            /\ UNCHANGED plain
       ELSE Fail(r)
    /\ UNCHANGED shelf

\* updateItem and removeItem: the item and its SKU are read and judged, ...
LoadItem(r) ==
    LET q == rq[r] IN
    /\ q.pc = "load"
    /\ IF /\ Exists(q.cart) /\ carts[q.cart].items[q.sku] > 0
          /\ q.op = "set" => shelf[q.sku].active /\ q.qty <= shelf[q.sku].stock
       THEN Goto(r, "write") /\ UNCHANGED <<carts, added, plain, cookie, cookieAge>>
       ELSE Fail(r)
    /\ UNCHANGED shelf

\* Faulty variant: the minus button decrements.
OneLess(q, old) == IF q.op = "set" THEN old - 1 ELSE 0
Written(q, old) == IF q.op = "set" THEN q.qty ELSE 0

\* ... then written by id, whatever has happened since.
WriteItem(r) ==
    LET q == rq[r]
        old == carts[q.cart].items[q.sku]
    IN
    /\ q.pc = "write"
    /\ carts' = [carts EXCEPT ![q.cart].items[q.sku] = Written(q, old)]
    /\ IF q.op = "set"
       THEN /\ rq' = [rq EXCEPT ![r] = Rest]
            /\ IF q.qty > old THEN Counting(q.owner, q.sku, q.qty - old) ELSE UNCHANGED added
       ELSE /\ rq' = [Losing({q.cart}, {q.sku}) EXCEPT ![r] = Rest]
            /\ UNCHANGED added
    /\ plain' = plain \ {q.owner}
    /\ SetCookie(q, TRUE)
    /\ UNCHANGED shelf

\* The row is gone: P2025.
LoseItem(r) == rq[r].pc = "lost" /\ Fail(r) /\ UNCHANGED shelf

--------------------------------------------------------------------------------
(* mergeGuestCart, in a transaction of its own.                                *)

\* The login's answer clears cart_session, whether the merge succeeded or not.
ClearCookie == (cookie' = NoSession /\ cookieAge' = 0) \/ UNCHANGED <<cookie, cookieAge>>

MergeFails(r) ==
    /\ rq' = [rq EXCEPT ![r] = Rest]
    /\ ClearCookie
    /\ UNCHANGED <<carts, added, plain>>

\* The guest's items with the stock and status of their SKUs; a SKU that is archived or
\* sold out is dropped.
Holding(q, c) ==
    [q EXCEPT !.pc = IF carts[c].items = Zero THEN "drop" ELSE "find", !.guest = c,
              !.grant = [s \in Sku |-> IF shelf[s].active /\ shelf[s].stock > 0 THEN carts[c].items[s] ELSE 0],
              !.cap = [s \in Sku |-> shelf[s].stock]]

ReadGuest(r) ==
    /\ rq[r].pc = "guest"
    /\ \/ CartsOf(rq[r].sid) = {} /\ MergeFails(r)
       \/ \E c \in CartsOf(rq[r].sid) :
             rq' = [rq EXCEPT ![r] = Holding(@, c)] /\ UNCHANGED <<carts, added, plain, cookie, cookieAge>>
    /\ UNCHANGED shelf

\* Faulty variant: the sums are not cut.
CutNothing(q, had) == [s \in Sku |-> IF q.grant[s] = 0 THEN 0 ELSE had[s] + q.grant[s]]
\* The sums, cut to the stock that was read with the guest's items.
Cut(q, had) == [s \in Sku |-> IF q.grant[s] = 0 THEN 0 ELSE Min({had[s] + q.grant[s], q.cap[s]})]

SumItems(r) ==
    LET q == rq[r]
        sums == Cut(q, IF q.cart = NoCart THEN Zero ELSE carts[q.cart].items)
    IN
    /\ q.pc = "sum"
    /\ rq' = [rq EXCEPT ![r].grant = sums,
                        ![r].pc = IF sums = Zero /\ q.cart # NoCart THEN "drop" ELSE "merge"]
    /\ UNCHANGED <<carts, shelf, cookie, cookieAge, added, plain>>

\* The row the items go to: the one that was found, or one the transaction inserts, which
\* fails (P2002) if another request has made the member's cart meanwhile.
Target(q, c) == IF q.cart # NoCart THEN c = q.cart /\ Exists(c)
                ELSE CartsOf(q.owner) = {} /\ Unused(c)

\* Faulty variant: deleteMany accepts that the guest's row is gone.
MayBeGone(q) == TRUE
GuestThere(q) == Exists(q.guest)

\* The upserts, with absolute quantities, and the DELETE of the guest's row; what fails
\* rolls all of it back.
MergeCarts(r) ==
    LET q == rq[r] IN
    /\ q.pc = "merge"
    /\ IF GuestThere(q) /\ \E c \in Cart : Target(q, c)
       THEN /\ \E c \in Cart :
                  /\ Target(q, c)
                  /\ carts' = [carts EXCEPT ![q.guest] = NoRow, ![c] =
                        [owner |-> q.owner, age |-> @.age,
                         items |-> [s \in Sku |-> IF q.grant[s] > 0 THEN q.grant[s] ELSE @.items[s]]]]
            /\ rq' = [Losing({q.guest}, Sku) EXCEPT ![r] = Rest]
            /\ plain' = plain \ {q.sid, q.owner}
            /\ ClearCookie
            /\ HandingOn(q.sid, q.owner)
       ELSE MergeFails(r)
    /\ UNCHANGED shelf

DropGuest(r) ==
    LET q == rq[r] IN
    /\ q.pc = "drop"
    /\ IF GuestThere(q)
       THEN /\ carts' = [carts EXCEPT ![q.guest] = NoRow]
            /\ rq' = [Losing({q.guest}, Sku) EXCEPT ![r] = Rest]
            /\ plain' = plain \ {q.sid}
            /\ ClearCookie
            /\ Forgetting({q.sid})
       ELSE MergeFails(r)
    /\ UNCHANGED shelf

--------------------------------------------------------------------------------
(* What happens around the requests.                                           *)

\* A request dies: a crash, a timeout, a lost connection, a deadlock. Its transaction, if
\* one is open, is rolled back; a login still answers.
Lose(r) ==
    /\ rq[r] # Rest
    /\ rq' = [rq EXCEPT ![r] = Rest]
    /\ IF rq[r].op = "merge" THEN ClearCookie ELSE UNCHANGED <<cookie, cookieAge>>
    /\ UNCHANGED <<carts, shelf, added, plain>>

\* Sales, restocks, corrections and archiving.
Stock(s) ==
    /\ \E x \in Shelves : shelf' = [shelf EXCEPT ![s] = x]
    /\ UNCHANGED <<carts, rq, cookie, cookieAge, added, plain>>

Vanish(C) ==
    /\ carts' = [c \in Cart |-> IF c \in C THEN NoRow ELSE carts[c]]
    /\ rq' = Losing(C, Sku)
    /\ plain' = plain \ {carts[c].owner : c \in C}
    /\ Forgetting({carts[c].owner : c \in C})
    /\ UNCHANGED <<shelf, cookie, cookieAge>>

\* A checkout of the member commits and takes the cart with it.
Order(m) == CartsOf(m) # {} /\ Vanish(CartsOf(m))

\* Time, between requests: carts.updated_at is written with the row only, never by a write
\* to its items (the age of a member's row plays no part).
HalfWeek ==
    /\ \A r \in Request : rq[r] = Rest
    /\ carts' = [c \in Cart |-> IF carts[c].owner \in Session /\ carts[c].age < 2 THEN [carts[c] EXCEPT !.age = @ + 1] ELSE carts[c]]
    /\ IF cookieAge = 0 /\ cookie # NoSession THEN cookieAge' = 1 /\ UNCHANGED cookie
       ELSE cookieAge' = 0 /\ cookie' = NoSession
    /\ UNCHANGED <<shelf, rq, added, plain>>

\* deleteMany: every guest's row whose updated_at is seven days old.
Stale == {c \in Cart : carts[c].owner \in Session /\ carts[c].age = 2}
Sweep == Stale # {} /\ Vanish(Stale)

Next ==
    \/ \E r \in Request : FindCart(r) \/ CreateCart(r) \/ AddItem(r) \/ LoadItem(r) \/ WriteItem(r)
                          \/ LoseItem(r) \/ Lose(r)
    \/ \E r \in Request : ReadGuest(r) \/ SumItems(r) \/ MergeCarts(r) \/ DropGuest(r)
    \/ \E r \in Request, o \in Owner : Visit(r, o)
    \/ \E r \in Request, m \in Member : Login(r, m)
    \/ \E s \in Sku : Stock(s)
    \/ \E m \in Member : Order(m)
    \/ HalfWeek
    \/ Sweep

Spec == Init /\ [][Next]_vars

--------------------------------------------------------------------------------
(* A member and a guest session have one cart each, whichever requests race to *)
(* make it (getOrCreateCart and the partial unique indexes).                   *)
OneCartPerOwner ==
    \A c, d \in Cart : (Exists(c) /\ carts[c].owner = carts[d].owner) => c = d

(* "No read-then-write race that loses one add" (cartService.ts:75): while a   *)
(* cart is only added to, it holds the sum of what was asked for and granted,  *)
(* whatever is sold, swept, merged or created around it.                       *)
AddsAreSums ==
    \A o \in plain :
        /\ \A c \in CartsOf(o) : carts[c].items = added[o]
        /\ CartsOf(o) = {} => added[o] = Zero

(* A guest's cart is merged at most once: with two logins on one cookie,       *)
(* retries, concurrent edits and checkouts, a cart never holds a unit that was *)
(* not asked for in it, or in a guest's cart that no other has been given; and *)
(* nothing comes back of a cart that was ordered or swept.                     *)
NoUnitInvented ==
    \A c \in Cart : Exists(c) => \A s \in Sku : carts[c].items[s] <= added[carts[c].owner][s]

(* No cart ever asks for more than the shelf has held at any time: adds that   *)
(* pile up, edits and merged sums are cut or refused.                          *)
WithinStock == \A c \in Cart, s \in Sku : carts[c].items[s] <= MaxStock

--------------------------------------------------------------------------------
(* What the repository says and a run refutes.                                 *)

(* SPEC.md:145-146: the cookie lives seven days from every write to the cart,  *)
(* and the sweep of old guest carts is aligned with it: it takes no cart whose *)
(* cookie a browser still holds.                                               *)
SweepSparesLiveCarts == [][Sweep => \A c \in Stale : carts[c].owner # cookie]_vars
================================================================================
