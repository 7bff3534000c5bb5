# Vella, modelled in TLA+

This directory holds a TLA+ model of the B2C shop in this repository: modules that follow
the code of `apps/api` statement by statement and that of `apps/web` callback by callback, TLC
configurations that check them on small instances, and theorems that TLAPS checks for every
size. Paths below are relative to the repository's root; `api/` abbreviates `apps/api/src/` and
`web/` abbreviates `apps/web/src/`.

## 1. Inventory

One Node process (`api/index.ts`) serves the REST API, keeps the payment timers and runs the
cron jobs; PostgreSQL (through Prisma, at READ COMMITTED) keeps everything else. The React
client in `apps/web` talks to the API only. Components interact by calls within the process
and, above all, through shared tables: the hard part of the server is what concurrent
transactions do to the same rows, that of the client what its caches show when answers are
late, lost or out of order.

| component | code | state | operations | what makes it correct | module |
|---|---|---|---|---|---|
| checkout | `api/services/checkoutService.ts`, `api/routes/checkout.ts` | orders, items, usages, payments; SKU stock; the cart; a timer | one transaction: read cart, conditional decrements, coupon, inserts, delete cart | all or nothing; nobody sold a missing unit; one order per cart; coupon within its limit; always ends | CheckoutService, Shop |
| order state machine | `api/services/orderService.ts` | order status, status log, shipments, refund rows, stock | `transitionOrder` | moves along the table only; side effects exactly once, with the move | OrderService, Shop |
| payment outcome | `api/services/paymentService.ts`, `api/routes/webhooks.ts` | payment's outcome mode | `processPaymentOutcome` by timer and webhook | replay is harmless; no order pends for ever | OrderService |
| order and stock administration | `api/routes/admin/{orders,products}.ts` | audit rows, stock | ship, refund, adjust-stock | stock never negative; one transition per race | OrderService, StockAdmin |
| product and coupon administration, audit log | `api/routes/admin/{products,coupons}.ts`, `api/services/auditLog.ts` | products, coupons, audit rows | create, edit, archive, delete | no used coupon deleted | BackOffice |
| coupons | `api/services/couponService.ts`, `api/routes/coupons.ts` | coupons, usages | validate, quote | limits hold under races; a discount is at most the subtotal | CheckoutService, Quotes |
| cart | `api/services/cartService.ts`, `api/routes/cart.ts` | carts of members and of guests, the cookie | get-or-create, add, update, remove, merge at login, sweep | one cart per owner; adds add up; no unit invented; no deadlock that lasts | Carts, CheckoutService |
| jobs | `api/jobs/*`, `api/lib/advisoryLock.ts` | session advisory lock | cancel, auto-complete, token and cart clean-up, demo reset | each due order handled once, no two processes at once | OrderService, Jobs |
| authentication | `api/services/authService.ts`, `api/routes/auth.ts` | refresh-token families | register, login, refresh (rotation, grace, reuse detection), logout | one good token per family; a retry in the grace window is not taken for reuse | AuthService, Sessions |
| catalogue and order lists | `api/services/productService.ts`, `api/routes/{products,orders}.ts`, the lists under `api/routes/admin` | none | cursor pages, offset pages | every row on exactly one page | Paging, Listing |
| web session | `web/lib/apiClient.ts`, `web/stores/authStore.ts`, `web/features/auth` | user, access token, cookie | boot, single-flight refresh and retry, login, logout | a replaced cookie is not presented again; the user shown owns the cookie | SessionClient |
| web checkout | `web/pages/{Checkout,OrderSuccess}.tsx`, `web/features/{cart,checkout}` | cached cart, applied coupon, submission | edit, quote, submit, poll | ordered once, at the price shown | CheckoutPage |
| web lists | `web/pages/{ProductList,MyOrders}.tsx`, `web/pages/admin/AdminOrders.tsx` | pages in the query cache | scroll, turn, filter | no repeats, no gaps | Listing |
| reports, other pages, shared contracts, API shell, seed, demo reset | `api/services/reportService.ts`, `packages/shared`, `api/app.ts`, `apps/api/prisma`, `api/jobs/resetDemoDb.ts` | none of their own | aggregates, validation, wiring, demonstration data | - | section 8 |

Hard behaviours: statement-level interleaving of transactions; row locks held to COMMIT and
taken in no fixed order; decisions made on reads that are stale when used; failures after part
of the work; timers lost at a restart; a webhook delivered any number of times; sweeps that
race payments and overlap one another; locks of one connection released on another; answers that
arrive late, out of order or never, and requests given up by the client that the server still
serves; lists that change under their reader. `PROJECT.json` lists each hazard at its line with
the properties that cover it, and says why for those that none does.

## 2. Modules

    FulfilmentProofs -> Fulfilment                         (the abstract shop)
        ^ JobsProofs -> Jobs -> Fulfilment                 (sweeps, locks, processes)
    ShopProofs -> Shop -> CheckoutService -> ShopTables    (Shop instantiates Fulfilment,
                       -> OrderService    -> ShopTables     ShopProofs FulfilmentProofs)
                       -> StockAdmin      -> ShopTables
    AuthProofs -> AuthService -> Sessions                  (the abstract sessions)
    CartsProofs -> Carts
    ListingProofs -> Listing -> BackOffice -> Paging
    SessionProofs -> SessionClient
    CheckoutPageProofs -> CheckoutPage -> Quotes
    MCCheckout, MCOrders, MCShop -> Shop     MCAuth -> AuthService     MCCarts -> Carts
    MCListing -> Listing    MCSession -> SessionClient    MCCheckoutPage -> CheckoutPage
    MCJobs -> Jobs

The server's core (`Shop`) and the layers around it are not composed into one specification:
each layer uses the one below through what that promises. `Jobs` runs over `Fulfilment`, which
`Shop` implements; `CheckoutPage` takes a checkout as one step, which `CheckoutService` takes
apart; `SessionClient` lets the server accept or refuse any token, which `AuthService` decides.

- **Fulfilment** is what the shop promises, without transactions: an order takes all its units
  or nothing, moves along the status table, and the step that reverses it gives its units back.
  `Shop` maps onto it by reading the committed `orders` (`Shop!F`).
- **ShopTables**: the committed tables and PostgreSQL's treatment of an `UPDATE skus`. `stock`
  is committed, `pending[t]` is what transaction t wrote and has not committed, `skuLock` is who
  holds the row. `WriteRow`, `CommitRows` and `RollbackRows` are the only operators that write
  them. An UPDATE whose `WHERE` fails on the committed row matches nothing and does not wait;
  one whose row is held waits and then tests again.
- **CheckoutService**: one record `co[t]` per call with a program counter; one action per
  statement (`Begin` reads the cart, `TakeStock`/`OutOfStock` is the conditional decrement of one
  item, `ValidateCoupon`, `LockCoupon`, `CountUsages`, `WriteOrder`, `DeleteCart`, `Cascade`,
  `CommitCheckout`) and `Respond`, the route's `setTimeout` and 201. The order of the items is
  chosen anew in every transaction, because the query has no ORDER BY. `ed[t]` is a cart request
  as the rows of `cart_items` see it, that is, a transaction that writes one line (add, update,
  remove) or several in turn (the merge at login): `BeginEdit` reads, `WriteLine` locks or inserts
  a line, `ShareCart` is the foreign key of an INSERT, which takes a KEY SHARE lock of the cart's
  row, and `EndEdit` commits or, for the stock check of an add, throws. The DELETE of a cart waits
  for who shares its row and then, line by line (`Cascade`), for who has written one.
- **OrderService**: `mv[t]` likewise for `transitionOrder` (`ReadOrder`, `Restock` per item,
  `UpdateStatus`, `CommitMove`) and its callers: `FireTimer`, `Webhook` (with `ReadOutcome`),
  `Ship` and `Refund` (with `ReadBefore`, the SELECT for the audit row), and the sweeps `Ripen`
  (time passes), `Scan` (the query) and `SweepNext` (a turn of the loop).
- **StockAdmin**: `adjust-stock`.
- **Shop** composes them and adds what the environment does: `Lose` (a timeout, a lost connection,
  an INSERT refused by a constraint), `BreakDeadlock` (PostgreSQL aborts a member of a circle of
  waiters), `Crash` (timers, loops and open transactions are gone; tables stay). All properties
  about the composition are stated here.

- **Sessions** is what refresh tokens promise: a family opens, its one good token is replaced in
  one step, it ends and stays ended.
- **AuthService**: the refresh-token table `tokens`, one record `rq[r]` per request and the cookie
  `jar[d]` of each browser. `Find`, `FindLatest`, `Revoke` and `Insert` are the statements of
  `rotateRefreshToken`, `Burn` its reuse branch; `RevokeOne` is logout's UPDATE, `Issue` the
  INSERT of a sign-in. Answers are delivered late, out of order or never (`Deliver`, `Lose`); the
  ten seconds and the thirty days pass at any moment (`CloseWindow`, `Expire`), and `Purge` is the
  nightly clean-up. It shares no table with `Shop`, so the two are not composed.

- **Jobs**: the two order sweeps in several processes, each with a pool of connections.
  `locks[c][j]` counts how often connection c took the session lock of job j; `Strike` (cron and
  `pg_try_advisory_lock`), `List`, `Sweep` and `Unlock` (`finally`) run on any connection of the
  pool; `Crash` ends a process and its sessions. A transition is a step of `Fulfilment`.
- **Carts**: the rows of `carts` with their items, the browser's `cart_session` cookie and one
  record `rq[r]` per request. `FindCart`, `CreateCart` (P2002 and the refetch) are
  `getOrCreateCart`; `AddItem` the increment with its stock check in one transaction; `LoadItem`
  and `WriteItem` the read and the later write of an update or a removal; `ReadGuest`, `SumItems`,
  `MergeCarts` and `DropGuest` are `mergeGuestCart`. `Stock`, `Order`, `HalfWeek` and `Sweep` are
  what happens around them: sales, a checkout, time and the clean-up job.
- **Paging** says what `take`/`cursor`/`skip` and `skip`/`take` return for an order by
  `createdAt` and id. **BackOffice** has one of the tables products, coupons and orders with its
  writers: an administrator's request reads, then writes in the transaction of `withAuditLog`
  (`Write` locks the row, `Commit` shows it; the audit row is left out); checkouts redeem coupons
  and place orders. **Listing** adds
  the readers: `LoadMore` of the infinite list, `QueryRows` and `QueryCount` of a page and the
  buttons (`Turn`), with the pages the query cache keeps.
- **SessionClient**: the store, the browser's cookie, the refreshes under way (`flights`), the
  requests with their interceptors (`Refresh` joins the flight or starts one, `Wake` retries) and
  the login or logout under way. A callback is one step. `Reload` is F5: the tab forgets what it
  was waiting for, but the requests are on the wire. `adrift` has the cookies of refreshes whose
  answer was lost or cut off so, which the server may still serve (`ServeAdrift`), and `rotated` the
  cookies that it has replaced.
- **Quotes** is the coupon arithmetic in cents. **CheckoutPage** is one tab from cart to paid
  order: requests that are sent, served at some time and answered at a later time or lost
  (`ServeCall`, `CallAnswered`, `CallLost`; likewise quotes and submissions), the query cache
  (`shown`), the applied coupon, and a submission given up by the client that is still served
  (`NotOrdered`, then `ServeTry`). `chip` is the subtotal that the coupon was quoted for, which with
  the coupon's terms tells the discount shown; `Outdated` in its place, and `quote.late` before it,
  remember that the cart data or the coupon has changed since the quote was asked for.

Abstractions worth knowing:

- What a transaction inserts is private until COMMIT, so inserts that nobody can see or wait for
  appear at the commit action (the order and its lines, usage, log, shipment, refund and audit
  rows). The statements that can fail or wait keep a step of their own.
- `UNIQUE(coupon_id, user_id)` is tested in `WriteOrder`. It is a second line: two checkouts of
  one user read the same cart, so the later one fails at the cart's DELETE at the latest.
- The SELECTs of the cart and its items are one step: a cart deleted between them reads as empty
  or as gone, and both are refused.
- A cart request of `CheckoutService` leaves its lines with any quantities up to `MaxQty`; only a
  request for one line removes it. Which quantities the code computes is in `Carts`. An order item
  or cart line is a quantity per SKU.
- In `CheckoutService` a coupon's dates, minimum and existence are `RejectCoupon`: any of them may
  refuse. Prices and discounts do not steer control there; `CheckoutPage` and `Quotes` have them.
- The sweeps are not protected by the job lock in `Shop`: a second run may start while the
  first is in its loop. The session-level lock goes through a connection pool
  (`api/lib/advisoryLock.ts:15-24`), so overlap is not ruled out; properties hold without it.
- A rotation's UPDATE is private until COMMIT; what others feel of it before is the row's lock
  (`Locked`), so the revocation and the new row appear together in `Insert`. `Burn` changes no row:
  its UPDATE is rolled back by the throw that follows it in the route's transaction.
- A family is named after its first token; `revoked` keeps only whether the grace window is still
  open, `life` whether the row has expired or is deleted. Users and access tokens are left out.
- The payment's own status column is never moved on by the code (`paymentService.ts` changes the
  order only), so only its outcome mode is kept.
- In `Carts` the statements of one transaction that write are one step where row locks keep others
  from seeing or changing what they touch; the reads that decide come before, as steps of their
  own. `Losing` marks requests that hold the id of an item whose row is deleted. Cuids and session
  ids are never drawn twice; a name that nothing refers to stands for a new one. Dates are counted
  in half-weeks, seven days being two.
- `GET /orders` sorts by `createdAt` alone (`api/routes/orders.ts:28`), `OffsetPage` by instant and
  id. The two agree where the orders of one user have different instants; for others PostgreSQL may
  answer each query in another order, and nothing is shown about that.
- A coupon's `usageLimit` is a constant of `Shop`: a PATCH that lowers it below what is used is not
  examined there.
- `BackOffice` keeps of a row its instant of creation, its status (which stands for whatever a
  filter can look at) and, for orders, whether it is the reader's. The seeded rows share an
  instant.
- In `SessionClient` which cookies the server accepts is left open, so its properties do not
  depend on the token rules. One `Pass` is the cookie and the access token of one answer.
- No route edits the price of a SKU, so `CheckoutPage` has it as a constant; what an
  administrator may make of the coupon is the set `Terms`. The cart has one line; several lines
  are several independent quantities to the page.

## 3. Runs

| run | instance | what it shows |
|---|---|---|
| `checkout` | 2 checkouts (2 users or one twice) and a cart request of one of them, 2 SKUs (2 and 1 units), a coupon of limit 1, with fairness | `TypeOK`, `OneOrderPerCart`, `CouponWithinLimit`, `DeadlocksOverRows` (a circle of waiters is one over the rows of SKUs or over a cart whose lines a merge writes), and `EveryCheckoutEnds` |
| `orders` | 1 order, 2 movers, both roles, both sweeps, timer, webhooks, 1 fault | `HistoryIsAWalk`, `EffectsOnce`, and `ImplementsFulfilment`: units go back once, in the reversing step |
| `shop` | a checkout (sent at most twice), a mover and a stock correction at once, 1 order placed before, the cancelling sweep, 1 fault, with fairness | `RowsGuarded`, `ImplementsFulfilment`, `PendingResolves` |
| `auth` | a browser with one tab and one with two, 2 requests under way, 3 tokens | `TypeOK`, `OneTokenPerFamily`, the requests implement `Sessions`, and `RefusedOnlyLate`: whatever answers are lost, the first browser is refused as a thief only after the window or the end of its session |
| `carts` | 2 requests of a member and of a guest's browser, 1 SKU, 3 rows, at most 3 units granted to the carts there are | `CartsTypeOK`, `OneCartPerOwner`, `AddsAreSums`, `NoUnitInvented`, `WithinStock` |
| `listing` | 4 ids at 2 instants, pages of 1 and 2, 2 administrators, 2 writes, with fairness of the reader | `TypeOK`, `NoRepeats`, `ScrollEnds`, `NoneSlipsBack`, `PagesNotEmpty`; of the writers `UsedCouponsStay` |
| `session` | 2 requests, 2 users, 3 passes of each, with fairness | `TypeOK`, `ShownUserOwnsCookie`, `ReuseOnlyAfterLoss`, `RequestsSettle`, `BootFinishes` |
| `page` | 2 units, 2 lines and 2 orders one after the other, 2 submissions under way, 1 other call, 3 terms of the coupon (110 %, an absolute amount above the order's subtotal, the same used up), with fairness | `TypeOK`, `TotalsAddUp`, `OrderedOnce`, `ChargedAsShown`, `OutcomeShown` |
| `jobs` | 2 processes (2 connections and 1), 2 runs, 2 orders, stock corrections | `OneProcessPerJob` |
| `find_*` | as above | the findings of section 6 |

Bounds of the shop. Two transactions per kind of race are enough for every pairwise interleaving;
`shop` has three, one per kind. Two SKUs give partial decrements and opposite locking orders; one
unit of the scarcer SKU makes the last unit contended; a coupon of limit 1 makes its last use
contended. `MaxQty` bounds a cart line, `MaxSupply` the units that stock corrections book in,
`MaxFaults` the lost transactions and crashes, `MaxBegun` the checkouts of `shop`, `RoomForOrder`
starts a checkout only while an order id is left. In `checkout` cart requests are for a user's
first cart, which they may outlive (`FirstCarts`), and payments are MANUAL; it has no fault,
because lost transactions and crashes are what `orders` and `shop` are about. Orders found at the
start are PENDING (placed before a restart) and any subset of the automatic ones has its timer
armed. No run of the shop uses symmetry.

Bounds of the sessions. Three tokens give a rotation and a grace retry of it, or two families and
a rotation. Families do not share rows, so two browsers race for nothing. `Tabs` bounds the
requests of one browser under way: two are two tabs, or a retry while the first request still runs
on the server. `RefusedOnlyLate` speaks of the browser with one; with two it does not hold
(section 6). The two requests are interchangeable, and the run uses that symmetry. In `session`
two requests meet in one refresh, start one after the other, or are woken while a third party
(login, logout, boot, reload) ends; three passes of a user are the cookie, the one being issued
and the one an answer under way still carries. A pass that nothing holds is used again as a new
one, and F5 cuts off the refresh of the boot only while its cookie is not yet adrift: cutting it
off twice adds nothing to that.

Bounds of the carts. A row each for the member and the guest and one more, so that a deleted row's
id can still be named while its successor exists. One guest session stands for the next one too,
once nothing names it. `MaxUnits` is reached by two adds of one unit and an update; stock of two
makes the third one exceed it. Requests and rows are interchangeable (symmetry); the run checks no
temporal property.

Bounds of the lists. With pages of one row every row is at a boundary, with pages of two a
boundary lies inside an instant; four rows are more than two pages. A list starts empty, or with
three or four rows of one instant, which new ones may share. Two writes let one row go and another
come between any two requests of the reader.

Bounds of the page. A second line is needed to tell "ordered twice" from "ordered again"; two
submissions are one given up and one retried. `MaxCalls` allows one cart request at a time besides
a quote and the submissions: two cart requests race the same way as one races `Elsewhere`. With the
last order placed nobody shops any more (`Shopping`), and a form is sent while the orders and the
submissions under way are fewer than `MaxOrders`.

Bounds of the jobs. A process with two connections can take a lock twice on one of them and give
it back on the other; the second process contends. `MaxTaken` bounds how often one connection
holds one lock, `MaxSupplied` the units booked in.

`checkout` and the runs of the lists do not check deadlock: with ids, stock or writes used up and
nobody left to act, nothing is left to do. All others check it.

## 4. Fairness and liveness

`FairSpec` of `Shop` adds: every step of a transaction under way happens (Node runs each
continuation, PostgreSQL each statement); strong fairness, because waiters of a row, of an
advisory lock and of a pooled connection are queued and so served when the resource keeps becoming
free; as long as there is a circle the detector breaks one (`deadlock_timeout`), whichever member
of it; an armed timer fires; time passes and cron fires. Strong fairness holds for the steps of
cart requests too (`StepOfEdit`), which others wait for. No request is ever owed: no webhook,
administrator or new checkout is assumed to come. `ServeWaiter` gives the head of a row's queue
its own fairness: without it two sweeps could be each other's deadlock victim for ever.

- `EveryCheckoutEnds`: no circle of waits on rows, coupon, cart and the lines of a cart lasts.
- `PendingResolves`: when the timer is lost, or the sweep's transaction is rolled back, a later
  sweep still finds the order. It is the sweep, not the timer, that makes it true: with the
  sweep's query broken (its mutant) the property fails. It assumes that customers give up: against
  an endless stream of checkouts of the same SKUs the sweep may be the victim of a deadlock each
  time (`MaxBegun` in `MCShop` bounds them). And it assumes that the sweep gets its
  advisory lock again: the code does not rule out that a lock is left behind on a pooled
  connection (`Jobs`), and then other processes skip their runs until that connection closes.
- `RequestsSettle` and `BootFinishes` (`SessionClient`): servers answer or connections break
  (`apiClient` gives up after 15 s; the refresh itself is sent without that timeout,
  `apiClient.ts:38`, so one that hangs ends only when its connection does), and callbacks run: weak
  fairness of each flight's and each request's steps. No login, logout or reload is owed.
- `ScrollEnds` (`Listing`): a reader at the bottom of the list keeps the sentinel in view, so
  `LoadMore` is weakly fair. The bound on writes is not what ends the scroll: the cursor goes down
  strictly, and with a cursor that does not (its mutant) the scroll never ends.
- `OutcomeShown` (`CheckoutPage`): the shop resolves its orders (`PendingResolves`) and one of the
  repeated polls gets through.

## 5. Proofs

Each proof module gives, per component, an inductive invariant, a lemma per action that says what
it does to that invariant, and the theorems that follow. TLC checked each invariant on the
component's run before it was proved. All safety properties of the passing runs are theorems for
every value of the constants. `NoOversell` and `StockConserved` of `Fulfilment` have no run of their
own: `Shop` implements `Fulfilment`, of which they are theorems.

`FulfilmentProofs` (for every set of SKUs, finite set of orders, quantities and corrections):

- `TypeCorrect`, `NothingOversold`: direct inductions.
- `UnitsConserved`: the units an order holds are pairs <<order, i>>, so those of different orders
  are disjoint and cardinalities add up. One lemma each says what `Place`, a move between holding
  statuses and a reversal do to `HeldUnits`.

`ShopProofs` (for any numbers of transactions, SKUs, users, orders and coupons, any seed orders
and any number of faults) builds its invariants on one another, and the refinement on them:

- `IInv == TypeOK /\ RowsGuarded` (`ShopTypeCorrect`, `ShopNeverOversells`: ADR 0003's claim that
  the conditional UPDATE needs no SELECT FOR UPDATE). `stock >= 0` alone is not inductive: a
  COMMIT adds changes made earlier. What makes it inductive is that a transaction has changes only
  on rows it has locked, and that the committed stock plus its changes is already non-negative;
  the lock keeps everyone else's COMMIT off that row in between. `WriteRowSafe`, `CommitRowsSafe`
  and `RollbackRowsSafe` carry this once, and every action cites the one it uses.
- `CartInv` (`CartOrderedOnce`): a checkout about to commit holds the lock of the cart it read,
  and that cart is still the user's (`HoldsCart`); every order's cart is an older one than the
  user's present cart (`CartsMoveOn`).
- `CouponInv` (`CouponsWithinLimit`): from its count to its COMMIT a checkout holds the coupon's
  advisory lock (`HoldsCoupon`), so the room it counted is still there (`HasRoom`).
- `LifeInv` (`HistoryAlongTheTable`, `EffectsCarriedOutOnce`): a mover between its UPDATE and its
  COMMIT holds the order's row, whose status is the one it read (`HoldsOrder`), and asked for a
  move of the table (`MovesAllowed`). An order not yet shipped has no shipment (`NotShippedYet`),
  one not yet placed has no rows at all (`Unplaced`).
- `PendingInv`: what a transaction has written and not committed is what it owes: the lines taken
  so far, the units given back so far, or one correction. At COMMIT that is what the abstract
  `Place`, `Move` or `Adjust` does to the shelf.
- `LockInv` (`NoLockLeft`): what a transaction holds is exactly what its program counter says it
  has taken. A checkout that has taken the lines outside `todo` holds their rows, from
  `LockCoupon` on the coupon, and after the cart's DELETE the cart; a mover holds the rows it has
  restocked and then the order; a correction one row. Whoever is over holds nothing.
- `DeadlocksAreOverRows`: a circle of waiters is a set in which each waits for a member. Who waits
  for a coupon waits for a checkout that has all its rows of SKUs, and who waits for the DELETE of
  a cart for one that has those and the coupon. So whoever goes through rows is waited for only by
  others that do, one waiter each: counting the members of the circle and those they wait for
  leaves nobody in it who waits for a coupon or to delete a cart. What remains are transactions
  that go through rows: of SKUs, and by `PendingInv` such a one holds one of its items and waits
  for one it has not taken yet; or of one cart's lines. There a checkout has deleted the cart and
  waits for who wrote a line (`StuckOnLines`), while a request has written a line and waits for
  the next one, or for the cart's row because of the line it has inserted (`StuckInMerge`;
  `EditInv` says that a request never waits for a line it has written). A request for one line
  that is there has nothing when it waits. What lets deadlocks arise is that the lines of a cart
  have no order.
- `WaitingIsBroken`: while transactions are under way one of them waits for nobody, or there is a
  circle, which `BreakDeadlock` ends. Waits are for transactions under way (`LockInv`), so if each
  of these waits, each waits for one of them; a least set of that kind, which exists because
  proper inclusion among finite sets is well-founded, is a circle. This is the safety part of
  `EveryCheckoutEnds`: no state has waiters only and nothing that PostgreSQL could break.
- `ShopImplementsFulfilment`: `Spec => F!Spec`. Checkouts commit `Place`, movers `Move`,
  corrections `Adjust`; every other step is a stutter. With `UnitsConserved`, instantiated along
  the mapping, `ShopConservesUnits`: no interleaving, rollback, deadlock or crash loses a unit or
  gives one back twice.

`AuthProofs` (for any numbers of tokens, browsers and requests):

- The inductive invariant adds to `TypeOK` and `OneTokenPerFamily` that a request between its
  UPDATE and its COMMIT holds, alone, an unrevoked token of the family it is about to extend
  (`RotationsOK`). Without the lock the new token's INSERT could join another good one.
- `AuthTypeCorrect`, `NoDoubleIssue`: `Spec => []OneTokenPerFamily`.
- `Refinement`: `Spec => ImplementsSessions`. Every lemma about an action (`InsertStep`,
  `RevokeStep`, ...) also says which step of `Sessions` it is: `Issue` opens, `Insert` rotates,
  logout and purge end, all others stutter.
- `RevokedForGood`: `Spec => S!NeverRevived`. The step property is proved of `Sessions` and carried
  along the refinement: a logout or a purge that races with a rotation, whichever commits first,
  leaves the family without a good token for ever, and a revoked token is never good again.
- `RefusalsAreLate`: two browsers never name tokens of one family (`Apart`), a browser with one
  tab has one request (`OneAtATime`), and that request names the cookie or brings the next one
  (`NamesCookie`). So the family of a cookie is only extended from that cookie or its successor:
  the cookie's token is the good one or its parent, or the family is over (`CookieUsable`,
  together `CookieInv`). `RefusedInv` adds that a request on its way to `burn` has found its token
  revoked; it is refused then because the token is neither of the two, or because the ten seconds
  are over.

`CartsProofs` (for any SKUs, members, sessions, rows, requests and shelves):

- To the types and the three properties the invariant adds what a request in flight may rely on
  (`RequestsOK`): the row it names is gone or still its owner's, since ids are never used again,
  and what it judged against the shelf is no more than the shelf can have held. `OwnersHaveOneCart`
  then rests on the unique index alone, `NoAddIsLost` on the increment in SQL, `CartsWithinStock`
  on the cut of the merge.
- `UnitsAskedFor` (`NoUnitInvented`) compares what a cart holds with what was granted in it, or in
  a guest's cart that was merged into it; the ledger `added` keeps that per owner and SKU. A merge
  reads its sums statements before it writes them. `LedgerInv` says that what it carries is covered
  by the two ledgers while the guest's row is there (`Granted`), that an item about to be written
  by id is in a cart that exists (`Loaded`), and that a row that is not there holds nothing
  (`BlankRows`). `Granted` is kept because a ledger only grows while its owner has the cart, and
  because a merge whose guest's row has gone in between writes nothing.
- `CartsTypeCorrect`, `OwnersHaveOneCart`, `NoAddIsLost`, `CartsWithinStock`, `UnitsAskedFor`.

`ListingProofs` (for any rows, instants, administrators and page sizes):

- `OfficeInv`: a row being created is nobody else's and has never been there; a transaction that
  has written a row holds it alone (`DesksOK`), and so a coupon it deletes is unused
  (`RedeemedCouponsStay`).
- `ScrollInv`: every row shown and still there comes before the cursor's, and no id is used again.
  `ScrollNeverRepeats` needs that `Newer` is a strict total order, also among equal instants.
- `CursorDescends`: each page ends the scroll or leaves the cursor at a strictly older row, since
  the cursor's own place is the first and the next cursor's is not; no write moves a row that is
  there. With finitely many rows that is why `ScrollEnds` holds.
- `PagesInv`: pages are reached in turn, a list of orders only grows, and each kept total was true
  once. The lemmas about `Rank`, `Slice` and counts of rows are stated first; cardinalities come
  from `FiniteSetTheorems`. `PagesMissNone`, `ReachedPagesNotEmpty`, and `ListingTypeCorrect`.

`JobsProofs` (for any numbers of processes, connections and runs):

- `OneProcessPerJob` is not inductive: what keeps it is the lock, and the lock may be held too
  often or too long. The invariant says that at most one connection holds the lock of a job
  (`HeldByOne`) and that it has taken it at least as often as the job has runs, all of its own
  process (`Covered`). An unlock on another connection takes nothing from the holder, one on the
  holder ends a run too, so the count stays covered; `StrikeIInv`, `UnlockIInv` and `CrashIInv`
  carry this.
- `OneSweeper`. What the sweeps do to an order is a `Move` of `Fulfilment` by definition in `Jobs`;
  that their statements amount to one is `ShopImplementsFulfilment`.

`SessionProofs` (for any users, serial numbers and requests):

- To `TypeOK` and `ShownUserOwnsCookie` the invariant adds that there is at most one flight
  (`SingleFlight`), that a flight that has ended and a request that is idle keep nothing
  (`IdleIsEmpty`), that who waits was sent once (`WaitersSentOnce`) and that a served login carries
  a pass of its user (`AuthPass`). The answer of a refresh that overtakes or is overtaken by a
  logout then still sets user, token and cookie together.
- `SessionTypeCorrect`, `ShownUserIsSignedIn`.
- `ReuseNeedsALoss`: a pass that is issued has never been presented (`Fresh`), and the only flight
  under way either puts it into the jar or loses it, in which case its cookie is adrift. `FreshInv`
  carries this through logins and logouts whose answers come in between: a cookie in the jar that
  has been replaced is adrift, or the answer that replaces it is still coming.
- `NobodyWaitsForNothing`: who awaits a refresh awaits one under way, and the splash is shown only
  while the refresh of the boot is (`WaitInv`). It is the safety part of `RequestsSettle` and
  `BootFinishes`: each end of a flight wakes all who wait for it.

`CheckoutPageProofs` (for every price, stock, set of coupon terms and numbers of calls, lines,
orders and submissions):

- `OrderedOnce` rests on `Fresh`: the line in the cart is newer than every line ordered.
  `TotalsAddUp` rests on `DiscountFits`, which bounds the rounded percentage of any value and is
  where the cap at the subtotal is used. `AmountsRight` and `NothingOrderedTwice` say nothing of the
  tab but that it sends numbers, so they hold for a client with caches however stale.
- `PriceAsShown` is about those caches: a coupon applied and not outdated was quoted for the cart
  shown (`ChipFits`), and so is each submission's (`TriesFit`), because the effect on the subtotal
  drops the coupon whenever other data comes, and a quote under way (`QuoteFits`) is late then.
  Together they are `UpToDate`. That a submission is charged as shown follows when the server's
  cart is the one shown.
- `PageTypeCorrect`: the bounds of all the tab holds. They need that an answer under way names an
  order that there is (`KnownOrders`).

The proofs rest on the constants' assumptions only (`AuthConstants`, `BackOfficeConstants`,
`CartConstants`, `CheckoutConstants`, `ClientConstants`, `FulfilmentConstants`, `JobsConstants`,
`ListingConstants`, `OrderConstants`, `PageConstants`, `ShopConstants`, `StockConstants`,
`TablesConstants`), all evaluated by TLC in the runs. They say that the models' names for "none"
name nothing else, that quantities, bounds and page sizes are numbers, that the sets counted over
are finite (the requests under way at one time among them), and of the seed that its orders are
pending, not empty, and from different carts that are gone.

Only model-checked:

- Liveness (`EveryCheckoutEnds`, `PendingResolves`, `RequestsSettle`, `BootFinishes`, `ScrollEnds`,
  `OutcomeShown`): it needs ENABLED, which the prover does not treat.
- Which of two waiters goes first, and that a broken circle does not form again for ever, are
  fairness and stay with `EveryCheckoutEnds` and `PendingResolves`; what the states must be for
  that is `NoLockLeft` and `WaitingIsBroken`.
- The three `find_*` runs, which are counterexamples.

## 6. Findings

The runs named `find_*` check what the repository says and TLC refutes it:

- **`ReuseRevokesFamily`** (a bug): SPEC.md:373 and `authService.ts:173` say that reuse of a revoked
  token revokes its family. `POST /refresh` wraps `rotateRefreshToken` in a transaction and the
  function throws after its UPDATE, so the UPDATE is rolled back. The service tests look inside
  the transaction and see it.
- **`NoRowSkipped`** (a bug): the next cursor is the id of the row popped off the page
  (`productService.ts:150-153`) and the next page skips the cursor's row, so one product is lost
  at every page boundary. `products.test.ts:87` is named "contiguous and disjoint" and tests that
  the pages are disjoint. The lists of `api/routes/admin/{products,coupons}.ts` do the same.
- **`SweepSparesLiveCarts`**: SPEC.md:145-146 aligns the sweep of guest carts with the cookie that
  every write renews. Writes go to `cart_items`; `carts.updated_at` stays that of the creation,
  and the sweep deletes a cart in use seven days after it.

Met while modelling, visible in the models, and not given a run of their own:

- `schema.prisma:413-420` says PENDING -> CANCELLED frees the coupon. A cancelled order is updated,
  not deleted, so the cascade never runs and the coupon stays used.
- `README.md:116-117` and ADR 0003:26 say the conditional UPDATE holds no row lock and so cannot
  deadlock. Rows stay locked until COMMIT and a cart's items have no order: two checkouts can wait
  for one another. PostgreSQL breaks the cycle (`BreakDeadlock`), the victim's customer gets an
  error and may retry; `EveryCheckoutEnds` holds because of it.
- `cartService.ts:224-226` says that parallel writes on one connection can deadlock; sequential
  ones on two can too. A login's merge has written one line of the member's cart and inserts the
  next (`cartService.ts:228`), whose foreign key waits for the cart that a checkout of that member
  is deleting (`checkoutService.ts:188`), while the DELETE's cascade waits for the first line. Two
  merges into one cart can meet in opposite orders, since their lines have none.
  `DeadlocksOverRows` shows that these and the one over SKUs are the only kinds.
- `routes/admin/orders.ts:21-23` chose offset pages because cursors under a status filter could
  silently skip or repeat rows. Offset pages do that too: an order that leaves the filtered status
  pulls the later ones back over the page boundary.
- `Checkout.tsx:59-60` promises that a quote for another subtotal is dropped. The effect drops an
  applied one; a quote that is still on its way when the cart's data changes, or was asked for
  before they came, is applied afterwards and stays, and another amount is charged than was shown.
  `ChargedAsShown` excludes exactly that (`late`).
- A browser that sends one refresh at a time, loses its answer and comes back after ten seconds is
  refused with TOKEN_REUSED and signed out, as the trace of `find_reuse_kept` shows; within the
  window it is not (`RefusedOnlyLate`).
- `routes/admin/orders.ts:167-169` says the audit row reflects what the database held at transition
  time. It is filled from an earlier statement's snapshot (`ReadBefore`).
- `schema.prisma:260` and `routes/checkout.ts:19-20` say a hand-triggered webhook drives MANUAL
  orders. `processPaymentOutcome` ignores them.
- SPEC.md:374 says a retry in the grace window gets the family's latest token; the code revokes it
  as an orphan (`authService.ts:206`). With two tabs the revoked token may be the one the browser
  holds, and if the second answer is lost the browser is signed out.
- `api/lib/advisoryLock.ts:11-12` says that acquire and release land on the same connection while
  the pool is idle. Other requests use the pool too; `Jobs` does not assume it.

## 7. Plan

Done: orders, stock, payments, sessions on both sides, carts, lists, administration, sweeps and
the checkout page, with the theorems of section 5. What a next version could add:

1. What the layers use of one another as theorems: a checkout of `CheckoutPage` as a step of
   `Fulfilment`, the passes of `SessionClient` as tokens of `Sessions`.
2. Larger instances: a second guest session at once in `Carts`, two kinds of cart calls at once in
   `CheckoutPage`, a second tab of `SessionClient` over `AuthService`.

## 8. Not modelled

- Rendering, request validation, OpenAPI generation, logging and seeding have no interleavings and
  no state the properties speak of. Reports, single products and single orders only read. The
  administrators' forms send one mutation over one query.
- The demo reset deletes orders without restocking, under live traffic, on demonstration sites: no
  invariant of the shop is meant to survive it.
- Rate limits, password hashing and token cryptography are library code.
- Of the row locks on the parents of foreign keys `Shop` has the one of a cart's new line against
  the DELETE of the cart (`ShareCart`), and `BackOffice` that of a usage against the DELETE of its
  coupon. The others conflict with none of the updates modelled. The DELETE of the guest's cart at
  the end of a merge (`cartService.ts:237`) is in `Carts` only: it closes no circle, because it is
  the merge's last statement and waits only for requests of the guest, which wait for nobody once
  they have a row, or for another merge at its own last statement.
- The query cache outlives a logout (`useAuth.ts` invalidates the cart only), which would need the
  session and the lists in one model.
