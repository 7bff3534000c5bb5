------------------------------- MODULE ShopProofs ------------------------------
(*******************************************************************************)
(* What the row locks, the conditional UPDATEs and the advisory lock of Shop   *)
(* are worth, for every number of transactions, SKUs, orders, users and        *)
(* coupons. First the types, and the stock that never falls below zero, by the *)
(* inductive invariant TypeOK /\ RowsGuarded: what a transaction will commit   *)
(* to a row is already accounted for, and the lock of the row keeps everyone   *)
(* else from changing it meanwhile. Then, each by an invariant of its own that *)
(* rests on this one: one order for a cart; no coupon beyond its limit; a      *)
(* status history along the table and effects carried out once; what every     *)
(* transaction owes to the rows; and by these, that the interleaved statements *)
(* implement Fulfilment and so conserve every unit. Last, who holds which lock *)
(* when, hence what a deadlock can be over, and that there is always a         *)
(* transaction that can go on or a circle for the detector to break.           *)
(*******************************************************************************)
EXTENDS Shop, FiniteSetTheorems, WellFoundedInduction, TLAPS

\* The theorems of the abstract shop, about what it sees of these tables.
P == INSTANCE FulfilmentProofs WITH
        Contents <- Quantities,
        status   <- [o \in Order |-> IF o \in DOMAIN orders THEN orders[o].status ELSE "NONE"],
        lines    <- [o \in Order |-> IF o \in DOMAIN orders THEN orders[o].lines ELSE Nothing]

(* Sets are finite, and as large, in both.                                     *)
LEMMA SameSets ==
    ASSUME NEW S
    PROVE  /\ P!IsFiniteSet(S) <=> IsFiniteSet(S)
           /\ P!Cardinality(S) = Cardinality(S)
           /\ F!Cardinality(S) = Cardinality(S)
  BY DEF IsFiniteSet, P!IsFiniteSet, Cardinality, P!Cardinality, F!Cardinality

(* The constants of the shop are as Fulfilment assumes its own.                *)
LEMMA ConstantsSeen == P!IsFiniteSet(Order) /\ Quantities \subseteq [Sku -> Nat] /\ Deltas \subseteq Int
<1>1. P!IsFiniteSet(Order)
  BY TablesConstants, SameSets
<1> QED
  BY <1>1, TablesConstants, StockConstants DEF Quantities

IInv == TypeOK /\ RowsGuarded

RowsOK ==
    /\ stock \in [Sku -> Int]
    /\ skuLock \in [Sku -> Tx \cup {NoTx}]
    /\ pending \in [Tx -> [Sku -> Int]]
    /\ RowsGuarded

--------------------------------------------------------------------------------
(* The statements on a row of skus.                                            *)

(* A change that a transaction's own view of the row can bear is safe.         *)
LEMMA WriteRowSafe ==
    ASSUME RowsOK, NEW t \in Tx, NEW s \in Sku, NEW d \in Int,
           Seen(t, s) + d >= 0, WriteRow(t, s, d)
    PROVE  RowsOK'
<1> USE DEF RowsOK, RowsGuarded
<1>1. /\ skuLock' = [skuLock EXCEPT ![s] = t]
      /\ pending' = [pending EXCEPT ![t] = [pending[t] EXCEPT ![s] = @ + d]]
      /\ stock' = stock
      /\ skuLock[s] = t \/ skuLock[s] = NoTx
  BY DEF WriteRow, HeldByOther
<1>2. /\ skuLock' \in [Sku -> Tx \cup {NoTx}]
      /\ pending' \in [Tx -> [Sku -> Int]]
  BY <1>1
<1>3. ASSUME NEW u \in Tx, NEW x \in Sku
      PROVE  /\ pending'[u][x] # 0 => skuLock'[x] = u
             /\ stock[x] + pending'[u][x] >= 0
  <2>1. CASE u = t /\ x = s
    BY <1>1, <2>1 DEF Seen
  <2>2. CASE u # t /\ x = s
    BY <1>1, <2>2, TablesConstants
  <2>3. CASE x # s
    <3>1. pending'[u][x] = pending[u][x] /\ skuLock'[x] = skuLock[x]
      BY <1>1, <2>3
    <3> QED
      BY <3>1
  <2> QED
    BY <2>1, <2>2, <2>3
<1> QED
  BY <1>1, <1>2, <1>3

(* COMMIT: only the holder of a row has a change for it.                       *)
LEMMA CommitRowsSafe ==
    ASSUME RowsOK, NEW t \in Tx, CommitRows(t)
    PROVE  RowsOK'
<1> USE DEF RowsOK, RowsGuarded
<1>1. /\ stock' = [s \in Sku |-> stock[s] + pending[t][s]]
      /\ pending' = [pending EXCEPT ![t] = Nothing]
      /\ skuLock' = [s \in Sku |-> IF skuLock[s] = t THEN NoTx ELSE skuLock[s]]
  BY DEF CommitRows, FreeRows
<1>2. Nothing \in [Sku -> Int] /\ \A s \in Sku : Nothing[s] = 0
  BY DEF Nothing
<1>3. /\ stock' \in [Sku -> Int]
      /\ skuLock' \in [Sku -> Tx \cup {NoTx}]
      /\ pending' \in [Tx -> [Sku -> Int]]
  BY <1>1, <1>2
<1>4. ASSUME NEW u \in Tx, NEW x \in Sku
      PROVE  /\ pending'[u][x] # 0 => skuLock'[x] = u
             /\ stock'[x] + pending'[u][x] >= 0
             /\ stock'[x] >= 0
  <2>1. stock'[x] = stock[x] + pending[t][x] /\ stock'[x] >= 0
    BY <1>1
  <2>2. CASE u = t
    BY <1>1, <1>2, <2>1, <2>2
  <2>3. CASE u # t
    <3>1. pending'[u][x] = pending[u][x]
      BY <1>1, <2>3
    <3>2. CASE pending[u][x] = 0
      BY <2>1, <3>1, <3>2
    <3>3. CASE pending[u][x] # 0
      <4>1. skuLock[x] = u
        BY <3>3
      <4>2. pending[t][x] = 0
        BY <4>1, <2>3
      <4> QED
        BY <1>1, <2>1, <2>3, <3>1, <4>1, <4>2
    <3> QED
      BY <3>2, <3>3
  <2> QED
    BY <2>2, <2>3
<1>5. \A x \in Sku : stock'[x] >= 0
  BY <1>1
<1> QED
  BY <1>3, <1>4, <1>5

(* ROLLBACK leaves the committed stock, and nobody waits for the row any more. *)
LEMMA RollbackRowsSafe ==
    ASSUME RowsOK, NEW t \in Tx, RollbackRows(t)
    PROVE  RowsOK'
<1> USE DEF RowsOK, RowsGuarded
<1>1. /\ stock' = stock
      /\ pending' = [pending EXCEPT ![t] = Nothing]
      /\ skuLock' = [s \in Sku |-> IF skuLock[s] = t THEN NoTx ELSE skuLock[s]]
  BY DEF RollbackRows, FreeRows
<1>2. Nothing \in [Sku -> Int] /\ \A s \in Sku : Nothing[s] = 0
  BY DEF Nothing
<1>3. /\ skuLock' \in [Sku -> Tx \cup {NoTx}]
      /\ pending' \in [Tx -> [Sku -> Int]]
  BY <1>1, <1>2
<1>4. ASSUME NEW u \in Tx, NEW x \in Sku
      PROVE  /\ pending'[u][x] # 0 => skuLock'[x] = u
             /\ stock[x] + pending'[u][x] >= 0
  <2>1. CASE u = t
    BY <1>1, <1>2, <2>1
  <2>2. CASE u # t
    <3>1. pending'[u][x] = pending[u][x]
      BY <1>1, <2>2
    <3> QED
      BY <1>1, <2>2, <3>1
  <2> QED
    BY <2>1, <2>2
<1> QED
  BY <1>1, <1>3, <1>4

(* A step that leaves the rows alone.                                          *)
LEMMA RowsUntouched ==
    ASSUME RowsOK, UNCHANGED skuVars
    PROVE  RowsOK'
  BY DEF RowsOK, RowsGuarded, skuVars

--------------------------------------------------------------------------------
(* Checkout.                                                                   *)

OtherTablesOK ==
    /\ DOMAIN orders \subseteq Order
    /\ orders \in [DOMAIN orders -> OrderRow]
    /\ usage \subseteq UsageRow
    /\ cart \in [User -> Carts]
    /\ timers \subseteq DOMAIN orders
    /\ supplied \in [Sku -> Int]

CoStates == {Idle} \cup Calls \cup Answers

LocksOK ==
    /\ couponLock \in [Coupon -> CheckoutTx \cup {NoTx}]
    /\ cartLock \in [User -> CheckoutTx \cup {NoTx}]

EdOK == ed \in [CartTx -> {NoEdit} \cup Edits]

\* What every step of a checkout keeps.
CheckoutInv == RowsOK /\ OtherTablesOK /\ LocksOK /\ co \in [CheckoutTx -> CoStates]

LEMMA CheckoutInvIs ==
    (TypeOK /\ RowsGuarded) <=>
        (CheckoutInv /\ EdOK /\ OrderTypeOK /\ StockTypeOK /\ faults \in 0 .. MaxFaults)
  BY DEF TypeOK, TablesTypeOK, CheckoutTypeOK, CheckoutInv, RowsOK, OtherTablesOK, LocksOK, CoStates, EdOK

(* The program counter tells which record a transaction's locals are.          *)
LEMMA CoShape ==
    ASSUME co \in [CheckoutTx -> CoStates], NEW t \in CheckoutTx
    PROVE  /\ co[t].pc = "stock" => co[t] \in Taking
           /\ co[t].pc \in {"validate", "lock", "count"} => co[t] \in Couponing
           /\ co[t].pc \in {"write", "cart", "commit"} => co[t] \in Writing
           /\ co[t].pc = "cascade" => co[t] \in Cascading
           /\ co[t].pc = "respond" => co[t] \in Answers
  BY DEF CoStates, Calls, Idle, Taking, Couponing, Writing, Cascading, Answers

(* A step that gives transaction t new locals, and orders nothing.             *)
LEMMA CoChanges ==
    ASSUME co \in [CheckoutTx -> CoStates], NEW t \in CheckoutTx, NEW v \in CoStates,
           co' = [co EXCEPT ![t] = v], orders' = orders
    PROVE  (co \in [CheckoutTx -> CoStates])'
<1>1. CoStates' = CoStates
  BY DEF CoStates, Answers, Calls, Taking, Couponing, Writing, Cascading, Idle
<1> QED
  BY <1>1

LEMMA LocksFreed ==
    ASSUME LocksOK, NEW t \in CheckoutTx, FreeCoupons(t), FreeCarts(t)
    PROVE  LocksOK'
  BY DEF LocksOK, FreeCoupons, FreeCarts

LEMMA ThrowSafe ==
    ASSUME CheckoutInv, NEW t \in CheckoutTx, Throw(t)
    PROVE  CheckoutInv' /\ orders' = orders
<1> USE DEF CheckoutInv
<1>1. t \in Tx
  BY CheckoutConstants
<1>2. RowsOK'
  BY <1>1, RollbackRowsSafe DEF Throw
<1>3. OtherTablesOK'
  BY DEF Throw, OtherTablesOK
<1>4. LocksOK'
  BY LocksFreed DEF Throw
<1>5. (co \in [CheckoutTx -> CoStates])'
  BY CoChanges DEF Throw, CoStates
<1> QED
  BY <1>2, <1>3, <1>4, <1>5 DEF Throw

LEMMA BeginSafe ==
    ASSUME CheckoutInv, NEW t \in CheckoutTx, Begin(t)
    PROVE  CheckoutInv' /\ orders' = orders
<1> USE DEF CheckoutInv
<1>1. RowsOK' /\ OtherTablesOK' /\ LocksOK' /\ orders' = orders
  BY RowsUntouched DEF Begin, tableVars, skuVars, OtherTablesOK, LocksOK
<1>2. PICK u \in User, code \in Coupon \cup {NoCoupon}, mode \in Modes :
         \E first \in Wanted(cart[u].lines) :
            co' = [co EXCEPT ![t] =
                     [pc |-> "stock", user |-> u, cart |-> cart[u],
                      todo |-> Wanted(cart[u].lines), next |-> first,
                      code |-> code, mode |-> mode]]
  BY DEF Begin
<1>3. PICK first \in Wanted(cart[u].lines) :
         co' = [co EXCEPT ![t] =
                  [pc |-> "stock", user |-> u, cart |-> cart[u],
                   todo |-> Wanted(cart[u].lines), next |-> first,
                   code |-> code, mode |-> mode]]
  BY <1>2
<1>4. cart[u] \in Carts /\ Wanted(cart[u].lines) \subseteq Sku /\ mode \in OutcomeModes
  BY TablesConstants DEF OtherTablesOK, Wanted
<1>5. [pc |-> "stock", user |-> u, cart |-> cart[u], todo |-> Wanted(cart[u].lines),
       next |-> first, code |-> code, mode |-> mode] \in CoStates
  BY <1>4 DEF CoStates, Calls, Taking
<1>6. (co \in [CheckoutTx -> CoStates])'
  BY <1>1, <1>3, <1>5, CoChanges
<1> QED
  BY <1>1, <1>6

LEMMA TakeStockSafe ==
    ASSUME CheckoutInv, NEW t \in CheckoutTx, TakeStock(t)
    PROVE  CheckoutInv' /\ orders' = orders
<1> USE DEF CheckoutInv
<1> DEFINE c == co[t]
           left == c.todo \ {c.next}
           after == IF c.code = NoCoupon THEN "write" ELSE "validate"
<1>1. c \in Taking /\ t \in Tx
  BY CoShape, CheckoutConstants DEF TakeStock
<1>2. c.next \in Sku /\ c.cart.lines[c.next] \in Int
  BY <1>1, TablesConstants DEF Taking, Carts, Quantities
<1>3. RowsOK'
  <2>1. /\ Seen(t, c.next) >= c.cart.lines[c.next]
        /\ WriteRow(t, c.next, - c.cart.lines[c.next])
    BY DEF TakeStock
  <2>2. Seen(t, c.next) \in Int
    BY <1>1, <1>2 DEF Seen, RowsOK
  <2>3. Seen(t, c.next) + (- c.cart.lines[c.next]) >= 0 /\ - c.cart.lines[c.next] \in Int
    BY <1>2, <2>1, <2>2
  <2> QED
    BY <1>1, <1>2, <2>1, <2>3, WriteRowSafe
<1>4. OtherTablesOK' /\ LocksOK' /\ orders' = orders
  BY DEF TakeStock, OtherTablesOK, LocksOK
<1>5. CASE co' = [co EXCEPT ![t].pc = after, ![t].todo = {}, ![t].next = NoSku]
  <2>1. co' = [co EXCEPT ![t] = [c EXCEPT !.pc = after, !.todo = {}, !.next = NoSku]]
    BY <1>5
  <2>2. [c EXCEPT !.pc = after, !.todo = {}, !.next = NoSku] \in CoStates
    <3>1. CASE c.code = NoCoupon
      BY <1>1, <3>1 DEF CoStates, Calls, Taking, Writing
    <3>2. CASE c.code # NoCoupon
      BY <1>1, <3>2 DEF CoStates, Calls, Taking, Couponing
    <3> QED
      BY <3>1, <3>2
  <2> QED
    BY <1>3, <1>4, <2>1, <2>2, CoChanges
<1>6. CASE \E n \in left : co' = [co EXCEPT ![t].todo = left, ![t].next = n]
  <2>1. PICK n \in left : co' = [co EXCEPT ![t].todo = left, ![t].next = n]
    BY <1>6
  <2>2. co' = [co EXCEPT ![t] = [c EXCEPT !.todo = left, !.next = n]]
    BY <2>1
  <2>3. [c EXCEPT !.todo = left, !.next = n] \in CoStates
    BY <1>1 DEF CoStates, Calls, Taking
  <2> QED
    BY <1>3, <1>4, <2>2, <2>3, CoChanges
<1> QED
  BY <1>5, <1>6 DEF TakeStock

(* The steps between two statements of the coupon: only the place changes.     *)
LEMMA GotoSafe ==
    ASSUME CheckoutInv, NEW t \in CheckoutTx, NEW pc, Goto(t, pc), UNCHANGED tableVars, LocksOK',
           \/ co[t] \in Couponing /\ pc \in {"lock", "count", "write"}
           \/ co[t] \in Writing /\ pc \in {"cart", "commit"}
    PROVE  CheckoutInv' /\ orders' = orders
<1> USE DEF CheckoutInv
<1>1. RowsOK' /\ OtherTablesOK' /\ orders' = orders
  BY RowsUntouched DEF tableVars, skuVars, OtherTablesOK
<1>2. co' = [co EXCEPT ![t] = [co[t] EXCEPT !.pc = pc]]
  BY DEF Goto
<1>3. [co[t] EXCEPT !.pc = pc] \in CoStates
  BY DEF CoStates, Calls, Couponing, Writing
<1> QED
  BY <1>1, <1>2, <1>3, CoChanges

LEMMA CouponStepsSafe ==
    ASSUME CheckoutInv, NEW t \in CheckoutTx,
           \/ ValidateCoupon(t) \/ RejectCoupon(t) \/ LockCoupon(t) \/ CountUsages(t)
           \/ WriteOrder(t) \/ OutOfStock(t)
    PROVE  CheckoutInv' /\ orders' = orders
<1> USE DEF CheckoutInv
<1>1. CASE Throw(t)
  BY <1>1, ThrowSafe
<1>2. CASE ValidateCoupon(t)
  <2>1. LocksOK'
    BY <1>2 DEF ValidateCoupon, LocksOK
  <2>2. co[t] \in Couponing
    BY <1>2, CoShape DEF ValidateCoupon
  <2>3. Goto(t, "lock") /\ UNCHANGED tableVars
    BY <1>2 DEF ValidateCoupon
  <2> QED
    BY <2>1, <2>2, <2>3, GotoSafe
<1>3. CASE LockCoupon(t)
  <2>1. co[t] \in Couponing
    BY <1>3, CoShape DEF LockCoupon
  <2>2. LocksOK'
    BY <1>3, <2>1 DEF LockCoupon, LocksOK
  <2>3. Goto(t, "count") /\ UNCHANGED tableVars
    BY <1>3 DEF LockCoupon
  <2> QED
    BY <2>1, <2>2, <2>3, GotoSafe
<1>4. CASE CountUsages(t) /\ ~ Throw(t)
  <2>1. LocksOK'
    BY <1>4 DEF CountUsages, LocksOK
  <2>2. co[t] \in Couponing
    BY <1>4, CoShape DEF CountUsages
  <2>3. Goto(t, "write") /\ UNCHANGED tableVars
    BY <1>4 DEF CountUsages
  <2> QED
    BY <2>1, <2>2, <2>3, GotoSafe
<1>5. CASE WriteOrder(t) /\ ~ Throw(t)
  <2>1. LocksOK'
    BY <1>5 DEF WriteOrder, LocksOK
  <2>2. co[t] \in Writing
    BY <1>5, CoShape DEF WriteOrder
  <2>3. Goto(t, "cart") /\ UNCHANGED tableVars
    BY <1>5 DEF WriteOrder
  <2> QED
    BY <2>1, <2>2, <2>3, GotoSafe
<1>6. CASE RejectCoupon(t) \/ OutOfStock(t)
  BY <1>6, ThrowSafe DEF RejectCoupon, OutOfStock
<1> QED
  BY <1>1, <1>2, <1>3, <1>4, <1>5, <1>6

(* The DELETE of the cart and its cascade.                                     *)
LEMMA DeleteCartSafe ==
    ASSUME CheckoutInv, NEW t \in CheckoutTx, DeleteCart(t)
    PROVE  CheckoutInv' /\ orders' = orders
<1> USE DEF CheckoutInv
<1> DEFINE lines == Wanted(cart[co[t].user].lines)
<1>1. CASE Throw(t)
  BY <1>1, ThrowSafe
<1>2. CASE ~ Throw(t)
  <2>1. co[t] \in Writing
    BY CoShape DEF DeleteCart
  <2>2. LocksOK' /\ UNCHANGED tableVars
    BY <1>2, <2>1 DEF DeleteCart, LocksOK, Writing
  <2>3. CASE Goto(t, "commit")
    BY <2>1, <2>2, <2>3, GotoSafe
  <2>4. CASE \E s \in lines :
                co' = [co EXCEPT ![t].pc = "cascade", ![t].todo = lines, ![t].next = s]
    <3>1. PICK s \in lines : co' = [co EXCEPT ![t].pc = "cascade", ![t].todo = lines, ![t].next = s]
      BY <2>4
    <3>2. lines \subseteq Sku
      BY DEF Wanted
    <3>3. co' = [co EXCEPT ![t] = [co[t] EXCEPT !.pc = "cascade", !.todo = lines, !.next = s]]
      BY <3>1
    <3>4. [co[t] EXCEPT !.pc = "cascade", !.todo = lines, !.next = s] \in CoStates
      BY <2>1, <3>1, <3>2 DEF CoStates, Calls, Writing, Cascading
    <3>5. RowsOK' /\ OtherTablesOK' /\ orders' = orders
      BY <2>2, RowsUntouched DEF tableVars, skuVars, OtherTablesOK
    <3> QED
      BY <2>2, <3>3, <3>4, <3>5, CoChanges
  <2> QED
    BY <1>2, <2>3, <2>4 DEF DeleteCart
<1> QED
  BY <1>1, <1>2

LEMMA CascadeSafe ==
    ASSUME CheckoutInv, NEW t \in CheckoutTx, Cascade(t)
    PROVE  CheckoutInv' /\ orders' = orders
<1> USE DEF CheckoutInv
<1> DEFINE left == co[t].todo \ {co[t].next}
<1>1. co[t] \in Cascading
  BY CoShape DEF Cascade
<1>2. RowsOK' /\ OtherTablesOK' /\ LocksOK' /\ orders' = orders
  BY RowsUntouched DEF Cascade, tableVars, skuVars, OtherTablesOK, LocksOK
<1>3. CASE co' = [co EXCEPT ![t].pc = "commit", ![t].todo = {}, ![t].next = NoSku]
  <2>1. co' = [co EXCEPT ![t] = [co[t] EXCEPT !.pc = "commit", !.todo = {}, !.next = NoSku]]
    BY <1>3
  <2>2. [co[t] EXCEPT !.pc = "commit", !.todo = {}, !.next = NoSku] \in CoStates
    BY <1>1 DEF CoStates, Calls, Writing, Cascading
  <2> QED
    BY <1>2, <2>1, <2>2, CoChanges
<1>4. CASE \E n \in left : co' = [co EXCEPT ![t].todo = left, ![t].next = n]
  <2>1. PICK n \in left : co' = [co EXCEPT ![t].todo = left, ![t].next = n]
    BY <1>4
  <2>2. co' = [co EXCEPT ![t] = [co[t] EXCEPT !.todo = left, !.next = n]]
    BY <2>1
  <2>3. [co[t] EXCEPT !.todo = left, !.next = n] \in CoStates
    BY <1>1 DEF CoStates, Calls, Cascading
  <2> QED
    BY <1>2, <2>2, <2>3, CoChanges
<1> QED
  BY <1>3, <1>4 DEF Cascade

LEMMA CommitCheckoutSafe ==
    ASSUME CheckoutInv, NEW t \in CheckoutTx, CommitCheckout(t)
    PROVE  CheckoutInv' /\ DOMAIN orders \subseteq DOMAIN orders'
<1> USE DEF CheckoutInv
<1> DEFINE c == co[t]
           o == FreshOrder
           new == [status |-> "PENDING", lines |-> c.cart.lines, user |-> c.user,
                   cart |-> c.cart.no, mode |-> c.mode]
<1>1. c \in Writing /\ t \in Tx
  BY CoShape, CheckoutConstants DEF CommitCheckout
<1>2. /\ o \in Order /\ o \notin DOMAIN orders
      /\ orders' = [x \in DOMAIN orders \cup {o} |->
                      IF x \in DOMAIN orders THEN orders[x] ELSE new]
  BY DEF CommitCheckout
<1>3. new \in OrderRow
  BY <1>1 DEF Writing, Carts, OrderRow, Statuses
<1>4. /\ DOMAIN orders' = DOMAIN orders \cup {o}
      /\ orders' \in [DOMAIN orders' -> OrderRow]
      /\ orders'[o] = new
  <2> HIDE DEF new, o
  <2> QED
    BY <1>2, <1>3 DEF OtherTablesOK
<1>5. usage' \subseteq UsageRow
  BY <1>1, <1>2 DEF CommitCheckout, OtherTablesOK, UsageRow, Writing
<1>6. cart' \in [User -> Carts]
  <2>1. Nothing \in Quantities
    BY TablesConstants DEF Nothing, Quantities
  <2>2. cart' = [cart EXCEPT ![c.user] = [no |-> cart[c.user].no + 1, lines |-> Nothing]]
    BY DEF CommitCheckout
  <2> QED
    BY <1>1, <2>1, <2>2 DEF OtherTablesOK, Carts, Writing
<1>7. OtherTablesOK'
  BY <1>2, <1>4, <1>5, <1>6 DEF OtherTablesOK, CommitCheckout
<1>8. RowsOK'
  BY <1>1, CommitRowsSafe DEF CommitCheckout
<1>9. LocksOK'
  BY LocksFreed DEF CommitCheckout
<1>10. co' \in [CheckoutTx -> CoStates']
  <2>1. co' = [co EXCEPT ![t] = [pc |-> "respond", order |-> o]]
    BY DEF CommitCheckout
  <2>2. [pc |-> "respond", order |-> o] \in CoStates'
    BY <1>4 DEF CoStates, Answers
  <2>3. CoStates \subseteq CoStates'
    BY <1>4 DEF CoStates, Answers, Calls, Taking, Couponing, Writing, Cascading, Idle
  <2> QED
    BY <2>1, <2>2, <2>3
<1> QED
  BY <1>4, <1>7, <1>8, <1>9, <1>10

LEMMA RespondSafe ==
    ASSUME CheckoutInv, NEW t \in CheckoutTx, Respond(t)
    PROVE  CheckoutInv' /\ orders' = orders
<1> USE DEF CheckoutInv
<1>1. co[t] \in Answers
  BY CoShape DEF Respond
<1>2. RowsOK' /\ LocksOK' /\ orders' = orders
  BY RowsUntouched DEF Respond, LocksOK
<1>3. OtherTablesOK'
  BY <1>1 DEF Respond, OtherTablesOK, Answers
<1>4. (co \in [CheckoutTx -> CoStates])'
  BY <1>2, CoChanges DEF Respond, CoStates
<1> QED
  BY <1>2, <1>3, <1>4

--------------------------------------------------------------------------------
(* Cart requests.                                                              *)

LEMMA EdShape ==
    ASSUME EdOK, NEW t \in CartTx, ed[t].pc # "idle"
    PROVE  /\ ed[t] \in Edits
           /\ ed[t].user \in User /\ ed[t].no \in Nat
           /\ ed[t].todo \subseteq Sku /\ ed[t].wrote \subseteq Sku /\ ed[t].lines \in Quantities
           /\ ed[t].pc \in {"line", "key"} => ed[t].next \in Sku
           /\ ed[t].pc = "commit" => ed[t].todo = {}
  BY DEF EdOK, NoEdit, Edits

(* A line more is written.                                                     *)
LEMMA OnwardIs ==
    ASSUME NEW e \in Edits, e.pc # "commit", NEW f \in Onward(e)
    PROVE  /\ f \in Edits /\ f.user = e.user /\ f.wrote = e.wrote
           /\ f.todo = e.todo \ {e.next}
           /\ f.pc \in {"line", "commit"}
           /\ f.pc = "line" => f.next \in f.todo
<1> DEFINE left == e.todo \ {e.next}
<1>1. PICK n \in IF left = {} THEN {NoSku} ELSE left :
         f = [e EXCEPT !.pc = IF left = {} THEN "commit" ELSE "line", !.todo = left, !.next = n]
  BY DEF Onward
<1>2. e \in [pc : {"line", "key"}, user : User, no : Nat, todo : SUBSET Sku, next : Sku,
            wrote : SUBSET Sku, lines : Quantities]
  <2>1. \A k \in [pc : {"commit"}, user : User, no : Nat, todo : {{}}, next : {NoSku},
                  wrote : SUBSET Sku, lines : Quantities] : k.pc = "commit"
    OBVIOUS
  <2> QED
    BY <2>1 DEF Edits
<1>3. left \in SUBSET Sku
  BY <1>2
<1>4. CASE left = {}
  <2>1. f = [e EXCEPT !.pc = "commit", !.todo = {}, !.next = NoSku]
    BY <1>1, <1>4
  <2>2. f \in [pc : {"commit"}, user : User, no : Nat, todo : {{}}, next : {NoSku},
              wrote : SUBSET Sku, lines : Quantities]
    BY <1>2, <2>1
  <2> QED
    BY <1>2, <1>4, <2>1, <2>2 DEF Edits
<1>5. CASE left # {}
  <2>1. n \in left /\ f = [e EXCEPT !.pc = "line", !.todo = left, !.next = n]
    BY <1>1, <1>5
  <2>2. f \in [pc : {"line", "key"}, user : User, no : Nat, todo : SUBSET Sku, next : Sku,
              wrote : SUBSET Sku, lines : Quantities]
    <3> HIDE DEF left
    <3> QED
      BY <1>2, <1>3, <2>1
  <2>3. f.user = e.user /\ f.wrote = e.wrote /\ f.todo = left /\ f.pc = "line" /\ f.next = n
    <3> HIDE DEF left
    <3> QED
      BY <1>2, <2>1
  <2> QED
    BY <2>1, <2>2, <2>3 DEF Edits
<1> QED
  BY <1>4, <1>5

(* A request reads and writes its own lines, and of the tables the lines of a  *)
(* cart, when it commits.                                                      *)
LEMMA WriteLineIs ==
    ASSUME EdOK, NEW t \in CartTx, WriteLine(t), ~ ThrowEdit(t)
    PROVE  /\ EdOK' /\ UNCHANGED tableVars
           /\ ed[t].pc = "line"
           /\ ed'[t].wrote = ed[t].wrote \cup {ed[t].next}
           /\ \/ /\ ed'[t].pc = "key"
                 /\ ed'[t].todo = ed[t].todo /\ ed'[t].next = ed[t].next
              \/ /\ ed'[t].pc \in {"line", "commit"}
                 /\ ed'[t].todo = ed[t].todo \ {ed[t].next}
                 /\ ed'[t].pc = "line" => ed'[t].next \in ed'[t].todo
           /\ \A u \in CartTx : u # t => ed'[u] = ed[u]
<1> DEFINE e == ed[t]
<1>1. /\ e.pc = "line" /\ UNCHANGED tableVars
      /\ \E q \in Granted(t) :
            \E f \in IF Inserts(t)
                     THEN {[[e EXCEPT !.wrote = @ \cup {e.next}, !.lines[e.next] = q] EXCEPT !.pc = "key"]}
                     ELSE Onward([e EXCEPT !.wrote = @ \cup {e.next}, !.lines[e.next] = q]) :
               ed' = [ed EXCEPT ![t] = f]
  BY DEF WriteLine
<1>2. PICK q \in Granted(t) :
         \E f \in IF Inserts(t)
                  THEN {[[e EXCEPT !.wrote = @ \cup {e.next}, !.lines[e.next] = q] EXCEPT !.pc = "key"]}
                  ELSE Onward([e EXCEPT !.wrote = @ \cup {e.next}, !.lines[e.next] = q]) :
            ed' = [ed EXCEPT ![t] = f]
  BY <1>1
<1>3. /\ e \in Edits /\ e.todo \subseteq Sku /\ e.wrote \subseteq Sku /\ e.next \in Sku
      /\ e.lines \in Quantities
  BY <1>1, EdShape
<1>4. PICK m : m = [e.lines EXCEPT ![e.next] = q]
  OBVIOUS
<1>5. m \in Quantities
  BY <1>3, <1>4 DEF Granted, Quantities
<1>6. PICK w : w = [e EXCEPT !.wrote = e.wrote \cup {e.next}, !.lines = m]
  OBVIOUS
<1>7. /\ w \in Edits /\ w.pc = "line" /\ w.todo = e.todo /\ w.next = e.next
      /\ w.wrote = e.wrote \cup {e.next}
  BY <1>1, <1>3, <1>5, <1>6 DEF Edits
<1>8. PICK f \in IF Inserts(t) THEN {[w EXCEPT !.pc = "key"]} ELSE Onward(w) :
         ed' = [ed EXCEPT ![t] = f]
  BY <1>2, <1>4, <1>6
<1>9. ed \in [CartTx -> {NoEdit} \cup Edits]
  BY DEF EdOK
<1>10. ed'[t] = f /\ \A u \in CartTx : u # t => ed'[u] = ed[u]
  BY <1>8, <1>9
<1>11. CASE f = [w EXCEPT !.pc = "key"]
  <2>1. /\ f \in Edits /\ f.pc = "key" /\ f.todo = e.todo /\ f.next = e.next
        /\ f.wrote = e.wrote \cup {e.next}
    BY <1>7, <1>11 DEF Edits
  <2>2. EdOK'
    BY <1>8, <1>9, <2>1 DEF EdOK
  <2> QED
    BY <1>1, <1>10, <2>1, <2>2
<1>12. CASE f \in Onward(w)
  <2>1. /\ f \in Edits /\ f.wrote = e.wrote \cup {e.next} /\ f.todo = e.todo \ {e.next}
        /\ f.pc \in {"line", "commit"} /\ (f.pc = "line" => f.next \in f.todo)
    BY <1>7, <1>12, OnwardIs
  <2>2. EdOK'
    BY <1>8, <1>9, <2>1 DEF EdOK
  <2> QED
    BY <1>1, <1>10, <2>1, <2>2
<1> QED
  BY <1>8, <1>11, <1>12

LEMMA ShareCartIs ==
    ASSUME EdOK, NEW t \in CartTx, ShareCart(t), ~ ThrowEdit(t)
    PROVE  /\ EdOK' /\ UNCHANGED tableVars
           /\ ed[t].pc = "key"
           /\ ed'[t].wrote = ed[t].wrote
           /\ ed'[t].pc \in {"line", "commit"}
           /\ ed'[t].todo = ed[t].todo \ {ed[t].next}
           /\ ed'[t].pc = "line" => ed'[t].next \in ed'[t].todo
           /\ \A u \in CartTx : u # t => ed'[u] = ed[u]
<1>1. /\ ed[t].pc = "key" /\ UNCHANGED tableVars
      /\ \E f \in Onward(ed[t]) : ed' = [ed EXCEPT ![t] = f]
  BY DEF ShareCart
<1>2. PICK f \in Onward(ed[t]) : ed' = [ed EXCEPT ![t] = f]
  BY <1>1
<1>3. ed[t] \in Edits
  BY <1>1, EdShape
<1>4. /\ f \in Edits /\ f.wrote = ed[t].wrote /\ f.todo = ed[t].todo \ {ed[t].next}
      /\ f.pc \in {"line", "commit"} /\ (f.pc = "line" => f.next \in f.todo)
  BY <1>1, <1>3, OnwardIs
<1>5. ed \in [CartTx -> {NoEdit} \cup Edits]
  BY DEF EdOK
<1>6. ed'[t] = f /\ \A u \in CartTx : u # t => ed'[u] = ed[u]
  BY <1>2, <1>5
<1>7. EdOK'
  BY <1>2, <1>4, <1>5 DEF EdOK
<1> QED
  BY <1>1, <1>4, <1>6, <1>7

LEMMA EditSafe ==
    ASSUME OtherTablesOK, EdOK, NEW t \in CartTx, BeginEdit(t) \/ EditStep(t) \/ ThrowEdit(t)
    PROVE  /\ OtherTablesOK' /\ EdOK'
           /\ UNCHANGED <<skuVars, orders, usage, timers, supplied>>
           /\ \A u \in User : cart'[u].no = cart[u].no
           /\ \A u \in CartTx : u # t => ed'[u] = ed[u]
<1>1. CASE ThrowEdit(t)
  BY <1>1 DEF ThrowEdit, EdOK, OtherTablesOK, tableVars, skuVars
<1>2. CASE BeginEdit(t)
  <2>1. PICK u \in Shoppers, todo \in SUBSET Sku : \E first \in todo :
          ed' = [ed EXCEPT ![t] =
                   [pc |-> "line", user |-> u, no |-> cart[u].no, todo |-> todo,
                    next |-> first, wrote |-> {}, lines |-> Nothing]]
    BY <1>2 DEF BeginEdit
  <2>2. PICK first \in todo :
          ed' = [ed EXCEPT ![t] =
                   [pc |-> "line", user |-> u, no |-> cart[u].no, todo |-> todo,
                    next |-> first, wrote |-> {}, lines |-> Nothing]]
    BY <2>1
  <2>3. u \in User /\ cart[u].no \in Nat /\ Nothing \in Quantities
    BY CheckoutConstants, TablesConstants DEF OtherTablesOK, Carts, Nothing, Quantities
  <2>4. [pc |-> "line", user |-> u, no |-> cart[u].no, todo |-> todo,
         next |-> first, wrote |-> {}, lines |-> Nothing] \in Edits
    BY <2>3 DEF Edits
  <2> QED
    BY <1>2, <2>2, <2>4 DEF BeginEdit, EdOK, OtherTablesOK, tableVars, skuVars
<1>3. CASE WriteLine(t) /\ ~ ThrowEdit(t)
  BY <1>3, WriteLineIs DEF OtherTablesOK, tableVars, skuVars
<1>5. CASE ShareCart(t) /\ ~ ThrowEdit(t)
  BY <1>5, ShareCartIs DEF OtherTablesOK, tableVars, skuVars
<1>4. CASE EndEdit(t) /\ ~ ThrowEdit(t)
  <2> DEFINE e == ed[t]
  <2>1. /\ e.pc = "commit"
        /\ cart' = [cart EXCEPT ![e.user].lines =
                      [s \in Sku |-> IF s \in e.wrote THEN e.lines[s] ELSE @[s]]]
        /\ ed' = [ed EXCEPT ![t] = NoEdit]
        /\ UNCHANGED <<skuVars, orders, usage, timers, supplied>>
    BY <1>4 DEF EndEdit
  <2>2. e.user \in User /\ e.lines \in Quantities
    BY <2>1, EdShape
  <2>3. PICK m : m = [s \in Sku |-> IF s \in e.wrote THEN e.lines[s] ELSE cart[e.user].lines[s]]
    OBVIOUS
  <2>4. cart \in [User -> Carts] /\ cart[e.user].lines \in Quantities
    BY <2>2 DEF OtherTablesOK, Carts
  <2>5. m \in Quantities
    BY <2>2, <2>3, <2>4 DEF Quantities
  <2>6. cart' = [cart EXCEPT ![e.user] = [cart[e.user] EXCEPT !.lines = m]]
    BY <2>1, <2>3
  <2>7. [cart[e.user] EXCEPT !.lines = m] \in Carts /\ [cart[e.user] EXCEPT !.lines = m].no = cart[e.user].no
    BY <2>2, <2>4, <2>5 DEF Carts
  <2>8. cart' \in [User -> Carts] /\ \A u \in User : cart'[u].no = cart[u].no
    BY <2>4, <2>6, <2>7
  <2> QED
    BY <2>1, <2>8 DEF OtherTablesOK, EdOK
<1> QED
  BY <1>1, <1>2, <1>3, <1>4, <1>5 DEF EditStep

LEMMA CheckoutSafe ==
    ASSUME CheckoutInv, NEW t \in CheckoutTx, Begin(t) \/ CheckoutStep(t)
    PROVE  CheckoutInv' /\ DOMAIN orders \subseteq DOMAIN orders'
<1>1. CASE Begin(t)
  BY <1>1, BeginSafe
<1>2. CASE TakeStock(t)
  BY <1>2, TakeStockSafe
<1>3. CASE CommitCheckout(t)
  BY <1>3, CommitCheckoutSafe
<1>4. CASE Respond(t)
  BY <1>4, RespondSafe
<1>5. CASE \/ ValidateCoupon(t) \/ RejectCoupon(t) \/ LockCoupon(t) \/ CountUsages(t)
           \/ WriteOrder(t) \/ OutOfStock(t)
  BY <1>5, CouponStepsSafe
<1>6. CASE DeleteCart(t) \/ Cascade(t)
  BY <1>6, DeleteCartSafe, CascadeSafe
<1> QED
  BY <1>1, <1>2, <1>3, <1>4, <1>5, <1>6 DEF CheckoutStep

--------------------------------------------------------------------------------
(* Orders on the move.                                                         *)

MvStates == {Rest} \cup Moves

RecordsOK ==
    /\ orderLock \in [Order -> MoveTx \cup {NoTx}]
    /\ log \in [Order -> Seq(StatusPairs)]
    /\ shipments \in [Order -> Nat]
    /\ refunds \in [Order -> Nat]
    /\ audit \in [Order -> SUBSET ((Statuses \cup {"-"}) \X Statuses)]
    /\ due \in [Jobs -> SUBSET Order]

SweepOK == sweep \in [Jobs -> SUBSET DOMAIN orders]

MoveInv == RowsOK /\ OtherTablesOK /\ RecordsOK /\ SweepOK /\ mv \in [MoveTx -> MvStates]

LEMMA MoveInvIs == OrderTypeOK <=> (RecordsOK /\ SweepOK /\ mv \in [MoveTx -> MvStates])
  BY DEF OrderTypeOK, RecordsOK, SweepOK, MvStates

LEMMA MvShape ==
    ASSUME mv \in [MoveTx -> MvStates], NEW t \in MoveTx
    PROVE  /\ mv[t].pc \in {"outcome", "before", "read"} => mv[t] \in Opening
           /\ mv[t].pc = "restock" => mv[t] \in Restoring
           /\ mv[t].pc \in {"update", "commit"} => mv[t] \in Finishing
  BY DEF MvStates, Moves, Rest, Opening, Restoring, Finishing

LEMMA MvGrows ==
    ASSUME DOMAIN orders \subseteq DOMAIN orders'
    PROVE  MvStates \subseteq MvStates'
  BY DEF MvStates, Moves, Rest, Opening, Restoring, Finishing

LEMMA MvChanges ==
    ASSUME mv \in [MoveTx -> MvStates], NEW t \in MoveTx, NEW v \in MvStates,
           mv' = [mv EXCEPT ![t] = v], DOMAIN orders' = DOMAIN orders
    PROVE  (mv \in [MoveTx -> MvStates])'
<1>1. MvStates \subseteq MvStates'
  BY MvGrows
<1> QED
  BY <1>1

LEMMA CallIsTyped ==
    ASSUME NEW pc \in {"outcome", "before", "read"}, NEW o \in DOMAIN orders,
           NEW to \in Statuses, NEW a \in Roles \cup {"system"}
    PROVE  Call(pc, o, to, a) \in MvStates
  BY DEF Call, MvStates, Moves, Opening

LEMMA ThrowMoveSafe ==
    ASSUME MoveInv, NEW t \in MoveTx, ThrowMove(t)
    PROVE  MoveInv' /\ orders' = orders
<1> USE DEF MoveInv
<1>1. RowsOK'
  BY OrderConstants, RollbackRowsSafe DEF ThrowMove
<1>2. OtherTablesOK' /\ SweepOK' /\ orders' = orders
  BY DEF ThrowMove, OtherTablesOK, SweepOK
<1>3. RecordsOK'
  BY DEF ThrowMove, RecordsOK
<1>4. (mv \in [MoveTx -> MvStates])'
  BY <1>2, MvChanges DEF ThrowMove, MvStates
<1> QED
  BY <1>1, <1>2, <1>3, <1>4

(* The callers give a transaction its order and its target status.             *)
LEMMA CallersSafe ==
    ASSUME MoveInv, NEW t \in MoveTx,
           \/ FireTimer(t) \/ Webhook(t) \/ Ship(t) \/ Refund(t)
           \/ \E j \in Jobs : SweepNext(j, t)
    PROVE  MoveInv' /\ orders' = orders
<1> USE DEF MoveInv
<1>1. RowsOK' /\ orders' = orders
  BY RowsUntouched DEF FireTimer, Webhook, Ship, Refund, SweepNext, tableVars, skuVars
<1>2. OtherTablesOK'
  BY DEF FireTimer, Webhook, Ship, Refund, SweepNext, tableVars, skuVars, OtherTablesOK
<1>3. RecordsOK'
  BY DEF FireTimer, Webhook, Ship, Refund, SweepNext, Start, RecordsOK
<1>4. SweepOK'
  <2>1. CASE \E j \in Jobs : SweepNext(j, t)
    BY <1>1, <2>1 DEF SweepNext, SweepOK
  <2>2. CASE sweep' = sweep
    BY <1>1, <2>2 DEF SweepOK
  <2> QED
    BY <2>1, <2>2 DEF FireTimer, Webhook, Ship, Refund
<1>5. \E v \in MvStates : mv' = [mv EXCEPT ![t] = v]
  <2>1. CASE FireTimer(t) \/ Webhook(t)
    <3>1. PICK o \in DOMAIN orders :
             mv' = [mv EXCEPT ![t] = Call("outcome", o, ToOf(orders[o].mode), "system")]
      BY <2>1 DEF FireTimer, Webhook, Start, OtherTablesOK
    <3>2. ToOf(orders[o].mode) \in Statuses
      BY DEF ToOf, Statuses
    <3> QED
      BY <3>1, <3>2, CallIsTyped
  <2>2. CASE Ship(t)
    <3>1. PICK o \in DOMAIN orders, a \in Actors :
             mv' = [mv EXCEPT ![t] = Call("before", o, "SHIPPED", a)]
      BY <2>2 DEF Ship, Start
    <3>2. Call("before", o, "SHIPPED", a) \in MvStates
      BY CallIsTyped, OrderConstants DEF Statuses
    <3> QED
      BY <3>1, <3>2
  <2>3. CASE Refund(t)
    <3>1. PICK o \in DOMAIN orders, a \in Actors \cap {"SUPER_ADMIN"} :
             mv' = [mv EXCEPT ![t] = Call("before", o, "REFUNDED", a)]
      BY <2>3 DEF Refund, Start
    <3>2. Call("before", o, "REFUNDED", a) \in MvStates
      BY CallIsTyped, OrderConstants DEF Statuses
    <3> QED
      BY <3>1, <3>2
  <2>4. CASE \E j \in Jobs : SweepNext(j, t)
    <3>1. PICK j \in Jobs : SweepNext(j, t)
      BY <2>4
    <3>2. PICK o \in sweep[j] : mv' = [mv EXCEPT ![t] = Call("read", o, JobTo(j), "system")]
      BY <3>1 DEF SweepNext, Start
    <3>3. o \in DOMAIN orders /\ JobTo(j) \in Statuses
      BY DEF SweepOK, JobTo, Statuses
    <3>4. Call("read", o, JobTo(j), "system") \in MvStates
      BY <3>3, CallIsTyped
    <3> QED
      BY <3>2, <3>4
  <2> QED
    BY <2>1, <2>2, <2>3, <2>4
<1>6. (mv \in [MoveTx -> MvStates])'
  BY <1>1, <1>5, MvChanges
<1> QED
  BY <1>1, <1>2, <1>3, <1>4, <1>6

LEMMA JobsSafe ==
    ASSUME MoveInv, NEW j \in Jobs, Ripen(j) \/ Scan(j)
    PROVE  MoveInv' /\ orders' = orders
<1> USE DEF MoveInv
<1>1. RowsOK' /\ OtherTablesOK' /\ orders' = orders /\ mv' = mv
  BY RowsUntouched DEF Ripen, Scan, tableVars, skuVars, OtherTablesOK
<1>2. Placed(JobFrom(j)) \subseteq DOMAIN orders /\ DOMAIN orders \subseteq Order
  BY DEF Placed, OtherTablesOK
<1>3. RecordsOK'
  <2>1. CASE Ripen(j)
    <3>1. due' \in [Jobs -> SUBSET Order]
      BY <1>2, <2>1 DEF Ripen, RecordsOK
    <3> QED
      BY <2>1, <3>1 DEF Ripen, RecordsOK
  <2>2. CASE Scan(j)
    BY <2>2 DEF Scan, RecordsOK
  <2> QED
    BY <2>1, <2>2
<1>4. SweepOK'
  <2>1. CASE Ripen(j)
    BY <1>1, <2>1 DEF Ripen, SweepOK
  <2>2. CASE Scan(j)
    BY <1>1, <1>2, <2>2 DEF Scan, SweepOK
  <2> QED
    BY <2>1, <2>2
<1>5. (mv \in [MoveTx -> MvStates])'
  BY <1>1, MvGrows
<1> QED
  BY <1>1, <1>3, <1>4, <1>5

(* transitionOrder and the reads before it.                                    *)
LEMMA ReadsSafe ==
    ASSUME MoveInv, NEW t \in MoveTx, ReadOutcome(t) \/ ReadBefore(t)
    PROVE  MoveInv' /\ orders' = orders
<1> USE DEF MoveInv
<1>1. RowsOK' /\ OtherTablesOK' /\ orders' = orders
  BY RowsUntouched DEF ReadOutcome, ReadBefore, tableVars, skuVars, OtherTablesOK
<1>2. RecordsOK' /\ SweepOK'
  BY <1>1 DEF ReadOutcome, ReadBefore, RecordsOK, SweepOK
<1>3. mv[t] \in Opening
  BY MvShape DEF ReadOutcome, ReadBefore
<1>4. \E v \in MvStates : mv' = [mv EXCEPT ![t] = v]
  <2>1. CASE ReadOutcome(t)
    <3>1. [mv[t] EXCEPT !.pc = "read"] \in MvStates
      BY <1>3 DEF Opening, MvStates, Moves
    <3>2. \/ mv' = [mv EXCEPT ![t] = Rest]
          \/ mv' = [mv EXCEPT ![t] = [mv[t] EXCEPT !.pc = "read"]]
      BY <2>1 DEF ReadOutcome
    <3> QED
      BY <3>1, <3>2 DEF MvStates
  <2>2. CASE ReadBefore(t)
    <3>1. orders[mv[t].order].status \in Statuses
      BY <1>3 DEF Opening, OtherTablesOK, OrderRow
    <3>2. [mv[t] EXCEPT !.pc = "read", !.before = orders[mv[t].order].status] \in MvStates
      BY <1>3, <3>1 DEF Opening, MvStates, Moves
    <3>3. mv' = [mv EXCEPT ![t] = [mv[t] EXCEPT !.pc = "read", !.before = orders[mv[t].order].status]]
      BY <2>2 DEF ReadBefore
    <3> QED
      BY <3>2, <3>3
  <2> QED
    BY <2>1, <2>2
<1>5. (mv \in [MoveTx -> MvStates])'
  BY <1>1, <1>4, MvChanges
<1> QED
  BY <1>1, <1>2, <1>5

LEMMA ReadOrderSafe ==
    ASSUME MoveInv, NEW t \in MoveTx, ReadOrder(t)
    PROVE  MoveInv' /\ orders' = orders
<1> USE DEF MoveInv
<1> DEFINE m    == mv[t]
           from == orders[m.order].status
           list == Wanted(orders[m.order].lines)
<1>1. m \in Opening
  BY MvShape DEF ReadOrder
<1>2. from \in Statuses
  BY <1>1 DEF Opening, OtherTablesOK, OrderRow
<1>3. CASE ThrowMove(t)
  BY <1>3, ThrowMoveSafe
<1>4. CASE ~ ThrowMove(t)
  <2>1. RowsOK' /\ OtherTablesOK' /\ orders' = orders
    BY <1>4, RowsUntouched DEF ReadOrder, tableVars, skuVars, OtherTablesOK
  <2>2. RecordsOK' /\ SweepOK'
    BY <1>4, <2>1 DEF ReadOrder, RecordsOK, SweepOK
  <2>3. \/ mv' = [mv EXCEPT ![t] = [m EXCEPT !.pc = "update", !.from = from]]
        \/ \E s \in list : mv' = [mv EXCEPT ![t] = [m EXCEPT !.pc = "restock", !.from = from,
                                                          !.todo = list, !.next = s]]
    BY <1>4, ZenonT(40) DEF ReadOrder
  <2>4. [m EXCEPT !.pc = "update", !.from = from] \in MvStates
    BY <1>1, <1>2 DEF Opening, Finishing, MvStates, Moves
  <2>5. ASSUME NEW s \in list
        PROVE  [m EXCEPT !.pc = "restock", !.from = from, !.todo = list, !.next = s] \in MvStates
    <3>1. list \subseteq Sku
      BY DEF Wanted
    <3> HIDE DEF list, from
    <3> QED
      BY <1>1, <1>2, <3>1 DEF Opening, Restoring, MvStates, Moves
  <2>6. \E v \in MvStates : mv' = [mv EXCEPT ![t] = v]
    BY <2>3, <2>4, <2>5
  <2>7. (mv \in [MoveTx -> MvStates])'
    BY <2>1, <2>6, MvChanges
  <2> QED
    BY <2>1, <2>2, <2>7
<1> QED
  BY <1>3, <1>4

LEMMA RestockSafe ==
    ASSUME MoveInv, NEW t \in MoveTx, Restock(t)
    PROVE  MoveInv' /\ orders' = orders
<1> USE DEF MoveInv
<1> DEFINE m    == mv[t]
           left == m.todo \ {m.next}
           d    == orders[m.order].lines[m.next]
<1>1. m \in Restoring /\ t \in Tx
  BY MvShape, OrderConstants DEF Restock
<1>2. m.next \in Sku /\ d \in Nat
  BY <1>1, TablesConstants DEF Restoring, OtherTablesOK, OrderRow, Quantities
<1>3. RowsOK'
  <2>1. WriteRow(t, m.next, d)
    BY DEF Restock
  <2>2. Seen(t, m.next) >= 0 /\ Seen(t, m.next) \in Int
    BY <1>1, <1>2 DEF Seen, RowsOK, RowsGuarded
  <2>3. d \in Int /\ Seen(t, m.next) + d >= 0
    BY <1>2, <2>2
  <2> HIDE DEF d
  <2> QED
    BY <1>1, <1>2, <2>1, <2>3, WriteRowSafe
<1>4. OtherTablesOK' /\ SweepOK' /\ orders' = orders
  BY DEF Restock, OtherTablesOK, SweepOK
<1>5. RecordsOK'
  BY DEF Restock, RecordsOK
<1>6. \/ mv' = [mv EXCEPT ![t] = [m EXCEPT !.pc = "update", !.todo = {}, !.next = NoSku]]
      \/ \E n \in left : mv' = [mv EXCEPT ![t] = [m EXCEPT !.todo = left, !.next = n]]
  BY DEF Restock
<1>7. [m EXCEPT !.pc = "update", !.todo = {}, !.next = NoSku] \in MvStates
  BY <1>1 DEF Restoring, Finishing, MvStates, Moves
<1>8. ASSUME NEW n \in left PROVE [m EXCEPT !.todo = left, !.next = n] \in MvStates
  BY <1>1 DEF Restoring, MvStates, Moves
<1>9. (mv \in [MoveTx -> MvStates])'
  BY <1>4, <1>6, <1>7, <1>8, MvChanges
<1> QED
  BY <1>3, <1>4, <1>5, <1>9

LEMMA UpdateStatusSafe ==
    ASSUME MoveInv, NEW t \in MoveTx, UpdateStatus(t)
    PROVE  MoveInv' /\ orders' = orders
<1> USE DEF MoveInv
<1>1. mv[t] \in Finishing
  BY MvShape DEF UpdateStatus
<1>2. CASE ThrowMove(t)
  BY <1>2, ThrowMoveSafe
<1>3. CASE ~ ThrowMove(t)
  <2>1. RowsOK' /\ OtherTablesOK' /\ orders' = orders
    BY <1>3, RowsUntouched DEF UpdateStatus, tableVars, skuVars, OtherTablesOK
  <2>2. RecordsOK' /\ SweepOK'
    <3>1. /\ orderLock' = [orderLock EXCEPT ![mv[t].order] = t]
          /\ UNCHANGED <<log, shipments, refunds, audit, due, sweep>>
      BY <1>3 DEF UpdateStatus
    <3>2. orderLock' \in [Order -> MoveTx \cup {NoTx}]
      BY <3>1 DEF RecordsOK
    <3> QED
      BY <2>1, <3>1, <3>2 DEF RecordsOK, SweepOK
  <2>3. [mv[t] EXCEPT !.pc = "commit"] \in MvStates
    BY <1>1 DEF Finishing, MvStates, Moves
  <2>4. mv' = [mv EXCEPT ![t] = [mv[t] EXCEPT !.pc = "commit"]]
    BY <1>3 DEF UpdateStatus
  <2>5. (mv \in [MoveTx -> MvStates])'
    BY <2>1, <2>3, <2>4, MvChanges
  <2> QED
    BY <2>1, <2>2, <2>5
<1> QED
  BY <1>2, <1>3

LEMMA CommitMoveSafe ==
    ASSUME MoveInv, NEW t \in MoveTx, CommitMove(t)
    PROVE  MoveInv' /\ DOMAIN orders' = DOMAIN orders
<1> USE DEF MoveInv
<1> DEFINE m == mv[t]
           o == m.order
<1>1. m \in Finishing /\ t \in Tx
  BY MvShape, OrderConstants DEF CommitMove
<1>2. /\ o \in DOMAIN orders /\ o \in Order
      /\ m.to \in Statuses /\ m.from \in Statuses /\ m.before \in Statuses \cup {"-"}
  BY <1>1 DEF Finishing, OtherTablesOK
<1>3. RowsOK'
  BY <1>1, CommitRowsSafe DEF CommitMove
<1>4. DOMAIN orders' = DOMAIN orders /\ orders' \in [DOMAIN orders -> OrderRow]
  <2>1. orders' = [orders EXCEPT ![o] = [orders[o] EXCEPT !.status = m.to]]
    BY DEF CommitMove
  <2>2. [orders[o] EXCEPT !.status = m.to] \in OrderRow
    BY <1>2 DEF OtherTablesOK, OrderRow
  <2> HIDE DEF o
  <2> QED
    BY <2>1, <2>2 DEF OtherTablesOK
<1>5. OtherTablesOK' /\ SweepOK'
  BY <1>4 DEF CommitMove, OtherTablesOK, SweepOK
<1>6. log' \in [Order -> Seq(StatusPairs)]
  <2>1. Append(log[o], <<m.from, m.to>>) \in Seq(StatusPairs)
    BY <1>2 DEF RecordsOK, StatusPairs
  <2>2. log' = [log EXCEPT ![o] = Append(log[o], <<m.from, m.to>>)]
    BY DEF CommitMove
  <2> QED
    BY <1>2, <2>1, <2>2 DEF RecordsOK
<1>7. shipments' \in [Order -> Nat] /\ refunds' \in [Order -> Nat]
  BY <1>2 DEF CommitMove, RecordsOK
<1>8. audit' \in [Order -> SUBSET ((Statuses \cup {"-"}) \X Statuses)]
  <2>1. <<m.before, m.to>> \in (Statuses \cup {"-"}) \X Statuses
    BY <1>2
  <2>2. \/ audit' = audit
        \/ audit' = [audit EXCEPT ![o] = audit[o] \cup {<<m.before, m.to>>}]
    BY DEF CommitMove
  <2> DEFINE Pairs == (Statuses \cup {"-"}) \X Statuses
  <2>3. audit \in [Order -> SUBSET Pairs] /\ <<m.before, m.to>> \in Pairs
    BY <2>1 DEF RecordsOK
  <2> HIDE DEF Pairs
  <2>4. audit' \in [Order -> SUBSET Pairs]
    BY <1>2, <2>2, <2>3
  <2> QED
    BY <2>4 DEF Pairs
<1>9. orderLock' \in [Order -> MoveTx \cup {NoTx}] /\ due' = due
  BY DEF CommitMove, RecordsOK
<1>10. RecordsOK'
  BY <1>6, <1>7, <1>8, <1>9 DEF RecordsOK
<1>11. (mv \in [MoveTx -> MvStates])'
  BY <1>4, MvChanges DEF CommitMove, MvStates
<1> QED
  BY <1>3, <1>4, <1>5, <1>10, <1>11

LEMMA MoveSafe ==
    ASSUME MoveInv, NEW t \in MoveTx, MoveStep(t)
    PROVE  MoveInv' /\ DOMAIN orders' = DOMAIN orders
<1>1. CASE ReadOutcome(t) \/ ReadBefore(t)
  BY <1>1, ReadsSafe
<1>2. CASE ReadOrder(t)
  BY <1>2, ReadOrderSafe
<1>3. CASE Restock(t)
  BY <1>3, RestockSafe
<1>4. CASE UpdateStatus(t)
  BY <1>4, UpdateStatusSafe
<1>5. CASE CommitMove(t)
  BY <1>5, CommitMoveSafe
<1> QED
  BY <1>1, <1>2, <1>3, <1>4, <1>5 DEF MoveStep

--------------------------------------------------------------------------------
(* Stock adjustments.                                                          *)

AdjustInv == RowsOK /\ StockTypeOK /\ supplied \in [Sku -> Int]

LEMMA AdjustSafe ==
    ASSUME AdjustInv, NEW t \in StockTx, BeginAdjust(t) \/ AdjustStep(t)
    PROVE  /\ AdjustInv'
           /\ UNCHANGED <<orders, usage, cart, timers>>
<1> USE DEF AdjustInv
<1>0. t \in Tx
  BY StockConstants
<1>1. CASE ThrowAdjust(t)
  <2>1. RowsOK'
    BY <1>0, <1>1, RollbackRowsSafe DEF ThrowAdjust
  <2> QED
    BY <1>1, <2>1 DEF ThrowAdjust, StockTypeOK
<1>2. CASE BeginAdjust(t)
  <2>1. RowsOK' /\ UNCHANGED <<orders, usage, cart, timers, supplied>>
    BY <1>2, RowsUntouched DEF BeginAdjust, tableVars, skuVars
  <2>2. PICK s \in Sku, d \in Deltas :
           adj' = [adj EXCEPT ![t] = [pc |-> "update", sku |-> s, delta |-> d]]
    BY <1>2 DEF BeginAdjust
  <2>3. [pc |-> "update", sku |-> s, delta |-> d] \in Requests
    BY StockConstants DEF Requests
  <2> QED
    BY <2>1, <2>2, <2>3 DEF StockTypeOK
<1>3. CASE AdjustStock(t) /\ ~ ThrowAdjust(t)
  <2>1. adj[t] \in Requests
    BY <1>3 DEF AdjustStock, StockTypeOK, None
  <2>2. adj[t].sku \in Sku /\ adj[t].delta \in Int
    BY <2>1 DEF Requests
  <2>3. Seen(t, adj[t].sku) + adj[t].delta >= 0
    <3>1. Seen(t, adj[t].sku) >= Floor(adj[t].delta) /\ Seen(t, adj[t].sku) \in Int
      BY <1>0, <1>3, <2>2 DEF AdjustStock, Seen, RowsOK
    <3> QED
      BY <2>2, <3>1 DEF Floor
  <2>4. RowsOK'
    BY <1>0, <1>3, <2>2, <2>3, WriteRowSafe DEF AdjustStock
  <2>5. adj' = [adj EXCEPT ![t] = [adj[t] EXCEPT !.pc = "commit"]]
    BY <1>3 DEF AdjustStock
  <2>6. [adj[t] EXCEPT !.pc = "commit"] \in Requests
    BY <2>1 DEF Requests
  <2>7. StockTypeOK'
    BY <2>5, <2>6 DEF StockTypeOK
  <2> QED
    BY <1>3, <2>4, <2>7 DEF AdjustStock
<1>4. CASE CommitAdjust(t)
  <2>1. adj[t] \in Requests
    BY <1>4 DEF CommitAdjust, StockTypeOK, None
  <2>2. RowsOK'
    BY <1>0, <1>4, CommitRowsSafe DEF CommitAdjust
  <2>3. supplied' \in [Sku -> Int]
    BY <1>4, <2>1 DEF CommitAdjust, Requests
  <2>4. StockTypeOK'
    BY <1>4 DEF CommitAdjust, StockTypeOK
  <2> QED
    BY <1>4, <2>2, <2>3, <2>4 DEF CommitAdjust
<1> QED
  BY <1>1, <1>2, <1>3, <1>4 DEF AdjustStep, AdjustStock

--------------------------------------------------------------------------------
(* The whole.                                                                  *)

LEMMA IInvIs ==
    IInv <=> /\ RowsOK /\ OtherTablesOK
             /\ LocksOK /\ co \in [CheckoutTx -> CoStates] /\ EdOK
             /\ RecordsOK /\ SweepOK /\ mv \in [MoveTx -> MvStates]
             /\ StockTypeOK
             /\ faults \in 0 .. MaxFaults
  BY CheckoutInvIs, MoveInvIs DEF IInv, CheckoutInv

LEMMA IInvAfter ==
    IInv' <=> /\ RowsOK' /\ OtherTablesOK'
              /\ LocksOK' /\ (co \in [CheckoutTx -> CoStates])' /\ EdOK'
              /\ RecordsOK' /\ SweepOK' /\ (mv \in [MoveTx -> MvStates])'
              /\ StockTypeOK'
              /\ faults' \in 0 .. MaxFaults
  BY DEF IInv, TypeOK, TablesTypeOK, CheckoutTypeOK, OrderTypeOK, RowsOK, OtherTablesOK, LocksOK,
         CoStates, EdOK, RecordsOK, SweepOK, MvStates

(* What a step of one service leaves alone stays typed while orders are added. *)
LEMMA OthersKept ==
    ASSUME IInv, DOMAIN orders \subseteq DOMAIN orders'
    PROVE  /\ UNCHANGED checkoutVars => LocksOK' /\ (co \in [CheckoutTx -> CoStates])'
           /\ UNCHANGED orderVars => RecordsOK' /\ SweepOK' /\ (mv \in [MoveTx -> MvStates])'
           /\ UNCHANGED stockVars => StockTypeOK'
           /\ UNCHANGED editVars => EdOK'
<1> USE IInvIs
<1>1. CoStates \subseteq CoStates'
  BY DEF CoStates, Answers, Calls, Taking, Couponing, Writing, Cascading, Idle
<1>2. MvStates \subseteq MvStates'
  BY MvGrows
<1>3. UNCHANGED checkoutVars => LocksOK' /\ (co \in [CheckoutTx -> CoStates])'
  BY <1>1 DEF checkoutVars, LocksOK
<1>4. UNCHANGED orderVars => RecordsOK' /\ SweepOK' /\ (mv \in [MoveTx -> MvStates])'
  BY <1>2 DEF orderVars, RecordsOK, SweepOK
<1>5. UNCHANGED stockVars => StockTypeOK'
  BY DEF stockVars, StockTypeOK
<1>6. UNCHANGED editVars => EdOK'
  BY DEF editVars, EdOK
<1> QED
  BY <1>3, <1>4, <1>5, <1>6

LEMMA InitSafe == Init => IInv
<1> SUFFICES ASSUME Init PROVE IInv
  OBVIOUS
<1> USE DEF Init
<1>1. RowsOK
  BY ShopConstants DEF RowsOK, RowsGuarded, Nothing
<1>2. supplied \in [Sku -> Int]
  <2>1. ASSUME NEW s \in Sku PROVE HeldAtStart(s) \in Int
    <3> DEFINE n == [o \in DOMAIN Seed |-> Seed[o].lines[s]]
               U == UNION {{o} \X (1 .. n[o]) : o \in DOMAIN Seed}
    <3>1. IsFiniteSet(DOMAIN Seed)
      BY TablesConstants, ShopConstants, FS_Subset
    <3>2. \A o \in DOMAIN Seed : n[o] \in Nat
      BY ShopConstants, TablesConstants DEF OrderRow, Quantities
    <3>3. HeldAtStart(s) = Cardinality(U)
      BY DEF HeldAtStart
    <3>4. IsFiniteSet(U)
      <4> HIDE DEF n
      <4> QED
        BY <3>1, <3>2, P!UnitsFinite, ConstantsSeen, SameSets
    <3> HIDE DEF U
    <3> QED
      BY <3>3, <3>4, FS_CardinalityType
  <2> QED
    BY <2>1, ShopConstants
<1>3. OtherTablesOK
  BY <1>2, ShopConstants DEF OtherTablesOK
<1>4. LocksOK /\ co \in [CheckoutTx -> CoStates] /\ EdOK
  BY DEF CheckoutInit, LocksOK, CoStates, EdOK
<1>5. RecordsOK /\ SweepOK /\ mv \in [MoveTx -> MvStates]
  BY DEF OrderInit, RecordsOK, SweepOK, MvStates
<1>6. StockTypeOK
  BY DEF StockInit, StockTypeOK
<1> QED
  BY <1>1, <1>3, <1>4, <1>5, <1>6, IInvIs, ShopConstants

LEMMA RollbackSafe ==
    ASSUME IInv, NEW t \in Tx, Rollback(t), faults' \in 0 .. MaxFaults
    PROVE  IInv'
<1> USE IInvIs, IInvAfter
<1>1. CASE t \in CheckoutTx /\ Throw(t) /\ UNCHANGED <<editVars, orderVars, stockVars>>
  <2>1. CheckoutInv' /\ orders' = orders
    BY <1>1, ThrowSafe DEF CheckoutInv
  <2> QED
    BY <1>1, <2>1, OthersKept DEF CheckoutInv
<1>2. CASE t \in MoveTx /\ ThrowMove(t) /\ UNCHANGED <<checkoutVars, editVars, stockVars>>
  <2>1. MoveInv' /\ orders' = orders
    BY <1>2, ThrowMoveSafe DEF MoveInv
  <2> QED
    BY <1>2, <2>1, OthersKept DEF MoveInv
<1>3. CASE t \in StockTx /\ ThrowAdjust(t) /\ UNCHANGED <<checkoutVars, editVars, orderVars>>
  <2>1. RowsOK'
    BY <1>3, RollbackRowsSafe DEF ThrowAdjust
  <2>2. OtherTablesOK' /\ orders' = orders
    BY <1>3 DEF ThrowAdjust, OtherTablesOK
  <2>3. StockTypeOK'
    BY <1>3 DEF ThrowAdjust, StockTypeOK
  <2> QED
    BY <1>3, <2>1, <2>2, <2>3, OthersKept
<1>4. CASE t \in CartTx /\ ThrowEdit(t) /\ UNCHANGED <<checkoutVars, orderVars, stockVars>>
  <2>1. OtherTablesOK' /\ EdOK' /\ UNCHANGED skuVars /\ orders' = orders
    BY <1>4, EditSafe
  <2> QED
    BY <1>4, <2>1, RowsUntouched, OthersKept
<1> QED
  BY <1>1, <1>2, <1>3, <1>4 DEF Rollback

LEMMA CrashSafe ==
    ASSUME IInv, Crash
    PROVE  IInv'
<1> USE IInvIs, IInvAfter DEF Crash
<1>1. Nothing \in [Sku -> Int] /\ \A s \in Sku : Nothing[s] = 0
  BY DEF Nothing
<1>2. RowsOK'
  BY <1>1 DEF RowsOK, RowsGuarded
<1>3. OtherTablesOK' /\ orders' = orders
  BY DEF OtherTablesOK
<1>4. LocksOK' /\ (co \in [CheckoutTx -> CoStates])' /\ EdOK'
  BY DEF LocksOK, CoStates, EdOK
<1>5. (mv \in [MoveTx -> MvStates])'
  BY DEF MvStates
<1>6. RecordsOK' /\ SweepOK'
  BY DEF RecordsOK, SweepOK
<1>7. StockTypeOK'
  BY DEF StockTypeOK
<1>8. faults' \in 0 .. MaxFaults
  BY ShopConstants
<1> QED
  BY <1>2, <1>3, <1>4, <1>5, <1>6, <1>7, <1>8

LEMMA NextSafe == IInv /\ [Next]_vars => IInv'
<1> SUFFICES ASSUME IInv, [Next]_vars PROVE IInv'
  OBVIOUS
<1> USE IInvIs, IInvAfter
<1>1. ASSUME NEW t \in CheckoutTx, CheckoutNext(t) PROVE IInv'
  <2>1. CheckoutInv' /\ DOMAIN orders \subseteq DOMAIN orders'
    BY <1>1, CheckoutSafe DEF CheckoutNext, CheckoutInv
  <2> QED
    BY <1>1, <2>1, OthersKept DEF CheckoutNext, CheckoutInv
<1>2. ASSUME NEW t \in CartTx, EditNext(t) PROVE IInv'
  <2>1. OtherTablesOK' /\ EdOK' /\ UNCHANGED skuVars /\ orders' = orders
    BY <1>2, EditSafe DEF EditNext
  <2> QED
    BY <1>2, <2>1, RowsUntouched, OthersKept DEF EditNext
<1>3. ASSUME NEW t \in MoveTx, MoveNext(t) \/ \E j \in Jobs : SweepTurn(j, t) PROVE IInv'
  <2>1. MoveInv' /\ DOMAIN orders' = DOMAIN orders
    BY <1>3, CallersSafe, MoveSafe DEF MoveNext, Callers, SweepTurn, MoveInv
  <2> QED
    BY <1>3, <2>1, OthersKept DEF MoveNext, SweepTurn, MoveInv
<1>4. ASSUME NEW j \in Jobs, JobNext(j) PROVE IInv'
  <2>1. MoveInv' /\ orders' = orders
    BY <1>4, JobsSafe DEF JobNext, MoveInv
  <2> QED
    BY <1>4, <2>1, OthersKept DEF JobNext, MoveInv
<1>5. ASSUME NEW t \in StockTx, AdjustNext(t) PROVE IInv'
  <2>1. AdjustInv' /\ UNCHANGED <<orders, usage, cart, timers>>
    BY <1>5, AdjustSafe DEF AdjustNext, AdjustInv, OtherTablesOK
  <2>2. OtherTablesOK'
    BY <2>1 DEF AdjustInv, OtherTablesOK
  <2> QED
    BY <1>5, <2>1, <2>2, OthersKept DEF AdjustNext, AdjustInv
<1>6. ASSUME NEW t \in Tx, Lose(t) \/ BreakDeadlock(t) PROVE IInv'
  <2>1. faults' \in 0 .. MaxFaults
    BY <1>6, ShopConstants DEF Lose, BreakDeadlock
  <2> QED
    BY <1>6, <2>1, RollbackSafe DEF Lose, BreakDeadlock
<1>7. CASE Crash
  BY <1>7, CrashSafe
<1>8. CASE UNCHANGED vars
  <2>1. RowsOK' /\ OtherTablesOK' /\ orders' = orders /\ faults' = faults
    BY <1>8, RowsUntouched DEF vars, tableVars, skuVars, OtherTablesOK
  <2> QED
    BY <1>8, <2>1, OthersKept DEF vars
<1> QED
  BY <1>1, <1>2, <1>3, <1>4, <1>5, <1>6, <1>7, <1>8 DEF Next

(* The inductive invariant: types, and row locks that guard what will be       *)
(* committed, hold together after every statement of every transaction.        *)
THEOREM Inductive == Spec => []IInv
<1> QED
  BY InitSafe, NextSafe, PTL DEF Spec

(* Every table, lock and local variable keeps its type, whatever the           *)
(* interleaving and whatever crashes.                                          *)
THEOREM ShopTypeCorrect == Spec => []TypeOK
<1>1. IInv => TypeOK
  BY DEF IInv
<1> QED
  BY <1>1, Inductive, PTL

(* No interleaving of checkouts, restocks and adjustments, and no rollback or  *)
(* crash, drives a stock below zero: the conditional UPDATE needs no           *)
(* SELECT FOR UPDATE (ADR 0003).                                               *)
THEOREM ShopNeverOversells == Spec => []RowsGuarded
<1>1. IInv => RowsGuarded
  BY DEF IInv
<1> QED
  BY <1>1, Inductive, PTL

--------------------------------------------------------------------------------
(* A step is one of the services': of a checkout or of a cart request, of a    *)
(* mover or of a job, of an adjustment; or the crash; or nothing.              *)
LEMMA Steps ==
    ASSUME [Next]_vars
    PROVE  \/ \E t \in CheckoutTx :
                 /\ Begin(t) \/ CheckoutStep(t) \/ Throw(t)
                 /\ UNCHANGED <<editVars, orderVars, stockVars>>
           \/ \E t \in CartTx :
                 /\ BeginEdit(t) \/ EditStep(t) \/ ThrowEdit(t)
                 /\ UNCHANGED <<checkoutVars, orderVars, stockVars>>
           \/ \E t \in MoveTx :
                 /\ Callers(t) \/ (\E j \in Jobs : SweepNext(j, t)) \/ MoveStep(t) \/ ThrowMove(t)
                 /\ UNCHANGED <<checkoutVars, editVars, stockVars>>
           \/ \E j \in Jobs : (Ripen(j) \/ Scan(j)) /\ UNCHANGED <<checkoutVars, editVars, stockVars>>
           \/ \E t \in StockTx :
                 /\ BeginAdjust(t) \/ AdjustStep(t) \/ ThrowAdjust(t)
                 /\ UNCHANGED <<checkoutVars, editVars, orderVars>>
           \/ Crash
           \/ UNCHANGED vars
<1>1. ASSUME NEW t \in Tx, Lose(t) \/ BreakDeadlock(t)
      PROVE  \/ t \in CheckoutTx /\ Throw(t) /\ UNCHANGED <<editVars, orderVars, stockVars>>
             \/ t \in CartTx /\ ThrowEdit(t) /\ UNCHANGED <<checkoutVars, orderVars, stockVars>>
             \/ t \in MoveTx /\ ThrowMove(t) /\ UNCHANGED <<checkoutVars, editVars, stockVars>>
             \/ t \in StockTx /\ ThrowAdjust(t) /\ UNCHANGED <<checkoutVars, editVars, orderVars>>
  BY <1>1 DEF Lose, BreakDeadlock, Rollback
<1> QED
  BY <1>1 DEF Next, CheckoutNext, EditNext, MoveNext, SweepTurn, JobNext, AdjustNext

(* A checkout goes to its next statement: nothing else of it changes, nor of   *)
(* any other.                                                                  *)
LEMMA GotoIs ==
    ASSUME co \in [CheckoutTx -> CoStates], NEW t \in CheckoutTx, NEW pc,
           co[t] \in Couponing \cup Writing, Goto(t, pc)
    PROVE  /\ co'[t].pc = pc
           /\ co'[t].user = co[t].user /\ co'[t].cart = co[t].cart
           /\ co'[t].code = co[t].code /\ co'[t].todo = co[t].todo
           /\ \A u \in CheckoutTx : u # t => co'[u] = co[u]
  BY DEF Goto, Couponing, Writing

(* The DELETE of the cart, and its cascade from line to line.                  *)
LEMMA DeleteCartIs ==
    ASSUME IInv, NEW t \in CheckoutTx, DeleteCart(t), ~ Throw(t)
    PROVE  /\ co[t] \in Writing /\ co[t].pc = "cart" /\ UNCHANGED <<tableVars, couponLock>>
           /\ cartLock[co[t].user] = NoTx /\ Sharers(co[t].user) = {} /\ ~ CartGone(t)
           /\ cartLock' = [cartLock EXCEPT ![co[t].user] = t]
           /\ co'[t].pc \in {"cascade", "commit"}
           /\ co'[t].user = co[t].user /\ co'[t].cart = co[t].cart /\ co'[t].code = co[t].code
           /\ co'[t].todo \subseteq Wanted(cart[co[t].user].lines)
           /\ co'[t].pc = "cascade" => co'[t].next \in co'[t].todo
           /\ co'[t].pc = "commit" => co'[t].todo = {}
           /\ \A u \in CheckoutTx : u # t => co'[u] = co[u]
<1>1. co \in [CheckoutTx -> CoStates] /\ co[t] \in Writing
  BY IInvIs, CoShape DEF DeleteCart
<1> DEFINE lines == Wanted(cart[co[t].user].lines)
<1>2. CASE Goto(t, "commit")
  BY <1>1, <1>2, GotoIs DEF DeleteCart, Writing
<1>3. CASE \E s \in lines :
              co' = [co EXCEPT ![t].pc = "cascade", ![t].todo = lines, ![t].next = s]
  <2>1. PICK s \in lines : co' = [co EXCEPT ![t].pc = "cascade", ![t].todo = lines, ![t].next = s]
    BY <1>3
  <2> HIDE DEF lines
  <2>2. /\ co'[t].pc = "cascade" /\ co'[t].user = co[t].user /\ co'[t].cart = co[t].cart
        /\ co'[t].code = co[t].code /\ co'[t].todo = lines /\ co'[t].next = s
        /\ \A u \in CheckoutTx : u # t => co'[u] = co[u]
    BY <1>1, <2>1 DEF Writing
  <2> QED
    BY <1>1, <2>2 DEF DeleteCart, lines
<1> QED
  BY <1>2, <1>3 DEF DeleteCart

LEMMA CascadeIs ==
    ASSUME IInv, NEW t \in CheckoutTx, Cascade(t)
    PROVE  /\ co[t] \in Cascading /\ UNCHANGED <<tableVars, couponLock, cartLock>>
           /\ co'[t].pc \in {"cascade", "commit"}
           /\ co'[t].user = co[t].user /\ co'[t].cart = co[t].cart /\ co'[t].code = co[t].code
           /\ co'[t].todo = co[t].todo \ {co[t].next}
           /\ co'[t].pc = "cascade" => co'[t].next \in co'[t].todo
           /\ co'[t].pc = "commit" => co'[t].todo = {}
           /\ \A u \in CheckoutTx : u # t => co'[u] = co[u]
<1>1. co[t] \in Cascading /\ co \in [CheckoutTx -> CoStates]
  BY IInvIs, CoShape DEF Cascade
<1> DEFINE left == co[t].todo \ {co[t].next}
<1>2. CASE left = {} /\ co' = [co EXCEPT ![t].pc = "commit", ![t].todo = {}, ![t].next = NoSku]
  BY <1>1, <1>2 DEF Cascading, Cascade
<1>3. CASE \E n \in left : co' = [co EXCEPT ![t].todo = left, ![t].next = n]
  BY <1>1, <1>3 DEF Cascading, Cascade
<1> QED
  BY <1>2, <1>3 DEF Cascade

(* What a checkout that takes stock looks like afterwards.                     *)
LEMMA TakeStockIs ==
    ASSUME IInv, NEW t \in CheckoutTx, TakeStock(t)
    PROVE  /\ co[t] \in Taking
           /\ co'[t].pc \in {"stock", "validate", "write"}
           /\ co'[t].pc = "write" => co[t].code = NoCoupon
           /\ co'[t].cart = co[t].cart /\ co'[t].code = co[t].code
           /\ co'[t].todo = co[t].todo \ {co[t].next}
           /\ co'[t].pc = "stock" => co'[t].next \in co'[t].todo
           /\ \A u \in CheckoutTx : u # t => co'[u] = co[u]
<1>1. co[t] \in Taking
  BY IInvIs, CoShape DEF TakeStock
<1>2. co \in [CheckoutTx -> CoStates]
  BY IInvIs
<1> DEFINE left == co[t].todo \ {co[t].next}
           after == IF co[t].code = NoCoupon THEN "write" ELSE "validate"
<1>3. CASE left = {} /\ co' = [co EXCEPT ![t].pc = after, ![t].todo = {}, ![t].next = NoSku]
  BY <1>1, <1>2, <1>3 DEF Taking
<1>4. CASE \E n \in left : co' = [co EXCEPT ![t].todo = left, ![t].next = n]
  BY <1>1, <1>2, <1>4 DEF Taking
<1> QED
  BY <1>3, <1>4, <1>1 DEF TakeStock

--------------------------------------------------------------------------------
(* One order for a cart. Orders come from carts that are gone, and the lock of *)
(* the DELETE keeps the cart that is being ordered as it was read.             *)

HoldsCart ==
    \A t \in CheckoutTx : co[t].pc \in {"cascade", "commit"} =>
        cartLock[co[t].user] = t /\ cart[co[t].user].no = co[t].cart.no

CartsMoveOn == \A o \in DOMAIN orders : orders[o].cart < cart[orders[o].user].no

CartInv == HoldsCart /\ CartsMoveOn /\ OneOrderPerCart

(* The order of a cart, its user and its number, is what CartInv looks at.     *)
LEMMA CartKept ==
    ASSUME IInv, CartInv,
           UNCHANGED <<co, cartLock, cart>>, DOMAIN orders' = DOMAIN orders,
           \A o \in DOMAIN orders :
               orders'[o].user = orders[o].user /\ orders'[o].cart = orders[o].cart
    PROVE  CartInv'
<1> USE DEF CartInv
<1>1. HoldsCart'
  BY DEF HoldsCart
<1>2. CartsMoveOn' /\ OneOrderPerCart'
  BY DEF CartsMoveOn, OneOrderPerCart
<1> QED
  BY <1>1, <1>2

(* A checkout that has not deleted its cart claims nothing.                    *)
LEMMA CartNotClaimed ==
    ASSUME IInv, CartInv, NEW t \in CheckoutTx, co'[t].pc \notin {"cascade", "commit"},
           \A u \in CheckoutTx : u # t => co'[u] = co[u],
           cartLock' = cartLock \/ FreeCarts(t),
           UNCHANGED <<cart, orders>>
    PROVE  CartInv'
<1> USE DEF CartInv
<1>1. HoldsCart'
  <2> SUFFICES ASSUME NEW u \in CheckoutTx, co'[u].pc \in {"cascade", "commit"}
               PROVE  cartLock'[co[u].user] = u /\ cart[co[u].user].no = co[u].cart.no /\ co'[u] = co[u]
    BY DEF HoldsCart
  <2>1. u # t /\ co'[u] = co[u] /\ co[u].pc \in {"cascade", "commit"}
    OBVIOUS
  <2>2. cartLock[co[u].user] = u /\ cart[co[u].user].no = co[u].cart.no
    BY <2>1 DEF HoldsCart
  <2>3. co[u].user \in User
    BY <2>1, CoShape, IInvIs DEF Writing, Cascading
  <2> QED
    BY <2>1, <2>2, <2>3 DEF FreeCarts
<1>2. CartsMoveOn' /\ OneOrderPerCart'
  BY DEF CartsMoveOn, OneOrderPerCart
<1> QED
  BY <1>1, <1>2

(* DELETE of the cart: whoever deletes it finds the number it has read.        *)
LEMMA CartOfDelete ==
    ASSUME IInv, CartInv, NEW t \in CheckoutTx, DeleteCart(t), ~ Throw(t)
    PROVE  CartInv'
<1> USE DEF CartInv
<1> DEFINE u == co[t].user
<1>1. /\ cartLock[u] = NoTx /\ cart[u].no = co[t].cart.no
      /\ cartLock' = [cartLock EXCEPT ![u] = t]
      /\ UNCHANGED tableVars
  BY DeleteCartIs DEF CartGone
<1>2. co[t] \in Writing
  BY DeleteCartIs
<1>3. /\ co'[t].user = u /\ co'[t].cart = co[t].cart
      /\ \A v \in CheckoutTx : v # t => co'[v] = co[v]
  BY DeleteCartIs
<1>4. u \in User /\ cartLock' \in [User -> CheckoutTx \cup {NoTx}] /\ cartLock'[u] = t
  BY <1>1, <1>2, IInvIs DEF Writing, LocksOK
<1>5. UNCHANGED <<cart, orders>>
  BY <1>1 DEF tableVars
<1>6. HoldsCart'
  <2> SUFFICES ASSUME NEW v \in CheckoutTx, co'[v].pc \in {"cascade", "commit"}
               PROVE  cartLock'[co'[v].user] = v /\ cart'[co'[v].user].no = co'[v].cart.no
    BY DEF HoldsCart
  <2>1. CASE v = t
    BY <1>1, <1>3, <1>4, <1>5, <2>1
  <2>2. CASE v # t
    <3>1. co'[v] = co[v] /\ cartLock[co[v].user] = v /\ cart[co[v].user].no = co[v].cart.no
      BY <1>3, <2>2 DEF HoldsCart
    <3>2. v # NoTx
      BY TablesConstants, CheckoutConstants
    <3> QED
      BY <1>1, <1>5, <3>1, <3>2
  <2> QED
    BY <2>1, <2>2
<1>7. CartsMoveOn' /\ OneOrderPerCart'
  BY <1>5 DEF CartsMoveOn, OneOrderPerCart
<1> QED
  BY <1>6, <1>7

LEMMA CartOfCascade ==
    ASSUME IInv, CartInv, NEW t \in CheckoutTx, Cascade(t)
    PROVE  CartInv'
<1> USE DEF CartInv
<1>1. UNCHANGED <<cart, orders, cartLock>> /\ co[t].pc = "cascade"
  BY DEF Cascade, tableVars
<1>2. HoldsCart'
  <2> SUFFICES ASSUME NEW v \in CheckoutTx, co'[v].pc \in {"cascade", "commit"}
               PROVE  cartLock[co'[v].user] = v /\ cart[co'[v].user].no = co'[v].cart.no
    BY <1>1 DEF HoldsCart
  <2>1. co'[v].user = co[v].user /\ co'[v].cart = co[v].cart /\ co[v].pc \in {"cascade", "commit"}
    BY <1>1, CascadeIs
  <2> QED
    BY <2>1 DEF HoldsCart
<1>3. CartsMoveOn' /\ OneOrderPerCart'
  BY <1>1 DEF CartsMoveOn, OneOrderPerCart
<1> QED
  BY <1>2, <1>3

(* COMMIT: the new order's cart is the user's current one, which no order has  *)
(* yet; the user's next cart has the next number.                              *)
LEMMA CartOfCommit ==
    ASSUME IInv, CartInv, NEW t \in CheckoutTx, CommitCheckout(t)
    PROVE  CartInv'
<1> USE DEF CartInv
<1> DEFINE c == co[t]
           o == FreshOrder
           new == [status |-> "PENDING", lines |-> c.cart.lines, user |-> c.user,
                   cart |-> c.cart.no, mode |-> c.mode]
<1>1. /\ c \in Writing /\ c.pc = "commit"
      /\ cartLock[c.user] = t /\ cart[c.user].no = c.cart.no
  BY CoShape, IInvIs DEF CommitCheckout, HoldsCart
<1>2. /\ o \notin DOMAIN orders
      /\ orders' = [x \in DOMAIN orders \cup {o} |->
                      IF x \in DOMAIN orders THEN orders[x] ELSE new]
  BY DEF CommitCheckout
<1>3. /\ DOMAIN orders' = DOMAIN orders \cup {o}
      /\ \A x \in DOMAIN orders : orders'[x] = orders[x]
      /\ orders'[o].user = c.user /\ orders'[o].cart = c.cart.no
  <2> HIDE DEF o
  <2> QED
    BY <1>2
<1>4. c.user \in User /\ c.cart.no \in Nat /\ cart \in [User -> Carts]
  BY <1>1, IInvIs DEF Writing, Carts, OtherTablesOK
<1>5. /\ cart'[c.user].no = c.cart.no + 1
      /\ \A u \in User : u # c.user => cart'[u] = cart[u]
  BY <1>1, <1>4 DEF CommitCheckout
<1>6. /\ \A u \in CheckoutTx : u # t => co'[u] = co[u]
      /\ co'[t].pc = "respond"
      /\ FreeCarts(t)
  BY IInvIs DEF CommitCheckout
<1>7. HoldsCart'
  <2> SUFFICES ASSUME NEW v \in CheckoutTx, co'[v].pc \in {"cascade", "commit"}
               PROVE  cartLock'[co'[v].user] = v /\ cart'[co'[v].user].no = co'[v].cart.no
    BY DEF HoldsCart
  <2>1. v # t /\ co'[v] = co[v]
    BY <1>6
  <2>2. cartLock[co[v].user] = v /\ cart[co[v].user].no = co[v].cart.no
    BY <2>1 DEF HoldsCart
  <2>3. co[v].user \in User /\ co[v].user # c.user
    BY <1>1, <2>1, <2>2, CoShape, IInvIs DEF Writing, Cascading
  <2> QED
    BY <1>5, <1>6, <2>1, <2>2, <2>3 DEF FreeCarts
<1>8. \A x \in DOMAIN orders : orders[x].user \in User /\ orders[x].cart \in Nat
  BY IInvIs DEF OtherTablesOK, OrderRow
<1>9. \A u \in User : cart[u].no \in Nat
  BY <1>4 DEF Carts
<1>10. CartsMoveOn'
  <2> SUFFICES ASSUME NEW x \in DOMAIN orders'
               PROVE  orders'[x].cart < cart'[orders'[x].user].no
    BY DEF CartsMoveOn
  <2>1. CASE x = o
    BY <1>3, <1>4, <1>5, <2>1
  <2>2. CASE x # o
    <3>1. x \in DOMAIN orders /\ orders'[x] = orders[x] /\ orders[x].cart < cart[orders[x].user].no
      BY <1>3, <2>2 DEF CartsMoveOn
    <3> QED
      BY <1>1, <1>4, <1>5, <1>8, <1>9, <3>1
  <2> QED
    BY <2>1, <2>2
<1>11. OneOrderPerCart'
  <2> SUFFICES ASSUME NEW x \in DOMAIN orders', NEW y \in DOMAIN orders',
                      orders'[x].user = orders'[y].user, orders'[x].cart = orders'[y].cart
               PROVE  x = y
    BY DEF OneOrderPerCart
  <2>1. ASSUME NEW z \in DOMAIN orders
        PROVE  ~ (orders[z].user = c.user /\ orders[z].cart = c.cart.no)
    <3>1. orders[z].cart < cart[orders[z].user].no
      BY DEF CartsMoveOn
    <3> QED
      BY <1>1, <1>4, <1>8, <3>1
  <2>2. CASE x = o \/ y = o
    BY <1>3, <2>1, <2>2
  <2>3. CASE x # o /\ y # o
    BY <1>3, <2>3 DEF OneOrderPerCart
  <2> QED
    BY <2>2, <2>3
<1> QED
  BY <1>7, <1>10, <1>11

LEMMA CartOfCheckout ==
    ASSUME IInv, CartInv, NEW t \in CheckoutTx, Begin(t) \/ CheckoutStep(t) \/ Throw(t)
    PROVE  CartInv'
<1>0. co \in [CheckoutTx -> CoStates]
  BY IInvIs
<1>1. CASE Throw(t) \/ Respond(t)
  BY <1>0, <1>1, CartNotClaimed DEF Throw, Respond, Idle
<1>2. CASE Begin(t)
  BY <1>0, <1>2, CartNotClaimed DEF Begin, tableVars
<1>3. CASE TakeStock(t)
  <2>1. UNCHANGED <<cartLock, cart, orders>>
    BY <1>3 DEF TakeStock
  <2> QED
    BY <1>3, <2>1, TakeStockIs, CartNotClaimed
<1>4. CASE (ValidateCoupon(t) \/ LockCoupon(t) \/ CountUsages(t) \/ WriteOrder(t)) /\ ~ Throw(t)
  <2>1. PICK pc \in {"lock", "count", "write", "cart"} :
           Goto(t, pc) /\ UNCHANGED <<tableVars, cartLock>> /\ co[t] \in Couponing \cup Writing
    BY <1>0, <1>4, CoShape DEF ValidateCoupon, LockCoupon, CountUsages, WriteOrder
  <2>2. co'[t].pc \notin {"cascade", "commit"} /\ \A u \in CheckoutTx : u # t => co'[u] = co[u]
    BY <1>0, <2>1, GotoIs
  <2> QED
    BY <2>1, <2>2, CartNotClaimed DEF tableVars
<1>5. CASE DeleteCart(t) /\ ~ Throw(t)
  BY <1>5, CartOfDelete
<1>6. CASE CommitCheckout(t)
  BY <1>6, CartOfCommit
<1>7. CASE Cascade(t)
  BY <1>7, CartOfCascade
<1> QED
  BY <1>1, <1>2, <1>3, <1>4, <1>5, <1>6, <1>7 DEF CheckoutStep, RejectCoupon, OutOfStock

(* The cart requests keep the number of the cart.                              *)
LEMMA CartOfEdit ==
    ASSUME IInv, CartInv, NEW e \in CartTx, BeginEdit(e) \/ EditStep(e) \/ ThrowEdit(e),
           UNCHANGED checkoutVars
    PROVE  CartInv'
<1> USE DEF CartInv
<1>1. UNCHANGED <<co, cartLock, orders>>
  BY IInvIs, EditSafe DEF checkoutVars
<1>2. \A v \in User : cart'[v].no = cart[v].no
  BY IInvIs, EditSafe
<1>3. HoldsCart'
  <2>1. \A t \in CheckoutTx : co[t].pc \in {"cascade", "commit"} => co[t].user \in User
    BY CoShape, IInvIs DEF Writing, Cascading
  <2> QED
    BY <1>1, <1>2, <2>1 DEF HoldsCart
<1>4. CartsMoveOn' /\ OneOrderPerCart'
  <2>1. \A o \in DOMAIN orders : orders[o].user \in User
    BY IInvIs DEF OtherTablesOK, OrderRow
  <2> QED
    BY <1>1, <1>2, <2>1 DEF CartsMoveOn, OneOrderPerCart
<1> QED
  BY <1>3, <1>4

(* transitionOrder changes the status of an order and nothing else of it.      *)
LEMMA MoveKeepsOrders ==
    ASSUME IInv, NEW t \in MoveTx,
           Callers(t) \/ (\E j \in Jobs : SweepNext(j, t)) \/ MoveStep(t) \/ ThrowMove(t)
    PROVE  /\ DOMAIN orders' = DOMAIN orders
           /\ \A o \in DOMAIN orders :
                 /\ orders'[o].user = orders[o].user /\ orders'[o].cart = orders[o].cart
                 /\ orders'[o].lines = orders[o].lines
           /\ UNCHANGED <<usage, cart, supplied>>
<1>1. CASE CommitMove(t)
  <2>1. mv[t].order \in DOMAIN orders /\ orders \in [DOMAIN orders -> OrderRow]
    BY <1>1, MvShape, IInvIs DEF CommitMove, Finishing, OtherTablesOK
  <2>2. orders' = [orders EXCEPT ![mv[t].order] = [orders[mv[t].order] EXCEPT !.status = mv[t].to]]
    BY <1>1 DEF CommitMove
  <2>3. UNCHANGED <<usage, cart, supplied>>
    BY <1>1 DEF CommitMove
  <2> QED
    BY <2>1, <2>2, <2>3 DEF OrderRow
<1>2. CASE ~ CommitMove(t)
  BY <1>2 DEF Callers, FireTimer, Webhook, Ship, Refund, SweepNext, ThrowMove, MoveStep, ReadOutcome,
              ReadBefore, ReadOrder, Restock, UpdateStatus, tableVars
<1> QED
  BY <1>1, <1>2

LEMMA CartStep ==
    ASSUME IInv, CartInv, [Next]_vars
    PROVE  CartInv'
<1>1. ASSUME NEW t \in CheckoutTx, Begin(t) \/ CheckoutStep(t) \/ Throw(t) PROVE CartInv'
  BY <1>1, CartOfCheckout
<1>2. ASSUME NEW t \in CartTx, BeginEdit(t) \/ EditStep(t) \/ ThrowEdit(t), UNCHANGED checkoutVars
      PROVE  CartInv'
  BY <1>2, CartOfEdit
<1>3. ASSUME NEW t \in MoveTx, UNCHANGED checkoutVars,
             Callers(t) \/ (\E j \in Jobs : SweepNext(j, t)) \/ MoveStep(t) \/ ThrowMove(t)
      PROVE  CartInv'
  BY <1>3, MoveKeepsOrders, CartKept DEF checkoutVars
<1>4. ASSUME NEW j \in Jobs, Ripen(j) \/ Scan(j), UNCHANGED checkoutVars PROVE CartInv'
  BY <1>4, CartKept DEF Ripen, Scan, tableVars, checkoutVars
<1>5. ASSUME NEW t \in StockTx, BeginAdjust(t) \/ AdjustStep(t) \/ ThrowAdjust(t), UNCHANGED checkoutVars
      PROVE  CartInv'
  BY <1>5, CartKept DEF BeginAdjust, AdjustStep, AdjustStock, CommitAdjust, ThrowAdjust, tableVars, checkoutVars
<1>6. CASE Crash
  BY <1>6 DEF Crash, CartInv, HoldsCart, CartsMoveOn, OneOrderPerCart, Idle
<1>7. CASE UNCHANGED vars
  BY <1>7, CartKept DEF vars, tableVars, checkoutVars
<1> QED
  BY <1>1, <1>2, <1>3, <1>4, <1>5, <1>6, <1>7, Steps

(* However often "place order" is sent, by however many tabs at once and with  *)
(* whatever rolled back or lost, a cart becomes at most one order: the DELETE  *)
(* of the cart admits one transaction, and the next one finds another cart.    *)
THEOREM CartOrderedOnce == Spec => []OneOrderPerCart
<1>1. Init => CartInv
  <2> SUFFICES ASSUME Init PROVE CartInv
    OBVIOUS
  <2>1. HoldsCart
    BY DEF Init, CheckoutInit, HoldsCart, Idle
  <2>2. CartsMoveOn /\ OneOrderPerCart
    BY ShopConstants DEF Init, CartsMoveOn, OneOrderPerCart
  <2> QED
    BY <2>1, <2>2 DEF CartInv
<1>2. IInv /\ CartInv /\ [Next]_vars => CartInv'
  BY CartStep
<1>3. CartInv => OneOrderPerCart
  BY DEF CartInv
<1> QED
  BY <1>1, <1>2, <1>3, Inductive, PTL DEF Spec

--------------------------------------------------------------------------------
(* No coupon beyond its limit. From the count under the advisory lock to the   *)
(* commit nobody else can add a usage, so the room that was counted is there.  *)

HoldsCoupon ==
    \A t \in CheckoutTx :
        (co[t].pc \in {"count", "write", "cart", "cascade", "commit"} /\ co[t].code # NoCoupon)
            => couponLock[co[t].code] = t

HasRoom ==
    \A t \in CheckoutTx :
        (co[t].pc \in {"write", "cart", "cascade", "commit"} /\ co[t].code \in DOMAIN Limit)
            => Cardinality(UsesOf(co[t].code)) < Limit[co[t].code]

CouponInv == IsFiniteSet(usage) /\ HoldsCoupon /\ HasRoom /\ CouponWithinLimit

LEMMA CouponKept ==
    ASSUME CouponInv, UNCHANGED <<co, couponLock, usage>>
    PROVE  CouponInv'
  BY DEF CouponInv, HoldsCoupon, HasRoom, CouponWithinLimit, UsesOf

LEMMA UsesCounted ==
    ASSUME IsFiniteSet(usage), NEW c
    PROVE  IsFiniteSet(UsesOf(c)) /\ Cardinality(UsesOf(c)) \in Nat
  BY FS_Subset, FS_CardinalityType DEF UsesOf

(* A checkout without the lock, or without a coupon, claims no room.           *)
LEMMA CouponNotClaimed ==
    ASSUME IInv, CouponInv, NEW t \in CheckoutTx,
           \/ co'[t].pc \in {"idle", "respond", "stock", "validate", "lock"}
           \/ co'[t].pc = "write" /\ co'[t].code = NoCoupon,
           \A u \in CheckoutTx : u # t => co'[u] = co[u],
           couponLock' = couponLock \/ FreeCoupons(t),
           UNCHANGED usage
    PROVE  CouponInv'
<1> USE DEF CouponInv
<1>0. NoCoupon \notin DOMAIN Limit
  BY TablesConstants, CheckoutConstants
<1>1. HoldsCoupon'
  <2> SUFFICES ASSUME NEW u \in CheckoutTx, co'[u].pc \in {"count", "write", "cart", "cascade", "commit"},
                      co'[u].code # NoCoupon
               PROVE  couponLock'[co'[u].code] = u
    BY DEF HoldsCoupon
  <2>1. u # t /\ co'[u] = co[u]
    OBVIOUS
  <2>2. couponLock[co[u].code] = u /\ co[u].code \in Coupon
    BY <2>1, CoShape, IInvIs DEF HoldsCoupon, Couponing, Writing, Cascading
  <2> QED
    BY <2>1, <2>2 DEF FreeCoupons
<1>2. HasRoom'
  <2> SUFFICES ASSUME NEW u \in CheckoutTx, co'[u].pc \in {"write", "cart", "cascade", "commit"},
                      co'[u].code \in DOMAIN Limit
               PROVE  (Cardinality(UsesOf(co[u].code)) < Limit[co[u].code])' 
    BY DEF HasRoom
  <2>1. u # t /\ co'[u] = co[u]
    BY <1>0
  <2> QED
    BY <2>1 DEF HasRoom, UsesOf
<1>3. CouponWithinLimit'
  BY DEF CouponWithinLimit, UsesOf
<1> QED
  BY <1>1, <1>2, <1>3

(* A checkout goes on with the lock and, after the count, with the room.       *)
LEMMA CouponClaimed ==
    ASSUME IInv, CouponInv, NEW t \in CheckoutTx, UNCHANGED <<couponLock, usage>>,
           co'[t].code = co[t].code, \A u \in CheckoutTx : u # t => co'[u] = co[u],
           \/ co[t].pc = "count" /\ ~ LimitReached(t) /\ co'[t].pc = "write"
           \/ /\ co[t].pc \in {"write", "cart", "cascade"}
              /\ co'[t].pc \in {"cart", "cascade", "commit"}
    PROVE  CouponInv'
<1> USE DEF CouponInv
<1>3. HoldsCoupon'
  BY DEF HoldsCoupon
<1>4. HasRoom'
  <2> SUFFICES ASSUME NEW u \in CheckoutTx, co'[u].pc \in {"write", "cart", "cascade", "commit"},
                      co'[u].code \in DOMAIN Limit
               PROVE  Cardinality(UsesOf(co[u].code)) < Limit[co[u].code] /\ co'[u].code = co[u].code
    BY DEF HasRoom, UsesOf
  <2>1. CASE u # t \/ co[t].pc # "count"
    BY <2>1 DEF HasRoom
  <2>2. CASE u = t /\ co[t].pc = "count"
    <3>1. Cardinality(UsesOf(co[t].code)) \in Nat /\ Limit[co[t].code] \in Nat
      BY <2>2, UsesCounted, CheckoutConstants
    <3> QED
      BY <2>2, <3>1 DEF LimitReached, Exhausted
  <2> QED
    BY <2>1, <2>2
<1>5. CouponWithinLimit'
  BY DEF CouponWithinLimit, UsesOf
<1> QED
  BY <1>3, <1>4, <1>5

LEMMA CouponOfLock ==
    ASSUME IInv, CouponInv, NEW t \in CheckoutTx, LockCoupon(t)
    PROVE  CouponInv'
<1> USE DEF CouponInv
<1>1. /\ co[t] \in Couponing /\ co \in [CheckoutTx -> CoStates]
      /\ couponLock \in [Coupon -> CheckoutTx \cup {NoTx}]
  BY CoShape, IInvIs DEF LockCoupon, LocksOK
<1>2. /\ co'[t].pc = "count" /\ co'[t].code = co[t].code
      /\ \A u \in CheckoutTx : u # t => co'[u] = co[u]
  BY <1>1, GotoIs DEF LockCoupon
<1>3. HoldsCoupon'
  <2> SUFFICES ASSUME NEW u \in CheckoutTx, co'[u].pc \in {"count", "write", "cart", "cascade", "commit"},
                      co'[u].code # NoCoupon
               PROVE  couponLock'[co'[u].code] = u
    BY DEF HoldsCoupon
  <2>1. CASE u = t
    BY <1>1, <1>2, <2>1 DEF LockCoupon, Couponing
  <2>2. CASE u # t
    <3>1. co'[u] = co[u] /\ couponLock[co[u].code] = u /\ u # NoTx
      BY <1>2, <2>2, TablesConstants, CheckoutConstants DEF HoldsCoupon
    <3> QED
      BY <3>1 DEF LockCoupon
  <2> QED
    BY <2>1, <2>2
<1>4. HasRoom' /\ CouponWithinLimit'
  BY <1>2 DEF HasRoom, CouponWithinLimit, UsesOf, LockCoupon, tableVars
<1>5. usage' = usage
  BY DEF LockCoupon, tableVars
<1> QED
  BY <1>3, <1>4, <1>5

(* COMMIT adds one usage, of a coupon that only this transaction holds.        *)
LEMMA CouponOfCommit ==
    ASSUME IInv, CouponInv, NEW t \in CheckoutTx, CommitCheckout(t)
    PROVE  CouponInv'
<1> USE DEF CouponInv
<1> DEFINE c == co[t].code
           row == [coupon |-> c, user |-> co[t].user, order |-> FreshOrder]
<1>1. /\ \A u \in CheckoutTx : u # t => co'[u] = co[u]
      /\ co'[t].pc = "respond"
      /\ FreeCoupons(t) /\ co[t].pc = "commit"
  BY IInvIs DEF CommitCheckout
<1>2. CASE c = NoCoupon
  <2>1. usage' = usage
    BY <1>2 DEF CommitCheckout
  <2> QED
    BY <1>1, <2>1, CouponNotClaimed
<1>3. CASE c # NoCoupon
  <2> HIDE DEF row, c
  <2>1. usage' = usage \cup {row} /\ row.coupon = c
    BY <1>3 DEF CommitCheckout, row, c
  <2>2. couponLock[c] = t
    BY <1>1, <1>3 DEF HoldsCoupon, c
  <2>3. IsFiniteSet(usage')
    BY <2>1, FS_AddElement
  <2>4. ASSUME NEW d, d # c PROVE UsesOf(d)' = UsesOf(d)
    BY <2>1, <2>4 DEF UsesOf
  <2>5. ASSUME NEW u \in CheckoutTx, co'[u].pc \in {"count", "write", "cart", "cascade", "commit"},
               co'[u].code # NoCoupon
        PROVE  /\ u # t /\ co'[u] = co[u]
               /\ co[u].code \in Coupon /\ co[u].code # c
               /\ couponLock'[co[u].code] = u
    <3>1. u # t /\ co'[u] = co[u]
      BY <1>1, <2>5
    <3>2. couponLock[co[u].code] = u /\ co[u].code \in Coupon
      BY <2>5, <3>1, CoShape, IInvIs DEF HoldsCoupon, Couponing, Writing, Cascading
    <3> QED
      BY <1>1, <2>2, <3>1, <3>2 DEF FreeCoupons
  <2>6. HoldsCoupon'
    BY <2>5 DEF HoldsCoupon
  <2>7. HasRoom'
    <3> SUFFICES ASSUME NEW u \in CheckoutTx, co'[u].pc \in {"write", "cart", "cascade", "commit"},
                        co'[u].code \in DOMAIN Limit
                 PROVE  Cardinality({x \in usage' : x.coupon = co'[u].code}) < Limit[co'[u].code]
      BY DEF HasRoom, UsesOf
    <3>1. co'[u].code # NoCoupon
      BY TablesConstants, CheckoutConstants
    <3>2. co'[u] = co[u] /\ co[u].code # c
      BY <2>5, <3>1
    <3>3. Cardinality(UsesOf(co[u].code)) < Limit[co[u].code]
      BY <3>2 DEF HasRoom
    <3>4. {x \in usage' : x.coupon = co[u].code} = UsesOf(co[u].code)
      BY <2>1, <3>2 DEF UsesOf
    <3> QED
      BY <3>2, <3>3, <3>4
  <2>8. CouponWithinLimit'
    <3> SUFFICES ASSUME NEW d \in DOMAIN Limit
                 PROVE  Cardinality(UsesOf(d)') <= Limit[d]
      BY DEF CouponWithinLimit, UsesOf
    <3>1. CASE d # c
      BY <2>4, <3>1 DEF CouponWithinLimit
    <3>2. CASE d = c
      <4>1. UsesOf(d)' = UsesOf(d) \cup {row}
        BY <2>1, <3>2 DEF UsesOf
      <4>2. Cardinality(UsesOf(d)) < Limit[d]
        BY <1>1, <3>2 DEF HasRoom, c
      <4>3. IsFiniteSet(UsesOf(d)) /\ Cardinality(UsesOf(d)) \in Nat /\ Limit[d] \in Nat
        BY UsesCounted, CheckoutConstants
      <4>4. Cardinality(UsesOf(d) \cup {row}) \in {Cardinality(UsesOf(d)), Cardinality(UsesOf(d)) + 1}
        BY <4>3, FS_AddElement
      <4> QED
        BY <4>1, <4>2, <4>3, <4>4
    <3> QED
      BY <3>1, <3>2
  <2> QED
    BY <2>3, <2>6, <2>7, <2>8
<1> QED
  BY <1>2, <1>3

LEMMA CouponOfCheckout ==
    ASSUME IInv, CouponInv, NEW t \in CheckoutTx, Begin(t) \/ CheckoutStep(t) \/ Throw(t)
    PROVE  CouponInv'
<1>0. co \in [CheckoutTx -> CoStates]
  BY IInvIs
<1>1. CASE Throw(t) \/ Respond(t)
  BY <1>0, <1>1, CouponNotClaimed DEF Throw, Respond, Idle
<1>2. CASE Begin(t)
  BY <1>0, <1>2, CouponNotClaimed DEF Begin, tableVars
<1>3. CASE TakeStock(t)
  <2>1. UNCHANGED <<couponLock, usage>>
    BY <1>3 DEF TakeStock
  <2>2. /\ co'[t].pc \in {"stock", "validate", "write"}
        /\ co'[t].pc = "write" => co'[t].code = NoCoupon
        /\ \A u \in CheckoutTx : u # t => co'[u] = co[u]
    BY <1>3, TakeStockIs
  <2> QED
    BY <2>1, <2>2, CouponNotClaimed
<1>4. CASE ValidateCoupon(t)
  <2>1. Goto(t, "lock") /\ UNCHANGED <<tableVars, couponLock>> /\ co[t] \in Couponing
    BY <1>0, <1>4, CoShape DEF ValidateCoupon
  <2>2. co'[t].pc = "lock" /\ \A u \in CheckoutTx : u # t => co'[u] = co[u]
    BY <1>0, <2>1, GotoIs
  <2> QED
    BY <2>1, <2>2, CouponNotClaimed DEF tableVars
<1>5. CASE LockCoupon(t)
  BY <1>5, CouponOfLock
<1>6. CASE (CountUsages(t) \/ WriteOrder(t)) /\ ~ Throw(t)
  <2>1. PICK pc \in {"write", "cart"} :
           Goto(t, pc) /\ UNCHANGED <<couponLock, usage>> /\ co[t] \in Couponing \cup Writing
    BY <1>0, <1>6, CoShape DEF CountUsages, WriteOrder, tableVars
  <2>2. /\ co'[t].pc = pc /\ co'[t].code = co[t].code
        /\ \A u \in CheckoutTx : u # t => co'[u] = co[u]
    BY <1>0, <2>1, GotoIs
  <2>3. \/ co[t].pc = "count" /\ ~ LimitReached(t) /\ co'[t].pc = "write"
        \/ co[t].pc = "write" /\ co'[t].pc = "cart"
    <3>1. CASE CountUsages(t)
      <4>1. co[t].pc = "count" /\ ~ LimitReached(t) /\ Goto(t, "write")
        BY <1>6, <3>1 DEF CountUsages
      <4> QED
        BY <1>0, <2>1, <4>1, GotoIs
    <3>2. CASE WriteOrder(t)
      <4>1. co[t].pc = "write" /\ Goto(t, "cart")
        BY <1>6, <3>2 DEF WriteOrder
      <4> QED
        BY <1>0, <2>1, <4>1, GotoIs
    <3> QED
      BY <1>6, <3>1, <3>2
  <2> QED
    BY <2>1, <2>2, <2>3, CouponClaimed
<1>8. CASE (DeleteCart(t) \/ Cascade(t)) /\ ~ Throw(t)
  <2>1. /\ co[t].pc \in {"cart", "cascade"} /\ co'[t].pc \in {"cascade", "commit"}
        /\ UNCHANGED <<couponLock, usage>> /\ co'[t].code = co[t].code
        /\ \A u \in CheckoutTx : u # t => co'[u] = co[u]
    BY <1>8, DeleteCartIs, CascadeIs DEF Cascade, tableVars
  <2> QED
    BY <2>1, CouponClaimed
<1>7. CASE CommitCheckout(t)
  BY <1>7, CouponOfCommit
<1> QED
  BY <1>1, <1>2, <1>3, <1>4, <1>5, <1>6, <1>7, <1>8 DEF CheckoutStep, RejectCoupon, OutOfStock

LEMMA CouponStep ==
    ASSUME IInv, CouponInv, [Next]_vars
    PROVE  CouponInv'
<1>1. ASSUME NEW t \in CheckoutTx, Begin(t) \/ CheckoutStep(t) \/ Throw(t) PROVE CouponInv'
  BY <1>1, CouponOfCheckout
<1>2. ASSUME NEW t \in CartTx, BeginEdit(t) \/ EditStep(t) \/ ThrowEdit(t), UNCHANGED checkoutVars
      PROVE  CouponInv'
  BY <1>2, IInvIs, EditSafe, CouponKept DEF checkoutVars
<1>3. ASSUME NEW t \in MoveTx, UNCHANGED checkoutVars,
             Callers(t) \/ (\E j \in Jobs : SweepNext(j, t)) \/ MoveStep(t) \/ ThrowMove(t)
      PROVE  CouponInv'
  BY <1>3, MoveKeepsOrders, CouponKept DEF checkoutVars
<1>4. ASSUME NEW j \in Jobs, Ripen(j) \/ Scan(j), UNCHANGED checkoutVars PROVE CouponInv'
  BY <1>4, CouponKept DEF Ripen, Scan, tableVars, checkoutVars
<1>5. ASSUME NEW t \in StockTx, BeginAdjust(t) \/ AdjustStep(t) \/ ThrowAdjust(t), UNCHANGED checkoutVars
      PROVE  CouponInv'
  BY <1>5, CouponKept DEF BeginAdjust, AdjustStep, AdjustStock, CommitAdjust, ThrowAdjust, tableVars, checkoutVars
<1>6. CASE Crash
  BY <1>6 DEF Crash, CouponInv, HoldsCoupon, HasRoom, CouponWithinLimit, UsesOf, Idle
<1>7. CASE UNCHANGED vars
  BY <1>7, CouponKept DEF vars, tableVars, checkoutVars
<1> QED
  BY <1>1, <1>2, <1>3, <1>4, <1>5, <1>6, <1>7, Steps

(* Every checkout validates its coupon before any of them commits, and still   *)
(* the committed usages stay within the limit: the count that decides is made  *)
(* under the advisory lock, which is kept until the usage is committed.        *)
THEOREM CouponsWithinLimit == Spec => []CouponWithinLimit
<1>1. Init => CouponInv
  <2> SUFFICES ASSUME Init PROVE CouponInv
    OBVIOUS
  <2>1. usage = {} /\ \A c : UsesOf(c) = {}
    BY DEF Init, UsesOf
  <2>2. HoldsCoupon /\ HasRoom
    BY DEF Init, CheckoutInit, HoldsCoupon, HasRoom, Idle
  <2>3. CouponWithinLimit
    BY <2>1, FS_EmptySet, CheckoutConstants DEF CouponWithinLimit
  <2> QED
    BY <2>1, <2>2, <2>3, FS_EmptySet DEF CouponInv
<1>2. IInv /\ CouponInv /\ [Next]_vars => CouponInv'
  BY CouponStep
<1>3. CouponInv => CouponWithinLimit
  BY DEF CouponInv
<1> QED
  BY <1>1, <1>2, <1>3, Inductive, PTL DEF Spec

--------------------------------------------------------------------------------
(* The life of an order. The UPDATE with the status in its WHERE locks the row *)
(* of the order, so what a mover has read is still so when it commits.         *)

MovesAllowed ==
    \A t \in MoveTx :
        mv[t].pc \in {"restock", "update", "commit"} => <<mv[t].from, mv[t].to>> \in ALLOWED

HoldsOrder ==
    \A t \in MoveTx : mv[t].pc = "commit" =>
        orderLock[mv[t].order] = t /\ orders[mv[t].order].status = mv[t].from

\* No row refers to an order that is not there.
Unplaced ==
    \A o \in Order \ DOMAIN orders : log[o] = << >> /\ shipments[o] = 0 /\ refunds[o] = 0

NotShippedYet ==
    \A o \in DOMAIN orders : orders[o].status \in {"PENDING", "PAID", "CANCELLED"} => shipments[o] = 0

LifeInv ==
    /\ MovesAllowed /\ HoldsOrder
    /\ Unplaced /\ NotShippedYet
    /\ HistoryIsAWalk /\ EffectsOnce

\* The rows of history h lead from PENDING to status st.
Reached(h, i) == IF i = 0 THEN "PENDING" ELSE h[i][2]
Walk(h, st) ==
    /\ \A i \in 1 .. Len(h) : h[i][1] = Reached(h, i - 1) /\ h[i] \in ALLOWED
    /\ st = Reached(h, Len(h))

LEMMA HistoryIs ==
    /\ HistoryIsAWalk <=> \A o \in DOMAIN orders : Walk(log[o], orders[o].status)
    /\ HistoryIsAWalk' <=> \A o \in DOMAIN orders' : Walk(log'[o], orders'[o].status)
  BY DEF HistoryIsAWalk, Walk, Reached

(* One more row, from where the walk has come to.                              *)
LEMMA WalkGoesOn ==
    ASSUME NEW h \in Seq(StatusPairs), NEW st, NEW to, Walk(h, st), <<st, to>> \in ALLOWED
    PROVE  Walk(Append(h, <<st, to>>), to)
<1> DEFINE g == Append(h, <<st, to>>)
           n == Len(h)
<1>1. n \in Nat /\ Len(g) = n + 1
  OBVIOUS
<1>2. (\A i \in 1 .. n : g[i] = h[i]) /\ g[n + 1] = <<st, to>>
  OBVIOUS
<1> HIDE DEF g, n
<1>3. ASSUME NEW i \in 0 .. n PROVE Reached(g, i) = Reached(h, i)
  BY <1>1, <1>2 DEF Reached
<1>4. ASSUME NEW i \in 1 .. n + 1
      PROVE  g[i][1] = Reached(g, i - 1) /\ g[i] \in ALLOWED
  <2>1. CASE i \in 1 .. n
    <3>1. h[i][1] = Reached(h, i - 1) /\ h[i] \in ALLOWED
      BY <2>1 DEF Walk, n
    <3>2. i - 1 \in 0 .. n
      BY <1>1, <2>1
    <3> QED
      BY <1>2, <1>3, <2>1, <3>1, <3>2
  <2>2. CASE i = n + 1
    <3>1. i - 1 = n /\ n \in 0 .. n
      BY <1>1, <2>2
    <3>2. Reached(g, n) = st
      BY <1>3, <3>1 DEF Walk, n
    <3>3. g[i][1] = st
      BY <1>2, <2>2
    <3> QED
      BY <1>2, <2>2, <3>1, <3>2, <3>3
  <2> QED
    BY <1>1, <2>1, <2>2
<1>5. Reached(g, n + 1) = to
  <2>1. n + 1 # 0 /\ g[n + 1][2] = to
    BY <1>1, <1>2
  <2> QED
    BY <2>1 DEF Reached
<1>6. Walk(g, to)
  BY <1>1, <1>4, <1>5 DEF Walk
<1> QED
  BY <1>6 DEF g

LEMMA LifeKept ==
    ASSUME LifeInv, UNCHANGED <<mv, orderLock, orders, log, shipments, refunds>>
    PROVE  LifeInv'
  BY DEF LifeInv, MovesAllowed, HoldsOrder, Unplaced, NotShippedYet, HistoryIsAWalk, EffectsOnce

(* A mover that is not about to commit claims nothing.                         *)
LEMMA LifeNotClaimed ==
    ASSUME IInv, LifeInv, NEW t \in MoveTx, mv'[t].pc # "commit",
           mv'[t].pc \in {"restock", "update"} => <<mv'[t].from, mv'[t].to>> \in ALLOWED,
           \A u \in MoveTx : u # t => mv'[u] = mv[u],
           \/ orderLock' = orderLock
           \/ orderLock' = [o \in Order |-> IF orderLock[o] = t THEN NoTx ELSE orderLock[o]],
           UNCHANGED <<orders, log, shipments, refunds>>
    PROVE  LifeInv'
<1> USE DEF LifeInv
<1>1. MovesAllowed'
  BY DEF MovesAllowed
<1>2. HoldsOrder'
  <2> SUFFICES ASSUME NEW u \in MoveTx, mv'[u].pc = "commit"
               PROVE  /\ mv'[u] = mv[u]
                      /\ orderLock'[mv[u].order] = u /\ orders[mv[u].order].status = mv[u].from
    BY DEF HoldsOrder
  <2>1. u # t /\ mv'[u] = mv[u]
    OBVIOUS
  <2>2. orderLock[mv[u].order] = u /\ orders[mv[u].order].status = mv[u].from
    BY <2>1 DEF HoldsOrder
  <2>3. mv[u].order \in Order
    BY <2>1, MvShape, IInvIs DEF Finishing, OtherTablesOK
  <2> QED
    BY <2>1, <2>2, <2>3
<1>3. Unplaced' /\ NotShippedYet' /\ HistoryIsAWalk' /\ EffectsOnce'
  BY DEF Unplaced, NotShippedYet, HistoryIsAWalk, EffectsOnce
<1> QED
  BY <1>1, <1>2, <1>3

(* The UPDATE: the status is the one that was read, and the row is locked.     *)
LEMMA LifeOfUpdate ==
    ASSUME IInv, LifeInv, NEW t \in MoveTx, UpdateStatus(t), ~ ThrowMove(t)
    PROVE  LifeInv'
<1> USE DEF LifeInv
<1>1. /\ mv[t].pc = "update" /\ orders[mv[t].order].status = mv[t].from
      /\ orderLock[mv[t].order] = NoTx
      /\ orderLock' = [orderLock EXCEPT ![mv[t].order] = t]
      /\ mv' = [mv EXCEPT ![t].pc = "commit"]
      /\ UNCHANGED <<orders, log, shipments, refunds>>
  BY DEF UpdateStatus, StatusMoved, tableVars
<1>2. mv[t] \in Finishing /\ mv[t].order \in Order /\ orderLock \in [Order -> MoveTx \cup {NoTx}]
  BY <1>1, MvShape, IInvIs DEF Finishing, OtherTablesOK, RecordsOK
<1>3. /\ mv'[t].pc = "commit" /\ mv'[t].order = mv[t].order
      /\ mv'[t].from = mv[t].from /\ mv'[t].to = mv[t].to
      /\ \A u \in MoveTx : u # t => mv'[u] = mv[u]
  BY <1>1, <1>2, IInvIs DEF Finishing
<1>4. MovesAllowed'
  BY <1>1, <1>3 DEF MovesAllowed
<1>5. HoldsOrder'
  <2> SUFFICES ASSUME NEW u \in MoveTx, mv'[u].pc = "commit"
               PROVE  orderLock'[mv'[u].order] = u /\ orders[mv'[u].order].status = mv'[u].from
    BY <1>1 DEF HoldsOrder
  <2>1. CASE u = t
    BY <1>1, <1>2, <1>3, <2>1
  <2>2. CASE u # t
    <3>1. mv'[u] = mv[u] /\ orderLock[mv[u].order] = u /\ orders[mv[u].order].status = mv[u].from
      BY <1>3, <2>2 DEF HoldsOrder
    <3>2. u # NoTx
      BY TablesConstants, OrderConstants
    <3> QED
      BY <1>1, <3>1, <3>2
  <2> QED
    BY <2>1, <2>2
<1>6. Unplaced' /\ NotShippedYet' /\ HistoryIsAWalk' /\ EffectsOnce'
  BY <1>1 DEF Unplaced, NotShippedYet, HistoryIsAWalk, EffectsOnce
<1> QED
  BY <1>4, <1>5, <1>6

(* COMMIT: one row more in the history, one effect of the new status.          *)
LEMMA LifeOfCommit ==
    ASSUME IInv, LifeInv, NEW t \in MoveTx, CommitMove(t)
    PROVE  LifeInv'
<1> USE DEF LifeInv
<1> DEFINE m == mv[t]
           o == m.order
<1>1. /\ m.pc = "commit" /\ m \in Finishing
      /\ o \in DOMAIN orders /\ o \in Order
      /\ orderLock[o] = t /\ orders[o].status = m.from /\ <<m.from, m.to>> \in ALLOWED
  BY MvShape, IInvIs DEF CommitMove, Finishing, OtherTablesOK, HoldsOrder, MovesAllowed
<1>2. /\ orders \in [DOMAIN orders -> OrderRow]
      /\ log \in [Order -> Seq(StatusPairs)]
      /\ shipments \in [Order -> Nat] /\ refunds \in [Order -> Nat]
      /\ DOMAIN orders \subseteq Order
  BY IInvIs DEF OtherTablesOK, RecordsOK
<1>3. /\ DOMAIN orders' = DOMAIN orders
      /\ orders'[o].status = m.to
      /\ \A p \in DOMAIN orders : p # o => orders'[p] = orders[p]
  <2>1. orders' = [orders EXCEPT ![o] = [orders[o] EXCEPT !.status = m.to]]
    BY DEF CommitMove
  <2> HIDE DEF o
  <2> QED
    BY <1>1, <1>2, <2>1 DEF OrderRow
<1>4. /\ log'[o] = Append(log[o], <<m.from, m.to>>)
      /\ \A p \in Order : p # o => /\ log'[p] = log[p] /\ shipments'[p] = shipments[p]
                                   /\ refunds'[p] = refunds[p] /\ orderLock'[p] = orderLock[p]
  BY <1>1, <1>2, IInvIs DEF CommitMove, RecordsOK
<1>5. /\ shipments'[o] = shipments[o] + (IF m.to = "SHIPPED" THEN 1 ELSE 0)
      /\ refunds'[o] = refunds[o] + (IF m.to = "REFUNDED" THEN 1 ELSE 0)
  BY <1>1, <1>2 DEF CommitMove
<1>6. mv'[t] = Rest /\ \A u \in MoveTx : u # t => mv'[u] = mv[u]
  BY IInvIs DEF CommitMove
<1> HIDE DEF o, m
<1>7. MovesAllowed'
  BY <1>6 DEF MovesAllowed, Rest
<1>8. HoldsOrder'
  <2> SUFFICES ASSUME NEW u \in MoveTx, mv'[u].pc = "commit"
               PROVE  /\ mv'[u] = mv[u]
                      /\ orderLock'[mv[u].order] = u /\ orders'[mv[u].order].status = mv[u].from
    BY DEF HoldsOrder
  <2>1. u # t /\ mv'[u] = mv[u]
    BY <1>6 DEF Rest
  <2>2. orderLock[mv[u].order] = u /\ orders[mv[u].order].status = mv[u].from
    BY <2>1 DEF HoldsOrder
  <2>3. mv[u].order \in DOMAIN orders /\ mv[u].order # o
    BY <1>1, <2>1, <2>2, MvShape, IInvIs DEF Finishing
  <2> QED
    BY <1>2, <1>3, <1>4, <2>1, <2>2, <2>3
<1>9. Unplaced'
  BY <1>1, <1>3, <1>4 DEF Unplaced
<1>10. /\ shipments[o] <= 1 /\ shipments[o] \in Nat /\ refunds[o] \in Nat
       /\ orders[o].status \in {"PENDING", "PAID", "CANCELLED"} => shipments[o] = 0
       /\ orders[o].status \in {"SHIPPED", "COMPLETED"} => shipments[o] = 1
       /\ orders[o].status # "REFUNDED" => refunds[o] = 0
  BY <1>1, <1>2 DEF NotShippedYet, EffectsOnce
<1>11. /\ shipments'[o] <= 1
       /\ m.to \in {"PENDING", "PAID", "CANCELLED"} => shipments'[o] = 0
       /\ m.to \in {"SHIPPED", "COMPLETED"} => shipments'[o] = 1
       /\ refunds'[o] = IF m.to = "REFUNDED" THEN 1 ELSE 0
  BY <1>1, <1>5, <1>10 DEF ALLOWED
<1>12. NotShippedYet'
  BY <1>2, <1>3, <1>4, <1>11 DEF NotShippedYet
<1>13. EffectsOnce'
  <2>1. ASSUME NEW p \in DOMAIN orders, p # o
        PROVE  /\ shipments'[p] <= 1
               /\ orders'[p].status \in {"SHIPPED", "COMPLETED"} => shipments'[p] = 1
               /\ refunds'[p] = IF orders'[p].status = "REFUNDED" THEN 1 ELSE 0
    <3>1. orders'[p] = orders[p] /\ shipments'[p] = shipments[p] /\ refunds'[p] = refunds[p]
      BY <1>2, <1>3, <1>4, <2>1
    <3> QED
      BY <3>1 DEF EffectsOnce
  <2> QED
    BY <1>3, <1>11, <2>1 DEF EffectsOnce
<1>14. HistoryIsAWalk'
  <2>1. Walk(log'[o], m.to)
    BY <1>1, <1>2, <1>4, HistoryIs, WalkGoesOn
  <2>2. \A p \in DOMAIN orders : p # o => Walk(log'[p], orders'[p].status)
    BY <1>2, <1>3, <1>4, HistoryIs
  <2> QED
    BY <1>3, <2>1, <2>2, HistoryIs
<1> QED
  BY <1>7, <1>8, <1>9, <1>12, <1>13, <1>14

(* A caller gives an idle mover an order; the mover has read nothing yet.      *)
LEMMA CallersAre ==
    ASSUME IInv, NEW t \in MoveTx, Callers(t) \/ \E j \in Jobs : SweepNext(j, t)
    PROVE  /\ mv[t].pc = "idle"
           /\ mv'[t].pc \in {"outcome", "before", "read"}
           /\ \A u \in MoveTx : u # t => mv'[u] = mv[u]
           /\ UNCHANGED <<skuVars, orders, orderLock, log, shipments, refunds, supplied>>
<1>0. \A pc, o, to, a : Call(pc, o, to, a).pc = pc
  BY DEF Call
<1>1. \E pc \in {"outcome", "before", "read"} : \E o, to, a : mv' = [mv EXCEPT ![t] = Call(pc, o, to, a)]
  <2>1. CASE FireTimer(t)
    <3>1. \E o : mv' = [mv EXCEPT ![t] = Call("outcome", o, ToOf(orders[o].mode), "system")]
      BY <2>1 DEF FireTimer, Start
    <3> QED
      BY <3>1
  <2>2. CASE Webhook(t)
    <3>1. \E o : mv' = [mv EXCEPT ![t] = Call("outcome", o, ToOf(orders[o].mode), "system")]
      BY <2>2 DEF Webhook, Start
    <3> QED
      BY <3>1
  <2>3. CASE Ship(t) \/ Refund(t)
    <3>1. \E o, to, a : mv' = [mv EXCEPT ![t] = Call("before", o, to, a)]
      BY <2>3 DEF Ship, Refund, Start
    <3> QED
      BY <3>1
  <2>4. ASSUME NEW j \in Jobs, SweepNext(j, t)
        PROVE  \E o : mv' = [mv EXCEPT ![t] = Call("read", o, JobTo(j), "system")]
    BY <2>4 DEF SweepNext, Start
  <2> QED
    BY <2>1, <2>2, <2>3, <2>4 DEF Callers
<1>2. mv[t].pc = "idle"
  BY DEF Callers, FireTimer, Webhook, Ship, Refund, SweepNext, Start, Rest
<1>3. UNCHANGED <<skuVars, orders, orderLock, log, shipments, refunds, supplied>>
  BY DEF Callers, FireTimer, Webhook, Ship, Refund, SweepNext, Start, tableVars, skuVars
<1> QED
  BY <1>0, <1>1, <1>2, <1>3, IInvIs

(* The reads before transitionOrder.                                           *)
LEMMA ReadsAre ==
    ASSUME IInv, NEW t \in MoveTx, ReadOutcome(t) \/ ReadBefore(t)
    PROVE  /\ mv[t].pc \in {"outcome", "before"}
           /\ mv'[t].pc \in {"idle", "read"}
           /\ \A u \in MoveTx : u # t => mv'[u] = mv[u]
           /\ UNCHANGED <<skuVars, orders, orderLock, log, shipments, refunds, supplied>>
<1>1. mv[t] \in Opening
  BY MvShape, IInvIs DEF ReadOutcome, ReadBefore
<1> QED
  BY <1>1, IInvIs DEF ReadOutcome, ReadBefore, Opening, Rest, tableVars, skuVars

(* transitionOrder reads the order: the move is in the table, or it throws.    *)
LEMMA ReadOrderIs ==
    ASSUME IInv, NEW t \in MoveTx, ReadOrder(t), ~ ThrowMove(t)
    PROVE  /\ mv[t] \in Opening /\ mv[t].pc = "read"
           /\ mv'[t].pc = IF mv[t].to \in Restocking THEN "restock" ELSE "update"
           /\ mv'[t].order = mv[t].order /\ mv'[t].to = mv[t].to
           /\ mv'[t].from = orders[mv[t].order].status
           /\ <<mv'[t].from, mv'[t].to>> \in ALLOWED
           /\ mv'[t].pc = "restock" =>
                 mv'[t].todo = Wanted(orders[mv[t].order].lines) /\ mv'[t].next \in mv'[t].todo
           /\ \A u \in MoveTx : u # t => mv'[u] = mv[u]
           /\ UNCHANGED <<skuVars, orders, orderLock, log, shipments, refunds, supplied>>
<1> DEFINE m    == mv[t]
           from == orders[m.order].status
           list == Wanted(orders[m.order].lines)
<1>1. m \in Opening /\ m.pc = "read" /\ mv \in [MoveTx -> MvStates]
  BY MvShape, IInvIs DEF ReadOrder
<1>2. <<from, m.to>> \in ALLOWED /\ UNCHANGED <<skuVars, orders, orderLock, log, shipments, refunds, supplied>>
  BY DEF ReadOrder, tableVars, skuVars
<1>3. CASE m.to \notin Restocking
  <2>1. mv' = [mv EXCEPT ![t] = [m EXCEPT !.pc = "update", !.from = from]]
    BY <1>3 DEF ReadOrder
  <2> HIDE DEF from
  <2> QED
    BY <1>1, <1>2, <1>3, <2>1 DEF Opening, from
<1>4. CASE m.to \in Restocking
  <2>1. PICK s \in list : mv' = [mv EXCEPT ![t] = [m EXCEPT !.pc = "restock", !.from = from,
                                                           !.todo = list, !.next = s]]
    BY <1>4, ZenonT(40) DEF ReadOrder
  <2> HIDE DEF from, list
  <2> QED
    BY <1>1, <1>2, <1>4, <2>1 DEF Opening, from, list
<1> QED
  BY <1>3, <1>4

(* One more item is given back.                                                *)
LEMMA RestockIs ==
    ASSUME IInv, NEW t \in MoveTx, Restock(t)
    PROVE  /\ mv[t] \in Restoring /\ mv[t].pc = "restock"
           /\ mv'[t].pc \in {"restock", "update"}
           /\ mv'[t].order = mv[t].order /\ mv'[t].to = mv[t].to /\ mv'[t].from = mv[t].from
           /\ mv'[t].todo = mv[t].todo \ {mv[t].next}
           /\ mv'[t].pc = "restock" => mv'[t].next \in mv'[t].todo
           /\ \A u \in MoveTx : u # t => mv'[u] = mv[u]
           /\ UNCHANGED <<stock, orders, orderLock, log, shipments, refunds, supplied>>
<1> DEFINE left == mv[t].todo \ {mv[t].next}
<1>1. mv[t] \in Restoring /\ mv[t].pc = "restock" /\ mv \in [MoveTx -> MvStates]
  BY MvShape, IInvIs DEF Restock
<1>2. UNCHANGED <<stock, orders, orderLock, log, shipments, refunds, supplied>>
  BY DEF Restock, WriteRow
<1>3. CASE left = {} /\ mv' = [mv EXCEPT ![t].pc = "update", ![t].todo = {}, ![t].next = NoSku]
  BY <1>1, <1>2, <1>3 DEF Restoring
<1>4. CASE \E n \in left : mv' = [mv EXCEPT ![t].todo = left, ![t].next = n]
  BY <1>1, <1>2, <1>4 DEF Restoring
<1> QED
  BY <1>3, <1>4 DEF Restock

LEMMA ThrowMoveIs ==
    ASSUME IInv, NEW t \in MoveTx, ThrowMove(t)
    PROVE  /\ mv'[t] = Rest
           /\ \A u \in MoveTx : u # t => mv'[u] = mv[u]
           /\ orderLock' = [o \in Order |-> IF orderLock[o] = t THEN NoTx ELSE orderLock[o]]
           /\ UNCHANGED <<stock, orders, log, shipments, refunds, supplied>>
  BY IInvIs DEF ThrowMove, RollbackRows

LEMMA LifeOfMove ==
    ASSUME IInv, LifeInv, NEW t \in MoveTx,
           Callers(t) \/ (\E j \in Jobs : SweepNext(j, t)) \/ MoveStep(t) \/ ThrowMove(t)
    PROVE  LifeInv'
<1>1. CASE ThrowMove(t)
  <2>1. /\ mv'[t].pc = "idle"
        /\ \A u \in MoveTx : u # t => mv'[u] = mv[u]
        /\ orderLock' = [o \in Order |-> IF orderLock[o] = t THEN NoTx ELSE orderLock[o]]
        /\ UNCHANGED <<orders, log, shipments, refunds>>
    BY <1>1, ThrowMoveIs DEF Rest
  <2> QED
    BY <2>1, LifeNotClaimed
<1>2. CASE Callers(t) \/ (\E j \in Jobs : SweepNext(j, t))
  <2>1. /\ mv'[t].pc \in {"outcome", "before", "read"}
        /\ \A u \in MoveTx : u # t => mv'[u] = mv[u]
        /\ UNCHANGED <<orders, orderLock, log, shipments, refunds>>
    BY <1>2, CallersAre
  <2> QED
    BY <2>1, LifeNotClaimed
<1>3. CASE ReadOutcome(t) \/ ReadBefore(t)
  BY <1>3, ReadsAre, LifeNotClaimed
<1>4. CASE ReadOrder(t) /\ ~ ThrowMove(t)
  BY <1>4, ReadOrderIs, LifeNotClaimed
<1>5. CASE Restock(t)
  <2>1. <<mv[t].from, mv[t].to>> \in ALLOWED
    BY <1>5, RestockIs DEF LifeInv, MovesAllowed
  <2> QED
    BY <1>5, <2>1, RestockIs, LifeNotClaimed
<1>6. CASE UpdateStatus(t) /\ ~ ThrowMove(t)
  BY <1>6, LifeOfUpdate
<1>7. CASE CommitMove(t)
  BY <1>7, LifeOfCommit
<1> QED
  BY <1>1, <1>2, <1>3, <1>4, <1>5, <1>6, <1>7 DEF MoveStep

(* A checkout's COMMIT adds an order that is PENDING and has no rows yet.      *)
LEMMA CommitAddsOrder ==
    ASSUME IInv, NEW t \in CheckoutTx, CommitCheckout(t)
    PROVE  LET o == FreshOrder IN
           /\ o \in Order \ DOMAIN orders
           /\ DOMAIN orders' = DOMAIN orders \cup {o}
           /\ \A p \in DOMAIN orders : orders'[p] = orders[p]
           /\ orders'[o].status = "PENDING" /\ orders'[o].lines = co[t].cart.lines
<1> DEFINE c == co[t]
           o == FreshOrder
           new == [status |-> "PENDING", lines |-> c.cart.lines, user |-> c.user,
                   cart |-> c.cart.no, mode |-> c.mode]
<1>1. o \in Order \ DOMAIN orders
  BY DEF CommitCheckout
<1>2. orders' = [x \in DOMAIN orders \cup {o} |-> IF x \in DOMAIN orders THEN orders[x] ELSE new]
  BY DEF CommitCheckout
<1> HIDE DEF o
<1>3. /\ DOMAIN orders' = DOMAIN orders \cup {o}
      /\ \A p \in DOMAIN orders : orders'[p] = orders[p]
      /\ orders'[o].status = "PENDING" /\ orders'[o].lines = c.cart.lines
  BY <1>1, <1>2
<1> QED
  BY <1>1, <1>3 DEF o

LEMMA LifeOfCheckout ==
    ASSUME IInv, LifeInv, NEW t \in CheckoutTx, UNCHANGED orderVars,
           Begin(t) \/ CheckoutStep(t) \/ Throw(t)
    PROVE  LifeInv'
<1>1. CASE CommitCheckout(t)
  <2> USE DEF LifeInv
  <2>1. PICK o \in Order \ DOMAIN orders :
           /\ DOMAIN orders' = DOMAIN orders \cup {o}
           /\ \A p \in DOMAIN orders : orders'[p] = orders[p]
           /\ orders'[o].status = "PENDING"
    BY <1>1, CommitAddsOrder
  <2>2. UNCHANGED <<mv, orderLock, log, shipments, refunds>>
    BY DEF orderVars
  <2>3. log[o] = << >> /\ shipments[o] = 0 /\ refunds[o] = 0
    BY DEF Unplaced
  <2>4. MovesAllowed'
    BY <2>2 DEF MovesAllowed
  <2>5. HoldsOrder'
    <3>1. \A u \in MoveTx : mv[u].pc = "commit" => mv[u].order \in DOMAIN orders
      BY MvShape, IInvIs DEF Finishing
    <3> QED
      BY <2>1, <2>2, <3>1 DEF HoldsOrder
  <2>6. Unplaced' /\ NotShippedYet' /\ EffectsOnce'
    BY <2>1, <2>2, <2>3 DEF Unplaced, NotShippedYet, EffectsOnce
  <2>7. HistoryIsAWalk'
    <3>1. Walk(<< >>, "PENDING")
      BY DEF Walk, Reached
    <3> QED
      BY <2>1, <2>2, <2>3, <3>1, HistoryIs
  <2> QED
    BY <2>4, <2>5, <2>6, <2>7
<1>2. CASE ~ CommitCheckout(t)
  <2>1. orders' = orders
    BY <1>2 DEF Begin, CheckoutStep, Throw, TakeStock, OutOfStock, ValidateCoupon, RejectCoupon, LockCoupon,
                CountUsages, WriteOrder, DeleteCart, Cascade, Respond, tableVars
  <2> QED
    BY <2>1, LifeKept DEF orderVars
<1> QED
  BY <1>1, <1>2

LEMMA LifeStep ==
    ASSUME IInv, LifeInv, [Next]_vars
    PROVE  LifeInv'
<1>1. ASSUME NEW t \in CheckoutTx, Begin(t) \/ CheckoutStep(t) \/ Throw(t), UNCHANGED orderVars PROVE LifeInv'
  BY <1>1, LifeOfCheckout
<1>2. ASSUME NEW t \in CartTx, BeginEdit(t) \/ EditStep(t) \/ ThrowEdit(t), UNCHANGED orderVars PROVE LifeInv'
  BY <1>2, IInvIs, EditSafe, LifeKept DEF orderVars
<1>3. ASSUME NEW t \in MoveTx,
             Callers(t) \/ (\E j \in Jobs : SweepNext(j, t)) \/ MoveStep(t) \/ ThrowMove(t)
      PROVE  LifeInv'
  BY <1>3, LifeOfMove
<1>4. ASSUME NEW j \in Jobs, Ripen(j) \/ Scan(j) PROVE LifeInv'
  BY <1>4, LifeKept DEF Ripen, Scan, tableVars
<1>5. ASSUME NEW t \in StockTx, BeginAdjust(t) \/ AdjustStep(t) \/ ThrowAdjust(t), UNCHANGED orderVars
      PROVE  LifeInv'
  BY <1>5, LifeKept DEF BeginAdjust, AdjustStep, AdjustStock, CommitAdjust, ThrowAdjust, tableVars, orderVars
<1>6. CASE Crash
  BY <1>6 DEF Crash, LifeInv, MovesAllowed, HoldsOrder, Unplaced, NotShippedYet, HistoryIsAWalk, EffectsOnce, Rest
<1>7. CASE UNCHANGED vars
  BY <1>7, LifeKept DEF vars, tableVars, orderVars
<1> QED
  BY <1>1, <1>2, <1>3, <1>4, <1>5, <1>6, <1>7, Steps

LEMMA LifeAlways == Spec => []LifeInv
<1>1. Init => LifeInv
  <2> SUFFICES ASSUME Init PROVE LifeInv
    OBVIOUS
  <2>1. MovesAllowed /\ HoldsOrder
    BY DEF Init, OrderInit, MovesAllowed, HoldsOrder, Rest
  <2>2. Unplaced /\ NotShippedYet
    BY ShopConstants DEF Init, OrderInit, Unplaced, NotShippedYet
  <2>3. EffectsOnce
    BY ShopConstants DEF Init, OrderInit, EffectsOnce
  <2>4. HistoryIsAWalk
    <3>1. Walk(<< >>, "PENDING")
      BY DEF Walk, Reached
    <3>2. \A o \in DOMAIN orders : log[o] = << >> /\ orders[o].status = "PENDING"
      BY ShopConstants DEF Init, OrderInit
    <3> QED
      BY <3>1, <3>2, HistoryIs
  <2> QED
    BY <2>1, <2>2, <2>3, <2>4 DEF LifeInv
<1>2. IInv /\ LifeInv /\ [Next]_vars => LifeInv'
  BY LifeStep
<1> QED
  BY <1>1, <1>2, Inductive, PTL DEF Spec

(* Timers, webhooks, administrators and sweeps race for an order, and its      *)
(* status history is still one walk along the status table that ends where the *)
(* order is: of two that have read the same status, one finds it moved.        *)
THEOREM HistoryAlongTheTable == Spec => []HistoryIsAWalk
<1>1. LifeInv => HistoryIsAWalk
  BY DEF LifeInv
<1> QED
  BY <1>1, LifeAlways, PTL

(* No order is shipped twice or refunded twice, and one that is shipped, or    *)
(* refunded, has the row that says so.                                         *)
THEOREM EffectsCarriedOutOnce == Spec => []EffectsOnce
<1>1. LifeInv => EffectsOnce
  BY DEF LifeInv
<1> QED
  BY <1>1, LifeAlways, PTL

--------------------------------------------------------------------------------
(* What each transaction has written and not committed. At its COMMIT it is    *)
(* exactly what the abstract step does to the shelf: all lines of an order, or *)
(* none; all its units given back, or none; one adjustment.                    *)

\* The items a checkout has still to take; the DELETE's cascade goes through lines
\* again when all are taken.
Untaken(t) == IF co[t].pc = "cascade" THEN {} ELSE co[t].todo

OwesCheckout(t) ==
    IF InCheckout(t)
    THEN /\ co[t].pc = "stock" => co[t].next \in co[t].todo
         /\ \A s \in Sku : pending[t][s] = IF s \in Untaken(t) THEN 0 ELSE - co[t].cart.lines[s]
    ELSE pending[t] = Nothing

Reverses(t) == mv[t].pc \in {"restock", "update", "commit"} /\ mv[t].to \in Restocking

OwesMove(t) ==
    /\ mv[t].pc = "restock" => Reverses(t) /\ mv[t].next \in mv[t].todo
    /\ IF Reverses(t)
       THEN \A s \in Sku : pending[t][s] = IF s \in mv[t].todo THEN 0 ELSE orders[mv[t].order].lines[s]
       ELSE pending[t] = Nothing

OwesAdjust(t) ==
    /\ InAdjust(t) => adj[t].delta \in Deltas
    /\ \A s \in Sku : pending[t][s] = IF adj[t].pc = "commit" /\ s = adj[t].sku THEN adj[t].delta ELSE 0

PendingInv ==
    /\ \A t \in CheckoutTx : OwesCheckout(t)
    /\ \A t \in MoveTx : OwesMove(t)
    /\ \A t \in StockTx : OwesAdjust(t)

(* A statement changes one entry of its own transaction.                       *)
LEMMA WriteRowIs ==
    ASSUME RowsOK, NEW t \in Tx, NEW s \in Sku, NEW d \in Int, WriteRow(t, s, d)
    PROVE  /\ pending'[t][s] = pending[t][s] + d
           /\ \A x \in Sku : x # s => pending'[t][x] = pending[t][x]
           /\ \A u \in Tx : u # t => pending'[u] = pending[u]
           /\ stock' = stock
  BY DEF WriteRow, RowsOK

(* A transaction that ends has nothing uncommitted; nobody else is concerned.  *)
LEMMA RowsEnded ==
    ASSUME RowsOK, NEW t \in Tx, CommitRows(t) \/ RollbackRows(t)
    PROVE  /\ pending'[t] = Nothing
           /\ \A u \in Tx : u # t => pending'[u] = pending[u]
           /\ CommitRows(t) => stock' = [s \in Sku |-> stock[s] + pending[t][s]]
           /\ RollbackRows(t) => stock' = stock
  BY DEF CommitRows, RollbackRows, RowsOK

(* One transaction steps and still owes what it should; the others owe the     *)
(* same as before, because the lines of an order never change.                 *)
LEMMA PendingAfter ==
    ASSUME IInv, PendingInv, NEW t \in Tx,
           \A u \in Tx : u # t => pending'[u] = pending[u],
           \A u \in CheckoutTx : u # t => co'[u] = co[u],
           \A u \in MoveTx : u # t => mv'[u] = mv[u],
           \A u \in StockTx : u # t => adj'[u] = adj[u],
           \A o \in DOMAIN orders : orders'[o].lines = orders[o].lines,
           t \in CheckoutTx => OwesCheckout(t)',
           t \in MoveTx => OwesMove(t)',
           t \in StockTx => OwesAdjust(t)'
    PROVE  PendingInv'
<1>0. CheckoutTx \subseteq Tx /\ MoveTx \subseteq Tx /\ StockTx \subseteq Tx
  BY CheckoutConstants, OrderConstants, StockConstants
<1>1. ASSUME NEW u \in CheckoutTx, u # t PROVE OwesCheckout(u)'
  <2>1. co'[u] = co[u] /\ pending'[u] = pending[u] /\ OwesCheckout(u)
    BY <1>0, <1>1 DEF PendingInv
  <2> QED
    BY <2>1 DEF OwesCheckout, InCheckout, Untaken
<1>2. ASSUME NEW u \in MoveTx, u # t PROVE OwesMove(u)'
  <2>1. mv'[u] = mv[u] /\ pending'[u] = pending[u] /\ OwesMove(u)
    BY <1>0, <1>2 DEF PendingInv
  <2>2. Reverses(u) => orders'[mv[u].order].lines = orders[mv[u].order].lines
    BY MvShape, IInvIs DEF Reverses, Restoring, Finishing
  <2> QED
    BY <2>1, <2>2 DEF OwesMove, Reverses
<1>3. ASSUME NEW u \in StockTx, u # t PROVE OwesAdjust(u)'
  <2>1. adj'[u] = adj[u] /\ pending'[u] = pending[u] /\ OwesAdjust(u)
    BY <1>0, <1>3 DEF PendingInv
  <2> QED
    BY <2>1 DEF OwesAdjust, InAdjust
<1> QED
  BY <1>1, <1>2, <1>3 DEF PendingInv

(* Nothing that PendingInv looks at has changed.                               *)
LEMMA PendingKept ==
    ASSUME PendingInv, UNCHANGED <<pending, orders, co, mv, adj>>
    PROVE  PendingInv'
  BY DEF PendingInv, OwesCheckout, InCheckout, Untaken, OwesMove, Reverses, OwesAdjust, InAdjust

LEMMA NothingIs == Nothing \in [Sku -> Int] /\ \A s \in Sku : Nothing[s] = 0
  BY DEF Nothing

(* A checkout owes the lines it has taken.                                     *)
LEMMA OwesOfCheckout ==
    ASSUME IInv, PendingInv, NEW t \in CheckoutTx, Begin(t) \/ CheckoutStep(t) \/ Throw(t)
    PROVE  /\ OwesCheckout(t)'
           /\ \A u \in Tx : u # t => pending'[u] = pending[u]
           /\ \A u \in CheckoutTx : u # t => co'[u] = co[u]
<1>0. /\ t \in Tx /\ RowsOK /\ co \in [CheckoutTx -> CoStates] /\ OwesCheckout(t)
      /\ pending \in [Tx -> [Sku -> Int]]
  BY IInvIs, CheckoutConstants DEF PendingInv, RowsOK
<1>1. CASE Throw(t)
  <2>1. pending'[t] = Nothing /\ \A u \in Tx : u # t => pending'[u] = pending[u]
    BY <1>0, <1>1, RowsEnded DEF Throw
  <2>2. co'[t].pc = "idle" /\ \A u \in CheckoutTx : u # t => co'[u] = co[u]
    BY <1>0, <1>1 DEF Throw, Idle
  <2> QED
    BY <2>1, <2>2 DEF OwesCheckout, InCheckout, Untaken
<1>2. CASE CommitCheckout(t)
  <2>1. pending'[t] = Nothing /\ \A u \in Tx : u # t => pending'[u] = pending[u]
    BY <1>0, <1>2, RowsEnded DEF CommitCheckout
  <2>2. co'[t].pc = "respond" /\ \A u \in CheckoutTx : u # t => co'[u] = co[u]
    BY <1>0, <1>2 DEF CommitCheckout
  <2> QED
    BY <2>1, <2>2 DEF OwesCheckout, InCheckout, Untaken
<1>3. CASE Respond(t)
  <2>1. co[t].pc = "respond" /\ pending' = pending
    BY <1>3 DEF Respond, skuVars
  <2>2. co'[t].pc = "idle" /\ \A u \in CheckoutTx : u # t => co'[u] = co[u]
    BY <1>0, <1>3 DEF Respond, Idle
  <2> QED
    BY <1>0, <2>1, <2>2 DEF OwesCheckout, InCheckout, Untaken
<1>4. CASE Begin(t)
  <2>1. co[t].pc = "idle" /\ pending' = pending
    BY <1>4 DEF Begin, tableVars, Idle
  <2>2. PICK u \in User, code \in Coupon \cup {NoCoupon}, mode \in Modes :
           \E first \in Wanted(cart[u].lines) :
              co' = [co EXCEPT ![t] = [pc |-> "stock", user |-> u, cart |-> cart[u],
                                       todo |-> Wanted(cart[u].lines), next |-> first,
                                       code |-> code, mode |-> mode]]
    BY <1>4 DEF Begin
  <2>3. /\ co'[t].pc = "stock" /\ co'[t].cart = cart[u]
        /\ co'[t].todo = Wanted(cart[u].lines) /\ co'[t].next \in co'[t].todo
        /\ \A v \in CheckoutTx : v # t => co'[v] = co[v]
    BY <1>0, <2>2
  <2>4. \A s \in Sku : s \notin Wanted(cart[u].lines) => cart[u].lines[s] = 0
    BY IInvIs, TablesConstants DEF Wanted, OtherTablesOK, Carts, Quantities
  <2>5. \A s \in Sku : pending[t][s] = 0
    BY <1>0, <2>1, NothingIs DEF OwesCheckout, InCheckout, Untaken
  <2> QED
    BY <2>1, <2>3, <2>4, <2>5 DEF OwesCheckout, InCheckout, Untaken
<1>5. CASE TakeStock(t)
  <2> DEFINE c == co[t]
             taken == c.cart.lines[c.next]
  <2>1. /\ c \in Taking /\ c.pc = "stock"
        /\ co'[t].pc \in {"stock", "validate", "write"} /\ co'[t].cart = c.cart
        /\ co'[t].todo = c.todo \ {c.next}
        /\ co'[t].pc = "stock" => co'[t].next \in co'[t].todo
        /\ \A u \in CheckoutTx : u # t => co'[u] = co[u]
    BY <1>5, TakeStockIs DEF TakeStock
  <2>2. c.next \in Sku /\ taken \in Nat
    BY <2>1, TablesConstants DEF Taking, Carts, Quantities
  <2>3. WriteRow(t, c.next, - taken) /\ - taken \in Int
    BY <1>5, <2>2 DEF TakeStock
  <2> HIDE DEF taken
  <2>4. /\ pending'[t][c.next] = pending[t][c.next] + (- taken)
        /\ \A x \in Sku : x # c.next => pending'[t][x] = pending[t][x]
        /\ \A u \in Tx : u # t => pending'[u] = pending[u]
    BY <1>0, <2>2, <2>3, WriteRowIs
  <2>5. /\ c.next \in c.todo
        /\ \A s \in Sku : pending[t][s] = IF s \in c.todo THEN 0 ELSE - c.cart.lines[s]
    BY <1>0, <2>1 DEF OwesCheckout, InCheckout, Untaken
  <2>6. pending'[t][c.next] = - taken
    BY <2>2, <2>4, <2>5
  <2>7. \A s \in Sku : pending'[t][s] = IF s \in c.todo \ {c.next} THEN 0 ELSE - c.cart.lines[s]
    BY <2>4, <2>5, <2>6 DEF taken
  <2> QED
    BY <2>1, <2>4, <2>7 DEF OwesCheckout, InCheckout, Untaken
<1>6. CASE /\ ValidateCoupon(t) \/ LockCoupon(t) \/ CountUsages(t) \/ WriteOrder(t)
           /\ ~ Throw(t)
  <2>1. PICK pc \in {"lock", "count", "write", "cart"} :
           /\ Goto(t, pc) /\ UNCHANGED tableVars /\ co[t] \in Couponing \cup Writing
           /\ co[t].pc # "cascade"
    BY <1>0, <1>6, CoShape DEF ValidateCoupon, LockCoupon, CountUsages, WriteOrder
  <2>2. /\ co'[t].pc = pc /\ co'[t].cart = co[t].cart /\ co'[t].todo = co[t].todo
        /\ \A u \in CheckoutTx : u # t => co'[u] = co[u]
    BY <1>0, <2>1, GotoIs
  <2>3. InCheckout(t)
    BY <2>1 DEF InCheckout, Couponing, Writing
  <2>4. pending' = pending
    BY <2>1 DEF tableVars
  <2> QED
    BY <1>0, <2>1, <2>2, <2>3, <2>4 DEF OwesCheckout, InCheckout, Untaken
<1>7. CASE (DeleteCart(t) /\ ~ Throw(t)) \/ Cascade(t)
  <2>1. /\ Untaken(t) = {} /\ InCheckout(t) /\ UNCHANGED tableVars
        /\ co'[t].pc \in {"cascade", "commit"} /\ co'[t].cart = co[t].cart
        /\ co'[t].pc = "commit" => co'[t].todo = {}
        /\ \A u \in CheckoutTx : u # t => co'[u] = co[u]
    BY <1>7, DeleteCartIs, CascadeIs DEF Untaken, InCheckout, Writing, Cascading
  <2>2. Untaken(t)' = {}
    BY <2>1 DEF Untaken
  <2>3. pending' = pending
    BY <2>1 DEF tableVars, skuVars
  <2> QED
    BY <1>0, <2>1, <2>2, <2>3 DEF OwesCheckout, InCheckout
<1> QED
  BY <1>1, <1>2, <1>3, <1>4, <1>5, <1>6, <1>7 DEF CheckoutStep, RejectCoupon, OutOfStock

(* A mover that reverses an order owes the units it has given back so far.     *)
LEMMA OwesOfMove ==
    ASSUME IInv, PendingInv, NEW t \in MoveTx,
           Callers(t) \/ (\E j \in Jobs : SweepNext(j, t)) \/ MoveStep(t) \/ ThrowMove(t)
    PROVE  /\ OwesMove(t)'
           /\ \A u \in Tx : u # t => pending'[u] = pending[u]
           /\ \A u \in MoveTx : u # t => mv'[u] = mv[u]
<1>0. /\ t \in Tx /\ RowsOK /\ mv \in [MoveTx -> MvStates] /\ OwesMove(t)
      /\ pending \in [Tx -> [Sku -> Int]]
  BY IInvIs, OrderConstants DEF PendingInv, RowsOK
<1>1. CASE ThrowMove(t)
  <2>1. pending'[t] = Nothing /\ \A u \in Tx : u # t => pending'[u] = pending[u]
    BY <1>0, <1>1, RowsEnded DEF ThrowMove
  <2>2. mv'[t].pc = "idle" /\ \A u \in MoveTx : u # t => mv'[u] = mv[u]
    BY <1>1, ThrowMoveIs DEF Rest
  <2> QED
    BY <2>1, <2>2 DEF OwesMove, Reverses
<1>2. CASE CommitMove(t)
  <2>1. pending'[t] = Nothing /\ \A u \in Tx : u # t => pending'[u] = pending[u]
    BY <1>0, <1>2, RowsEnded DEF CommitMove
  <2>2. mv'[t].pc = "idle" /\ \A u \in MoveTx : u # t => mv'[u] = mv[u]
    BY <1>0, <1>2 DEF CommitMove, Rest
  <2> QED
    BY <2>1, <2>2 DEF OwesMove, Reverses
<1>3. CASE \/ Callers(t) \/ (\E j \in Jobs : SweepNext(j, t))
           \/ ReadOutcome(t) \/ ReadBefore(t)
  <2>1. /\ mv[t].pc \notin {"restock", "update", "commit"}
        /\ mv'[t].pc \notin {"restock", "update", "commit"}
        /\ \A u \in MoveTx : u # t => mv'[u] = mv[u]
        /\ pending' = pending
    BY <1>3, CallersAre, ReadsAre DEF skuVars
  <2> QED
    BY <1>0, <2>1 DEF OwesMove, Reverses
<1>4. CASE ReadOrder(t) /\ ~ ThrowMove(t)
  <2> DEFINE o == mv[t].order
  <2>1. /\ mv[t] \in Opening /\ mv[t].pc = "read"
        /\ mv'[t].pc = IF mv[t].to \in Restocking THEN "restock" ELSE "update"
        /\ mv'[t].order = o /\ mv'[t].to = mv[t].to
        /\ mv'[t].pc = "restock" => mv'[t].todo = Wanted(orders[o].lines) /\ mv'[t].next \in mv'[t].todo
        /\ \A u \in MoveTx : u # t => mv'[u] = mv[u]
        /\ pending' = pending /\ orders' = orders
    BY <1>4, ReadOrderIs DEF skuVars
  <2>2. pending[t] = Nothing
    BY <1>0, <2>1 DEF OwesMove, Reverses
  <2>3. \A s \in Sku : s \notin Wanted(orders[o].lines) => orders[o].lines[s] = 0
    BY <2>1, IInvIs, TablesConstants DEF Wanted, Opening, OtherTablesOK, OrderRow, Quantities
  <2>4. CASE mv[t].to \in Restocking
    BY <2>1, <2>2, <2>3, <2>4, NothingIs DEF OwesMove, Reverses
  <2>5. CASE mv[t].to \notin Restocking
    BY <2>1, <2>2, <2>5 DEF OwesMove, Reverses
  <2> QED
    BY <2>1, <2>4, <2>5
<1>5. CASE Restock(t)
  <2> DEFINE m == mv[t]
             back == orders[m.order].lines[m.next]
  <2>1. /\ m \in Restoring /\ m.pc = "restock"
        /\ mv'[t].pc \in {"restock", "update"}
        /\ mv'[t].order = m.order /\ mv'[t].to = m.to
        /\ mv'[t].todo = m.todo \ {m.next}
        /\ mv'[t].pc = "restock" => mv'[t].next \in mv'[t].todo
        /\ \A u \in MoveTx : u # t => mv'[u] = mv[u]
        /\ orders' = orders
    BY <1>5, RestockIs
  <2>2. m.next \in Sku /\ back \in Nat
    BY <2>1, IInvIs, TablesConstants DEF Restoring, OtherTablesOK, OrderRow, Quantities
  <2>3. WriteRow(t, m.next, back) /\ back \in Int
    <3>1. WriteRow(t, m.next, back)
      BY <1>5, Zenon DEF Restock
    <3>2. \A n \in Nat : n \in Int
      OBVIOUS
    <3> QED
      BY <2>2, <3>1, <3>2
  <2> HIDE DEF back
  <2>4. /\ pending'[t][m.next] = pending[t][m.next] + back
        /\ \A x \in Sku : x # m.next => pending'[t][x] = pending[t][x]
        /\ \A u \in Tx : u # t => pending'[u] = pending[u]
    BY <1>0, <2>2, <2>3, WriteRowIs
  <2>5. /\ Reverses(t) /\ m.next \in m.todo
        /\ \A s \in Sku : pending[t][s] = IF s \in m.todo THEN 0 ELSE orders[m.order].lines[s]
    BY <1>0, <2>1 DEF OwesMove
  <2>6. pending'[t][m.next] = back
    BY <2>2, <2>4, <2>5
  <2>7. \A s \in Sku : pending'[t][s] = IF s \in m.todo \ {m.next} THEN 0 ELSE orders[m.order].lines[s]
    BY <2>4, <2>5, <2>6 DEF back
  <2>8. Reverses(t)'
    BY <2>1, <2>5 DEF Reverses
  <2> QED
    BY <2>1, <2>4, <2>7, <2>8 DEF OwesMove
<1>6. CASE UpdateStatus(t) /\ ~ ThrowMove(t)
  <2>1. /\ mv[t] \in Finishing /\ mv[t].pc = "update"
        /\ mv' = [mv EXCEPT ![t] = [mv[t] EXCEPT !.pc = "commit"]]
        /\ UNCHANGED <<pending, orders>>
    BY <1>0, <1>6, MvShape DEF UpdateStatus, tableVars
  <2>2. /\ mv'[t].pc = "commit" /\ mv'[t].order = mv[t].order /\ mv'[t].to = mv[t].to
        /\ mv'[t].todo = mv[t].todo
        /\ \A u \in MoveTx : u # t => mv'[u] = mv[u]
    BY <1>0, <2>1 DEF Finishing
  <2> QED
    BY <1>0, <2>1, <2>2 DEF OwesMove, Reverses
<1> QED
  BY <1>1, <1>2, <1>3, <1>4, <1>5, <1>6 DEF MoveStep

(* An adjustment owes its delta, between its UPDATE and its COMMIT.            *)
LEMMA OwesOfAdjust ==
    ASSUME IInv, PendingInv, NEW t \in StockTx, BeginAdjust(t) \/ AdjustStep(t) \/ ThrowAdjust(t)
    PROVE  /\ OwesAdjust(t)'
           /\ \A u \in Tx : u # t => pending'[u] = pending[u]
           /\ \A u \in StockTx : u # t => adj'[u] = adj[u]
           /\ orders' = orders
<1>0. /\ t \in Tx /\ RowsOK /\ adj \in [StockTx -> {None} \cup Requests] /\ OwesAdjust(t)
      /\ pending \in [Tx -> [Sku -> Int]]
  BY IInvIs, StockConstants DEF PendingInv, RowsOK, StockTypeOK
<1>1. CASE ThrowAdjust(t) \/ CommitAdjust(t)
  <2>1. pending'[t] = Nothing /\ \A u \in Tx : u # t => pending'[u] = pending[u]
    BY <1>0, <1>1, RowsEnded DEF ThrowAdjust, CommitAdjust
  <2>2. adj'[t].pc = "idle" /\ \A u \in StockTx : u # t => adj'[u] = adj[u]
    BY <1>0, <1>1 DEF ThrowAdjust, CommitAdjust, None
  <2>3. orders' = orders
    BY <1>1 DEF ThrowAdjust, CommitAdjust
  <2> QED
    BY <2>1, <2>2, <2>3, NothingIs DEF OwesAdjust, InAdjust
<1>2. CASE BeginAdjust(t)
  <2>1. PICK s \in Sku, d \in Deltas :
           adj' = [adj EXCEPT ![t] = [pc |-> "update", sku |-> s, delta |-> d]]
    BY <1>2 DEF BeginAdjust
  <2>2. /\ adj'[t].pc = "update" /\ adj'[t].delta \in Deltas /\ adj[t].pc = "idle"
        /\ \A u \in StockTx : u # t => adj'[u] = adj[u]
    BY <1>0, <1>2, <2>1 DEF BeginAdjust, None
  <2>3. pending' = pending /\ orders' = orders
    BY <1>2 DEF BeginAdjust, tableVars
  <2> QED
    BY <1>0, <2>2, <2>3 DEF OwesAdjust, InAdjust
<1>3. CASE AdjustStock(t) /\ ~ ThrowAdjust(t)
  <2> DEFINE a == adj[t]
  <2>1. /\ a \in Requests /\ a.pc = "update"
        /\ WriteRow(t, a.sku, a.delta)
        /\ adj' = [adj EXCEPT ![t] = [a EXCEPT !.pc = "commit"]]
        /\ orders' = orders
    BY <1>0, <1>3 DEF AdjustStock, None
  <2>2. a.sku \in Sku /\ a.delta \in Int /\ a.delta \in Deltas
    BY <1>0, <2>1 DEF Requests, OwesAdjust, InAdjust
  <2>3. /\ adj'[t].pc = "commit" /\ adj'[t].sku = a.sku /\ adj'[t].delta = a.delta
        /\ \A u \in StockTx : u # t => adj'[u] = adj[u]
    BY <1>0, <2>1 DEF Requests
  <2>4. /\ pending'[t][a.sku] = pending[t][a.sku] + a.delta
        /\ \A x \in Sku : x # a.sku => pending'[t][x] = pending[t][x]
        /\ \A u \in Tx : u # t => pending'[u] = pending[u]
    BY <1>0, <2>1, <2>2, WriteRowIs
  <2>5. \A s \in Sku : pending[t][s] = 0
    BY <1>0, <2>1 DEF OwesAdjust
  <2>6. pending'[t][a.sku] = a.delta
    BY <2>2, <2>4, <2>5
  <2> QED
    BY <2>1, <2>2, <2>3, <2>4, <2>5, <2>6 DEF OwesAdjust, InAdjust
<1> QED
  BY <1>1, <1>2, <1>3 DEF AdjustStep, AdjustStock

LEMMA PendingStep ==
    ASSUME IInv, PendingInv, [Next]_vars
    PROVE  PendingInv'
<1>0. /\ CheckoutTx \subseteq Tx /\ MoveTx \subseteq Tx /\ StockTx \subseteq Tx
      /\ CheckoutTx \cap MoveTx = {} /\ CheckoutTx \cap StockTx = {} /\ MoveTx \cap StockTx = {}
  BY ShopConstants
<1>1. ASSUME NEW t \in CheckoutTx, Begin(t) \/ CheckoutStep(t) \/ Throw(t), UNCHANGED <<orderVars, stockVars>>
      PROVE  PendingInv'
  <2>1. \A o \in DOMAIN orders : orders'[o].lines = orders[o].lines
    <3>1. CASE CommitCheckout(t)
      BY <3>1, CommitAddsOrder
    <3>2. CASE ~ CommitCheckout(t)
      BY <1>1, <3>2 DEF Begin, CheckoutStep, Throw, TakeStock, OutOfStock, ValidateCoupon, RejectCoupon,
                        LockCoupon, CountUsages, WriteOrder, DeleteCart, Cascade, Respond, tableVars
    <3> QED
      BY <3>1, <3>2
  <2>2. UNCHANGED <<mv, adj>>
    BY <1>1 DEF orderVars, stockVars
  <2> QED
    BY <1>0, <1>1, <2>1, <2>2, OwesOfCheckout, PendingAfter
<1>2. ASSUME NEW t \in CartTx, BeginEdit(t) \/ EditStep(t) \/ ThrowEdit(t),
             UNCHANGED <<checkoutVars, orderVars, stockVars>>
      PROVE  PendingInv'
  BY <1>2, IInvIs, EditSafe, PendingKept DEF skuVars, checkoutVars, orderVars, stockVars
<1>3. ASSUME NEW t \in MoveTx, UNCHANGED <<checkoutVars, stockVars>>,
             Callers(t) \/ (\E j \in Jobs : SweepNext(j, t)) \/ MoveStep(t) \/ ThrowMove(t)
      PROVE  PendingInv'
  <2>1. \A o \in DOMAIN orders : orders'[o].lines = orders[o].lines
    BY <1>3, MoveKeepsOrders
  <2>2. UNCHANGED <<co, adj>>
    BY <1>3 DEF checkoutVars, stockVars
  <2> QED
    BY <1>0, <1>3, <2>1, <2>2, OwesOfMove, PendingAfter
<1>4. ASSUME NEW j \in Jobs, Ripen(j) \/ Scan(j), UNCHANGED <<checkoutVars, stockVars>>
      PROVE  PendingInv'
  BY <1>4, PendingKept DEF Ripen, Scan, tableVars, checkoutVars, stockVars
<1>5. ASSUME NEW t \in StockTx, BeginAdjust(t) \/ AdjustStep(t) \/ ThrowAdjust(t),
             UNCHANGED <<checkoutVars, orderVars>>
      PROVE  PendingInv'
  <2>1. UNCHANGED <<co, mv>>
    BY <1>5 DEF checkoutVars, orderVars
  <2> QED
    BY <1>0, <1>5, <2>1, OwesOfAdjust, PendingAfter
<1>6. CASE Crash
  BY <1>0, <1>6, NothingIs
     DEF Crash, PendingInv, OwesCheckout, InCheckout, Untaken, OwesMove, Reverses, OwesAdjust, InAdjust, Idle, Rest, None
<1>7. CASE UNCHANGED vars
  BY <1>7, PendingKept DEF vars, tableVars, checkoutVars, orderVars, stockVars
<1> QED
  BY <1>1, <1>2, <1>3, <1>4, <1>5, <1>6, <1>7, Steps

LEMMA PendingAlways == Spec => []PendingInv
<1>1. Init => PendingInv
  BY NothingIs, ShopConstants
     DEF Init, CheckoutInit, OrderInit, StockInit, PendingInv, OwesCheckout, InCheckout, OwesMove, Reverses,
         OwesAdjust, InAdjust, Idle, Rest, None
<1>2. IInv /\ PendingInv /\ [Next]_vars => PendingInv'
  BY PendingStep
<1> QED
  BY <1>1, <1>2, Inductive, PTL DEF Spec

--------------------------------------------------------------------------------
(* The refinement: every COMMIT is one abstract step, and nothing else is.     *)

\* What Fulfilment sees of the orders table.
StatusSeen == [o \in Order |-> IF o \in DOMAIN orders THEN orders[o].status ELSE "NONE"]
LinesSeen  == [o \in Order |-> IF o \in DOMAIN orders THEN orders[o].lines ELSE Nothing]

\* A step that Fulfilment does not see.
Unseen == UNCHANGED <<stock, StatusSeen, LinesSeen, supplied>>

LEMMA InitImplements == Init => F!Init
<1> SUFFICES ASSUME Init PROVE F!Init
  OBVIOUS
<1>0. IInv
  BY InitSafe
<1>1. stock \in [Sku -> Int] /\ supplied \in [Sku -> Int] /\ \A s \in Sku : stock[s] >= 0
  BY <1>0, IInvIs DEF RowsOK, OtherTablesOK, RowsGuarded
<1>2. StatusSeen \in [Order -> Statuses \cup {"NONE"}] /\ LinesSeen \in [Order -> [Sku -> Nat]]
  BY <1>0, IInvIs, NothingIs, TablesConstants
     DEF OtherTablesOK, OrderRow, StatusSeen, LinesSeen, Quantities, Nothing
<1>3. F!TypeOK
  BY <1>1, <1>2 DEF F!TypeOK, F!Placed, Statuses, StatusSeen, LinesSeen
<1>4. ASSUME NEW s \in Sku
      PROVE  supplied[s] = stock[s] + Cardinality(UNION {{o} \X (1 .. LinesSeen[o][s]) :
                 o \in {p \in Order : StatusSeen[p] \in F!Placed \ F!Reversed}})
  <2>1. {p \in Order : StatusSeen[p] \in F!Placed \ F!Reversed} = DOMAIN Seed
    BY ShopConstants DEF Init, StatusSeen, F!Placed, F!Reversed
  <2>2. \A o \in DOMAIN Seed : LinesSeen[o] = Seed[o].lines
    BY ShopConstants DEF Init, LinesSeen
  <2>3. UNION {{o} \X (1 .. LinesSeen[o][s]) : o \in DOMAIN Seed}
          = UNION {{o} \X (1 .. Seed[o].lines[s]) : o \in DOMAIN Seed}
    BY <2>2
  <2>4. supplied[s] = stock[s] + HeldAtStart(s)
    BY DEF Init
  <2> QED
    BY <2>1, <2>3, <2>4 DEF HeldAtStart
<1>5. \A s \in Sku : supplied[s] = stock[s] + Cardinality(F!HeldUnits(s))
  BY <1>4 DEF F!HeldUnits, F!Holding, StatusSeen, LinesSeen
<1>6. \A s \in Sku : supplied[s] = stock[s] + F!Cardinality(F!HeldUnits(s))
  BY <1>5, SameSets
<1> QED
  BY <1>1, <1>3, <1>6 DEF F!Init

(* COMMIT of a checkout: the order takes all of its lines at once.             *)
LEMMA CheckoutImplements ==
    ASSUME IInv, PendingInv, NEW t \in CheckoutTx, CommitCheckout(t)
    PROVE  \E o \in Order : F!Place(o)
<1> DEFINE want == co[t].cart.lines
<1>0. /\ t \in Tx /\ RowsOK /\ co[t] \in Writing /\ orders \in [DOMAIN orders -> OrderRow]
  BY IInvIs, CheckoutConstants, CoShape DEF CommitCheckout, OtherTablesOK
<1>1. PICK o \in Order \ DOMAIN orders :
         /\ DOMAIN orders' = DOMAIN orders \cup {o}
         /\ \A p \in DOMAIN orders : orders'[p] = orders[p]
         /\ orders'[o].status = "PENDING" /\ orders'[o].lines = want
  BY CommitAddsOrder
<1>2. want \in Quantities /\ want \in [Sku -> Nat]
  BY <1>0, TablesConstants DEF Writing, Carts, Quantities
<1>3. \A s \in Sku : pending[t][s] = - want[s]
  BY <1>0 DEF PendingInv, OwesCheckout, InCheckout, Untaken, Writing
<1> HIDE DEF want
<1>4. stock' = [s \in Sku |-> stock[s] + pending[t][s]] /\ supplied' = supplied
  BY <1>0, RowsEnded DEF CommitCheckout
<1>5. stock' = [s \in Sku |-> stock[s] - want[s]]
  BY <1>0, <1>2, <1>3, <1>4 DEF RowsOK
<1>6. \A s \in Sku : want[s] <= stock[s]
  BY <1>0, <1>2, <1>3 DEF RowsOK, RowsGuarded
<1>7. StatusSeen[o] = "NONE" /\ StatusSeen' = [StatusSeen EXCEPT ![o] = "PENDING"]
  BY <1>1 DEF StatusSeen
<1>8. LinesSeen' = [LinesSeen EXCEPT ![o] = want]
  BY <1>1 DEF LinesSeen
<1> QED
  BY <1>2, <1>4, <1>5, <1>6, <1>7, <1>8 DEF F!Place, StatusSeen, LinesSeen

(* COMMIT of a transition: the status goes along the table, and the step that  *)
(* reverses the order is the step that gives all of its units back.            *)
LEMMA MoveImplements ==
    ASSUME IInv, LifeInv, PendingInv, NEW t \in MoveTx, CommitMove(t)
    PROVE  \E o \in Order : F!Move(o)
<1> DEFINE o == mv[t].order
           to == mv[t].to
<1>0. /\ t \in Tx /\ RowsOK /\ mv[t] \in Finishing /\ mv[t].pc = "commit"
      /\ orders \in [DOMAIN orders -> OrderRow] /\ DOMAIN orders \subseteq Order
  BY IInvIs, OrderConstants, MvShape DEF CommitMove, OtherTablesOK
<1>1. /\ o \in DOMAIN orders /\ o \in Order /\ to \in Statuses /\ mv[t].todo = {}
      /\ <<orders[o].status, to>> \in ALLOWED
  BY <1>0 DEF Finishing, LifeInv, MovesAllowed, HoldsOrder
<1>2. orders' = [orders EXCEPT ![o].status = to] /\ UNCHANGED supplied
  BY DEF CommitMove
<1>3. /\ \A s \in Sku : to \in Restocking => pending[t][s] = orders[o].lines[s]
      /\ to \notin Restocking => pending[t] = Nothing
  BY <1>0, <1>1 DEF PendingInv, OwesMove, Reverses
<1> HIDE DEF o, to
<1>4. stock' = [s \in Sku |-> stock[s] + pending[t][s]]
  BY <1>0, RowsEnded DEF CommitMove
<1>5. /\ StatusSeen[o] = orders[o].status /\ LinesSeen[o] = orders[o].lines
      /\ StatusSeen' = [StatusSeen EXCEPT ![o] = to] /\ LinesSeen' = LinesSeen
  BY <1>0, <1>1, <1>2 DEF StatusSeen, LinesSeen, OrderRow
<1>6. stock' = IF to \in Restocking THEN [s \in Sku |-> stock[s] + LinesSeen[o][s]] ELSE stock
  <2>1. CASE to \in Restocking
    BY <1>3, <1>4, <1>5, <2>1
  <2>2. CASE to \notin Restocking
    <3>1. stock \in [Sku -> Int]
      BY <1>0 DEF RowsOK
    <3>2. \A s \in Sku : stock[s] + pending[t][s] = stock[s]
      BY <1>3, <2>2, <3>1, NothingIs
    <3> QED
      BY <1>4, <2>2, <3>1, <3>2
  <2> QED
    BY <2>1, <2>2
<1>7. <<StatusSeen[o], to>> \in F!StatusTable /\ to \in F!Placed
  BY <1>1, <1>5 DEF F!StatusTable, F!Placed, ALLOWED, Statuses
<1> QED
  BY <1>1, <1>2, <1>5, <1>6, <1>7 DEF F!Move, F!Reversed, Restocking, StatusSeen, LinesSeen

(* COMMIT of an adjustment.                                                    *)
LEMMA AdjustImplements ==
    ASSUME IInv, PendingInv, NEW t \in StockTx, CommitAdjust(t)
    PROVE  \E s \in Sku : F!Adjust(s)
<1> DEFINE s == adj[t].sku
           d == adj[t].delta
<1>0. t \in Tx /\ RowsOK /\ adj[t] \in Requests /\ adj[t].pc = "commit"
  BY IInvIs, StockConstants DEF CommitAdjust, StockTypeOK, None
<1>1. s \in Sku /\ d \in Deltas /\ d \in Int
  BY <1>0, StockConstants DEF PendingInv, OwesAdjust, InAdjust, Requests
<1>2. \A x \in Sku : pending[t][x] = IF x = s THEN d ELSE 0
  BY <1>0 DEF PendingInv, OwesAdjust
<1>3. supplied' = [supplied EXCEPT ![s] = @ + d] /\ orders' = orders
  BY DEF CommitAdjust
<1> HIDE DEF s, d
<1>4. stock' = [x \in Sku |-> stock[x] + pending[t][x]]
  BY <1>0, RowsEnded DEF CommitAdjust
<1>5. stock' = [stock EXCEPT ![s] = @ + d]
  <2>1. stock \in [Sku -> Int]
    BY <1>0 DEF RowsOK
  <2>2. \A x \in Sku : stock[x] + pending[t][x] = [stock EXCEPT ![s] = @ + d][x]
    BY <1>1, <1>2, <2>1
  <2> QED
    BY <1>4, <2>1, <2>2
<1>6. stock[s] + d >= 0
  BY <1>0, <1>1, <1>2 DEF RowsOK, RowsGuarded
<1> QED
  BY <1>1, <1>3, <1>5, <1>6 DEF F!Adjust

(* A statement before the COMMIT, a rollback and a crash are not seen.         *)
LEMMA UnseenWhen ==
    ASSUME UNCHANGED <<stock, orders, supplied>>
    PROVE  Unseen
  BY DEF Unseen, StatusSeen, LinesSeen

LEMMA CheckoutUnseen ==
    ASSUME NEW t \in CheckoutTx, Begin(t) \/ CheckoutStep(t) \/ Throw(t), ~ CommitCheckout(t)
    PROVE  Unseen
<1>1. UNCHANGED <<stock, orders, supplied>>
  BY DEF Begin, CheckoutStep, Throw, TakeStock, OutOfStock, ValidateCoupon, RejectCoupon, LockCoupon,
         CountUsages, WriteOrder, DeleteCart, Cascade, Respond, tableVars, skuVars, RollbackRows, WriteRow
<1> QED
  BY <1>1, UnseenWhen

LEMMA MoveUnseen ==
    ASSUME NEW t \in MoveTx, ~ CommitMove(t),
           Callers(t) \/ (\E j \in Jobs : SweepNext(j, t)) \/ MoveStep(t) \/ ThrowMove(t)
    PROVE  Unseen
<1>1. UNCHANGED <<stock, orders, supplied>>
  BY DEF Callers, FireTimer, Webhook, Ship, Refund, SweepNext, MoveStep, ReadOutcome, ReadBefore, ReadOrder,
         Restock, UpdateStatus, ThrowMove, tableVars, skuVars, RollbackRows, WriteRow
<1> QED
  BY <1>1, UnseenWhen

LEMMA AdjustUnseen ==
    ASSUME NEW t \in StockTx, BeginAdjust(t) \/ AdjustStep(t) \/ ThrowAdjust(t), ~ CommitAdjust(t)
    PROVE  Unseen
<1>1. UNCHANGED <<stock, orders, supplied>>
  BY DEF BeginAdjust, AdjustStep, AdjustStock, ThrowAdjust, tableVars, RollbackRows, WriteRow
<1> QED
  BY <1>1, UnseenWhen

LEMMA StepImplements ==
    ASSUME IInv, LifeInv, PendingInv, [Next]_vars
    PROVE  [F!Next]_(F!vars)
<1>0. Unseen => UNCHANGED F!vars
  BY DEF Unseen, StatusSeen, LinesSeen, F!vars
<1>1. ASSUME NEW t \in CheckoutTx, Begin(t) \/ CheckoutStep(t) \/ Throw(t)
      PROVE  F!Next \/ UNCHANGED F!vars
  <2>1. CASE CommitCheckout(t)
    BY <2>1, CheckoutImplements DEF F!Next
  <2>2. CASE ~ CommitCheckout(t)
    BY <1>0, <1>1, <2>2, CheckoutUnseen
  <2> QED
    BY <2>1, <2>2
<1>2. ASSUME NEW t \in CartTx, BeginEdit(t) \/ EditStep(t) \/ ThrowEdit(t) PROVE UNCHANGED F!vars
  BY <1>0, <1>2, IInvIs, EditSafe, UnseenWhen DEF skuVars
<1>3. ASSUME NEW t \in MoveTx,
             Callers(t) \/ (\E j \in Jobs : SweepNext(j, t)) \/ MoveStep(t) \/ ThrowMove(t)
      PROVE  F!Next \/ UNCHANGED F!vars
  <2>1. CASE CommitMove(t)
    BY <2>1, MoveImplements DEF F!Next
  <2>2. CASE ~ CommitMove(t)
    BY <1>0, <1>3, <2>2, MoveUnseen
  <2> QED
    BY <2>1, <2>2
<1>4. ASSUME NEW j \in Jobs, Ripen(j) \/ Scan(j) PROVE UNCHANGED F!vars
  BY <1>0, <1>4, UnseenWhen DEF Ripen, Scan, tableVars
<1>5. ASSUME NEW t \in StockTx, BeginAdjust(t) \/ AdjustStep(t) \/ ThrowAdjust(t)
      PROVE  F!Next \/ UNCHANGED F!vars
  <2>1. CASE CommitAdjust(t)
    BY <2>1, AdjustImplements DEF F!Next
  <2>2. CASE ~ CommitAdjust(t)
    BY <1>0, <1>5, <2>2, AdjustUnseen
  <2> QED
    BY <2>1, <2>2
<1>6. CASE Crash
  BY <1>0, <1>6, UnseenWhen DEF Crash
<1>7. CASE UNCHANGED vars
  BY <1>0, <1>7, UnseenWhen DEF vars, tableVars
<1> QED
  BY <1>1, <1>2, <1>3, <1>4, <1>5, <1>6, <1>7, Steps

(* The transactions, statement by statement, with their rollbacks and crashes, *)
(* are the shop that takes all the lines of an order at once, moves orders     *)
(* along the table, and gives the units of an order back exactly once.         *)
THEOREM ShopImplementsFulfilment == Spec => ImplementsFulfilment
<1>1. Init => F!Init
  BY InitImplements
<1>2. IInv /\ LifeInv /\ PendingInv /\ [Next]_vars => [F!Next]_(F!vars)
  BY StepImplements
<1> QED
  BY <1>1, <1>2, Inductive, LifeAlways, PendingAlways, PTL DEF Spec, ImplementsFulfilment, F!Spec

(* So every unit that entered the shop is on the shelf or in exactly one order *)
(* that is neither cancelled nor refunded, after every statement, whatever is  *)
(* rolled back, deadlocks or crashes in between.                               *)
THEOREM ShopConservesUnits == Spec => []F!StockConserved
<1>1. P!Spec => []P!StockConserved
  BY ConstantsSeen, P!UnitsConserved, PTL
<1> USE DEF P!Placed, F!Placed, P!Reversed, F!Reversed
<1>2. F!Init => P!Init
  BY DEF P!Init, F!Init, P!TypeOK, F!TypeOK, P!HeldUnits, F!HeldUnits, P!Holding, F!Holding,
         P!Cardinality, F!Cardinality
<1>3. [F!Next]_(F!vars) => [P!Next]_(P!vars)
  BY DEF P!Next, F!Next, P!vars, F!vars, P!Place, F!Place, P!Move, F!Move, P!Adjust, F!Adjust,
         P!StatusTable, F!StatusTable
<1>4. P!StockConserved => F!StockConserved
  BY DEF P!StockConserved, F!StockConserved, P!HeldUnits, F!HeldUnits, P!Holding, F!Holding,
         P!Cardinality, F!Cardinality
<1> QED
  BY <1>1, <1>2, <1>3, <1>4, ShopImplementsFulfilment, PTL DEF ImplementsFulfilment, F!Spec, P!Spec

--------------------------------------------------------------------------------
(* Who holds what. A transaction holds the rows it has written, the coupon it  *)
(* counts, the cart it has deleted and the order it has updated: just these,   *)
(* and nobody once it is over.                                                 *)

TakenByCheckout(t) == {s \in Sku : InCheckout(t) /\ co[t].cart.lines[s] > 0 /\ s \notin Untaken(t)}
TakenByMove(t)     == {s \in Sku : Reverses(t) /\ orders[mv[t].order].lines[s] > 0 /\ s \notin mv[t].todo}
TakenByAdjust(t)   == {s \in Sku : adj[t].pc = "commit" /\ s = adj[t].sku}

RowsOf(t)       == {s \in Sku : skuLock[s] = t}
HasCoupon(t, c) == co[t].pc \in {"count", "write", "cart", "cascade", "commit"} /\ co[t].code = c
HasCart(t, u)   == co[t].pc \in {"cascade", "commit"} /\ co[t].user = u
HasOrder(t, o)  == mv[t].pc = "commit" /\ mv[t].order = o

HoldsOfCheckout(t) ==
    /\ co[t].pc = "stock" => co[t].todo \subseteq Wanted(co[t].cart.lines)
    /\ RowsOf(t) = TakenByCheckout(t)
    /\ \A c \in Coupon : couponLock[c] = t <=> HasCoupon(t, c)
    /\ \A u \in User : cartLock[u] = t <=> HasCart(t, u)

HoldsOfMove(t) ==
    /\ mv[t].pc = "restock" => mv[t].todo \subseteq Wanted(orders[mv[t].order].lines)
    /\ RowsOf(t) = TakenByMove(t)
    /\ \A o \in Order : orderLock[o] = t <=> HasOrder(t, o)

HoldsOfAdjust(t) == RowsOf(t) = TakenByAdjust(t)

LockInv ==
    /\ \A t \in CheckoutTx : HoldsOfCheckout(t)
    /\ \A t \in MoveTx : HoldsOfMove(t)
    /\ \A t \in StockTx : HoldsOfAdjust(t)
    /\ \A t \in CartTx : RowsOf(t) = {}

\* What a step of transaction t leaves alone: the locks of everyone else.
OthersHold(t) ==
    \A u \in Tx \ {t} :
        /\ RowsOf(u)' = RowsOf(u)
        /\ \A c \in Coupon : couponLock'[c] = u <=> couponLock[c] = u
        /\ \A x \in User : cartLock'[x] = u <=> cartLock[x] = u
        /\ \A o \in Order : orderLock'[o] = u <=> orderLock[o] = u

(* A statement takes the row it writes, from nobody.                           *)
LEMMA RowTaken ==
    ASSUME RowsOK, NEW t \in Tx, NEW s \in Sku, NEW d, WriteRow(t, s, d)
    PROVE  /\ RowsOf(t)' = RowsOf(t) \cup {s}
           /\ \A u \in Tx \ {t} : RowsOf(u)' = RowsOf(u)
<1>1. skuLock' = [skuLock EXCEPT ![s] = t] /\ skuLock[s] \in {t, NoTx} /\ skuLock \in [Sku -> Tx \cup {NoTx}]
  BY DEF WriteRow, HeldByOther, RowsOK
<1> QED
  BY <1>1, TablesConstants DEF RowsOf

(* COMMIT and ROLLBACK free the rows of the transaction, and no others.        *)
LEMMA RowsFreed ==
    ASSUME RowsOK, NEW t \in Tx, CommitRows(t) \/ RollbackRows(t)
    PROVE  /\ RowsOf(t)' = {}
           /\ \A u \in Tx \ {t} : RowsOf(u)' = RowsOf(u)
<1>1. skuLock' = [s \in Sku |-> IF skuLock[s] = t THEN NoTx ELSE skuLock[s]]
  BY DEF CommitRows, RollbackRows, FreeRows
<1> QED
  BY <1>1, TablesConstants DEF RowsOf

(* ... and so with the coupons and the carts of a checkout.                    *)
LEMMA AdvisoryFreed ==
    ASSUME LocksOK, NEW t \in CheckoutTx, FreeCoupons(t), FreeCarts(t)
    PROVE  /\ \A c \in Coupon : couponLock'[c] # t
           /\ \A x \in User : cartLock'[x] # t
           /\ \A u \in Tx \ {t} :
                 /\ \A c \in Coupon : couponLock'[c] = u <=> couponLock[c] = u
                 /\ \A x \in User : cartLock'[x] = u <=> cartLock[x] = u
<1>1. t \in Tx /\ NoTx \notin Tx
  BY CheckoutConstants, TablesConstants
<1> QED
  BY <1>1 DEF LocksOK, FreeCoupons, FreeCarts

(* A checkout that has no call under way needs to hold nothing.                *)
LEMMA NothingHeld ==
    ASSUME NEW t \in CheckoutTx, co'[t].pc \in {"idle", "respond"}, RowsOf(t)' = {},
           \A c \in Coupon : couponLock'[c] # t,
           \A x \in User : cartLock'[x] # t
    PROVE  HoldsOfCheckout(t)'
<1>1. TakenByCheckout(t)' = {}
  BY DEF TakenByCheckout, InCheckout
<1> QED
  BY <1>1 DEF HoldsOfCheckout, HasCoupon, HasCart

(* One transaction steps and holds what it should; the others hold what they   *)
(* held, for the lines of an order never change.                               *)
LEMMA LocksAfter ==
    ASSUME IInv, LockInv, NEW t \in Tx \ CartTx, OthersHold(t),
           \A u \in CheckoutTx : u # t => co'[u] = co[u],
           \A u \in MoveTx : u # t => mv'[u] = mv[u],
           \A u \in StockTx : u # t => adj'[u] = adj[u],
           \A o \in DOMAIN orders : orders'[o].lines = orders[o].lines,
           t \in CheckoutTx => HoldsOfCheckout(t)',
           t \in MoveTx => HoldsOfMove(t)',
           t \in StockTx => HoldsOfAdjust(t)'
    PROVE  LockInv'
<1>0. CheckoutTx \subseteq Tx /\ MoveTx \subseteq Tx /\ StockTx \subseteq Tx
  BY CheckoutConstants, OrderConstants, StockConstants
<1>1. ASSUME NEW u \in CheckoutTx, u # t PROVE HoldsOfCheckout(u)'
  <2>1. co'[u] = co[u] /\ HoldsOfCheckout(u)
    BY <1>1 DEF LockInv
  <2>2. /\ RowsOf(u)' = RowsOf(u)
        /\ \A c \in Coupon : couponLock'[c] = u <=> couponLock[c] = u
        /\ \A x \in User : cartLock'[x] = u <=> cartLock[x] = u
    BY <1>0, <1>1 DEF OthersHold
  <2>3. /\ TakenByCheckout(u)' = TakenByCheckout(u)
        /\ \A c : HasCoupon(u, c)' <=> HasCoupon(u, c)
        /\ \A x : HasCart(u, x)' <=> HasCart(u, x)
    BY <2>1 DEF TakenByCheckout, InCheckout, Untaken, HasCoupon, HasCart
  <2>4. Wanted(co[u].cart.lines)' = Wanted(co[u].cart.lines)
    BY <2>1 DEF Wanted
  <2> QED
    BY <2>1, <2>2, <2>3, <2>4 DEF HoldsOfCheckout
<1>2. ASSUME NEW u \in MoveTx, u # t PROVE HoldsOfMove(u)'
  <2>1. mv'[u] = mv[u] /\ HoldsOfMove(u)
    BY <1>2 DEF LockInv
  <2>2. RowsOf(u)' = RowsOf(u) /\ \A o \in Order : orderLock'[o] = u <=> orderLock[o] = u
    BY <1>0, <1>2 DEF OthersHold
  <2>3. Reverses(u) => orders'[mv[u].order].lines = orders[mv[u].order].lines
    BY MvShape, IInvIs DEF Reverses, Restoring, Finishing
  <2>4. TakenByMove(u)' = TakenByMove(u)
    BY <2>1, <2>3 DEF TakenByMove, Reverses
  <2>5. \A o : HasOrder(u, o)' <=> HasOrder(u, o)
    BY <2>1 DEF HasOrder
  <2>6. mv[u].pc = "restock" => orders'[mv[u].order].lines = orders[mv[u].order].lines
    BY MvShape, IInvIs DEF Restoring
  <2>7. mv[u].pc = "restock" => Wanted(orders[mv[u].order].lines)' = Wanted(orders[mv[u].order].lines)
    BY <2>1, <2>6 DEF Wanted
  <2> QED
    BY <2>1, <2>2, <2>4, <2>5, <2>7 DEF HoldsOfMove
<1>3. ASSUME NEW u \in StockTx, u # t PROVE HoldsOfAdjust(u)'
  <2>1. adj'[u] = adj[u] /\ HoldsOfAdjust(u) /\ RowsOf(u)' = RowsOf(u)
    BY <1>0, <1>3 DEF LockInv, OthersHold
  <2> QED
    BY <2>1 DEF HoldsOfAdjust, TakenByAdjust
<1>4. ASSUME NEW u \in CartTx PROVE RowsOf(u)' = {}
  BY CheckoutConstants DEF LockInv, OthersHold
<1> QED
  BY <1>1, <1>2, <1>3, <1>4 DEF LockInv

(* Nothing that LockInv looks at has changed.                                  *)
LEMMA LocksKept ==
    ASSUME LockInv, UNCHANGED <<skuLock, orders, co, mv, adj, couponLock, cartLock, orderLock>>
    PROVE  LockInv'
<1>1. ASSUME NEW t \in CheckoutTx PROVE HoldsOfCheckout(t)'
  BY DEF LockInv, HoldsOfCheckout, TakenByCheckout, InCheckout, Untaken, RowsOf, HasCoupon, HasCart, Wanted
<1>2. ASSUME NEW t \in MoveTx PROVE HoldsOfMove(t)'
  BY DEF LockInv, HoldsOfMove, TakenByMove, Reverses, RowsOf, HasOrder, Wanted
<1>3. ASSUME NEW t \in StockTx PROVE HoldsOfAdjust(t)'
  BY DEF LockInv, HoldsOfAdjust, TakenByAdjust, RowsOf
<1>4. ASSUME NEW t \in CartTx PROVE RowsOf(t)' = {}
  BY DEF LockInv, RowsOf
<1> QED
  BY <1>1, <1>2, <1>3, <1>4 DEF LockInv

(* A checkout holds the rows of the items it has taken.                        *)
LEMMA LocksOfTakeStock ==
    ASSUME IInv, PendingInv, LockInv, NEW t \in CheckoutTx, TakeStock(t), orderLock' = orderLock
    PROVE  HoldsOfCheckout(t)' /\ OthersHold(t)
<1> DEFINE c == co[t]
<1>1. /\ c \in Taking /\ c.pc = "stock" /\ t \in Tx /\ RowsOK
      /\ co'[t].pc \in {"stock", "validate", "write"} /\ co'[t].cart = c.cart /\ co'[t].code = c.code
      /\ co'[t].pc = "write" => c.code = NoCoupon
      /\ co'[t].todo = c.todo \ {c.next}
  <2>1. c.pc = "stock" /\ t \in Tx /\ RowsOK
    BY CheckoutConstants, IInvIs DEF TakeStock
  <2> QED
    BY <2>1, TakeStockIs
<1>2. c.next \in c.todo /\ c.todo \subseteq Wanted(c.cart.lines) /\ RowsOf(t) = TakenByCheckout(t)
  BY <1>1 DEF PendingInv, OwesCheckout, InCheckout, LockInv, HoldsOfCheckout
<1>3. UNCHANGED <<couponLock, cartLock>> /\ \E d : WriteRow(t, c.next, d)
  <2>1. UNCHANGED <<couponLock, cartLock>> /\ WriteRow(t, c.next, - c.cart.lines[c.next])
    BY DEF TakeStock
  <2> QED
    BY <2>1
<1>4. c.next \in Sku
  BY <1>1 DEF Taking
<1>5. /\ RowsOf(t)' = RowsOf(t) \cup {c.next}
      /\ \A u \in Tx \ {t} : RowsOf(u)' = RowsOf(u)
  BY <1>1, <1>3, <1>4, RowTaken
<1>6. /\ TakenByCheckout(t) = {s \in Sku : c.cart.lines[s] > 0 /\ s \notin c.todo}
      /\ TakenByCheckout(t)' = {s \in Sku : c.cart.lines[s] > 0 /\ s \notin c.todo \ {c.next}}
  BY <1>1 DEF TakenByCheckout, InCheckout, Untaken
<1>7. RowsOf(t)' = TakenByCheckout(t)'
  BY <1>2, <1>4, <1>5, <1>6 DEF Wanted
<1>8. Wanted(co[t].cart.lines)' = Wanted(c.cart.lines) /\ co'[t].todo \subseteq Wanted(c.cart.lines)
  BY <1>1, <1>2 DEF Wanted
<1>9. /\ \A x \in Coupon : couponLock'[x] = t <=> HasCoupon(t, x)'
      /\ \A u \in User : cartLock'[u] = t <=> HasCart(t, u)'
  BY <1>1, <1>3, TablesConstants DEF LockInv, HoldsOfCheckout, HasCoupon, HasCart
<1> QED
  BY <1>3, <1>5, <1>7, <1>8, <1>9 DEF HoldsOfCheckout, OthersHold

(* Between two statements that take no row it holds the coupon from the lock   *)
(* on, ...                                                                     *)
LEMMA LocksOfGoto ==
    ASSUME IInv, LockInv, NEW t \in CheckoutTx, orderLock' = orderLock, ~ Throw(t),
           ValidateCoupon(t) \/ LockCoupon(t) \/ CountUsages(t) \/ WriteOrder(t)
    PROVE  HoldsOfCheckout(t)' /\ OthersHold(t)
<1>0. /\ t \in Tx /\ co \in [CheckoutTx -> CoStates] /\ HoldsOfCheckout(t) /\ LocksOK
  BY IInvIs, CheckoutConstants DEF LockInv
<1>1. PICK pc \in {"lock", "count", "write", "cart"} :
         /\ Goto(t, pc) /\ UNCHANGED tableVars /\ co[t] \in Couponing \cup Writing
         /\ co[t].pc # "cascade"
  BY <1>0, CoShape DEF ValidateCoupon, LockCoupon, CountUsages, WriteOrder
<1>2. /\ co'[t].pc = pc /\ co'[t].cart = co[t].cart /\ co'[t].todo = co[t].todo
      /\ co'[t].code = co[t].code /\ co'[t].user = co[t].user
  BY <1>0, <1>1, GotoIs
<1>3. InCheckout(t) /\ InCheckout(t)' /\ skuLock' = skuLock /\ Untaken(t)' = Untaken(t)
  BY <1>1, <1>2 DEF InCheckout, Untaken, Couponing, Writing, tableVars
<1>4. RowsOf(t)' = TakenByCheckout(t)' /\ \A u : RowsOf(u)' = RowsOf(u)
  BY <1>0, <1>2, <1>3 DEF HoldsOfCheckout, RowsOf, TakenByCheckout
<1>5. CASE ValidateCoupon(t)
  <2>1. co[t].pc = "validate" /\ co'[t].pc = "lock" /\ UNCHANGED <<couponLock, cartLock>>
    BY <1>0, <1>1, <1>5, GotoIs DEF ValidateCoupon
  <2> QED
    BY <1>0, <1>4, <2>1 DEF HoldsOfCheckout, OthersHold, HasCoupon, HasCart
<1>6. CASE LockCoupon(t)
  <2>1. /\ co[t].pc = "lock" /\ co'[t].pc = "count" /\ cartLock' = cartLock
        /\ couponLock[co[t].code] = NoTx /\ couponLock' = [couponLock EXCEPT ![co[t].code] = t]
    BY <1>0, <1>1, <1>6, GotoIs DEF LockCoupon
  <2>2. co[t].code \in Coupon
    BY <1>0, <2>1, CoShape DEF Couponing
  <2>3. \A c \in Coupon : couponLock[c] # t
    BY <1>0, <2>1 DEF HoldsOfCheckout, HasCoupon
  <2>4. \A c \in Coupon : couponLock'[c] = t <=> c = co[t].code
    BY <1>0, <2>1, <2>2, <2>3 DEF LocksOK
  <2>5. \A u \in Tx \ {t}, c \in Coupon : couponLock'[c] = u <=> couponLock[c] = u
    BY <1>0, <2>1, <2>2, TablesConstants DEF LocksOK
  <2>6. HoldsOfCheckout(t)'
    BY <1>0, <1>2, <1>4, <2>1, <2>4 DEF HoldsOfCheckout, HasCoupon, HasCart
  <2> QED
    BY <1>4, <2>1, <2>5, <2>6 DEF OthersHold
<1>7. CASE CountUsages(t)
  <2>1. co[t].pc = "count" /\ co'[t].pc = "write" /\ UNCHANGED <<couponLock, cartLock>>
    BY <1>0, <1>1, <1>7, GotoIs DEF CountUsages
  <2> QED
    BY <1>0, <1>2, <1>4, <2>1 DEF HoldsOfCheckout, OthersHold, HasCoupon, HasCart
<1>8. CASE WriteOrder(t)
  <2>1. co[t].pc = "write" /\ co'[t].pc = "cart" /\ UNCHANGED <<couponLock, cartLock>>
    BY <1>0, <1>1, <1>8, GotoIs DEF WriteOrder
  <2> QED
    BY <1>0, <1>2, <1>4, <2>1 DEF HoldsOfCheckout, OthersHold, HasCoupon, HasCart
<1> QED
  BY <1>5, <1>6, <1>7, <1>8

(* ... and the cart from the DELETE on, while its lines go.                    *)
LEMMA LocksOfDelete ==
    ASSUME IInv, LockInv, NEW t \in CheckoutTx, orderLock' = orderLock,
           (DeleteCart(t) /\ ~ Throw(t)) \/ Cascade(t)
    PROVE  HoldsOfCheckout(t)' /\ OthersHold(t)
<1>0. /\ t \in Tx /\ co \in [CheckoutTx -> CoStates] /\ HoldsOfCheckout(t) /\ LocksOK
  BY IInvIs, CheckoutConstants DEF LockInv
<1>1. /\ co'[t].pc \in {"cascade", "commit"} /\ UNCHANGED <<tableVars, couponLock>>
      /\ co'[t].user = co[t].user /\ co'[t].cart = co[t].cart /\ co'[t].code = co[t].code
      /\ co'[t].pc = "commit" => co'[t].todo = {}
      /\ InCheckout(t) /\ Untaken(t) = {} /\ co[t].user \in User
      /\ co[t].pc \in {"count", "write", "cart", "cascade", "commit"}
  BY DeleteCartIs, CascadeIs DEF InCheckout, Untaken, Writing, Cascading
<1>2. RowsOf(t)' = TakenByCheckout(t)' /\ \A u : RowsOf(u)' = RowsOf(u)
  <2>1. skuLock' = skuLock /\ InCheckout(t)' /\ Untaken(t)' = {}
    BY <1>1 DEF tableVars, skuVars, InCheckout, Untaken
  <2>2. TakenByCheckout(t)' = TakenByCheckout(t)
    BY <1>1, <2>1 DEF TakenByCheckout
  <2> QED
    BY <1>0, <2>1, <2>2 DEF HoldsOfCheckout, RowsOf
<1>3. /\ \A c \in Coupon : couponLock'[c] = t <=> HasCoupon(t, c)'
      /\ \A u \in Tx \ {t}, c \in Coupon : couponLock'[c] = u <=> couponLock[c] = u
  BY <1>0, <1>1 DEF HoldsOfCheckout, HasCoupon
<1>4. /\ \A x \in User : cartLock'[x] = t <=> HasCart(t, x)'
      /\ \A u \in Tx \ {t}, x \in User : cartLock'[x] = u <=> cartLock[x] = u
  <2>1. CASE DeleteCart(t) /\ ~ Throw(t)
    <3>1. /\ co[t].pc = "cart" /\ cartLock[co[t].user] = NoTx
          /\ cartLock' = [cartLock EXCEPT ![co[t].user] = t]
      BY <2>1, DeleteCartIs
    <3>2. \A x \in User : cartLock[x] # t
      BY <1>0, <3>1 DEF HoldsOfCheckout, HasCart
    <3>3. \A x \in User : cartLock'[x] = t <=> x = co[t].user
      BY <1>0, <1>1, <3>1, <3>2 DEF LocksOK
    <3>4. \A u \in Tx \ {t}, x \in User : cartLock'[x] = u <=> cartLock[x] = u
      BY <1>0, <1>1, <3>1, TablesConstants DEF LocksOK
    <3> QED
      BY <1>1, <3>3, <3>4 DEF HasCart
  <2>2. CASE Cascade(t)
    <3>1. co[t].pc = "cascade" /\ cartLock' = cartLock
      BY <2>2, CascadeIs DEF Cascading
    <3> QED
      BY <1>0, <1>1, <3>1 DEF HoldsOfCheckout, HasCart
  <2> QED
    BY <2>1, <2>2
<1>5. co'[t].pc # "stock"
  BY <1>1
<1> QED
  BY <1>2, <1>3, <1>4, <1>5 DEF HoldsOfCheckout, OthersHold

LEMMA LocksOfCheckout ==
    ASSUME IInv, PendingInv, LockInv, NEW t \in CheckoutTx, orderLock' = orderLock,
           Begin(t) \/ CheckoutStep(t) \/ Throw(t)
    PROVE  HoldsOfCheckout(t)' /\ OthersHold(t)
<1>0. /\ t \in Tx /\ RowsOK /\ LocksOK /\ co \in [CheckoutTx -> CoStates] /\ HoldsOfCheckout(t)
  BY IInvIs, CheckoutConstants DEF LockInv
<1>1. CASE Throw(t) \/ CommitCheckout(t)
  <2>1. co'[t].pc \in {"idle", "respond"}
    BY <1>0, <1>1 DEF Throw, CommitCheckout, Idle
  <2>2. /\ RowsOf(t)' = {}
        /\ \A u \in Tx \ {t} : RowsOf(u)' = RowsOf(u)
    BY <1>0, <1>1, RowsFreed DEF Throw, CommitCheckout
  <2>3. FreeCoupons(t) /\ FreeCarts(t)
    BY <1>1 DEF Throw, CommitCheckout
  <2>4. /\ \A c \in Coupon : couponLock'[c] # t
        /\ \A x \in User : cartLock'[x] # t
        /\ \A u \in Tx \ {t} :
              /\ \A c \in Coupon : couponLock'[c] = u <=> couponLock[c] = u
              /\ \A x \in User : cartLock'[x] = u <=> cartLock[x] = u
    BY <1>0, <2>3, AdvisoryFreed
  <2>5. HoldsOfCheckout(t)'
    BY <2>1, <2>2, <2>4, NothingHeld
  <2> QED
    BY <2>2, <2>4, <2>5 DEF OthersHold
<1>2. CASE Respond(t)
  <2>1. /\ co[t].pc = "respond" /\ UNCHANGED <<skuLock, couponLock, cartLock>>
        /\ co'[t].pc = "idle"
    BY <1>0, <1>2 DEF Respond, skuVars, Idle
  <2>2. RowsOf(t) = {} /\ \A u : RowsOf(u)' = RowsOf(u)
    BY <1>0, <2>1 DEF HoldsOfCheckout, TakenByCheckout, InCheckout, Untaken, RowsOf
  <2>3. (\A c \in Coupon : couponLock[c] # t) /\ (\A x \in User : cartLock[x] # t)
    BY <1>0, <2>1 DEF HoldsOfCheckout, HasCoupon, HasCart
  <2> QED
    BY <2>1, <2>2, <2>3, NothingHeld DEF OthersHold
<1>3. CASE Begin(t)
  <2>1. co[t].pc = "idle" /\ UNCHANGED <<skuLock, couponLock, cartLock>>
    BY <1>3 DEF Begin, tableVars, Idle
  <2>2. PICK u \in User, code \in Coupon \cup {NoCoupon}, mode \in Modes :
           \E first \in Wanted(cart[u].lines) :
              co' = [co EXCEPT ![t] = [pc |-> "stock", user |-> u, cart |-> cart[u],
                                       todo |-> Wanted(cart[u].lines), next |-> first,
                                       code |-> code, mode |-> mode]]
    BY <1>3 DEF Begin
  <2>3. co'[t].pc = "stock" /\ co'[t].cart = cart[u] /\ co'[t].todo = Wanted(cart[u].lines)
    BY <1>0, <2>2
  <2>4. RowsOf(t) = {} /\ \A v : RowsOf(v)' = RowsOf(v)
    BY <1>0, <2>1 DEF HoldsOfCheckout, TakenByCheckout, InCheckout, Untaken, RowsOf
  <2>5. TakenByCheckout(t)' = {} /\ Wanted(co[t].cart.lines)' = Wanted(cart[u].lines)
    BY <2>3 DEF TakenByCheckout, Untaken, Wanted
  <2>6. (\A c \in Coupon : couponLock[c] # t) /\ (\A x \in User : cartLock[x] # t)
    BY <1>0, <2>1 DEF HoldsOfCheckout, HasCoupon, HasCart
  <2>7. HoldsOfCheckout(t)'
    BY <2>1, <2>3, <2>4, <2>5, <2>6 DEF HoldsOfCheckout, HasCoupon, HasCart
  <2> QED
    BY <2>1, <2>4, <2>7 DEF OthersHold
<1>4. CASE TakeStock(t)
  BY <1>4, LocksOfTakeStock
<1>5. CASE /\ ValidateCoupon(t) \/ LockCoupon(t) \/ CountUsages(t) \/ WriteOrder(t)
           /\ ~ Throw(t)
  BY <1>5, LocksOfGoto
<1>6. CASE (DeleteCart(t) /\ ~ Throw(t)) \/ Cascade(t)
  BY <1>6, LocksOfDelete
<1> QED
  BY <1>1, <1>2, <1>3, <1>4, <1>5, <1>6 DEF CheckoutStep, RejectCoupon, OutOfStock

LEMMA LocksOfMove ==
    ASSUME IInv, PendingInv, LockInv, NEW t \in MoveTx, UNCHANGED <<couponLock, cartLock>>,
           Callers(t) \/ (\E j \in Jobs : SweepNext(j, t)) \/ MoveStep(t) \/ ThrowMove(t)
    PROVE  HoldsOfMove(t)' /\ OthersHold(t)
<1>0. /\ t \in Tx /\ RowsOK /\ mv \in [MoveTx -> MvStates] /\ HoldsOfMove(t) /\ OwesMove(t)
      /\ orderLock \in [Order -> MoveTx \cup {NoTx}] /\ NoTx \notin Tx
  BY IInvIs, OrderConstants, TablesConstants DEF LockInv, PendingInv, RecordsOK
<1>1. CASE ThrowMove(t) \/ CommitMove(t)
  <2>1. mv'[t].pc = "idle"
    BY <1>0, <1>1, ThrowMoveIs DEF CommitMove, Rest
  <2>2. RowsOf(t)' = {} /\ \A u \in Tx \ {t} : RowsOf(u)' = RowsOf(u)
    BY <1>0, <1>1, RowsFreed DEF ThrowMove, CommitMove
  <2>3. /\ \A o \in Order : orderLock'[o] # t
        /\ \A u \in Tx \ {t}, o \in Order : orderLock'[o] = u <=> orderLock[o] = u
    <3>1. CASE ThrowMove(t)
      BY <1>0, <3>1 DEF ThrowMove
    <3>2. CASE CommitMove(t)
      <4>1. /\ mv[t].pc = "commit" /\ mv[t] \in Finishing
            /\ orderLock' = [orderLock EXCEPT ![mv[t].order] = NoTx]
        BY <1>0, <3>2, MvShape DEF CommitMove
      <4>2. \A o \in Order : orderLock[o] = t <=> mv[t].order = o
        BY <1>0, <4>1 DEF HoldsOfMove, HasOrder
      <4> QED
        BY <1>0, <4>1, <4>2
    <3> QED
      BY <1>1, <3>1, <3>2
  <2>4. TakenByMove(t)' = {}
    BY <2>1 DEF TakenByMove, Reverses
  <2> QED
    BY <2>1, <2>2, <2>3, <2>4 DEF HoldsOfMove, OthersHold, HasOrder
<1>2. CASE \/ Callers(t) \/ (\E j \in Jobs : SweepNext(j, t))
           \/ ReadOutcome(t) \/ ReadBefore(t)
  <2>1. /\ mv[t].pc \notin {"restock", "update", "commit"}
        /\ mv'[t].pc \notin {"restock", "update", "commit"}
        /\ UNCHANGED <<skuLock, orderLock>>
    BY <1>2, CallersAre, ReadsAre DEF skuVars
  <2>2. TakenByMove(t) = {} /\ TakenByMove(t)' = {} /\ \A u : RowsOf(u)' = RowsOf(u)
    BY <2>1 DEF TakenByMove, Reverses, RowsOf
  <2> QED
    BY <1>0, <2>1, <2>2 DEF HoldsOfMove, OthersHold, HasOrder
<1>3. CASE ReadOrder(t) /\ ~ ThrowMove(t)
  <2> DEFINE o == mv[t].order
  <2>1. /\ mv[t].pc = "read"
        /\ mv'[t].pc = IF mv[t].to \in Restocking THEN "restock" ELSE "update"
        /\ mv'[t].order = o /\ mv'[t].to = mv[t].to
        /\ mv'[t].pc = "restock" => mv'[t].todo = Wanted(orders[o].lines)
        /\ UNCHANGED <<skuLock, orders, orderLock>>
    BY <1>3, ReadOrderIs DEF skuVars
  <2>2. TakenByMove(t) = {} /\ \A u : RowsOf(u)' = RowsOf(u)
    BY <2>1 DEF TakenByMove, Reverses, RowsOf
  <2>3. Wanted(orders[mv[t].order].lines)' = Wanted(orders[o].lines)
    BY <2>1 DEF Wanted
  <2>4. TakenByMove(t)' = {}
    <3>1. CASE mv[t].to \in Restocking
      BY <2>1, <3>1 DEF TakenByMove, Reverses, Wanted
    <3>2. CASE mv[t].to \notin Restocking
      BY <2>1, <3>2 DEF TakenByMove, Reverses
    <3> QED
      BY <3>1, <3>2
  <2>5. \A x \in Order : orderLock'[x] # t /\ ~ HasOrder(t, x)'
    BY <1>0, <2>1 DEF HoldsOfMove, HasOrder
  <2> QED
    BY <1>0, <2>1, <2>2, <2>3, <2>4, <2>5 DEF HoldsOfMove, OthersHold
<1>4. CASE Restock(t)
  <2> DEFINE m == mv[t]
             lines == orders[m.order].lines
  <2>1. /\ m \in Restoring /\ m.pc = "restock"
        /\ mv'[t].pc \in {"restock", "update"}
        /\ mv'[t].order = m.order /\ mv'[t].to = m.to
        /\ mv'[t].todo = m.todo \ {m.next}
        /\ UNCHANGED <<orders, orderLock>>
    BY <1>4, RestockIs
  <2>2. m.next \in m.todo /\ Reverses(t) /\ m.todo \subseteq Wanted(lines) /\ RowsOf(t) = TakenByMove(t)
    BY <1>0, <2>1 DEF OwesMove, HoldsOfMove
  <2>3. m.next \in Sku /\ WriteRow(t, m.next, lines[m.next])
    BY <1>4, <2>1 DEF Restock, Restoring
  <2>4. /\ RowsOf(t)' = RowsOf(t) \cup {m.next}
        /\ \A u \in Tx \ {t} : RowsOf(u)' = RowsOf(u)
    BY <1>0, <2>3, RowTaken
  <2>5. Reverses(t)'
    BY <2>1, <2>2 DEF Reverses
  <2>6. /\ TakenByMove(t) = {s \in Sku : lines[s] > 0 /\ s \notin m.todo}
        /\ TakenByMove(t)' = {s \in Sku : lines[s] > 0 /\ s \notin m.todo \ {m.next}}
    BY <2>1, <2>2, <2>5 DEF TakenByMove
  <2>7. RowsOf(t)' = TakenByMove(t)'
    BY <2>2, <2>3, <2>4, <2>6 DEF Wanted
  <2>8. Wanted(orders[mv[t].order].lines)' = Wanted(lines)
    BY <2>1 DEF Wanted
  <2>9. \A x \in Order : orderLock'[x] # t /\ ~ HasOrder(t, x)'
    BY <1>0, <2>1 DEF HoldsOfMove, HasOrder
  <2> QED
    BY <2>1, <2>2, <2>4, <2>7, <2>8, <2>9 DEF HoldsOfMove, OthersHold
<1>5. CASE UpdateStatus(t) /\ ~ ThrowMove(t)
  <2>1. /\ mv[t] \in Finishing /\ mv[t].pc = "update"
        /\ mv' = [mv EXCEPT ![t] = [mv[t] EXCEPT !.pc = "commit"]]
        /\ orderLock[mv[t].order] = NoTx /\ orderLock' = [orderLock EXCEPT ![mv[t].order] = t]
        /\ UNCHANGED <<skuLock, orders>>
    BY <1>0, <1>5, MvShape DEF UpdateStatus, tableVars
  <2>2. /\ mv'[t].pc = "commit" /\ mv'[t].order = mv[t].order /\ mv'[t].to = mv[t].to
        /\ mv'[t].todo = mv[t].todo
    BY <1>0, <2>1 DEF Finishing
  <2>3. TakenByMove(t)' = TakenByMove(t) /\ \A u : RowsOf(u)' = RowsOf(u)
    BY <2>1, <2>2 DEF TakenByMove, Reverses, RowsOf
  <2>4. mv[t].order \in Order
    BY <2>1, IInvIs DEF Finishing, OtherTablesOK
  <2>5. \A o \in Order : orderLock[o] # t
    BY <1>0, <2>1 DEF HoldsOfMove, HasOrder
  <2>6. \A o \in Order : orderLock'[o] = t <=> mv[t].order = o
    BY <1>0, <2>1, <2>4, <2>5
  <2>7. \A u \in Tx \ {t}, o \in Order : orderLock'[o] = u <=> orderLock[o] = u
    BY <1>0, <2>1, <2>4
  <2> QED
    BY <1>0, <2>2, <2>3, <2>6, <2>7 DEF HoldsOfMove, OthersHold, HasOrder
<1> QED
  BY <1>1, <1>2, <1>3, <1>4, <1>5 DEF MoveStep

LEMMA LocksOfAdjust ==
    ASSUME IInv, LockInv, NEW t \in StockTx, UNCHANGED <<couponLock, cartLock, orderLock>>,
           BeginAdjust(t) \/ AdjustStep(t) \/ ThrowAdjust(t)
    PROVE  HoldsOfAdjust(t)' /\ OthersHold(t)
<1>0. t \in Tx /\ RowsOK /\ adj \in [StockTx -> {None} \cup Requests] /\ RowsOf(t) = TakenByAdjust(t)
  BY IInvIs, StockConstants DEF LockInv, HoldsOfAdjust, StockTypeOK
<1>1. CASE ThrowAdjust(t) \/ CommitAdjust(t)
  <2>1. adj'[t].pc = "idle"
    BY <1>0, <1>1 DEF ThrowAdjust, CommitAdjust, None
  <2>2. RowsOf(t)' = {} /\ \A u \in Tx \ {t} : RowsOf(u)' = RowsOf(u)
    BY <1>0, <1>1, RowsFreed DEF ThrowAdjust, CommitAdjust
  <2>3. TakenByAdjust(t)' = {}
    BY <2>1 DEF TakenByAdjust
  <2> QED
    BY <2>2, <2>3 DEF HoldsOfAdjust, OthersHold
<1>2. CASE BeginAdjust(t)
  <2>1. PICK s \in Sku, d \in Deltas :
           adj' = [adj EXCEPT ![t] = [pc |-> "update", sku |-> s, delta |-> d]]
    BY <1>2 DEF BeginAdjust
  <2>2. adj'[t].pc = "update" /\ adj[t].pc = "idle" /\ skuLock' = skuLock
    BY <1>0, <1>2, <2>1 DEF BeginAdjust, None, tableVars
  <2>3. TakenByAdjust(t) = {} /\ TakenByAdjust(t)' = {} /\ \A u : RowsOf(u)' = RowsOf(u)
    BY <2>2 DEF TakenByAdjust, RowsOf
  <2> QED
    BY <1>0, <2>3 DEF HoldsOfAdjust, OthersHold
<1>3. CASE AdjustStock(t) /\ ~ ThrowAdjust(t)
  <2> DEFINE a == adj[t]
  <2>1. /\ a \in Requests /\ a.pc = "update"
        /\ WriteRow(t, a.sku, a.delta)
        /\ adj' = [adj EXCEPT ![t] = [a EXCEPT !.pc = "commit"]]
    BY <1>0, <1>3 DEF AdjustStock, None
  <2>2. a.sku \in Sku /\ adj'[t].pc = "commit" /\ adj'[t].sku = a.sku
    BY <1>0, <2>1 DEF Requests
  <2>3. /\ RowsOf(t)' = RowsOf(t) \cup {a.sku}
        /\ \A u \in Tx \ {t} : RowsOf(u)' = RowsOf(u)
    BY <1>0, <2>1, <2>2, RowTaken
  <2>4. TakenByAdjust(t) = {} /\ TakenByAdjust(t)' = {a.sku}
    BY <2>1, <2>2 DEF TakenByAdjust
  <2> QED
    BY <1>0, <2>3, <2>4 DEF HoldsOfAdjust, OthersHold
<1> QED
  BY <1>1, <1>2, <1>3 DEF AdjustStep, AdjustStock

LEMMA LocksStep ==
    ASSUME IInv, PendingInv, LockInv, [Next]_vars
    PROVE  LockInv'
<1>0. /\ CheckoutTx \subseteq Tx /\ MoveTx \subseteq Tx /\ StockTx \subseteq Tx
      /\ CheckoutTx \cap MoveTx = {} /\ CheckoutTx \cap StockTx = {} /\ MoveTx \cap StockTx = {}
      /\ CartTx \subseteq Tx /\ CartTx \cap (CheckoutTx \cup MoveTx \cup StockTx) = {}
      /\ NoTx \notin Tx
  BY ShopConstants, TablesConstants
<1>1. ASSUME NEW t \in CheckoutTx, Begin(t) \/ CheckoutStep(t) \/ Throw(t), UNCHANGED <<orderVars, stockVars>>
      PROVE  LockInv'
  <2>1. \A o \in DOMAIN orders : orders'[o].lines = orders[o].lines
    <3>1. CASE CommitCheckout(t)
      BY <3>1, CommitAddsOrder
    <3>2. CASE ~ CommitCheckout(t)
      BY <1>1, <3>2 DEF Begin, CheckoutStep, Throw, TakeStock, OutOfStock, ValidateCoupon, RejectCoupon,
                        LockCoupon, CountUsages, WriteOrder, DeleteCart, Cascade, Respond, tableVars
    <3> QED
      BY <3>1, <3>2
  <2>2. UNCHANGED <<mv, adj, orderLock>>
    BY <1>1 DEF orderVars, stockVars
  <2>3. \A u \in CheckoutTx : u # t => co'[u] = co[u]
    BY <1>1, OwesOfCheckout
  <2>4. HoldsOfCheckout(t)' /\ OthersHold(t)
    BY <1>1, <2>2, LocksOfCheckout
  <2> QED
    BY <1>0, <2>1, <2>2, <2>3, <2>4, LocksAfter
<1>2. ASSUME NEW t \in CartTx, BeginEdit(t) \/ EditStep(t) \/ ThrowEdit(t),
             UNCHANGED <<checkoutVars, orderVars, stockVars>>
      PROVE  LockInv'
  BY <1>2, IInvIs, EditSafe, LocksKept DEF skuVars, checkoutVars, orderVars, stockVars
<1>3. ASSUME NEW t \in MoveTx, UNCHANGED <<checkoutVars, stockVars>>,
             Callers(t) \/ (\E j \in Jobs : SweepNext(j, t)) \/ MoveStep(t) \/ ThrowMove(t)
      PROVE  LockInv'
  <2>1. \A o \in DOMAIN orders : orders'[o].lines = orders[o].lines
    BY <1>3, MoveKeepsOrders
  <2>2. UNCHANGED <<co, adj, couponLock, cartLock>>
    BY <1>3 DEF checkoutVars, stockVars
  <2>3. \A u \in MoveTx : u # t => mv'[u] = mv[u]
    BY <1>3, OwesOfMove
  <2>4. HoldsOfMove(t)' /\ OthersHold(t)
    BY <1>3, <2>2, LocksOfMove
  <2> QED
    BY <1>0, <2>1, <2>2, <2>3, <2>4, LocksAfter
<1>4. ASSUME NEW j \in Jobs, Ripen(j) \/ Scan(j), UNCHANGED <<checkoutVars, stockVars>>
      PROVE  LockInv'
  BY <1>4, LocksKept DEF Ripen, Scan, tableVars, checkoutVars, stockVars
<1>5. ASSUME NEW t \in StockTx, BeginAdjust(t) \/ AdjustStep(t) \/ ThrowAdjust(t),
             UNCHANGED <<checkoutVars, orderVars>>
      PROVE  LockInv'
  <2>1. UNCHANGED <<co, mv, couponLock, cartLock, orderLock>>
    BY <1>5 DEF checkoutVars, orderVars
  <2>2. orders' = orders /\ \A u \in StockTx : u # t => adj'[u] = adj[u]
    BY <1>5, OwesOfAdjust
  <2>3. HoldsOfAdjust(t)' /\ OthersHold(t)
    BY <1>5, <2>1, LocksOfAdjust
  <2> QED
    BY <1>0, <2>1, <2>2, <2>3, LocksAfter
<1>6. CASE Crash
  <2>1. /\ \A t \in Tx : RowsOf(t)' = {}
        /\ \A t \in CheckoutTx : co'[t].pc = "idle"
        /\ \A t \in MoveTx : mv'[t].pc = "idle"
        /\ \A t \in StockTx : adj'[t].pc = "idle"
        /\ \A t \in Tx : /\ \A c \in Coupon : couponLock'[c] # t
                         /\ \A x \in User : cartLock'[x] # t
                         /\ \A o \in Order : orderLock'[o] # t
    BY <1>0, <1>6 DEF Crash, RowsOf, Idle, Rest, None
  <2>2. /\ \A t \in CheckoutTx : TakenByCheckout(t)' = {}
        /\ \A t \in MoveTx : TakenByMove(t)' = {}
        /\ \A t \in StockTx : TakenByAdjust(t)' = {}
    BY <2>1 DEF TakenByCheckout, InCheckout, Untaken, TakenByMove, Reverses, TakenByAdjust
  <2>3. ASSUME NEW t \in CheckoutTx PROVE HoldsOfCheckout(t)'
    BY <1>0, <2>1, <2>2 DEF HoldsOfCheckout, HasCoupon, HasCart
  <2>4. ASSUME NEW t \in MoveTx PROVE HoldsOfMove(t)'
    BY <1>0, <2>1, <2>2 DEF HoldsOfMove, HasOrder
  <2>5. ASSUME NEW t \in StockTx PROVE HoldsOfAdjust(t)'
    BY <1>0, <2>1, <2>2 DEF HoldsOfAdjust
  <2> QED
    BY <1>0, <2>1, <2>3, <2>4, <2>5 DEF LockInv
<1>7. CASE UNCHANGED vars
  BY <1>7, LocksKept DEF vars, tableVars, checkoutVars, orderVars, stockVars
<1> QED
  BY <1>1, <1>2, <1>3, <1>4, <1>5, <1>6, <1>7, Steps

(* No lock outlives its transaction, and none is held by a transaction that    *)
(* has not taken it: rows, coupons, carts and orders are always free or with   *)
(* one that is under way and will let go of them at its COMMIT or ROLLBACK.    *)
THEOREM NoLockLeft == Spec => []LockInv
<1>1. Init => LockInv
  <2> SUFFICES ASSUME Init PROVE LockInv
    OBVIOUS
  <2>1. /\ CheckoutTx \subseteq Tx /\ MoveTx \subseteq Tx /\ StockTx \subseteq Tx /\ CartTx \subseteq Tx
        /\ NoTx \notin Tx
    BY ShopConstants, TablesConstants
  <2>2. /\ \A t \in Tx : RowsOf(t) = {}
        /\ \A t \in CheckoutTx : co[t].pc = "idle"
        /\ \A t \in MoveTx : mv[t].pc = "idle"
        /\ \A t \in StockTx : adj[t].pc = "idle"
        /\ \A t \in Tx : /\ \A c \in Coupon : couponLock[c] # t
                         /\ \A x \in User : cartLock[x] # t
                         /\ \A o \in Order : orderLock[o] # t
    BY <2>1 DEF Init, CheckoutInit, OrderInit, StockInit, RowsOf, Idle, Rest, None
  <2>3. /\ \A t \in CheckoutTx : TakenByCheckout(t) = {}
        /\ \A t \in MoveTx : TakenByMove(t) = {}
        /\ \A t \in StockTx : TakenByAdjust(t) = {}
    BY <2>2 DEF TakenByCheckout, InCheckout, Untaken, TakenByMove, Reverses, TakenByAdjust
  <2> QED
    BY <2>1, <2>2, <2>3
       DEF LockInv, HoldsOfCheckout, HoldsOfMove, HoldsOfAdjust, HasCoupon, HasCart, HasOrder
<1>2. IInv /\ PendingInv /\ LockInv /\ [Next]_vars => LockInv'
  BY LocksStep
<1> QED
  BY <1>1, <1>2, Inductive, PendingAlways, PTL DEF Spec

--------------------------------------------------------------------------------
(* Cart requests write a line once, and so wait to write one they have not, or *)
(* to lock the cart of one they have inserted.                                 *)

NextLine(t) ==
    /\ ed[t].pc = "line" => ed[t].next \in ed[t].todo /\ ed[t].todo \cap ed[t].wrote = {}
    /\ ed[t].pc = "key" => ed[t].next \in ed[t].wrote /\ ed[t].todo \cap ed[t].wrote = {ed[t].next}
EditInv == \A t \in CartTx : NextLine(t)

LEMMA NextLineOfEdit ==
    ASSUME IInv, EditInv, NEW t \in CartTx, BeginEdit(t) \/ EditStep(t) \/ ThrowEdit(t)
    PROVE  NextLine(t)'
<1>0. EdOK /\ ed \in [CartTx -> {NoEdit} \cup Edits]
  BY IInvIs DEF EdOK
<1>1. CASE ThrowEdit(t) \/ EndEdit(t)
  BY <1>0, <1>1 DEF ThrowEdit, EndEdit, NoEdit, NextLine
<1>2. CASE BeginEdit(t)
  <2>1. PICK u \in Shoppers, todo \in SUBSET Sku : \E first \in todo :
          ed' = [ed EXCEPT ![t] =
                   [pc |-> "line", user |-> u, no |-> cart[u].no, todo |-> todo,
                    next |-> first, wrote |-> {}, lines |-> Nothing]]
    BY <1>2 DEF BeginEdit
  <2>2. ed'[t].pc = "line" /\ ed'[t].wrote = {} /\ ed'[t].next \in ed'[t].todo
    BY <1>0, <2>1
  <2> QED
    BY <2>2 DEF NextLine
<1>3. CASE WriteLine(t) /\ ~ ThrowEdit(t)
  <2>1. /\ ed[t].pc = "line"
        /\ ed'[t].wrote = ed[t].wrote \cup {ed[t].next}
        /\ \/ /\ ed'[t].pc = "key"
              /\ ed'[t].todo = ed[t].todo /\ ed'[t].next = ed[t].next
           \/ /\ ed'[t].pc \in {"line", "commit"}
              /\ ed'[t].todo = ed[t].todo \ {ed[t].next}
              /\ ed'[t].pc = "line" => ed'[t].next \in ed'[t].todo
    BY <1>0, <1>3, WriteLineIs
  <2>2. ed[t].next \in ed[t].todo /\ ed[t].todo \cap ed[t].wrote = {}
    BY <2>1 DEF EditInv, NextLine
  <2> QED
    BY <2>1, <2>2 DEF NextLine
<1>4. CASE ShareCart(t) /\ ~ ThrowEdit(t)
  <2>1. /\ ed[t].pc = "key"
        /\ ed'[t].wrote = ed[t].wrote
        /\ ed'[t].pc \in {"line", "commit"}
        /\ ed'[t].todo = ed[t].todo \ {ed[t].next}
        /\ ed'[t].pc = "line" => ed'[t].next \in ed'[t].todo
    BY <1>0, <1>4, ShareCartIs
  <2>2. ed[t].todo \cap ed[t].wrote = {ed[t].next}
    BY <2>1 DEF EditInv, NextLine
  <2> QED
    BY <2>1, <2>2 DEF NextLine
<1> QED
  BY <1>1, <1>2, <1>3, <1>4 DEF EditStep

LEMMA EditsKept ==
    ASSUME EditInv, ed' = ed
    PROVE  EditInv'
  BY DEF EditInv, NextLine

LEMMA EditsStep ==
    ASSUME IInv, EditInv, [Next]_vars
    PROVE  EditInv'
<1>1. ASSUME NEW t \in CartTx, BeginEdit(t) \/ EditStep(t) \/ ThrowEdit(t) PROVE EditInv'
  <2>1. \A u \in CartTx : u # t => ed'[u] = ed[u]
    BY <1>1, IInvIs, EditSafe
  <2>2. NextLine(t)'
    BY <1>1, NextLineOfEdit
  <2>3. ASSUME NEW u \in CartTx, u # t PROVE NextLine(u)'
    BY <2>1, <2>3 DEF EditInv, NextLine
  <2> QED
    BY <2>2, <2>3 DEF EditInv
<1>2. CASE Crash
  BY <1>2 DEF Crash, NoEdit, EditInv, NextLine
<1>3. CASE UNCHANGED vars
  BY <1>3, EditsKept DEF vars, editVars
<1>4. UNCHANGED editVars => EditInv'
  BY EditsKept DEF editVars
<1> QED
  BY <1>1, <1>2, <1>3, <1>4, Steps

LEMMA EditsAlways == Spec => []EditInv
<1>1. Init => EditInv
  BY DEF Init, CheckoutInit, NoEdit, EditInv, NextLine
<1>2. IInv /\ EditInv /\ [Next]_vars => EditInv'
  BY EditsStep
<1> QED
  BY <1>1, <1>2, Inductive, PTL DEF Spec

--------------------------------------------------------------------------------
(* Deadlocks. What a transaction may wait for, ...                             *)

\* ... the row of an SKU,
OverRow(t) == \/ t \in CheckoutTx /\ co[t].pc = "stock"
              \/ t \in MoveTx /\ mv[t].pc = "restock"
              \/ t \in StockTx /\ adj[t].pc = "update"
NextRow(t) == IF t \in CheckoutTx THEN co[t].next ELSE IF t \in MoveTx THEN mv[t].next ELSE adj[t].sku

\* ... a coupon, the row of a cart, the lines of a cart that it deletes or merges into,
AtCoupon(t) == t \in CheckoutTx /\ co[t].pc = "lock"
AtCart(t)   == t \in CheckoutTx /\ co[t].pc = "cart"
AtLines(t)  == \/ t \in CheckoutTx /\ co[t].pc = "cascade"
               \/ t \in CartTx /\ ed[t].pc \in {"line", "key"}

\* ... or an order.
AtOrder(t) == t \in MoveTx /\ mv[t].pc = "update"

\* What one that is waited for holds, besides rows.
HasACoupon(t) == t \in CheckoutTx /\ co[t].pc \in {"count", "write", "cart", "cascade", "commit"}
HasACart(t)   == t \in CheckoutTx /\ co[t].pc \in {"cascade", "commit"}
HasLines(t)   == t \in CartTx /\ InEdit(t) /\ ed[t].wrote # {}

(* Transactions about to commit wait for nobody.                               *)
Committing(t) ==
    \/ t \in CheckoutTx /\ co[t].pc = "commit"
    \/ t \in CartTx /\ ed[t].pc = "commit"
    \/ t \in MoveTx /\ mv[t].pc = "commit"
    \/ t \in StockTx /\ adj[t].pc = "commit"

LEMMA KindsOfTx ==
    /\ Tx = CheckoutTx \cup MoveTx \cup StockTx \cup CartTx
    /\ CheckoutTx \cap MoveTx = {} /\ CheckoutTx \cap StockTx = {} /\ MoveTx \cap StockTx = {}
    /\ CartTx \cap (CheckoutTx \cup MoveTx \cup StockTx) = {}
    /\ NoTx \notin Tx
  BY ShopConstants, TablesConstants

LEMMA CommittingWaitsForNobody ==
    ASSUME NEW t \in Tx, Committing(t)
    PROVE  \A u : ~ Waits(t, u)
  BY KindsOfTx DEF Committing, Waits, CheckoutWaits, EditWaits, MoveWaits, AdjustWaits

(* Who waits for a row waits for one transaction, its holder.                  *)
LEMMA WaitsForRow ==
    ASSUME IInv, NEW t \in Tx, NEW u \in Tx, OverRow(t), Waits(t, u)
    PROVE  NextRow(t) \in Sku /\ HeldByOther(t, NextRow(t)) /\ skuLock[NextRow(t)] = u
<1>1. CASE t \in CheckoutTx
  <2>1. co[t].pc = "stock" /\ CheckoutWaits(t, u) /\ NextRow(t) = co[t].next
    BY <1>1, KindsOfTx DEF OverRow, Waits, NextRow
  <2> QED
    BY <1>1, <2>1, CoShape, IInvIs DEF CheckoutWaits, Taking
<1>2. CASE t \in MoveTx
  <2>1. mv[t].pc = "restock" /\ MoveWaits(t, u) /\ NextRow(t) = mv[t].next
    BY <1>2, KindsOfTx DEF OverRow, Waits, NextRow
  <2> QED
    BY <1>2, <2>1, MvShape, IInvIs DEF MoveWaits, Restoring
<1>3. CASE t \in StockTx
  <2>1. adj[t].pc = "update" /\ AdjustWaits(t, u) /\ NextRow(t) = adj[t].sku
    BY <1>3, KindsOfTx DEF OverRow, Waits, NextRow
  <2> QED
    BY <1>3, <2>1, IInvIs DEF AdjustWaits, StockTypeOK, None, Requests
<1> QED
  BY <1>1, <1>2, <1>3, KindsOfTx DEF OverRow

LEMMA HoldersOfCarts ==
    ASSUME IInv, LockInv, NEW u \in User, NEW t \in Tx, cartLock[u] = t
    PROVE  HasACart(t)
<1>1. cartLock \in [User -> CheckoutTx \cup {NoTx}]
  BY IInvIs DEF LocksOK
<1>2. t \in CheckoutTx
  BY <1>1, KindsOfTx
<1> QED
  BY <1>2 DEF LockInv, HoldsOfCheckout, HasCart, HasACart

LEMMA WritersHaveLines ==
    ASSUME NEW u, NEW s, NEW t \in Writers(u, s)
    PROVE  HasLines(t)
  BY DEF Writers, HasLines, InEdit

(* What a checkout waits for, and what the other one has.                      *)
LEMMA CheckoutWaitsFor ==
    ASSUME IInv, LockInv, NEW u \in CheckoutTx, NEW t \in Tx, CheckoutWaits(u, t)
    PROVE  \/ OverRow(u)
           \/ AtCoupon(u) /\ HasACoupon(t)
           \/ AtCart(u) /\ (HasACart(t) \/ HasLines(t))
           \/ AtLines(u) /\ HasLines(t)
<1>1. CASE co[u].pc = "stock"
  BY <1>1 DEF OverRow
<1>2. CASE co[u].pc = "lock"
  <2>1. couponLock[co[u].code] = t
    BY <1>2 DEF CheckoutWaits
  <2>2. co[u].code \in Coupon /\ couponLock \in [Coupon -> CheckoutTx \cup {NoTx}]
    BY <1>2, CoShape, IInvIs DEF Couponing, LocksOK
  <2>3. t \in CheckoutTx
    BY <2>1, <2>2, KindsOfTx
  <2> QED
    BY <1>2, <2>1, <2>2, <2>3 DEF LockInv, HoldsOfCheckout, HasCoupon, AtCoupon, HasACoupon
<1>3. CASE co[u].pc = "cart"
  <2>1. co[u].user \in User
    BY <1>3, CoShape, IInvIs DEF Writing
  <2>2. t = cartLock[co[u].user] \/ t \in Sharers(co[u].user)
    BY <1>3 DEF CheckoutWaits
  <2>3. t \in Sharers(co[u].user) => HasLines(t)
    BY WritersHaveLines DEF Sharers
  <2> QED
    BY <1>3, <2>1, <2>2, <2>3, HoldersOfCarts DEF AtCart
<1>4. CASE co[u].pc = "cascade"
  BY <1>4, WritersHaveLines DEF CheckoutWaits, AtLines
<1> QED
  BY <1>1, <1>2, <1>3, <1>4 DEF CheckoutWaits

(* ... and every other transaction.                                            *)
LEMMA WaitsFor ==
    ASSUME IInv, LockInv, NEW u \in Tx, NEW t \in Tx, Waits(u, t)
    PROVE  \/ OverRow(u)
           \/ AtCoupon(u) /\ HasACoupon(t)
           \/ AtCart(u) /\ (HasACart(t) \/ HasLines(t))
           \/ AtLines(u) /\ (HasACart(t) \/ HasLines(t))
           \/ AtOrder(u) /\ Committing(t)
<1>1. CASE u \in CheckoutTx /\ CheckoutWaits(u, t)
  BY <1>1, CheckoutWaitsFor
<1>2. CASE u \in CartTx /\ EditWaits(u, t)
  <2>1. \/ ed[u].pc = "line" /\ t \in LineHolders(u)
        \/ ed[u].pc = "key" /\ cartLock[ed[u].user] = t
    BY <1>2 DEF EditWaits
  <2>2. ed[u].user \in User
    BY <1>2, <2>1, EdShape, IInvIs
  <2>3. cartLock[ed[u].user] = t \/ t \in Writers(ed[u].user, ed[u].next)
    BY <2>1 DEF LineHolders
  <2> QED
    BY <1>2, <2>1, <2>2, <2>3, HoldersOfCarts, WritersHaveLines DEF AtLines
<1>3. CASE u \in MoveTx /\ MoveWaits(u, t)
  <2>1. CASE mv[u].pc = "restock"
    BY <1>3, <2>1 DEF OverRow
  <2>2. CASE mv[u].pc = "update" /\ orderLock[mv[u].order] = t
    <3>1. mv[u].order \in Order /\ orderLock \in [Order -> MoveTx \cup {NoTx}]
      BY <1>3, <2>2, MvShape, IInvIs DEF Finishing, RecordsOK, OtherTablesOK
    <3>2. t \in MoveTx
      BY <2>2, <3>1, KindsOfTx
    <3> QED
      BY <1>3, <2>2, <3>1, <3>2 DEF LockInv, HoldsOfMove, HasOrder, Committing, AtOrder
  <2> QED
    BY <1>3, <2>1, <2>2 DEF MoveWaits
<1>4. CASE u \in StockTx /\ AdjustWaits(u, t)
  BY <1>4 DEF AdjustWaits, OverRow
<1> QED
  BY <1>1, <1>2, <1>3, <1>4 DEF Waits

(* In a circle nobody is committing, so nobody waits for an order. Only who    *)
(* goes through rows waits for one that holds nothing but rows, ...            *)
LEMMA InACircle ==
    ASSUME IInv, LockInv, NEW C \in SUBSET Tx, WaitCycle(C), NEW t \in C, NEW u \in C, Waits(u, t)
    PROVE  /\ ~ Committing(t) /\ ~ AtOrder(t)
           /\ OverRow(t) \/ AtCoupon(t) => OverRow(u)
           /\ AtCart(t) => OverRow(u) \/ AtCoupon(u)
<1>1. \A v \in C : ~ Committing(v)
  BY CommittingWaitsForNobody DEF WaitCycle
<1>2. ~ AtOrder(t)
  <2> SUFFICES ASSUME AtOrder(t) PROVE FALSE
    OBVIOUS
  <2>1. PICK v \in C : Waits(t, v)
    BY DEF WaitCycle
  <2>2. ~ OverRow(t) /\ ~ AtCoupon(t) /\ ~ AtCart(t) /\ ~ AtLines(t)
    BY KindsOfTx DEF AtOrder, OverRow, AtCoupon, AtCart, AtLines
  <2> QED
    BY <1>1, <2>1, <2>2, WaitsFor
<1>3. \/ OverRow(u)
      \/ AtCoupon(u) /\ HasACoupon(t)
      \/ HasACart(t) \/ HasLines(t)
  BY <1>1, WaitsFor
<1>4. ASSUME OverRow(t) \/ AtCoupon(t) PROVE OverRow(u)
  <2>1. ~ HasACoupon(t) /\ ~ HasACart(t) /\ ~ HasLines(t)
    BY <1>4, KindsOfTx DEF OverRow, AtCoupon, HasACoupon, HasACart, HasLines
  <2> QED
    BY <1>3, <2>1
<1>5. ASSUME AtCart(t) PROVE OverRow(u) \/ AtCoupon(u)
  <2>1. ~ HasACart(t) /\ ~ HasLines(t)
    BY <1>5, KindsOfTx DEF AtCart, HasACart, HasLines
  <2> QED
    BY <1>3, <2>1
<1> QED
  BY <1>1, <1>2, <1>4, <1>5

(* ... and each waits for one: counted, those who go through rows are waited   *)
(* for by all of themselves, which leaves nobody to wait for a transaction at  *)
(* a coupon, or for one at the row of a cart.                                  *)
LEMMA RowsWaitForRows ==
    ASSUME IInv, LockInv, NEW C \in SUBSET Tx, WaitCycle(C), NEW t \in C
    PROVE  ~ AtCoupon(t) /\ ~ AtCart(t)
<1> DEFINE S == {u \in C : OverRow(u)}
           L == {u \in C : OverRow(u) \/ AtCoupon(u)}
           f == [u \in S |-> skuLock[NextRow(u)]]
           T == {f[u] : u \in S}
<1>1. IsFiniteSet(C) /\ IsFiniteSet(S) /\ IsFiniteSet(L)
  BY TablesConstants, FS_Subset
<1>2. ASSUME NEW u \in C, NEW v \in C, OverRow(v), Waits(v, u) PROVE v \in S /\ f[v] = u
  BY <1>2, WaitsForRow
<1>3. L \subseteq T
  <2> SUFFICES ASSUME NEW u \in L PROVE u \in T
    OBVIOUS
  <2>1. PICK v \in C : Waits(v, u)
    BY DEF WaitCycle
  <2>2. OverRow(v)
    BY <2>1, InACircle
  <2> QED
    BY <1>2, <2>1, <2>2
<1>4. IsFiniteSet(T) /\ Cardinality(T) <= Cardinality(S)
  <2>1. f \in Surjection(S, T)
    BY DEF Surjection
  <2> HIDE DEF S, T, f
  <2> QED
    BY <1>1, <2>1, FS_Surjection
<1>5. S \subseteq L
  OBVIOUS
<1>6. L = T /\ L = S
  <2> HIDE DEF S, T, f, L
  <2>1. Cardinality(S) <= Cardinality(L) /\ Cardinality(L) <= Cardinality(T)
    BY <1>1, <1>3, <1>4, <1>5, FS_Subset
  <2>2. Cardinality(S) \in Nat /\ Cardinality(L) \in Nat /\ Cardinality(T) \in Nat
    BY <1>1, <1>4, FS_CardinalityType
  <2>3. Cardinality(S) = Cardinality(L) /\ Cardinality(L) = Cardinality(T)
    BY <1>4, <2>1, <2>2
  <2> QED
    BY <1>1, <1>3, <1>4, <1>5, <2>3, FS_Subset
<1>7. ASSUME NEW u \in C PROVE ~ AtCoupon(u)
  <2>1. AtCoupon(u) => ~ OverRow(u)
    BY KindsOfTx DEF AtCoupon, OverRow
  <2> QED
    BY <1>6, <2>1
<1>8. ~ AtCart(t)
  <2> SUFFICES ASSUME AtCart(t) PROVE FALSE
    OBVIOUS
  <2>1. PICK v \in C : Waits(v, t)
    BY DEF WaitCycle
  <2>2. OverRow(v)
    BY <1>7, <2>1, InACircle
  <2>3. t \in T
    BY <1>2, <2>1, <2>2
  <2>4. OverRow(t)
    BY <1>6, <2>3
  <2> QED
    BY <2>4, KindsOfTx DEF AtCart, OverRow
<1> QED
  BY <1>7, <1>8

(* Who goes through rows in a circle holds one already.                        *)
LEMMA CircleOverRows ==
    ASSUME IInv, PendingInv, LockInv, NEW C \in SUBSET Tx, WaitCycle(C), NEW t \in C, OverRow(t)
    PROVE  StuckOnRows(t, C)
<1>1. PICK u \in C : Waits(u, t)
  BY DEF WaitCycle
<1>2. OverRow(u) /\ ~ Committing(t)
  BY <1>1, InACircle
<1>3. PICK s \in RowsOf(t) : skuLock[s] = t
  BY <1>1, <1>2, WaitsForRow DEF RowsOf
<1>4. PICK v \in C : Waits(t, v)
  BY DEF WaitCycle
<1>5. HeldByOther(t, NextRow(t)) /\ skuLock[NextRow(t)] = v
  BY <1>4, WaitsForRow
<1>6. CASE t \in CheckoutTx
  <2>1. co[t].pc = "stock" /\ NextRow(t) = co[t].next /\ Untaken(t) = co[t].todo
    BY <1>6, KindsOfTx DEF OverRow, NextRow, Untaken
  <2>2. /\ co[t].next \in co[t].todo /\ co[t].todo \subseteq Wanted(co[t].cart.lines)
        /\ RowsOf(t) = TakenByCheckout(t)
    BY <1>6, <2>1 DEF PendingInv, OwesCheckout, InCheckout, LockInv, HoldsOfCheckout
  <2>3. s \in Wanted(co[t].cart.lines) /\ s \notin co[t].todo
    BY <1>3, <2>1, <2>2 DEF TakenByCheckout, Wanted
  <2> QED
    BY <1>3, <1>5, <1>6, <2>1, <2>2, <2>3 DEF StuckOnRows, ItemsOf
<1>7. CASE t \in MoveTx
  <2>1. t \notin CheckoutTx /\ mv[t].pc = "restock" /\ NextRow(t) = mv[t].next
    BY <1>7, KindsOfTx DEF OverRow, NextRow
  <2>2. /\ mv[t].next \in mv[t].todo /\ mv[t].todo \subseteq Wanted(orders[mv[t].order].lines)
        /\ RowsOf(t) = TakenByMove(t)
    BY <1>7, <2>1 DEF PendingInv, OwesMove, LockInv, HoldsOfMove
  <2>3. s \in Wanted(orders[mv[t].order].lines) /\ s \notin mv[t].todo
    BY <1>3, <2>2 DEF TakenByMove, Wanted
  <2> QED
    BY <1>3, <1>5, <1>7, <2>1, <2>2, <2>3 DEF StuckOnRows, ItemsOf
<1>8. CASE t \in StockTx
  <2>1. adj[t].pc = "commit"
    BY <1>3, <1>8 DEF LockInv, HoldsOfAdjust, TakenByAdjust
  <2> QED
    BY <1>2, <1>8, <2>1 DEF Committing
<1> QED
  BY <1>6, <1>7, <1>8 DEF OverRow

(* ... and who goes through the lines of a cart has deleted it, or written one *)
(* of them.                                                                    *)
LEMMA CircleOverLines ==
    ASSUME IInv, LockInv, EditInv, NEW C \in SUBSET Tx, WaitCycle(C), NEW t \in C, AtLines(t)
    PROVE  StuckOnLines(t, C) \/ StuckInMerge(t, C)
<1>1. PICK v \in C : Waits(t, v)
  BY DEF WaitCycle
<1>2. CASE t \in CheckoutTx
  <2>1. co[t].pc = "cascade" /\ CheckoutWaits(t, v)
    BY <1>1, <1>2, KindsOfTx DEF AtLines, Waits
  <2>2. v \in Writers(co[t].user, co[t].next)
    BY <2>1 DEF CheckoutWaits
  <2>3. co[t].user \in User
    BY <1>2, <2>1, CoShape, IInvIs DEF Cascading
  <2>4. cartLock[co[t].user] = t
    BY <1>2, <2>1, <2>3 DEF LockInv, HoldsOfCheckout, HasCart
  <2> QED
    BY <1>2, <2>2, <2>4 DEF StuckOnLines
<1>3. CASE t \in CartTx
  <2>1. \/ ed[t].pc = "line" /\ v \in LineHolders(t)
        \/ ed[t].pc = "key" /\ v = cartLock[ed[t].user]
    BY <1>1, <1>3, KindsOfTx DEF AtLines, Waits, EditWaits
  <2>2. ed[t].pc = "line" => ed[t].todo \ ed[t].wrote # {}
    BY <1>3 DEF EditInv, NextLine
  <2>3. PICK u \in C : Waits(u, t)
    BY DEF WaitCycle
  <2>4. ~ OverRow(u)
    <3>1. OverRow(u) => RowsOf(t) # {}
      BY <2>3, WaitsForRow DEF RowsOf
    <3> QED
      BY <1>3, <3>1 DEF LockInv
  <2>5. ~ HasACoupon(t) /\ ~ HasACart(t) /\ ~ Committing(t)
    BY <1>3, <2>1, KindsOfTx DEF HasACoupon, HasACart, Committing
  <2>6. HasLines(t)
    BY <2>3, <2>4, <2>5, WaitsFor
  <2> QED
    BY <1>1, <1>3, <2>1, <2>2, <2>6 DEF StuckInMerge, HasLines
<1> QED
  BY <1>2, <1>3 DEF AtLines

LEMMA CirclesOverRows == IInv /\ PendingInv /\ LockInv /\ EditInv => DeadlocksOverRows
<1> SUFFICES ASSUME IInv, PendingInv, LockInv, EditInv, NEW C \in SUBSET Waiting, WaitCycle(C), NEW t \in C
             PROVE  StuckOnRows(t, C) \/ StuckOnLines(t, C) \/ StuckInMerge(t, C)
  BY DEF DeadlocksOverRows
<1>1. C \in SUBSET Tx
  BY DEF Waiting
<1>2. PICK u \in C, v \in C : Waits(u, t) /\ Waits(t, v)
  BY DEF WaitCycle
<1>3. ~ AtOrder(t) /\ ~ AtCoupon(t) /\ ~ AtCart(t)
  BY <1>1, <1>2, InACircle, RowsWaitForRows
<1>4. OverRow(t) \/ AtLines(t)
  BY <1>1, <1>2, <1>3, WaitsFor
<1> QED
  BY <1>1, <1>4, CircleOverRows, CircleOverLines

(* However many checkouts, cart requests, cancellations, refunds and           *)
(* corrections there are, everyone in a deadlock goes through several rows,    *)
(* holds one of them and waits for the next: of skus, or of one cart and its   *)
(* lines, which a checkout deletes and a merge writes. The lock of a coupon,   *)
(* an order's row and the DELETE of a cart come after all rows of skus, and    *)
(* nobody in a deadlock waits for one.                                         *)
THEOREM DeadlocksAreOverRows == Spec => []DeadlocksOverRows
<1>1. IInv /\ PendingInv /\ LockInv /\ EditInv => DeadlocksOverRows
  BY CirclesOverRows
<1> QED
  BY <1>1, Inductive, PendingAlways, NoLockLeft, EditsAlways, PTL

UnderWay(t) ==
    \/ t \in CheckoutTx /\ InCheckout(t)
    \/ t \in CartTx /\ InEdit(t)
    \/ t \in MoveTx /\ InMove(t)
    \/ t \in StockTx /\ InAdjust(t)

\* While transactions are under way, one of them waits for nobody, or the deadlock
\* detector finds a circle to break.
NobodyIsStuck ==
    \A t \in Tx : UnderWay(t) =>
        \/ \E u \in Tx : UnderWay(u) /\ \A v \in Tx : ~ Waits(u, v)
        \/ \E C \in SUBSET Tx : WaitCycle(C)

(* Only a transaction that is under way keeps others waiting.                  *)
LEMMA WaitedForIsUnderWay ==
    ASSUME IInv, LockInv, NEW t \in Tx, NEW u \in Tx, Waits(u, t)
    PROVE  UnderWay(t)
<1>1. CASE OverRow(u)
  <2>0. RowsOf(t) # {}
    BY <1>1, WaitsForRow DEF RowsOf
  <2>1. CASE t \in CheckoutTx
    BY <2>0, <2>1 DEF LockInv, HoldsOfCheckout, TakenByCheckout, UnderWay
  <2>2. CASE t \in MoveTx
    BY <2>0, <2>2 DEF LockInv, HoldsOfMove, TakenByMove, Reverses, UnderWay, InMove
  <2>3. CASE t \in StockTx
    BY <2>0, <2>3 DEF LockInv, HoldsOfAdjust, TakenByAdjust, UnderWay, InAdjust
  <2>4. CASE t \in CartTx
    BY <2>0, <2>4 DEF LockInv
  <2> QED
    BY <2>1, <2>2, <2>3, <2>4, KindsOfTx
<1>2. CASE HasACoupon(t) \/ HasACart(t) \/ HasLines(t)
  BY <1>2 DEF HasACoupon, HasACart, HasLines, UnderWay, InCheckout
<1>3. CASE Committing(t)
  BY <1>3 DEF Committing, UnderWay, InCheckout, InEdit, InMove, InAdjust
<1> QED
  BY <1>1, <1>2, <1>3, WaitsFor

\* Everyone in S waits for someone in S.
Stuck(S) == S # {} /\ \A t \in S : \E u \in S : Waits(t, u)

(* A smallest set of transactions that all wait for one another is a circle.   *)
LEMMA StuckHasACircle ==
    ASSUME NEW S \in SUBSET Tx, Stuck(S)
    PROVE  \E C \in SUBSET Tx : WaitCycle(C)
<1> DEFINE R == StrictSubsetOrdering(Tx)
           K == {T \in SUBSET Tx : Stuck(T)}
<1>1. K \subseteq FiniteSubsetsOf(Tx) /\ K # {}
  BY TablesConstants, FS_Subset DEF FiniteSubsetsOf
<1>2. IsWellFoundedOn(R, FiniteSubsetsOf(Tx))
  BY FS_StrictSubsetOrderingWellFounded
<1> HIDE DEF R
<1>3. PICK C \in K : \A D \in K : ~ (<<D, C>> \in R)
  <2> HIDE DEF K
  <2> QED
    BY <1>1, <1>2, WFMin
<1>4. ASSUME NEW t \in C, \A u \in C : ~ Waits(u, t) PROVE FALSE
  <2> DEFINE D == C \ {t}
  <2>1. D # {} /\ \A u \in D : \E v \in D : Waits(u, v)
    BY <1>3, <1>4 DEF Stuck
  <2>2. D \in K
    BY <1>3, <2>1 DEF Stuck
  <2>3. <<D, C>> \in R
    BY <1>3, <1>4 DEF R, StrictSubsetOrdering
  <2> QED
    BY <1>3, <2>2, <2>3
<1> QED
  BY <1>3, <1>4 DEF WaitCycle, Stuck

LEMMA WaitingEndsSomewhere == IInv /\ LockInv => NobodyIsStuck
<1> SUFFICES ASSUME IInv, LockInv, NEW t \in Tx, UnderWay(t),
                    \A u \in Tx : UnderWay(u) => \E v \in Tx : Waits(u, v)
             PROVE  \E C \in SUBSET Tx : WaitCycle(C)
  BY DEF NobodyIsStuck
<1> DEFINE S == {u \in Tx : UnderWay(u)}
<1>1. Stuck(S)
  BY WaitedForIsUnderWay DEF Stuck
<1> QED
  BY <1>1, StuckHasACircle

(* Locks never bring the shop to a halt: as long as transactions are under     *)
(* way, one of them does not wait, or some wait in a circle, which PostgreSQL  *)
(* breaks. Nobody waits for a lock of a transaction that is over.              *)
THEOREM WaitingIsBroken == Spec => []NobodyIsStuck
<1>1. IInv /\ LockInv => NobodyIsStuck
  BY WaitingEndsSomewhere
<1> QED
  BY <1>1, Inductive, NoLockLeft, PTL
================================================================================
