------------------------------- MODULE BackOffice ------------------------------
(*******************************************************************************)
(* The tables that are listed and those who write them: administrators edit    *)
(* products (routes/admin/products.ts) and coupons (routes/admin/coupons.ts),  *)
(* each write in one transaction with its audit row (services/auditLog.ts);    *)
(* checkouts redeem coupons and place orders, and orders move. A behaviour is  *)
(* about one of the tables. The status of a product stands also for its        *)
(* category (an edit of either takes it out of a filtered list), that of a     *)
(* coupon for its terms.                                                       *)
(*******************************************************************************)
EXTENDS Naturals, FiniteSets, Paging

CONSTANTS Row,      \* ids, compared like numbers
          MaxAt,    \* bound: instants at which rows are created
          MaxWrites,\* bound: requests that write
          Admin

ASSUME BackOfficeConstants ==
    /\ Row \subseteq Nat \ {0} /\ IsFiniteSet(Row) /\ Row # {} /\ NoRow \notin Row
    /\ MaxAt \in Nat \ {0} /\ MaxWrites \in Nat

VARIABLES
    table,      \* which table
    rows,       \* its rows; created at 0: not there
    used,       \* the coupons that an order has redeemed
    desk,       \* per administrator, the locals of the request and what it has written but not committed
    writes,     \* how many requests that write there have been
    drawn       \* the ids of the rows there have been: an id is drawn once (history)

officeVars == <<table, rows, used, desk, drawn, writes>>

StatusOf(t) == CASE t = "products" -> {"DRAFT", "ACTIVE", "ARCHIVED"}
                 [] t = "coupons"  -> {"terms", "otherTerms"}
                 [] t = "orders"   -> {"PENDING", "PAID", "SHIPPED", "CANCELLED"}
Tables == {"products", "coupons", "orders"}
Status == UNION {StatusOf(t) : t \in Tables}

Absent   == [at |-> 0, status |-> "none", mine |-> FALSE]
RowsOf(t) == [at : 1 .. MaxAt, status : StatusOf(t), mine : BOOLEAN]
AtRest   == [pc |-> "idle", op |-> "none", row |-> NoRow, to |-> "none", at |-> 0]

OfficeTypeOK ==
    /\ table \in Tables
    /\ rows \in [Row -> RowsOf(table) \cup {Absent}]
    /\ used \in SUBSET Row
    /\ desk \in [Admin -> [pc : {"idle", "write", "commit"}, op : {"none", "create", "patch", "delete"},
                           row : Row \cup {NoRow}, to : Status \cup {"none"}, at : 0 .. MaxAt]]
    /\ writes \in 0 .. MaxWrites
    /\ drawn \in SUBSET Row

Live      == {r \in Row : rows[r] # Absent}
At        == [r \in Row |-> rows[r].at]
LatestAt  == LET times == {rows[r].at : r \in Live} \cup {desk[a].at : a \in Admin} IN
             CHOOSE t \in times \cup {1} : \A u \in times : u <= t
\* createdAt is when the transaction began, so a row may appear after another that is newer.
Fresh(r)  == r \notin drawn /\ \A a \in Admin : desk[a].row # r
Instants  == {LatestAt, LatestAt + 1} \cap 1 .. MaxAt
Locked(r) == \E a \in Admin : desk[a].row = r /\ desk[a].pc = "commit"

\* The rows that are there at first were created at one instant (a seed makes several in one
\* millisecond).
First(t) == [at |-> 1, mine |-> FALSE, status |->
                CASE t = "products" -> "ACTIVE" [] t = "coupons" -> "terms" [] t = "orders" -> "PAID"]

OfficeInit ==
    /\ rows \in [Row -> {First(table), Absent}]
    /\ used = {} /\ writes = 0
    /\ desk = [a \in Admin |-> AtRest]
    /\ drawn = Live

--------------------------------------------------------------------------------

\* POST: the id is generated before the transaction.
Create(a) ==
    /\ table # "orders" /\ desk[a] = AtRest
    /\ \E r \in Row, s \in StatusOf(table), t \in Instants :
          /\ Fresh(r)
          /\ desk' = [desk EXCEPT ![a] = [pc |-> "write", op |-> "create", row |-> r, to |-> s, at |-> t]]
    /\ UNCHANGED <<table, rows, used, drawn>>

\* PATCH: 404 unless it is there, which is read outside the transaction.
Patch(a) ==
    /\ table # "orders" /\ desk[a] = AtRest
    /\ \E r \in Live, s \in StatusOf(table) :
          desk' = [desk EXCEPT ![a] = [AtRest EXCEPT !.pc = "write", !.op = "patch", !.row = r, !.to = s]]
    /\ UNCHANGED <<table, rows, used, drawn>>

\* DELETE of a product archives it, unless it is archived; read outside the transaction.
Archive(a) ==
    /\ table = "products" /\ desk[a] = AtRest
    /\ \E r \in Live :
          /\ rows[r].status # "ARCHIVED"
          /\ desk' = [desk EXCEPT ![a] = [AtRest EXCEPT !.pc = "write", !.op = "patch", !.row = r, !.to = "ARCHIVED"]]
    /\ UNCHANGED <<table, rows, used, drawn>>

\* DELETE of a coupon: its uses are counted, in the transaction but without a lock.
Delete(a) ==
    /\ table = "coupons" /\ desk[a] = AtRest
    /\ \E r \in Live \ used :
          desk' = [desk EXCEPT ![a] = [AtRest EXCEPT !.pc = "write", !.op = "delete", !.row = r]]
    /\ UNCHANGED <<table, rows, used, drawn>>

\* What the statement finds wrong: no such row (P2025), or a use that refers to it.
NeverMissing(q) == FALSE
Missing(q)    == q.op # "create" /\ q.row \notin Live
NoForeignKey(q) == FALSE
Restricted(q) == q.op = "delete" /\ q.row \in used

\* The row as q leaves it.
Becomes(q) == CASE q.op = "create" -> [at |-> q.at, status |-> q.to, mine |-> FALSE]
                [] q.op = "patch"  -> [rows[q.row] EXCEPT !.status = q.to]
                [] q.op = "delete" -> Absent

\* The statement: it locks the row, which others see changed only after COMMIT.
Write(a) ==
    LET q == desk[a] IN
    /\ q.pc = "write" /\ ~ Locked(q.row)
    /\ desk' = [desk EXCEPT ![a] = IF Missing(q) \/ Restricted(q) THEN AtRest ELSE [q EXCEPT !.pc = "commit"]]
    /\ UNCHANGED <<table, rows, used, drawn>>

\* COMMIT, after the audit row.
Commit(a) ==
    LET q == desk[a] IN
    /\ q.pc = "commit"
    /\ rows' = [rows EXCEPT ![q.row] = Becomes(q)]
    /\ drawn' = drawn \cup {q.row}
    /\ desk' = [desk EXCEPT ![a] = AtRest]
    /\ UNCHANGED <<table, used>>

\* A duplicate slug or code, a lost connection, a crash: the transaction rolls back.
LoseDesk(a) ==
    /\ desk[a] # AtRest
    /\ desk' = [desk EXCEPT ![a] = AtRest]
    /\ UNCHANGED <<table, rows, used, drawn>>

--------------------------------------------------------------------------------

\* A checkout commits a use of the coupon; its foreign key waits for a DELETE in progress.
Redeem(r) ==
    /\ table = "coupons" /\ r \in Live
    /\ \A a \in Admin : ~ (desk[a].row = r /\ desk[a].pc = "commit" /\ desk[a].op = "delete")
    /\ used' = used \cup {r}
    /\ UNCHANGED <<table, rows, desk, drawn>>

\* A checkout commits an order. Those of one user are made one after the other, from one cart.
PlaceOrder(r) ==
    /\ table = "orders" /\ Fresh(r)
    /\ \E t \in Instants, own \in BOOLEAN :
          /\ own => \A q \in Live : rows[q].mine => rows[q].at < t
          /\ rows' = [rows EXCEPT ![r] = [at |-> t, status |-> "PENDING", mine |-> own]]
    /\ drawn' = drawn \cup {r}
    /\ UNCHANGED <<table, used, desk>>

MoveOrder(r) ==
    /\ table = "orders" /\ r \in Live
    /\ \E s \in CASE rows[r].status = "PENDING" -> {"PAID", "CANCELLED"}
                  [] rows[r].status = "PAID"    -> {"SHIPPED"}
                  [] OTHER                      -> {} :
          rows' = [rows EXCEPT ![r].status = s]
    /\ UNCHANGED <<table, used, desk, drawn>>

Begin(a) == Create(a) \/ Patch(a) \/ Archive(a) \/ Delete(a)
Trade(r) == Redeem(r) \/ PlaceOrder(r) \/ MoveOrder(r)

OfficeNext ==
    \/ /\ writes < MaxWrites /\ writes' = writes + 1
       /\ (\E a \in Admin : Begin(a)) \/ (\E r \in Row : Trade(r))
    \/ UNCHANGED writes /\ \E a \in Admin : Write(a) \/ Commit(a) \/ LoseDesk(a)

--------------------------------------------------------------------------------
(* A coupon that an order has redeemed is never deleted, however its DELETE    *)
(* and the checkouts interleave (coupons.ts:207-208: "no concurrent usage can  *)
(* slip through").                                                             *)
UsedCouponsStay == used \subseteq Live
================================================================================
