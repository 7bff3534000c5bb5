------------------------------ MODULE ListingProofs -----------------------------
(*******************************************************************************)
(* Theorems of BackOffice and Listing, for any rows, administrators and page   *)
(* sizes: types, the foreign key of redeemed coupons, and what the readers by  *)
(* cursor and by page are shown.                                               *)
(*******************************************************************************)
EXTENDS Listing, FiniteSetTheorems, WellFoundedInduction, TLAPS

--------------------------------------------------------------------------------
(* The desks. A row being created is nobody else's and has never been there; a *)
(* transaction that has written a row holds it alone, and it is still what the *)
(* statement found.                                                            *)

Held(a) ==
    LET q == desk[a] IN
    /\ table # "orders"
    /\ q.pc \in {"write", "commit"} /\ q.op \in {"create", "patch", "delete"} /\ q.row \in Row
    /\ q.op # "delete" => q.to \in StatusOf(table)
    /\ q.op = "create" => /\ q.at \in 1 .. MaxAt /\ q.row \notin drawn
                          /\ \A b \in Admin : desk[b].row = q.row => b = a
    /\ q.pc = "commit" => /\ ~ Missing(q) /\ ~ Restricted(q)
                          /\ \A b \in Admin : (desk[b].pc = "commit" /\ desk[b].row = q.row) => b = a

DesksOK == \A a \in Admin : desk[a] # AtRest => Held(a)

OfficeInv == OfficeTypeOK /\ DesksOK /\ Live \subseteq drawn /\ UsedCouponsStay

(* The cursor only goes down: whatever has been shown and is still there comes *)
(* before it. An id is never used again.                                       *)
ScrollInv ==
    /\ feed.more /\ feed.next = NoRow => feed.seen = {}
    /\ \A s \in feed.seen : s \in drawn
    /\ feed.next # NoRow =>
          /\ feed.next \in drawn
          /\ \A s \in feed.seen : {s, feed.next} \subseteq Live => Newer(At, s, feed.next)
    /\ NoRepeats

(* Pages are reached one after the other, and a list of orders only grows.     *)
Reached ==
    /\ sheet.page <= sheet.front + 1
    /\ "rows" \notin sheet.todo => sheet.page <= sheet.front
    /\ \A p \in PageNo : sheet.kept[p].total > 0 => p <= sheet.front \/ p = sheet.page

Counted ==
    /\ \A p \in PageNo : sheet.kept[p].total <= Count(view)
    /\ sheet.page > 1 => (sheet.page - 1) * view.limit < Count(view)

Shown ==
    \A p \in PageNo : (p > 1 /\ (sheet.kept[p].total > 0 \/ p = sheet.page)) =>
        sheet.kept[p].rows # {} \/ (p = sheet.page /\ "rows" \in sheet.todo)

PagesInv ==
    view.what \in ByPage =>
        /\ Reached
        /\ view.only = "any" => sheet.old \subseteq ListOf(view) /\ Counted /\ Shown
        /\ NoneSlipsBack

IInv == TypeOK /\ OfficeInv /\ ScrollInv /\ PagesInv

--------------------------------------------------------------------------------
Desk == [pc : {"idle", "write", "commit"}, op : {"none", "create", "patch", "delete"},
         row : Row \cup {NoRow}, to : Status \cup {"none"}, at : 0 .. MaxAt]

LEMMA Statuses ==
    /\ \A t \in Tables : StatusOf(t) \subseteq Status /\ First(t).status \in StatusOf(t)
    /\ "none" \notin Status /\ "deleted" \notin Status
<1>1. Status = StatusOf("products") \cup StatusOf("coupons") \cup StatusOf("orders")
  BY DEF Status, Tables
<1>2. /\ StatusOf("products") = {"DRAFT", "ACTIVE", "ARCHIVED"}
      /\ StatusOf("coupons") = {"terms", "otherTerms"}
      /\ StatusOf("orders") = {"PENDING", "PAID", "SHIPPED", "CANCELLED"}
  BY DEF StatusOf
<1>3. /\ First("products").status = "ACTIVE"
      /\ First("coupons").status = "terms"
      /\ First("orders").status = "PAID"
  BY DEF First
<1>4. "none" \notin Status /\ "deleted" \notin Status
  BY <1>1, <1>2
<1>5. \A t \in Tables : StatusOf(t) \subseteq Status
  BY <1>1 DEF Tables
<1>6. \A t \in Tables : First(t).status \in StatusOf(t)
  BY <1>2, <1>3 DEF Tables
<1> QED
  BY <1>4, <1>5, <1>6

(* What a row that is there looks like.                                        *)
LEMMA LiveRows ==
    ASSUME OfficeInv, NEW r \in Row
    PROVE  /\ r \in Live <=> rows[r] \in RowsOf(table)
           /\ r \notin Live <=> rows[r] = Absent
           /\ r \in Live => r \in drawn
                            /\ rows[r].status \in StatusOf(table) /\ rows[r].at \in 1 .. MaxAt
                            /\ rows[r].mine \in BOOLEAN
<1>1. Absent \notin RowsOf(table)
  BY BackOfficeConstants DEF Absent, RowsOf
<1>2. rows[r] \in RowsOf(table) \cup {Absent} /\ table \in Tables
  BY DEF OfficeInv, OfficeTypeOK
<1>3. rows[r] \in RowsOf(table) => /\ rows[r].status \in StatusOf(table) /\ rows[r].at \in 1 .. MaxAt
                                  /\ rows[r].mine \in BOOLEAN
  BY DEF RowsOf
<1> QED
  BY <1>1, <1>2, <1>3, Statuses DEF OfficeInv, Live

(* A step of one request that writes no row yet.                               *)
LEMMA DeskStep ==
    ASSUME OfficeInv, NEW a \in Admin, NEW q \in Desk,
           desk' = [desk EXCEPT ![a] = q], UNCHANGED <<table, rows, used, drawn>>,
           writes' \in 0 .. MaxWrites,
           q # AtRest =>
              /\ table # "orders"
              /\ q.pc \in {"write", "commit"} /\ q.op \in {"create", "patch", "delete"} /\ q.row \in Row
              /\ q.op # "delete" => q.to \in StatusOf(table)
              /\ q.op = "create" => q.at \in 1 .. MaxAt /\ q.row \notin drawn
              /\ q.pc = "commit" => ~ Missing(q) /\ ~ Restricted(q)
              /\ \A b \in Admin \ {a} : desk[b].row = q.row =>
                    /\ "create" \notin {q.op, desk[b].op}
                    /\ ~ (q.pc = "commit" /\ desk[b].pc = "commit")
    PROVE  OfficeInv'
<1>1. OfficeTypeOK'
  BY DEF OfficeInv, OfficeTypeOK, Desk
<1>2. (Live \subseteq drawn)' /\ UsedCouponsStay'
  BY DEF OfficeInv, UsedCouponsStay, Live
<1>3. \A b \in Admin : desk'[b] = IF b = a THEN q ELSE desk[b]
  BY DEF OfficeInv, OfficeTypeOK
<1>4. ASSUME NEW b \in Admin, desk'[b] # AtRest PROVE Held(b)'
  <2>1. CASE b = a
    <3>1. desk'[b] = q /\ q # AtRest
      BY <1>3, <1>4, <2>1
    <3>2. \A c \in Admin : desk'[c].row = q.row =>
             c = b \/ ("create" \notin {q.op, desk'[c].op} /\ ~ (q.pc = "commit" /\ desk'[c].pc = "commit"))
      BY <1>3, <2>1, <3>1
    <3> QED
      BY <3>1, <3>2 DEF Held, Missing, Restricted, Live
  <2>2. CASE b # a
    <3>1. desk'[b] = desk[b] /\ Held(b)
      BY <1>3, <1>4, <2>2 DEF OfficeInv, DesksOK
    <3>2. desk[b].row \in Row
      BY <3>1 DEF Held
    <3>3. AtRest.row \notin Row
      BY BackOfficeConstants DEF AtRest
    <3>4. ASSUME desk'[a].row = desk[b].row
          PROVE  desk[b].op # "create" /\ ~ (desk'[a].pc = "commit" /\ desk[b].pc = "commit")
      BY <1>3, <2>2, <3>2, <3>3, <3>4
    <3>5. /\ desk[b].op = "create" => \A c \in Admin : desk'[c].row = desk[b].row => c = b
          /\ desk[b].pc = "commit" => \A c \in Admin : (desk'[c].pc = "commit" /\ desk'[c].row = desk[b].row) => c = b
      BY <1>3, <3>1, <3>4 DEF Held
    <3> QED
      BY <3>1, <3>5 DEF Held, Missing, Restricted, Live
  <2> QED
    BY <2>1, <2>2
<1> QED
  BY <1>1, <1>2, <1>4 DEF OfficeInv, DesksOK

LEMMA BeginStep ==
    ASSUME OfficeInv, writes' \in 0 .. MaxWrites, NEW a \in Admin, Begin(a)
    PROVE  OfficeInv' /\ UNCHANGED <<table, rows, drawn>>
<1>1. UNCHANGED <<table, rows, used, drawn>> /\ table # "orders" /\ table \in Tables
  BY DEF Begin, Create, Patch, Archive, Delete, OfficeInv, OfficeTypeOK
<1>2. AtRest.row = NoRow /\ AtRest.pc = "idle" /\ AtRest.op = "none" /\ AtRest.at = 0 /\ AtRest.to = "none"
  BY DEF AtRest
<1>3. CASE Create(a)
  <2>1. PICK r \in Row, s \in StatusOf(table), t \in 1 .. MaxAt :
           /\ Fresh(r)
           /\ desk' = [desk EXCEPT ![a] = [pc |-> "write", op |-> "create", row |-> r, to |-> s, at |-> t]]
    BY <1>3 DEF Create, Instants
  <2> DEFINE q == [pc |-> "write", op |-> "create", row |-> r, to |-> s, at |-> t]
  <2>2. q \in Desk /\ q.pc = "write" /\ q.op = "create" /\ q.row = r /\ q.to = s /\ q.at = t
    BY <1>1, Statuses DEF Desk
  <2>3. r \notin drawn /\ \A b \in Admin : desk[b].row # r
    BY <2>1 DEF Fresh
  <2> HIDE DEF q
  <2> QED
    BY <1>1, <2>1, <2>2, <2>3, DeskStep DEF q
<1>4. ASSUME NEW q \in Desk, desk' = [desk EXCEPT ![a] = q],
             q.pc = "write", q.op \in {"patch", "delete"}, q.row \in Live,
             q.op # "delete" => q.to \in StatusOf(table)
      PROVE  OfficeInv'
  <2>1. q.row \in Row /\ q.row \in drawn
    BY <1>4, LiveRows DEF Live
  <2>2. \A b \in Admin : desk[b].row = q.row => desk[b].op # "create"
    <3> SUFFICES ASSUME NEW b \in Admin, desk[b].row = q.row, desk[b].op = "create" PROVE FALSE
      OBVIOUS
    <3>1. Held(b)
      BY <1>2 DEF OfficeInv, DesksOK
    <3> QED
      BY <2>1, <3>1 DEF Held
  <2> QED
    BY <1>1, <1>4, <2>1, <2>2, DeskStep
<1>5. \A r \in Live : r \in Row /\ 0 \in 0 .. MaxAt
  BY BackOfficeConstants DEF Live
<1>6. CASE Patch(a)
  <2>1. PICK r \in Live, s \in StatusOf(table) :
           desk' = [desk EXCEPT ![a] = [AtRest EXCEPT !.pc = "write", !.op = "patch", !.row = r, !.to = s]]
    BY <1>6 DEF Patch
  <2> DEFINE q == [AtRest EXCEPT !.pc = "write", !.op = "patch", !.row = r, !.to = s]
  <2>2. q \in Desk /\ q.pc = "write" /\ q.op = "patch" /\ q.row = r /\ q.to = s
    BY <1>1, <1>5, Statuses DEF Desk, AtRest
  <2>3. desk' = [desk EXCEPT ![a] = q]
    BY <2>1
  <2> HIDE DEF q
  <2> QED
    BY <1>1, <1>4, <2>2, <2>3
<1>7. CASE Archive(a)
  <2>1. PICK r \in Live :
           desk' = [desk EXCEPT ![a] =
               [AtRest EXCEPT !.pc = "write", !.op = "patch", !.row = r, !.to = "ARCHIVED"]]
    BY <1>7 DEF Archive
  <2> DEFINE q == [AtRest EXCEPT !.pc = "write", !.op = "patch", !.row = r, !.to = "ARCHIVED"]
  <2>2. "ARCHIVED" \in StatusOf(table)
    BY <1>7 DEF Archive, StatusOf
  <2>3. q \in Desk /\ q.pc = "write" /\ q.op = "patch" /\ q.row = r /\ q.to = "ARCHIVED"
    BY <1>1, <1>5, <2>2, Statuses DEF Desk, AtRest
  <2>4. desk' = [desk EXCEPT ![a] = q]
    BY <2>1
  <2> HIDE DEF q
  <2> QED
    BY <1>1, <1>4, <2>2, <2>3, <2>4
<1>8. CASE Delete(a)
  <2>1. PICK r \in Live :
           desk' = [desk EXCEPT ![a] = [AtRest EXCEPT !.pc = "write", !.op = "delete", !.row = r]]
    BY <1>8 DEF Delete
  <2> DEFINE q == [AtRest EXCEPT !.pc = "write", !.op = "delete", !.row = r]
  <2>2. q \in Desk /\ q.pc = "write" /\ q.op = "delete" /\ q.row = r
    BY <1>5 DEF Desk, AtRest
  <2>3. desk' = [desk EXCEPT ![a] = q]
    BY <2>1
  <2> HIDE DEF q
  <2> QED
    BY <1>1, <1>4, <2>2, <2>3
<1> QED
  BY <1>1, <1>3, <1>6, <1>7, <1>8 DEF Begin

(* The statement takes the row's lock or finds the row gone or referred to.    *)
LEMMA WriteStep ==
    ASSUME OfficeInv, UNCHANGED writes, NEW a \in Admin, Write(a) \/ LoseDesk(a)
    PROVE  OfficeInv' /\ UNCHANGED <<table, rows, drawn>>
<1>1. UNCHANGED <<table, rows, used, drawn>> /\ writes' \in 0 .. MaxWrites
  BY DEF Write, LoseDesk, OfficeInv, OfficeTypeOK
<1>2. AtRest \in Desk
  BY BackOfficeConstants DEF AtRest, Desk
<1>3. CASE desk' = [desk EXCEPT ![a] = AtRest]
  BY <1>1, <1>2, <1>3, DeskStep
<1>4. CASE Write(a) /\ ~ Missing(desk[a]) /\ ~ Restricted(desk[a])
  <2> DEFINE q == [desk[a] EXCEPT !.pc = "commit"]
  <2>1. desk[a] \in Desk /\ desk[a] # AtRest /\ Held(a) /\ ~ Locked(desk[a].row)
    BY <1>4 DEF Write, OfficeInv, OfficeTypeOK, DesksOK, Desk, AtRest
  <2>2. /\ q \in Desk /\ q.pc = "commit" /\ q.op = desk[a].op /\ q.row = desk[a].row
        /\ q.to = desk[a].to /\ q.at = desk[a].at
    BY <2>1 DEF Desk
  <2>3. desk' = [desk EXCEPT ![a] = q]
    BY <1>4 DEF Write
  <2>4. ASSUME NEW b \in Admin \ {a}, desk[b].row = desk[a].row
        PROVE  "create" \notin {desk[a].op, desk[b].op} /\ desk[b].pc # "commit"
    <3>1. desk[b] # AtRest
      BY <2>1, <2>4, BackOfficeConstants DEF AtRest, Held
    <3>2. Held(b)
      BY <3>1 DEF OfficeInv, DesksOK
    <3> QED
      BY <2>1, <2>4, <3>2 DEF Held, Locked
  <2>5. ~ Missing(q) /\ ~ Restricted(q)
    BY <1>4, <2>2 DEF Missing, Restricted
  <2>6. /\ table # "orders"
        /\ q.op \in {"create", "patch", "delete"} /\ q.row \in Row
        /\ q.op # "delete" => q.to \in StatusOf(table)
        /\ q.op = "create" => q.at \in 1 .. MaxAt /\ q.row \notin drawn
    BY <2>1, <2>2 DEF Held
  <2> HIDE DEF q
  <2> QED
    BY <1>1, <2>2, <2>3, <2>4, <2>5, <2>6, DeskStep
<1> QED
  BY <1>1, <1>3, <1>4 DEF Write, LoseDesk

(* What time does to a list: an id that has been used stays used, a row keeps  *)
(* its place while it is there, and orders stay.                               *)
Ages ==
    /\ table' = table
    /\ drawn \subseteq drawn'
    /\ \A r \in Row : (r \notin Live /\ r \in Live') => r \notin drawn
    /\ \A r \in Live : r \in Live' => rows'[r].at = rows[r].at
    /\ table = "orders" => \A r \in Live : r \in Live' /\ rows'[r].mine = rows[r].mine

LEMMA RowStep ==
    ASSUME OfficeInv, NEW r \in Row, NEW row \in RowsOf(table) \cup {Absent},
           rows' = [rows EXCEPT ![r] = row], drawn' = drawn \cup {r}, UNCHANGED <<table, used>>,
           writes' \in 0 .. MaxWrites, desk' \in [Admin -> Desk],
           row = Absent => r \notin used,
           r \notin Live => r \notin drawn,
           (r \in Live /\ row # Absent) => row.at = rows[r].at,
           table = "orders" => row # Absent /\ (r \in Live => row.mine = rows[r].mine),
           \A b \in Admin : desk'[b] \in {desk[b], AtRest},
           \A b \in Admin : (desk'[b] # AtRest /\ (desk[b].op = "create" \/ desk[b].pc = "commit")) => desk[b].row # r
    PROVE  OfficeInv' /\ Ages
<1>1. \A q \in Row : rows'[q] = IF q = r THEN row ELSE rows[q]
  BY DEF OfficeInv, OfficeTypeOK
<1>2. table \in Tables /\ (row # Absent => row \in RowsOf(table) /\ row.status \in StatusOf(table))
  BY DEF OfficeInv, OfficeTypeOK, RowsOf
<1>4. OfficeTypeOK'
  <2>1. rows' \in [Row -> RowsOf(table') \cup {Absent}] /\ drawn' \in SUBSET Row
    BY DEF OfficeInv, OfficeTypeOK
  <2> QED
    BY <2>1 DEF OfficeInv, OfficeTypeOK, Desk
<1>5. \A q \in Row : q \in Live' <=> IF q = r THEN row # Absent ELSE q \in Live
  BY <1>1 DEF Live
<1>6. (Live \subseteq drawn)'
  BY <1>5 DEF OfficeInv, Live
<1>7. UsedCouponsStay'
  BY <1>5 DEF OfficeInv, OfficeTypeOK, UsedCouponsStay
<1>8. ASSUME NEW b \in Admin, desk'[b] # AtRest PROVE Held(b)'
  <2>1. desk'[b] = desk[b] /\ Held(b) /\ AtRest.row = NoRow /\ AtRest.pc = "idle"
    BY <1>8 DEF OfficeInv, DesksOK, AtRest
  <2>2. desk[b].row \in Row /\ desk[b].row # NoRow
    BY <2>1, BackOfficeConstants DEF Held
  <2>3. desk[b].pc = "commit" => /\ desk[b].row \in Live' <=> desk[b].row \in Live
                                 /\ \A c \in Admin : (desk'[c].pc = "commit" /\ desk'[c].row = desk[b].row) => c = b
    BY <1>5, <1>8, <2>1, <2>2 DEF Held
  <2>4. desk[b].op = "create" => /\ desk[b].row \notin drawn'
                                 /\ \A c \in Admin : desk'[c].row = desk[b].row => c = b
    BY <1>1, <1>8, <2>1, <2>2 DEF Held
  <2> QED
    BY <2>1, <2>3, <2>4 DEF Held, Missing, Restricted
<1>9. Ages
  <2>1. \A q \in Live : q \in Row
    BY DEF Live
  <2> QED
    BY <1>1, <1>5, <2>1 DEF Ages
<1> QED
  BY <1>4, <1>6, <1>7, <1>8, <1>9 DEF OfficeInv, DesksOK

LEMMA CommitStep ==
    ASSUME OfficeInv, UNCHANGED writes, NEW a \in Admin, Commit(a)
    PROVE  OfficeInv' /\ Ages
<1> DEFINE q == desk[a]
           r == q.row
<1>1. q \in Desk /\ q.pc = "commit" /\ q # AtRest /\ Held(a) /\ r \in Row
  BY DEF Commit, OfficeInv, OfficeTypeOK, DesksOK, Desk, AtRest, Held
<1>2. /\ rows' = [rows EXCEPT ![r] = Becomes(q)] /\ drawn' = drawn \cup {r}
      /\ desk' = [desk EXCEPT ![a] = AtRest]
      /\ UNCHANGED <<table, used>> /\ writes' \in 0 .. MaxWrites
  BY DEF Commit, OfficeInv, OfficeTypeOK
<1>3. AtRest \in Desk
  BY BackOfficeConstants DEF AtRest, Desk
<1>4. desk' \in [Admin -> Desk] /\ \A b \in Admin : desk'[b] = IF b = a THEN AtRest ELSE desk[b]
  BY <1>2, <1>3 DEF OfficeInv, OfficeTypeOK, Desk
<1>5. \A b \in Admin : (desk'[b] # AtRest /\ (desk[b].op = "create" \/ desk[b].pc = "commit")) => desk[b].row # r
  BY <1>1, <1>4 DEF Held, OfficeInv, DesksOK
<1>6. Absent.at = 0 /\ \A x \in RowsOf(table) : x.at \in 1 .. MaxAt /\ x # Absent
  BY BackOfficeConstants DEF Absent, RowsOf
<1>7. /\ Becomes(q) \in RowsOf(table) \cup {Absent}
      /\ Becomes(q) = Absent => r \notin used
      /\ r \notin Live => r \notin drawn
      /\ (r \in Live /\ Becomes(q) # Absent) => Becomes(q).at = rows[r].at
  <2>1. CASE q.op = "create"
    <3>1. q.at \in 1 .. MaxAt /\ q.to \in StatusOf(table) /\ r \notin drawn
      BY <1>1, <2>1 DEF Held
    <3>2. Becomes(q) = [at |-> q.at, status |-> q.to, mine |-> FALSE]
      BY <2>1 DEF Becomes
    <3>3. Becomes(q) \in RowsOf(table) /\ Becomes(q).status = q.to
      BY <3>1, <3>2 DEF RowsOf
    <3>4. r \notin Live
      BY <1>1, <3>1, LiveRows
    <3> HIDE DEF q, r
    <3> QED
      BY <1>6, <3>1, <3>2, <3>3, <3>4
  <2>2. CASE q.op = "patch"
    <3>1. rows[r] \in RowsOf(table) /\ q.to \in StatusOf(table) /\ r \in Live
      BY <1>1, <2>2, LiveRows DEF Held, Missing
    <3>2. Becomes(q) = [rows[r] EXCEPT !.status = q.to]
      BY <2>2 DEF Becomes
    <3>3. Becomes(q) \in RowsOf(table) /\ Becomes(q).status = q.to /\ Becomes(q).at = rows[r].at
      BY <3>1, <3>2 DEF RowsOf
    <3> HIDE DEF q, r
    <3> QED
      BY <1>6, <3>1, <3>2, <3>3
  <2>3. CASE q.op = "delete"
    <3>1. Becomes(q) = Absent
      BY <2>3 DEF Becomes
    <3>2. r \in Live /\ r \notin used
      BY <1>1, <2>3 DEF Held, Missing, Restricted
    <3> HIDE DEF q, r
    <3> QED
      BY <3>1, <3>2
  <2> QED
    BY <1>1, <2>1, <2>2, <2>3 DEF Held
<1>8. table # "orders"
  BY <1>1 DEF Held
<1>9. PICK row : row = Becomes(q)
  OBVIOUS
<1> HIDE DEF q, r
<1> QED
  BY <1>1, <1>2, <1>4, <1>5, <1>7, <1>8, <1>9, RowStep

LEMMA OrderStep ==
    ASSUME OfficeInv, writes' \in 0 .. MaxWrites, NEW r \in Row, PlaceOrder(r) \/ MoveOrder(r)
    PROVE  OfficeInv' /\ Ages
<1>1. /\ table = "orders" /\ UNCHANGED <<table, used, desk>>
      /\ \A b \in Admin : desk[b] = AtRest
  BY DEF PlaceOrder, MoveOrder, OfficeInv, DesksOK, Held
<1>2. StatusOf(table) = {"PENDING", "PAID", "SHIPPED", "CANCELLED"}
  BY <1>1 DEF StatusOf
<1>3. desk' \in [Admin -> Desk]
  BY <1>1 DEF OfficeInv, OfficeTypeOK, Desk
<1>4. Absent.at = 0 /\ \A x \in RowsOf(table) : x.at \in 1 .. MaxAt /\ x # Absent
  BY BackOfficeConstants DEF Absent, RowsOf
<1>5. CASE PlaceOrder(r)
  <2>1. PICK t \in 1 .. MaxAt, own \in BOOLEAN :
           rows' = [rows EXCEPT ![r] = [at |-> t, status |-> "PENDING", mine |-> own]]
    BY <1>5 DEF PlaceOrder, Instants
  <2>2. drawn' = drawn \cup {r} /\ r \notin Live /\ r \notin drawn
    BY <1>5 DEF PlaceOrder, Fresh, OfficeInv
  <2> DEFINE row == [at |-> t, status |-> "PENDING", mine |-> own]
  <2>3. row \in RowsOf(table) /\ row.status = "PENDING"
    BY <1>2 DEF RowsOf
  <2>4. rows' = [rows EXCEPT ![r] = row]
    BY <2>1
  <2> HIDE DEF row
  <2> QED
    BY <1>1, <1>3, <1>4, <2>2, <2>3, <2>4, RowStep
<1>6. CASE MoveOrder(r)
  <2>1. PICK s \in {"PAID", "CANCELLED", "SHIPPED"} :
           rows' = [rows EXCEPT ![r].status = s]
    <3>1. CASE rows[r].status = "PENDING"
      BY <1>6, <3>1 DEF MoveOrder
    <3>2. CASE rows[r].status = "PAID"
      BY <1>6, <3>2 DEF MoveOrder
    <3>3. CASE rows[r].status \notin {"PENDING", "PAID"}
      BY <1>6, <3>3 DEF MoveOrder
    <3> QED
      BY <3>1, <3>2, <3>3
  <2> DEFINE row == [rows[r] EXCEPT !.status = s]
  <2>2. r \in Live /\ rows[r] \in RowsOf(table) /\ drawn' = drawn \cup {r}
    BY <1>6, LiveRows DEF MoveOrder
  <2>3. row \in RowsOf(table) /\ row.status = s /\ row.at = rows[r].at /\ row.mine = rows[r].mine
    BY <1>2, <2>2 DEF RowsOf
  <2>4. rows' = [rows EXCEPT ![r] = row]
    BY <2>1
  <2> HIDE DEF row
  <2> QED
    BY <1>1, <1>3, <1>4, <2>1, <2>2, <2>3, <2>4, RowStep, ZenonT(40)
<1> QED
  BY <1>5, <1>6

(* A use waits for a DELETE that has taken the row.                            *)
LEMMA RedeemStep ==
    ASSUME OfficeInv, writes' \in 0 .. MaxWrites, NEW r \in Row, Redeem(r)
    PROVE  OfficeInv' /\ UNCHANGED <<table, rows, drawn>>
<1>1. UNCHANGED <<table, rows, desk, drawn>> /\ used' = used \cup {r} /\ r \in Live
  BY DEF Redeem
<1>2. OfficeTypeOK' /\ (Live \subseteq drawn)' /\ UsedCouponsStay'
  BY <1>1 DEF OfficeInv, OfficeTypeOK, UsedCouponsStay, Live
<1>3. ASSUME NEW b \in Admin, desk[b] # AtRest PROVE Held(b)'
  <2>1. Held(b)
    BY <1>3 DEF OfficeInv, DesksOK
  <2>2. ~ (desk[b].pc = "commit" /\ desk[b].op = "delete" /\ desk[b].row = r)
    BY DEF Redeem
  <2> QED
    BY <1>1, <2>1, <2>2 DEF Held, Missing, Restricted, Live
<1> QED
  BY <1>1, <1>2, <1>3 DEF OfficeInv, DesksOK

LEMMA OfficeStep ==
    ASSUME OfficeInv, OfficeNext
    PROVE  OfficeInv' /\ Ages
<1>1. UNCHANGED <<table, rows, drawn>> => Ages
  BY DEF Ages, Live
<1>2. writes < MaxWrites /\ writes' = writes + 1 => writes' \in 0 .. MaxWrites
  BY BackOfficeConstants DEF OfficeInv, OfficeTypeOK
<1> QED
  BY <1>1, <1>2, BeginStep, WriteStep, CommitStep, OrderStep, RedeemStep DEF OfficeNext, Trade

LEMMA OfficeInitial == ASSUME OfficeInit, table \in Tables PROVE OfficeInv
<1>1. /\ First(table).at = 1 /\ First(table).mine = FALSE
      /\ First(table).status \in StatusOf(table) /\ First(table).status \in Status
  BY Statuses DEF First
<1>2. First(table) \in RowsOf(table) /\ Absent.status = "none" /\ First(table) # Absent
  <2>1. PICK s : First(table) = [at |-> 1, mine |-> FALSE, status |-> s]
    BY DEF First
  <2>2. s = First(table).status
    BY <2>1
  <2>3. First(table) \in RowsOf(table)
    BY <1>1, <2>1, <2>2, BackOfficeConstants DEF RowsOf
  <2> QED
    BY <1>1, <2>3 DEF Absent
<1>3. AtRest \in Desk
  BY BackOfficeConstants DEF AtRest, Desk
<1>4. rows \in [Row -> {First(table), Absent}] /\ drawn = Live
      /\ used = {} /\ writes = 0 /\ desk = [a \in Admin |-> AtRest]
  BY DEF OfficeInit
<1>5. OfficeTypeOK
  <2>1. drawn \in SUBSET Row
    BY <1>4 DEF Live
  <2>2. rows \in [Row -> RowsOf(table) \cup {Absent}]
    BY <1>2, <1>4
  <2>3. desk \in [Admin -> Desk] /\ writes \in 0 .. MaxWrites
    BY <1>3, <1>4, BackOfficeConstants
  <2> QED
    BY <1>4, <2>1, <2>2, <2>3 DEF OfficeTypeOK, Desk
<1>6. Live \subseteq drawn
  BY <1>4
<1> QED
  BY <1>4, <1>5, <1>6 DEF OfficeInv, DesksOK, UsedCouponsStay

--------------------------------------------------------------------------------
(* The order of the lists, and the places (ranks) of rows in them.             *)

LEMMA NewerOrder ==
    ASSUME NEW S, S \subseteq Nat, NEW at, \A r \in S : at[r] \in Nat
    PROVE  /\ \A r \in S : ~ Newer(at, r, r)
           /\ \A p, q \in S : p = q \/ Newer(at, p, q) \/ Newer(at, q, p)
           /\ \A p, q, r \in S : Newer(at, p, q) /\ Newer(at, q, r) => Newer(at, p, r)
  BY DEF Newer

LEMMA RankType ==
    ASSUME NEW S, IsFiniteSet(S), NEW at, NEW r
    PROVE  Rank(at, S, r) \in Nat /\ Rank(at, S, r) <= Cardinality(S)
  BY FS_Subset, FS_CardinalityType DEF Rank

(* The newer of two rows has the smaller rank.                                 *)
LEMMA RankLess ==
    ASSUME NEW S, IsFiniteSet(S), S \subseteq Nat, NEW at, \A r \in S : at[r] \in Nat,
           NEW p \in S, NEW q \in S, Newer(at, p, q)
    PROVE  Rank(at, S, p) < Rank(at, S, q)
<1> DEFINE P == {r \in S : Newer(at, r, p)}
           Q == {r \in S : Newer(at, r, q)}
<1>1. P \subseteq Q
  BY NewerOrder
<1>2. P # Q
  <2>1. p \in Q /\ p \notin P
    BY NewerOrder
  <2> QED
    BY <2>1
<1>3. IsFiniteSet(P) /\ IsFiniteSet(Q)
  BY FS_Subset
<1> HIDE DEF P, Q
<1>4. Cardinality(P) < Cardinality(Q)
  BY <1>1, <1>2, <1>3, FS_Subset, FS_CardinalityType
<1> QED
  BY <1>4 DEF Rank, P, Q

LEMMA RankOrder ==
    ASSUME NEW S, IsFiniteSet(S), S \subseteq Nat, NEW at, \A r \in S : at[r] \in Nat,
           NEW p \in S, NEW q \in S
    PROVE  /\ Rank(at, S, p) < Rank(at, S, q) => Newer(at, p, q)
           /\ Rank(at, S, p) = Rank(at, S, q) => p = q
<1>1. p = q \/ Newer(at, p, q) \/ Newer(at, q, p)
  BY NewerOrder
<1>2. Newer(at, p, q) => Rank(at, S, p) < Rank(at, S, q)
  BY RankLess
<1>3. Newer(at, q, p) => Rank(at, S, q) < Rank(at, S, p)
  BY RankLess
<1>4. Rank(at, S, p) \in Nat /\ Rank(at, S, q) \in Nat
  BY RankType
<1> QED
  BY <1>1, <1>2, <1>3, <1>4

(* A row only moves down while rows are added.                                 *)
LEMMA RankGrows ==
    ASSUME NEW S, NEW T, IsFiniteSet(T), S \subseteq T, NEW at, NEW bt,
           \A r \in S : bt[r] = at[r], NEW q \in S
    PROVE  Rank(at, S, q) <= Rank(bt, T, q)
<1>1. {r \in S : Newer(at, r, q)} \subseteq {r \in T : Newer(bt, r, q)}
  BY DEF Newer
<1>2. IsFiniteSet({r \in T : Newer(bt, r, q)})
  BY FS_Subset
<1> QED
  BY <1>1, <1>2, FS_Subset DEF Rank

LEMMA Least ==
    ASSUME NEW T, T \subseteq Nat, T # {}
    PROVE  \E m \in T : \A n \in T : m <= n
<1> DEFINE upTo == {0 .. n : n \in T}
           R == StrictSubsetOrdering(Nat)
<1>1. upTo \subseteq FiniteSubsetsOf(Nat) /\ upTo # {}
  <2>1. ASSUME NEW n \in T PROVE 0 .. n \in FiniteSubsetsOf(Nat)
    <3>1. n \in Int /\ 0 \in Int /\ 0 .. n \subseteq Nat
      OBVIOUS
    <3>2. IsFiniteSet(0 .. n)
      BY <3>1, FS_Interval
    <3> QED
      BY <3>1, <3>2 DEF FiniteSubsetsOf
  <2> QED
    BY <2>1
<1>2. IsWellFoundedOn(R, FiniteSubsetsOf(Nat))
  BY FS_StrictSubsetOrderingWellFounded
<1> HIDE DEF upTo, R
<1>3. PICK x \in upTo : \A y \in upTo : ~ (<<y, x>> \in R)
  BY <1>1, <1>2, WFMin
<1>4. PICK m \in T : x = 0 .. m
  BY <1>3 DEF upTo
<1>5. ASSUME NEW n \in T, n < m PROVE FALSE
  <2>1. n \in Nat /\ m \in Nat /\ 0 .. n \in upTo
    BY <1>5 DEF upTo
  <2>2. 0 .. n \subseteq 0 .. m /\ m \in 0 .. m /\ m \notin 0 .. n
    BY <1>5, <2>1
  <2>3. <<0 .. n, 0 .. m>> \in R
    BY <2>1, <2>2 DEF R, StrictSubsetOrdering
  <2> QED
    BY <1>3, <1>4, <2>1, <2>3
<1> QED
  BY <1>5

(* Every place in a list is taken.                                             *)
LEMMA PlaceTaken ==
    ASSUME NEW S, IsFiniteSet(S), S \subseteq Nat, NEW at, \A r \in S : at[r] \in Nat,
           NEW k \in Nat, k < Cardinality(S)
    PROVE  \E r \in S : Rank(at, S, r) = k
<1> DEFINE rank(r) == Rank(at, S, r)
<1>1. \A r \in S : rank(r) \in Nat
  BY RankType
<1>2. ASSUME NEW U, U \subseteq S, \A u \in U : rank(u) < k
      PROVE  Cardinality(U) <= k
  <2> DEFINE f == [u \in U |-> rank(u)]
  <2>1. f \in [U -> 0 .. k - 1]
    BY <1>1, <1>2
  <2>2. IsInjective(f)
    <3>1. \A u, v \in U : rank(u) = rank(v) => u = v
      BY <1>2, RankOrder
    <3> QED
      BY <3>1 DEF IsInjective
  <2>3. f \in Injection(U, 0 .. k - 1)
    BY <2>1, <2>2 DEF Injection
  <2>4. IsFiniteSet(0 .. k - 1) /\ Cardinality(0 .. k - 1) = k
    <3>1. PICK j \in Int : j = k - 1
      OBVIOUS
    <3>2. Cardinality(0 .. j) = IF 0 > j THEN 0 ELSE j - 0 + 1
      BY FS_Interval
    <3>3. IsFiniteSet(0 .. j)
      BY FS_Interval
    <3> QED
      BY <3>1, <3>2, <3>3
  <2> HIDE DEF f
  <2> QED
    BY <2>3, <2>4, FS_Injection
<1>3. \E r \in S : rank(r) >= k
  <2> SUFFICES ASSUME \A r \in S : ~ (rank(r) >= k) PROVE FALSE
    OBVIOUS
  <2>1. \A r \in S : rank(r) < k
    BY <1>1
  <2>2. Cardinality(S) <= k /\ Cardinality(S) \in Nat
    BY <2>1, <1>2, FS_CardinalityType
  <2> QED
    BY <2>2
<1>4. PICK m \in {rank(r) : r \in {u \in S : rank(u) >= k}} :
         \A n \in {rank(r) : r \in {u \in S : rank(u) >= k}} : m <= n
  BY <1>1, <1>3, Least
<1>5. PICK r \in S : rank(r) = m /\ m >= k
  OBVIOUS
<1>6. \A u \in S : rank(u) >= k => m <= rank(u)
  BY <1>4
<1>7. m <= k
  <2> DEFINE U == {u \in S : Newer(at, u, r)}
  <2>1. \A u \in U : rank(u) < m
    BY <1>5, RankLess
  <2>2. \A u \in U : rank(u) < k
    BY <1>1, <1>5, <1>6, <2>1
  <2>3. Cardinality(U) <= k
    BY <1>2, <2>2
  <2> QED
    BY <1>5, <2>3 DEF Rank
<1> QED
  BY <1>1, <1>5, <1>7

--------------------------------------------------------------------------------
(* Lists and their readers.                                                    *)

LEMMA ListFacts ==
    ASSUME OfficeInv
    PROVE  /\ Row \subseteq Nat /\ IsFiniteSet(Row)
           /\ Live \subseteq Row /\ ListOf(view) \subseteq Live
           /\ IsFiniteSet(ListOf(view)) /\ Count(view) \in 0 .. Cardinality(Row)
           /\ \A r \in Row : At[r] = rows[r].at /\ At[r] \in Nat
           /\ \A r \in Live : r \in drawn
<1>1. Row \subseteq Nat /\ IsFiniteSet(Row)
  BY BackOfficeConstants
<1>2. Live \subseteq Row /\ ListOf(view) \subseteq Live
  BY DEF Live, ListOf
<1>3. IsFiniteSet(ListOf(view)) /\ Count(view) \in 0 .. Cardinality(Row)
  <2>1. ListOf(view) \subseteq Row
    BY <1>2
  <2> QED
    BY <1>1, <2>1, FS_Subset, FS_CardinalityType DEF Count
<1>4. \A r \in Row : At[r] = rows[r].at /\ At[r] \in Nat
  <2> SUFFICES ASSUME NEW r \in Row PROVE rows[r].at \in Nat
    BY DEF At
  <2> QED
    BY LiveRows DEF Absent
<1>5. \A r \in Live : r \in drawn
  BY <1>2, LiveRows
<1> QED
  BY <1>1, <1>2, <1>3, <1>4, <1>5

LEMMA OfficeQuiet ==
    ASSUME OfficeInv, UNCHANGED officeVars
    PROVE  OfficeInv' /\ Live' = Live /\ At' = At
<1>1. UNCHANGED <<table, rows, used, desk, drawn, writes>>
  BY DEF officeVars
<1>2. Live' = Live /\ At' = At
  BY <1>1 DEF Live, At
<1>3. OfficeTypeOK' /\ (Live \subseteq drawn)' /\ UsedCouponsStay'
  BY <1>1, <1>2 DEF OfficeInv, OfficeTypeOK, UsedCouponsStay
<1>4. \A a \in Admin : Held(a) => Held(a)'
  BY <1>1, <1>2 DEF Held, Missing, Restricted
<1>5. DesksOK'
  BY <1>1, <1>4 DEF OfficeInv, DesksOK
<1> QED
  BY <1>2, <1>3, <1>5 DEF OfficeInv

(* The rows of a page come before the next cursor.                             *)
Ordered(at, S) == IsFiniteSet(S) /\ S \subseteq Nat /\ \A r \in S : at[r] \in Nat
Cut(at, from, page) ==
    /\ page.items \subseteq from
    /\ page.next # NoRow => /\ page.next \in from
                            /\ \A s \in page.items : Newer(at, s, page.next)

LEMMA CursorFacts ==
    ASSUME NEW S, NEW at, Ordered(at, S), NEW known, NEW c, NEW limit \in Nat \ {0}
    PROVE  /\ From(at, S, known, c) \subseteq S
           /\ Cut(at, From(at, S, known, c), CursorPage(at, S, known, c, limit))
<1> DEFINE F == From(at, S, known, c)
           skip == IF c = NoRow THEN 0 ELSE 1
           over == Slice(at, F, skip + limit, 1)
           items == Slice(at, F, skip, limit)
           got == CursorPage(at, S, known, c, limit)
<1>1. F \subseteq S
  BY DEF From
<1>2. IsFiniteSet(F) /\ F \subseteq Nat /\ \A r \in F : at[r] \in Nat
  BY <1>1, FS_Subset DEF Ordered
<1>3. got.items = items /\ got.next = IF over = {} THEN NoRow ELSE CHOOSE r \in over : TRUE
  BY DEF CursorPage
<1>4. skip \in Nat
  OBVIOUS
<1> HIDE DEF F, skip
<1>5. items \subseteq F /\ over \subseteq F
  BY DEF Slice
<1>6. \A s \in items, d \in over : Newer(at, s, d)
  <2> SUFFICES ASSUME NEW s \in items, NEW d \in over PROVE Newer(at, s, d)
    OBVIOUS
  <2>1. Rank(at, F, s) \in skip .. skip + limit - 1 /\ Rank(at, F, d) \in skip + limit .. skip + limit + 1 - 1
    BY DEF Slice
  <2>2. Rank(at, F, s) < Rank(at, F, d) /\ s \in F /\ d \in F
    BY <1>4, <1>5, <2>1
  <2> QED
    BY <1>2, <2>2, RankOrder
<1>7. got.next # NoRow => got.next \in over
  BY <1>3
<1> QED
  BY <1>1, <1>3, <1>5, <1>6, <1>7 DEF F, Cut

(* The part of the state that the readers by cursor and by page do not share.  *)
ViewOK  == table = TableOf(view.what) /\ view.only \in Filters(view.what) /\ view.limit \in Limits
FeedOK  == feed \in [next : Row \cup {NoRow}, more : BOOLEAN, seen : SUBSET Row, twice : SUBSET Row, old : SUBSET Row]
SheetOK ==
    sheet \in [page : PageNo, todo : SUBSET {"rows", "count"}, front : PageNo \cup {0}, seen : SUBSET Row,
               old : SUBSET Row, kept : [PageNo -> [rows : SUBSET Row, total : 0 .. Cardinality(Row)]]]

LEMMA Types == IInv <=> OfficeInv /\ ViewOK /\ FeedOK /\ SheetOK /\ ScrollInv /\ PagesInv
  BY DEF IInv, TypeOK, OfficeInv, ViewOK, FeedOK, SheetOK

LEMMA ScrollLoad ==
    ASSUME IInv, LoadMore
    PROVE  FeedOK' /\ ScrollInv'
<1> DEFINE S == ListOf(view)
           c == feed.next
           F == From(At, S, Live, c)
<1>1. PICK got : got = CursorPage(At, S, Live, c, view.limit)
  OBVIOUS
<1>2. /\ OfficeInv /\ FeedOK /\ ScrollInv /\ feed.more /\ view.limit \in Nat \ {0}
      /\ Live' = Live /\ At' = At /\ drawn' = drawn
      /\ NoRow \notin Row
  BY Types, OfficeQuiet, ListingConstants, BackOfficeConstants DEF LoadMore, ViewOK, officeVars
<1>3. feed' = [feed EXCEPT !.next = got.next, !.more = got.next # NoRow, !.seen = @ \cup got.items,
                           !.twice = @ \cup (feed.seen \cap got.items)]
  BY <1>1 DEF LoadMore
<1>4. /\ feed'.next = got.next /\ feed'.more = (got.next # NoRow)
      /\ feed'.seen = feed.seen \cup got.items
      /\ feed'.twice = feed.twice \cup (feed.seen \cap got.items)
      /\ feed'.old = feed.old
  BY <1>2, <1>3 DEF FeedOK
<1>5. /\ S \subseteq Live /\ Live \subseteq Row /\ S \subseteq Nat /\ IsFiniteSet(S) /\ Row \subseteq Nat
      /\ \A r \in Row : At[r] \in Nat
      /\ \A r \in Live : r \in drawn
  BY <1>2, ListFacts
<1> HIDE DEF S, c, F
<1>6. /\ got.items \subseteq F /\ F \subseteq S
      /\ got.next # NoRow => got.next \in F /\ \A s \in got.items : Newer(At, s, got.next)
  <2>1. Ordered(At, S)
    BY <1>5 DEF Ordered
  <2>2. F \subseteq S /\ Cut(At, F, got)
    BY <1>1, <1>2, <2>1, CursorFacts DEF F
  <2> QED
    BY <2>2 DEF Cut
<1>7. FeedOK'
  <2>1. got.next \in Row \cup {NoRow} /\ got.items \subseteq Row
    BY <1>5, <1>6
  <2> QED
    BY <1>2, <1>3, <2>1 DEF FeedOK
<1>8. ASSUME NEW s \in feed.seen, s \in Live, NEW d \in F PROVE Newer(At, s, d)
  <2>1. c # NoRow /\ d \in S
    BY <1>2, <1>6, <1>8 DEF ScrollInv, c
  <2>2. c \in Live /\ (d = c \/ Newer(At, c, d))
    BY <1>8, <2>1 DEF F, From
  <2>3. Newer(At, s, c)
    BY <1>2, <1>8, <2>1, <2>2 DEF ScrollInv, c
  <2>4. \A p, q, r \in Row : Newer(At, p, q) /\ Newer(At, q, r) => Newer(At, p, r)
    BY <1>5, NewerOrder
  <2> QED
    BY <1>5, <1>8, <2>1, <2>2, <2>3, <2>4
<1>9. feed.seen \cap got.items = {}
  <2> SUFFICES ASSUME NEW s \in feed.seen, s \in got.items PROVE FALSE
    OBVIOUS
  <2>1. s \in F /\ s \in Live
    BY <1>5, <1>6
  <2>2. Newer(At, s, s)
    BY <1>8, <2>1
  <2>3. \A r \in Row : ~ Newer(At, r, r)
    BY <1>5, NewerOrder
  <2> QED
    BY <1>5, <2>1, <2>2, <2>3
<1>10. \A s \in feed'.seen : (got.next # NoRow /\ {s, got.next} \subseteq Live) => Newer(At, s, got.next)
  BY <1>4, <1>6, <1>8
<1>11. \A s \in feed'.seen : s \in drawn
  BY <1>2, <1>4, <1>5, <1>6 DEF ScrollInv
<1>12. got.next # NoRow => got.next \in drawn
  BY <1>5, <1>6
<1> QED
  BY <1>2, <1>4, <1>7, <1>9, <1>10, <1>11, <1>12 DEF ScrollInv, NoRepeats

LEMMA ScrollChange ==
    ASSUME IInv, Ages, feed' = [feed EXCEPT !.old = @ \cap Untouched]
    PROVE  FeedOK' /\ ScrollInv'
<1>1. OfficeInv /\ FeedOK /\ ScrollInv
  BY Types
<1>2. /\ feed'.next = feed.next /\ feed'.more = feed.more /\ feed'.seen = feed.seen
      /\ feed'.twice = feed.twice
  BY <1>1 DEF FeedOK
<1>3. FeedOK'
  BY <1>1 DEF FeedOK
<1>4. \A r \in Row : (r \in drawn /\ r \in Live') => r \in Live /\ At'[r] = At[r]
  BY DEF Ages, At
<1>5. feed.seen \subseteq Row /\ feed.next \in Row \cup {NoRow}
  BY <1>1 DEF FeedOK
<1>6. ASSUME NEW s \in feed.seen, feed.next # NoRow, s \in Live', feed.next \in Live'
      PROVE  Newer(At, s, feed.next)'
  <2>1. s \in Row /\ feed.next \in Row /\ s \in Live /\ feed.next \in Live
    BY <1>1, <1>4, <1>5, <1>6 DEF ScrollInv
  <2>2. Newer(At, s, feed.next)
    BY <1>1, <1>6, <2>1 DEF ScrollInv
  <2>3. At'[s] = At[s] /\ At'[feed.next] = At[feed.next]
    BY <1>1, <1>4, <1>6, <2>1 DEF ScrollInv
  <2> QED
    BY <1>2, <2>2, <2>3 DEF Newer
<1>7. \A r \in Row : r \in drawn => r \in drawn'
  BY DEF Ages
<1> QED
  BY <1>1, <1>2, <1>3, <1>5, <1>6, <1>7 DEF ScrollInv, NoRepeats, Newer

--------------------------------------------------------------------------------
(* The readers by page.                                                        *)

LEMMA LastPage ==
    ASSUME NEW total \in Nat, NEW size \in Nat \ {0}, NEW p \in Nat \ {0}, p <= Pages(total, size)
    PROVE  (p - 1) * size < total
<1> DEFINE last == (total + size - 1) \div size
<1>1. last \in Nat /\ last * size <= total + size - 1
  OBVIOUS
<1>2. p <= last
  BY DEF Pages
<1> HIDE DEF last
<1>3. p * size <= last * size
  BY <1>1, <1>2
<1>4. p * size = (p - 1) * size + size
  OBVIOUS
<1> QED
  BY <1>1, <1>3, <1>4

LEMMA SheetFacts ==
    ASSUME IInv, view.what \in ByPage
    PROVE  /\ OfficeInv /\ SheetOK /\ table = "orders"
           /\ view.limit \in Nat \ {0}
           /\ sheet.page \in Nat \ {0} /\ sheet.front \in Nat /\ sheet.page \in PageNo
           /\ \A p \in PageNo : p \in Nat \ {0} /\ sheet.kept[p].total \in Nat
           /\ Reached /\ NoneSlipsBack
           /\ view.only = "any" => sheet.old \subseteq ListOf(view) /\ Counted /\ Shown
           /\ Count(view) \in Nat
<1>1. table = "orders"
  BY Types DEF ViewOK, TableOf, ByPage
<1>2. view.limit \in Nat \ {0}
  BY Types, ListingConstants DEF ViewOK
<1>3. IsFiniteSet(Row) /\ Cardinality(Row) \in Nat
  BY BackOfficeConstants, FS_CardinalityType
<1>4. \A p \in PageNo : p \in Nat /\ p # 0
  BY <1>3 DEF PageNo
<1>5. /\ sheet.page \in PageNo /\ sheet.front \in PageNo \cup {0}
      /\ \A p \in PageNo : sheet.kept[p].total \in 0 .. Cardinality(Row)
  BY Types DEF SheetOK
<1>6. OfficeInv /\ SheetOK /\ PagesInv
  BY Types
<1>7. Count(view) \in Nat
  BY <1>3, <1>6, ListFacts
<1>8. /\ sheet.page \in Nat \ {0} /\ sheet.front \in Nat /\ sheet.page \in PageNo
      /\ \A p \in PageNo : p \in Nat \ {0} /\ sheet.kept[p].total \in Nat
  <2>1. \A p \in PageNo : sheet.kept[p].total \in Nat
    BY <1>3, <1>5
  <2>2. sheet.page \in Nat \ {0} /\ sheet.front \in Nat
    BY <1>4, <1>5
  <2> QED
    BY <1>4, <1>5, <2>1, <2>2
<1>9. /\ Reached /\ NoneSlipsBack
      /\ view.only = "any" => sheet.old \subseteq ListOf(view) /\ Counted /\ Shown
  BY <1>6 DEF PagesInv
<1> QED
  BY <1>1, <1>2, <1>4, <1>6, <1>7, <1>8, <1>9

LEMMA PagesChange ==
    ASSUME IInv, OfficeInv', Ages, UNCHANGED <<view, sheet>>
    PROVE  PagesInv'
<1> SUFFICES ASSUME view.what \in ByPage PROVE PagesInv'
  BY DEF PagesInv
<1>1. Reached'
  BY SheetFacts DEF Reached
<1>2. ASSUME view.only = "any"
      PROVE  /\ ListOf(view) \subseteq ListOf(view)'
             /\ IsFiniteSet(ListOf(view)')
             /\ \A r \in ListOf(view) : At'[r] = At[r]
             /\ Count(view) <= Count(view)'
  <2>1. table = "orders" /\ \A r \in Live : r \in Live' /\ r \in Row
                                        /\ rows'[r].mine = rows[r].mine /\ rows'[r].at = rows[r].at
    BY SheetFacts DEF Ages, Live
  <2>2. ListOf(view) \subseteq ListOf(view)' /\ ListOf(view) \subseteq Live
    BY <1>2, <2>1 DEF ListOf
  <2>3. ListOf(view)' \subseteq Row
    BY DEF ListOf, Live
  <2>4. IsFiniteSet(ListOf(view)')
    BY <2>3, BackOfficeConstants, FS_Subset
  <2> QED
    BY <2>1, <2>2, <2>4, FS_Subset DEF Count, At
<1>3. view.only = "any" => sheet.old \subseteq ListOf(view)'
  BY <1>2, SheetFacts
<1>4. Count(view)' \in Nat
  <2>1. ListOf(view)' \subseteq Row
    BY DEF ListOf, Live
  <2> QED
    BY <2>1, BackOfficeConstants, FS_Subset, FS_CardinalityType DEF Count
<1>5. view.only = "any" => Counted'
  <2> SUFFICES ASSUME view.only = "any" PROVE Counted'
    OBVIOUS
  <2>1. Counted /\ Count(view) <= Count(view)'
    BY <1>2, SheetFacts
  <2>2. sheet.page > 1 => (sheet.page - 1) * view.limit \in Nat
    BY SheetFacts
  <2> QED
    BY <1>4, <2>1, <2>2, SheetFacts DEF Counted
<1>6. view.only = "any" => Shown'
  BY SheetFacts DEF Shown
<1>7. NoneSlipsBack'
  <2> SUFFICES ASSUME view.only = "any", NEW r \in sheet.old,
                      Rank(At, ListOf(view), r)' < sheet.front * view.limit
               PROVE  r \in sheet.seen
    BY DEF NoneSlipsBack
  <2>1. r \in ListOf(view)
    BY SheetFacts
  <2>2. Rank(At, ListOf(view), r) <= Rank(At', ListOf(view)', r)
    BY <1>2, <2>1, RankGrows
  <2>3. Rank(At, ListOf(view), r) \in Nat /\ Rank(At', ListOf(view)', r) \in Nat
    BY <1>2, ListFacts, SheetFacts, RankType
  <2>4. sheet.front * view.limit \in Nat
    BY SheetFacts
  <2>5. Rank(At, ListOf(view), r) < sheet.front * view.limit
    BY <2>2, <2>3, <2>4
  <2> QED
    BY <2>5, SheetFacts DEF NoneSlipsBack
<1> QED
  BY <1>1, <1>3, <1>5, <1>6, <1>7 DEF PagesInv

(* What is listed is the same in both states.                                  *)
LEMMA SameList ==
    ASSUME OfficeInv, UNCHANGED <<officeVars, view>>
    PROVE  /\ ListOf(view)' = ListOf(view) /\ Count(view)' = Count(view) /\ At' = At
           /\ \A r : Rank(At, ListOf(view), r)' = Rank(At, ListOf(view), r)
<1>1. ListOf(view)' = ListOf(view) /\ At' = At
  BY OfficeQuiet DEF ListOf, officeVars
<1> QED
  BY <1>1 DEF Count, Rank, Newer

LEMMA PagesRows ==
    ASSUME IInv, QueryRows
    PROVE  SheetOK' /\ PagesInv'
<1> DEFINE S == ListOf(view)
           p == sheet.page
           got == OffsetPage(At, S, p, view.limit)
<1>1. /\ SheetOK /\ "rows" \in sheet.todo /\ view' = view
      /\ sheet' = [sheet EXCEPT !.todo = @ \ {"rows"}, !.kept[p].rows = got, !.seen = @ \cup got,
                                !.front = IF p > @ THEN p ELSE @]
  BY Types DEF QueryRows
<1>2. got \subseteq S /\ S \subseteq Row
  BY Types, ListFacts DEF OffsetPage, Slice
<1> HIDE DEF got
<1>3. SheetOK'
  <2>1. p \in PageNo /\ sheet.kept \in [PageNo -> [rows : SUBSET Row, total : 0 .. Cardinality(Row)]]
    BY <1>1 DEF SheetOK
  <2>2. PICK kept2 : kept2 = [sheet.kept EXCEPT ![p].rows = got]
    OBVIOUS
  <2>3. kept2 \in [PageNo -> [rows : SUBSET Row, total : 0 .. Cardinality(Row)]]
    BY <1>2, <2>1, <2>2
  <2>4. PICK front2 : front2 = IF p > sheet.front THEN p ELSE sheet.front
    OBVIOUS
  <2>5. front2 \in PageNo \cup {0}
    BY <1>1, <2>1, <2>4 DEF SheetOK
  <2>6. PICK seen2, todo2 : seen2 = sheet.seen \cup got /\ todo2 = sheet.todo \ {"rows"}
    OBVIOUS
  <2>7. seen2 \in SUBSET Row /\ todo2 \in SUBSET {"rows", "count"}
    BY <1>1, <1>2, <2>6 DEF SheetOK
  <2>8. sheet' = [sheet EXCEPT !.todo = todo2, !.seen = seen2, !.kept = kept2, !.front = front2]
    BY <1>1, <2>2, <2>4, <2>6 DEF SheetOK
  <2>9. SheetOK
    BY <1>1
  <2> QED
    BY <2>3, <2>5, <2>7, <2>8, <2>9 DEF SheetOK
<1>4. /\ sheet'.page = p /\ sheet'.old = sheet.old
      /\ sheet'.todo = sheet.todo \ {"rows"}
      /\ sheet'.seen = sheet.seen \cup got
      /\ sheet'.front = IF p > sheet.front THEN p ELSE sheet.front
      /\ \A n \in PageNo : /\ sheet'.kept[n].total = sheet.kept[n].total
                           /\ sheet'.kept[n].rows = IF n = p THEN got ELSE sheet.kept[n].rows
  BY <1>1 DEF SheetOK
<1> SUFFICES ASSUME view.what \in ByPage PROVE PagesInv'
  BY <1>1, <1>3 DEF PagesInv
<1>5. /\ OfficeInv /\ view.limit \in Nat \ {0} /\ p \in Nat \ {0} /\ sheet.front \in Nat
      /\ Reached /\ NoneSlipsBack
      /\ view.only = "any" => sheet.old \subseteq S /\ Counted /\ Shown
  BY SheetFacts
<1>6. /\ ListOf(view)' = S /\ Count(view)' = Count(view)
      /\ \A r : Rank(At, ListOf(view), r)' = Rank(At, S, r)
  BY <1>1, <1>5, SameList DEF QueryRows
<1>7. Reached'
  BY <1>4, <1>5, SheetFacts DEF Reached
<1>8. view.only = "any" => Counted'
  BY <1>1, <1>4, <1>5, <1>6 DEF Counted
<1>9. (view.only = "any" /\ p > 1) => got # {}
  <2> SUFFICES ASSUME view.only = "any", p > 1 PROVE got # {}
    OBVIOUS
  <2>1. PICK k \in Nat : k = (p - 1) * view.limit
    BY <1>5
  <2>2. k < Cardinality(S)
    BY <1>5, <2>1 DEF Counted, Count
  <2>3. IsFiniteSet(S) /\ S \subseteq Nat /\ \A r \in S : At[r] \in Nat
    BY <1>2, <1>5, ListFacts
  <2>4. PICK r \in S : Rank(At, S, r) = k
    BY <2>2, <2>3, PlaceTaken
  <2>5. k \in k .. k + view.limit - 1
    BY <1>5
  <2> QED
    BY <2>1, <2>4, <2>5 DEF got, OffsetPage, Slice
<1>10. view.only = "any" => Shown'
  BY <1>4, <1>5, <1>9 DEF Shown
<1>11. NoneSlipsBack'
  <2> SUFFICES ASSUME view.only = "any", NEW r \in sheet.old,
                      Rank(At, S, r) < sheet'.front * view.limit
               PROVE  r \in sheet.seen \cup got
    BY <1>1, <1>4, <1>6 DEF NoneSlipsBack
  <2>1. r \in S /\ Rank(At, S, r) \in Nat
    BY <1>5, ListFacts, RankType
  <2>2. Rank(At, S, r) < sheet.front * view.limit => r \in sheet.seen
    BY <1>5 DEF NoneSlipsBack
  <2>3. CASE p <= sheet.front
    BY <1>4, <1>5, <2>2, <2>3
  <2>4. CASE p = sheet.front + 1
    <3>1. p * view.limit = sheet.front * view.limit + view.limit /\ p - 1 = sheet.front
      BY <1>5, <2>4
    <3>2. sheet'.front = p /\ sheet.front * view.limit \in Nat
      BY <1>4, <1>5, <2>4
    <3>3. CASE Rank(At, S, r) >= sheet.front * view.limit
      <4>1. Rank(At, S, r) \in (p - 1) * view.limit .. (p - 1) * view.limit + view.limit - 1
        BY <1>5, <2>1, <3>1, <3>2, <3>3
      <4> QED
        BY <2>1, <4>1 DEF got, OffsetPage, Slice
    <3> QED
      BY <2>1, <2>2, <3>2, <3>3
  <2> QED
    BY <1>5, <2>3, <2>4 DEF Reached
<1> QED
  BY <1>1, <1>4, <1>5, <1>6, <1>7, <1>8, <1>10, <1>11 DEF PagesInv

LEMMA PagesCount ==
    ASSUME IInv, QueryCount
    PROVE  SheetOK' /\ PagesInv'
<1> DEFINE p == sheet.page
<1>1. /\ SheetOK /\ OfficeInv /\ view' = view
      /\ sheet' = [sheet EXCEPT !.todo = @ \ {"count"}, !.kept[p].total = Count(view)]
  BY Types DEF QueryCount
<1>2. Count(view) \in 0 .. Cardinality(Row)
  BY <1>1, ListFacts
<1>3. SheetOK'
  <2>1. p \in PageNo /\ sheet.kept \in [PageNo -> [rows : SUBSET Row, total : 0 .. Cardinality(Row)]]
    BY <1>1 DEF SheetOK
  <2>2. PICK kept2 : kept2 = [sheet.kept EXCEPT ![p].total = Count(view)]
    OBVIOUS
  <2>3. kept2 \in [PageNo -> [rows : SUBSET Row, total : 0 .. Cardinality(Row)]]
    BY <1>2, <2>1, <2>2
  <2>4. PICK todo2 : todo2 = sheet.todo \ {"count"}
    OBVIOUS
  <2>5. todo2 \in SUBSET {"rows", "count"}
    BY <1>1, <2>4 DEF SheetOK
  <2>6. sheet' = [sheet EXCEPT !.todo = todo2, !.kept = kept2]
    BY <1>1, <2>2, <2>4 DEF SheetOK
  <2>7. SheetOK
    BY <1>1
  <2> QED
    BY <2>3, <2>5, <2>6, <2>7 DEF SheetOK
<1>4. /\ sheet'.page = p /\ sheet'.old = sheet.old /\ sheet'.seen = sheet.seen /\ sheet'.front = sheet.front
      /\ sheet'.todo = sheet.todo \ {"count"}
      /\ \A n \in PageNo : /\ sheet'.kept[n].rows = sheet.kept[n].rows
                           /\ sheet'.kept[n].total = IF n = p THEN Count(view) ELSE sheet.kept[n].total
  BY <1>1 DEF SheetOK
<1> SUFFICES ASSUME view.what \in ByPage PROVE PagesInv'
  BY <1>1, <1>3 DEF PagesInv
<1>5. /\ Reached /\ NoneSlipsBack /\ Count(view) \in Nat
      /\ view.only = "any" => sheet.old \subseteq ListOf(view) /\ Counted /\ Shown
  BY SheetFacts
<1>6. /\ ListOf(view)' = ListOf(view) /\ Count(view)' = Count(view)
      /\ \A r : Rank(At, ListOf(view), r)' = Rank(At, ListOf(view), r)
  BY <1>1, SameList DEF QueryCount
<1>7. Reached'
  BY <1>4, <1>5 DEF Reached
<1>8. view.only = "any" => Counted' /\ Shown'
  BY <1>1, <1>4, <1>5, <1>6 DEF Counted, Shown
<1>9. NoneSlipsBack'
  BY <1>1, <1>4, <1>5, <1>6 DEF NoneSlipsBack
<1> QED
  BY <1>1, <1>4, <1>5, <1>6, <1>7, <1>8, <1>9 DEF PagesInv

LEMMA PagesTurn ==
    ASSUME IInv, NEW p \in PageNo, Turn(p)
    PROVE  SheetOK' /\ PagesInv'
<1>1. /\ SheetOK /\ OfficeInv /\ view' = view /\ view.what \in ByPage /\ sheet.todo = {}
      /\ p = sheet.page - 1 \/ (p = sheet.page + 1 /\ p <= Pages(sheet.kept[sheet.page].total, view.limit))
  BY Types DEF Turn
<1>2. \/ sheet' = [sheet EXCEPT !.page = p, !.todo = {"rows", "count"}]
      \/ sheet.kept[p].total > 0 /\ sheet' = [sheet EXCEPT !.page = p]
  BY DEF Turn
<1>3. SheetOK'
  BY <1>1, <1>2 DEF SheetOK
<1>4. /\ sheet'.page = p /\ sheet'.old = sheet.old /\ sheet'.seen = sheet.seen /\ sheet'.front = sheet.front
      /\ sheet'.kept = sheet.kept
      /\ "rows" \in sheet'.todo \/ sheet.kept[p].total > 0
  BY <1>1, <1>2, ZenonT(40) DEF SheetOK
<1>5. /\ Reached /\ NoneSlipsBack /\ Count(view) \in Nat /\ view.limit \in Nat \ {0}
      /\ view.only = "any" => sheet.old \subseteq ListOf(view) /\ Counted /\ Shown
      /\ sheet.page \in Nat \ {0} /\ sheet.page \in PageNo /\ sheet.front \in Nat
      /\ p \in Nat \ {0} /\ sheet.kept[sheet.page].total \in Nat
  BY <1>1, SheetFacts
<1>6. /\ ListOf(view)' = ListOf(view) /\ Count(view)' = Count(view)
      /\ \A r : Rank(At, ListOf(view), r)' = Rank(At, ListOf(view), r)
  BY <1>1, SameList DEF Turn
<1>7. Reached'
  BY <1>1, <1>2, <1>4, <1>5 DEF Reached
<1>8. (view.only = "any" /\ p > 1) => (p - 1) * view.limit < Count(view)
  <2> SUFFICES ASSUME view.only = "any", p > 1 PROVE (p - 1) * view.limit < Count(view)
    OBVIOUS
  <2>1. CASE p = sheet.page - 1
    <3>1. (sheet.page - 1) * view.limit < Count(view)
      BY <1>5, <2>1 DEF Counted
    <3>2. sheet.page - 1 = p
      BY <1>5, <2>1
    <3>3. p * view.limit = (p - 1) * view.limit + view.limit /\ (p - 1) * view.limit \in Nat
      BY <1>5
    <3> QED
      BY <1>5, <3>1, <3>2, <3>3
  <2>2. CASE p = sheet.page + 1 /\ p <= Pages(sheet.kept[sheet.page].total, view.limit)
    <3>1. (p - 1) * view.limit < sheet.kept[sheet.page].total
      BY <1>5, <2>2, LastPage
    <3>2. sheet.kept[sheet.page].total <= Count(view)
      BY <1>5 DEF Counted
    <3>3. (p - 1) * view.limit \in Nat
      BY <1>5
    <3> QED
      BY <1>5, <3>1, <3>2, <3>3
  <2> QED
    BY <1>1, <2>1, <2>2
<1>9. view.only = "any" => Counted'
  BY <1>1, <1>4, <1>5, <1>6, <1>8 DEF Counted
<1>10. view.only = "any" => Shown'
  BY <1>1, <1>2, <1>4, <1>5 DEF Shown
<1>11. NoneSlipsBack'
  BY <1>1, <1>4, <1>5, <1>6 DEF NoneSlipsBack
<1> QED
  BY <1>1, <1>3, <1>4, <1>5, <1>6, <1>7, <1>9, <1>10, <1>11 DEF PagesInv

(* The first page of a list that has just been opened.                         *)
LEMMA FirstPages == OfficeInv /\ ViewOK /\ sheet = FirstSheet(view) => SheetOK /\ PagesInv
<1> SUFFICES ASSUME OfficeInv, ViewOK, sheet = FirstSheet(view) PROVE SheetOK /\ PagesInv
  OBVIOUS
<1>1. /\ sheet.page = 1 /\ sheet.front = 0 /\ sheet.seen = {} /\ sheet.old = ListOf(view)
      /\ sheet.todo = IF view.what \in ByPage THEN {"rows", "count"} ELSE {}
      /\ sheet.kept = [p \in PageNo |-> [rows |-> {}, total |-> 0]]
  BY DEF FirstSheet
<1>2. /\ 1 \in PageNo /\ Count(view) \in Nat /\ view.limit \in Nat
      /\ Cardinality(Row) \in Nat /\ ListOf(view) \subseteq Row
  <2>1. IsFiniteSet(Row) /\ Cardinality(Row) \in Nat /\ Cardinality(Row) # 0
    BY BackOfficeConstants, FS_CardinalityType, FS_EmptySet
  <2>2. 1 \in PageNo
    BY <2>1 DEF PageNo
  <2>3. Count(view) \in Nat /\ ListOf(view) \subseteq Row
    BY <2>1, ListFacts
  <2> QED
    BY <2>1, <2>2, <2>3, ListingConstants DEF ViewOK
<1>3. SheetOK
  BY <1>2 DEF SheetOK, FirstSheet
<1>4. \A p \in PageNo : p \in Nat /\ sheet.kept[p].total = 0
  BY <1>1, <1>2 DEF PageNo
<1>5. \A r : ~ (Rank(At, ListOf(view), r) < sheet.front * view.limit)
  <2> SUFFICES ASSUME NEW r PROVE ~ (Rank(At, ListOf(view), r) < sheet.front * view.limit)
    OBVIOUS
  <2>1. Rank(At, ListOf(view), r) \in Nat
    BY ListFacts, RankType
  <2> QED
    BY <1>1, <1>2, <2>1
<1> QED
  BY <1>1, <1>2, <1>3, <1>4, <1>5 DEF PagesInv, Reached, Counted, Shown, NoneSlipsBack

LEMMA PagesRefilter ==
    ASSUME IInv, NEW f \in Status \cup {"any"}, Refilter(f)
    PROVE  ViewOK' /\ SheetOK' /\ PagesInv'
<1>1. PICK v : v = [view EXCEPT !.only = f]
  OBVIOUS
<1>2. view' = v /\ sheet' = FirstSheet(v) /\ UNCHANGED officeVars
  BY <1>1 DEF Refilter
<1>3. OfficeInv'
  BY <1>2, OfficeQuiet, Types
<1>4. ViewOK'
  <2>1. v.what = view.what /\ v.limit = view.limit
    BY <1>1
  <2>2. view \in [what : {"adminOrders"}, only : Filters("adminOrders"), limit : Limits] => v.only = f
    BY <1>1
  <2> QED
    BY <1>2, <2>1, <2>2, Types DEF ViewOK, Refilter, officeVars
<1>5. Live' = Live /\ rows' = rows
  BY <1>2, OfficeQuiet, Types DEF officeVars
<1>6. (sheet = FirstSheet(view))'
  BY <1>2, <1>5 DEF FirstSheet, ListOf
<1>7. (OfficeInv /\ ViewOK /\ sheet = FirstSheet(view) => SheetOK /\ PagesInv)'
  BY FirstPages, PTL
<1> QED
  BY <1>3, <1>4, <1>6, <1>7

--------------------------------------------------------------------------------
(* What a step leaves alone.                                                   *)

LEMMA ScrollQuiet ==
    ASSUME IInv, UNCHANGED <<officeVars, feed>>
    PROVE  FeedOK' /\ ScrollInv'
<1>1. FeedOK /\ ScrollInv /\ feed' = feed
  BY Types
<1>2. drawn' = drawn /\ Live' = Live /\ At' = At
  BY OfficeQuiet, Types DEF officeVars
<1> QED
  BY <1>1, <1>2 DEF FeedOK, ScrollInv, NoRepeats, Newer

LEMMA PagesQuiet ==
    ASSUME IInv, UNCHANGED <<officeVars, view, sheet>>
    PROVE  ViewOK' /\ SheetOK' /\ PagesInv'
<1>1. ViewOK /\ SheetOK /\ PagesInv /\ OfficeInv /\ sheet' = sheet /\ view' = view /\ table' = table
  BY Types DEF officeVars
<1>2. /\ ListOf(view)' = ListOf(view) /\ Count(view)' = Count(view)
      /\ \A r : Rank(At, ListOf(view), r)' = Rank(At, ListOf(view), r)
  BY <1>1, SameList
<1>3. ViewOK' /\ SheetOK'
  BY <1>1 DEF ViewOK, SheetOK
<1> QED
  BY <1>1, <1>2, <1>3 DEF PagesInv, Reached, Counted, Shown, NoneSlipsBack

--------------------------------------------------------------------------------
(* The invariants of the readers are inductive.                                *)

LEMMA ListingInit == Init => IInv
<1> SUFFICES ASSUME Init PROVE IInv
  OBVIOUS
<1>1. PICK w \in ByCursor \cup ByPage :
         table = TableOf(w) /\ \E n \in Limits, f \in Filters(w) : view = [what |-> w, only |-> f, limit |-> n]
  BY DEF Init
<1>2. OfficeInit /\ feed = FirstFeed(view) /\ sheet = FirstSheet(view)
  BY DEF Init
<1>3. table \in Tables
  BY <1>1 DEF ByCursor, ByPage, TableOf, Tables
<1>4. OfficeInv
  BY <1>2, <1>3, OfficeInitial
<1>5. ViewOK
  BY <1>1 DEF ViewOK
<1>6. ListOf(view) \subseteq Row
  BY DEF ListOf, Live
<1>7. FeedOK
  BY <1>2, <1>6 DEF FeedOK, FirstFeed
<1>8. ScrollInv
  BY <1>2 DEF ScrollInv, FirstFeed, NoRepeats
<1> QED
  BY <1>2, <1>4, <1>5, <1>7, <1>8, FirstPages, Types

LEMMA ListingNext ==
    ASSUME IInv, [Next]_vars
    PROVE  IInv'
<1>1. (IInv <=> OfficeInv /\ ViewOK /\ FeedOK /\ SheetOK /\ ScrollInv /\ PagesInv)'
  BY Types, PTL
<1>2. OfficeInv
  BY Types
<1>3. CASE LoadMore
  <2>1. UNCHANGED <<officeVars, view, sheet>>
    BY <1>3 DEF LoadMore
  <2> QED
    BY <1>1, <1>2, <1>3, <2>1, OfficeQuiet, ScrollLoad, PagesQuiet
<1>4. ASSUME UNCHANGED <<officeVars, view, feed>>, SheetOK' /\ PagesInv' PROVE IInv'
  <2>1. ViewOK'
    BY <1>4, Types DEF ViewOK, officeVars
  <2> QED
    BY <1>1, <1>2, <1>4, <2>1, OfficeQuiet, ScrollQuiet
<1>5. CASE QueryRows
  BY <1>4, <1>5, PagesRows DEF QueryRows
<1>6. CASE QueryCount
  BY <1>4, <1>6, PagesCount DEF QueryCount
<1>7. ASSUME NEW p \in PageNo, Turn(p) PROVE IInv'
  <2>1. UNCHANGED <<officeVars, view, feed>>
    BY <1>7 DEF Turn
  <2> QED
    BY <1>4, <1>7, <2>1, PagesTurn
<1>8. ASSUME NEW f \in Status \cup {"any"}, Refilter(f) PROVE IInv'
  <2>1. UNCHANGED <<officeVars, feed>>
    BY <1>8 DEF Refilter
  <2> QED
    BY <1>1, <1>2, <1>8, <2>1, OfficeQuiet, ScrollQuiet, PagesRefilter
<1>9. CASE Change
  <2>1. /\ OfficeNext /\ feed' = [feed EXCEPT !.old = @ \cap Untouched]
        /\ view' = view /\ sheet' = sheet
    BY <1>9 DEF Change
  <2>2. OfficeInv' /\ Ages
    BY <1>2, <2>1, OfficeStep
  <2>3. ViewOK'
    BY <2>1, <2>2, Types DEF ViewOK, Ages
  <2>4. SheetOK'
    BY <2>1, Types DEF SheetOK
  <2> QED
    BY <1>1, <2>1, <2>2, <2>3, <2>4, ScrollChange, PagesChange
<1>10. CASE UNCHANGED vars
  BY <1>1, <1>2, <1>10, OfficeQuiet, ScrollQuiet, PagesQuiet DEF vars
<1> QED
  BY <1>3, <1>5, <1>6, <1>7, <1>8, <1>9, <1>10 DEF Next

LEMMA ListingInductive == Spec => []IInv
<1> QED
  BY ListingInit, ListingNext, PTL DEF Spec

(* The tables, the desks, the scroll and the sheet keep their types, and the   *)
(* reader stays with the table of the list (routes/products.ts,                *)
(* routes/orders.ts, routes/admin/*.ts).                                       *)
THEOREM ListingTypeCorrect == Spec => []TypeOK
<1>1. IInv => TypeOK
  BY DEF IInv
<1> QED
  BY <1>1, ListingInductive, PTL

(* No interleaving of DELETEs and checkouts deletes a coupon with uses         *)
(* (coupons.ts:207-208).                                                       *)
THEOREM RedeemedCouponsStay == Spec => []UsedCouponsStay
<1>1. IInv => UsedCouponsStay
  BY DEF IInv, OfficeInv
<1> QED
  BY <1>1, ListingInductive, PTL

(* A scroll by cursor shows no row twice, for any page size and whatever is    *)
(* written between its pages (productService.ts:120-123).                      *)
THEOREM ScrollNeverRepeats == Spec => []NoRepeats
<1>1. IInv => NoRepeats
  BY DEF IInv, ScrollInv
<1> QED
  BY <1>1, ListingInductive, PTL

(* Who turns the pages of an unfiltered list of orders misses none that was    *)
(* there when it was opened (routes/orders.ts, routes/admin/orders.ts).        *)
THEOREM PagesMissNone == Spec => []NoneSlipsBack
<1>1. IInv => NoneSlipsBack
  BY DEF IInv, PagesInv, NoneSlipsBack
<1> QED
  BY <1>1, ListingInductive, PTL

(* A page that the buttons of a list of orders lead to has orders on it, also  *)
(* when it or its total comes from the cache (MyOrders.tsx, AdminOrders.tsx).  *)
THEOREM ReachedPagesNotEmpty == Spec => []PagesNotEmpty
<1>1. IInv => PagesNotEmpty
  BY Types DEF PagesInv, PagesNotEmpty, Shown, SheetOK
<1> QED
  BY <1>1, ListingInductive, PTL

--------------------------------------------------------------------------------
(* Why a scroll ends: a page leaves the cursor further down, and nothing else  *)
(* moves it, nor a row that is there. It is the safety part of ScrollEnds.     *)
LoadDescends == LoadMore /\ feed.next # NoRow => feed'.next = NoRow \/ Newer(At, feed.next, feed'.next)
OthersKeep   == ~ LoadMore => /\ feed'.next = feed.next
                              /\ \A r \in Live : r \in Live' => At'[r] = At[r]

(* The next cursor is a row of the page's list, at place skip + limit, and the *)
(* place of the cursor, if it is in the list at all, is the first.             *)
LEMMA NextIsOlder ==
    ASSUME NEW S, NEW at, Ordered(at, S), NEW known, NEW c, c # NoRow, NEW limit \in Nat \ {0},
           CursorPage(at, S, known, c, limit).next # NoRow
    PROVE  Newer(at, c, CursorPage(at, S, known, c, limit).next)
<1> DEFINE F == From(at, S, known, c)
           over == Slice(at, F, 1 + limit, 1)
           next == CursorPage(at, S, known, c, limit).next
<1>1. next \in over
  BY DEF CursorPage
<1>2. F \subseteq S /\ IsFiniteSet(F)
  BY FS_Subset DEF From, Ordered
<1>3. next \in F /\ Rank(at, F, next) \in (1 + limit) .. (1 + limit) + 1 - 1
  BY <1>1 DEF Slice
<1>4. next = c \/ Newer(at, c, next)
  BY <1>3 DEF From
<1>5. ASSUME next = c PROVE FALSE
  <2>1. c \in S /\ at[c] \in Nat /\ c \in Nat
    BY <1>2, <1>3, <1>5 DEF Ordered
  <2>2. ASSUME NEW q \in F, Newer(at, q, c) PROVE FALSE
    <3>1. q \in S /\ at[q] \in Nat /\ q \in Nat /\ (q = c \/ Newer(at, c, q))
      BY <1>2 DEF From, Ordered
    <3> QED
      BY <2>1, <2>2, <3>1 DEF Newer
  <2>3. {q \in F : Newer(at, q, c)} = {}
    BY <2>2
  <2>4. Rank(at, F, c) = 0
    BY <2>3, FS_EmptySet DEF Rank
  <2> HIDE DEF F, next
  <2> QED
    BY <1>3, <1>5, <2>4
<1> QED
  BY <1>4, <1>5

LEMMA CursorSteps ==
    ASSUME IInv, [Next]_vars
    PROVE  LoadDescends /\ OthersKeep
<1>1. OfficeInv /\ FeedOK /\ ViewOK
  BY Types
<1>2. ASSUME LoadMore, feed.next # NoRow, feed'.next # NoRow
      PROVE  Newer(At, feed.next, feed'.next)
  <2>1. Ordered(At, ListOf(view))
    BY <1>1, ListFacts DEF Ordered
  <2>2. view.limit \in Nat \ {0}
    BY <1>1, ListingConstants DEF ViewOK
  <2>3. feed'.next = CursorPage(At, ListOf(view), Live, feed.next, view.limit).next
    BY <1>1, <1>2 DEF LoadMore, FeedOK
  <2> QED
    BY <1>2, <2>1, <2>2, <2>3, NextIsOlder
<1>3. ASSUME ~ LoadMore PROVE OthersKeep
  <2>1. CASE Change
    <3>1. Ages /\ feed'.next = feed.next
      BY <1>1, <2>1, OfficeStep DEF Change, FeedOK
    <3>2. ASSUME NEW r \in Live, r \in Live' PROVE At'[r] = At[r]
      BY <3>1, <3>2 DEF Ages, At, Live
    <3> QED
      BY <3>1, <3>2 DEF OthersKeep
  <2>2. CASE UNCHANGED <<officeVars, feed>>
    BY <1>1, <2>2, OfficeQuiet DEF OthersKeep
  <2>3. Change \/ UNCHANGED <<officeVars, feed>>
    BY <1>3 DEF Next, vars, QueryRows, QueryCount, Turn, Refilter
  <2> QED
    BY <2>1, <2>2, <2>3
<1> QED
  BY <1>2, <1>3 DEF LoadDescends, OthersKeep

(* Every page of a scroll ends it or takes the cursor strictly further down,   *)
(* and no write takes the cursor back up (productService.ts:120-123).          *)
THEOREM CursorDescends == Spec => [][LoadDescends /\ OthersKeep]_vars
<1> QED
  BY ListingInductive, CursorSteps, PTL DEF Spec
================================================================================
