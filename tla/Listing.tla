--------------------------------- MODULE Listing -------------------------------
(*******************************************************************************)
(* Readers of the lists while the tables change (BackOffice): the storefront's *)
(* infinite list, an administrator's products and coupons by cursor, a user's  *)
(* orders and an administrator's by page.                                      *)
(*******************************************************************************)
EXTENDS BackOffice

CONSTANTS Limits    \* page sizes

ASSUME ListingConstants == Limits \subseteq Nat \ {0}

VARIABLES
    view,       \* what is listed, with which filter and page size
    feed,       \* the pages of a list by cursor
    sheet       \* the page of a list by offset

vars == <<officeVars, view, feed, sheet>>

TableOf(w) == CASE w \in {"storefront", "adminProducts"} -> "products"
                [] w = "adminCoupons" -> "coupons"
                [] w \in {"myOrders", "adminOrders"} -> "orders"
\* The filters of a list: the storefront's status is fixed, a user's orders are theirs.
Filters(w) == CASE w = "storefront"    -> {"ACTIVE"}
                [] w = "adminProducts" -> {"any", "DRAFT"}
                [] w = "adminOrders"   -> {"any", "PAID"}
                [] OTHER               -> {"any"}
ByCursor == {"storefront", "adminProducts", "adminCoupons"}
ByPage   == {"myOrders", "adminOrders"}

ListOf(v) == {r \in Live : (v.only # "any" => rows[r].status = v.only) /\ (v.what = "myOrders" => rows[r].mine)}
\* Faulty variant: the total of a user's orders counts everybody's.
CountAll(v) == Cardinality(Live)
Count(v)    == Cardinality(ListOf(v))

\* next, more: getNextPageParam and hasNextPage; seen and twice: the rows shown so far and
\* those shown again; old: the rows that were there when the list was opened and have not
\* been written since.
FirstFeed(v)  == [next |-> NoRow, more |-> v.what \in ByCursor, seen |-> {}, twice |-> {}, old |-> ListOf(v)]
\* page: the page asked for; todo: the queries it still waits for; front: the last page
\* reached; seen: as above; old: the rows that were there when the list was opened; kept: the
\* rows and the total of the pages in the query cache.
PageNo == 1 .. Cardinality(Row)
FirstSheet(v) == [page |-> 1, todo |-> IF v.what \in ByPage THEN {"rows", "count"} ELSE {}, front |-> 0,
                  seen |-> {}, old |-> ListOf(v), kept |-> [p \in PageNo |-> [rows |-> {}, total |-> 0]]]

TypeOK ==
    /\ OfficeTypeOK
    /\ table = TableOf(view.what) /\ view.only \in Filters(view.what) /\ view.limit \in Limits
    /\ feed \in [next : Row \cup {NoRow}, more : BOOLEAN, seen : SUBSET Row, twice : SUBSET Row, old : SUBSET Row]
    /\ sheet \in [page : PageNo, todo : SUBSET {"rows", "count"}, front : PageNo \cup {0}, seen : SUBSET Row,
                  old : SUBSET Row, kept : [PageNo -> [rows : SUBSET Row, total : 0 .. Cardinality(Row)]]]

--------------------------------------------------------------------------------

\* The sentinel of ProductList comes into view, or an API client asks on: the next page.
LoadMore ==
    /\ feed.more
    /\ LET got == CursorPage(At, ListOf(view), Live, feed.next, view.limit) IN
       feed' = [feed EXCEPT !.next = got.next, !.more = got.next # NoRow, !.seen = @ \cup got.items,
                            !.twice = @ \cup (feed.seen \cap got.items)]
    /\ UNCHANGED <<officeVars, view, sheet>>

\* Promise.all: the page's rows and the total are two queries, in either order.
QueryRows ==
    /\ "rows" \in sheet.todo
    /\ LET got == OffsetPage(At, ListOf(view), sheet.page, view.limit) IN
       sheet' = [sheet EXCEPT !.todo = @ \ {"rows"}, !.kept[sheet.page].rows = got, !.seen = @ \cup got,
                              !.front = IF sheet.page > @ THEN sheet.page ELSE @]
    /\ UNCHANGED <<officeVars, view, feed>>

QueryCount ==
    /\ "count" \in sheet.todo
    /\ sheet' = [sheet EXCEPT !.todo = @ \ {"count"}, !.kept[sheet.page].total = Count(view)]
    /\ UNCHANGED <<officeVars, view, feed>>

\* The buttons of MyOrders and AdminOrders, there once the page is and if it says that there
\* are more; an empty page of MyOrders shows none. A page that is in the cache may be shown
\* from it (staleTime) or asked for again.
Turn(p) ==
    LET here == sheet.kept[sheet.page]
        last == Pages(here.total, view.limit)
    IN
    /\ view.what \in ByPage /\ sheet.todo = {}
    /\ last > 1 /\ (view.what = "myOrders" => here.rows # {})
    /\ p = sheet.page - 1 \/ (p = sheet.page + 1 /\ p <= last)
    /\ \/ sheet' = [sheet EXCEPT !.page = p, !.todo = {"rows", "count"}]
       \/ sheet.kept[p].total > 0 /\ sheet' = [sheet EXCEPT !.page = p]
    /\ UNCHANGED <<officeVars, view, feed>>

\* AdminOrders: another status is another list, from its first page. (Another category in
\* the storefront is another query with a feed of its own: Init.)
Refilter(f) ==
    /\ view.what = "adminOrders" /\ f \in Filters(view.what) \ {view.only}
    /\ LET v == [view EXCEPT !.only = f] IN view' = v /\ sheet' = FirstSheet(v)
    /\ UNCHANGED <<officeVars, feed>>

\* A row that is written is no longer as it was when the list was opened.
Untouched == {r \in Row : rows'[r] = rows[r]}
Change ==
    /\ OfficeNext
    /\ feed' = [feed EXCEPT !.old = @ \cap Untouched]
    /\ UNCHANGED <<view, sheet>>

Init ==
    /\ \E w \in ByCursor \cup ByPage : table = TableOf(w) /\ \E n \in Limits, f \in Filters(w) : view = [what |-> w, only |-> f, limit |-> n]
    /\ OfficeInit
    /\ feed = FirstFeed(view) /\ sheet = FirstSheet(view)

Next ==
    \/ LoadMore \/ QueryRows \/ QueryCount
    \/ \E p \in PageNo : Turn(p)
    \/ \E f \in Status \cup {"any"} : Refilter(f)
    \/ Change

Spec == Init /\ [][Next]_vars
\* A reader at the bottom of the list keeps the sentinel in view.
FairSpec == Spec /\ WF_vars(LoadMore)

--------------------------------------------------------------------------------
(* One scroll shows no row twice, whatever is created, edited, archived or     *)
(* deleted between its pages (productService.ts:120-123, the compound order).  *)
NoRepeats == feed.twice = {}

(* A scroll ends although rows keep arriving: the cursor only ever goes down.  *)
ScrollEnds == <>(~ feed.more)

(* Orders that arrive push older ones down, never back over a page that has    *)
(* been read: who turns the pages of an unfiltered list misses none that was   *)
(* there (routes/orders.ts, routes/admin/orders.ts).                           *)
NoneSlipsBack ==
    (view.what \in ByPage /\ view.only = "any") =>
        \A r \in sheet.old : Rank(At, ListOf(view), r) < sheet.front * view.limit => r \in sheet.seen

(* A page that the buttons lead to has orders on it, although the total is     *)
(* another query's and may come from the cache (MyOrders.tsx: an empty page    *)
(* shows no buttons and reads "no orders yet").                                *)
PagesNotEmpty ==
    (view.what \in ByPage /\ view.only = "any" /\ sheet.page > 1 /\ "rows" \notin sheet.todo) => sheet.kept[sheet.page].rows # {}

--------------------------------------------------------------------------------
(* What the repository says and a run refutes.                                 *)

(* The test of products.test.ts:87 ("next page is contiguous and disjoint      *)
(* from first page"): a scroll of the storefront that has come to its end has  *)
(* shown every product that was there all the time.                            *)
NoRowSkipped == (view.what = "storefront" /\ ~ feed.more) => feed.old \subseteq feed.seen
================================================================================
