--------------------------------- MODULE Paging --------------------------------
(*******************************************************************************)
(* The two ways the API cuts an ordered list into pages: by cursor (products,  *)
(* coupons) and by offset (orders). Rows are ordered by createdAt, newest      *)
(* first, and within one instant by id; at[r] is the createdAt of row r.       *)
(*******************************************************************************)
EXTENDS Naturals, FiniteSets

CONSTANT NoRow      \* no cursor

Newer(at, a, b) == at[a] > at[b] \/ (at[a] = at[b] /\ a > b)

Rank(at, S, r) == Cardinality({q \in S : Newer(at, q, r)})

\* OFFSET skip LIMIT n
Slice(at, S, skip, n) == {r \in S : Rank(at, S, r) \in skip .. skip + n - 1}

\* Faulty variant: the cursor's place is its createdAt alone.
FromInstant(at, S, known, cursor) ==
    CASE cursor = NoRow      -> S
      [] cursor \in known    -> {r \in S : at[r] <= at[cursor]}
      [] OTHER               -> {}

\* What Prisma makes of a cursor: the rows that pass the filter, from the cursor's place on;
\* none if the cursor's row is gone. `known` are the rows of the table, S those that pass.
From(at, S, known, cursor) ==
    CASE cursor = NoRow      -> S
      [] cursor \in known    -> {r \in S : r = cursor \/ Newer(at, cursor, r)}
      [] OTHER               -> {}

\* Faulty variant: the cursor is the page's last row and nothing is skipped.
StuckPage(at, S, known, cursor, limit) ==
    LET from == From(at, S, known, cursor)
        last == Slice(at, from, limit - 1, 1)
    IN  [items |-> Slice(at, from, 0, limit),
         next  |-> IF Slice(at, from, limit, 1) = {} THEN NoRow ELSE CHOOSE r \in last : TRUE]

\* take limit + 1, cursor, skip 1; the row too many is popped and becomes the next cursor.
CursorPage(at, S, known, cursor, limit) ==
    LET from == From(at, S, known, cursor)
        skip == IF cursor = NoRow THEN 0 ELSE 1
        over == Slice(at, from, skip + limit, 1)
    IN  [items |-> Slice(at, from, skip, limit),
         next  |-> IF over = {} THEN NoRow ELSE CHOOSE r \in over : TRUE]

\* OFFSET (page - 1) * size; in the faulty variant pages are counted from zero.
NextOffsetPage(at, S, page, size) == Slice(at, S, page * size, size)
OffsetPage(at, S, page, size) == Slice(at, S, (page - 1) * size, size)
Pages(total, size) == (total + size - 1) \div size
================================================================================
