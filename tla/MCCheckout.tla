------------------------------- MODULE MCCheckout ------------------------------
(* Two checkouts and a cart request at once, over two users, two SKUs and one  *)
(* coupon of limit 1.                                                         *)
(* k1, k2 may both run for one user (a double click) or for two.              *)
EXTENDS Shop

CONSTANTS s1, s2, u1, u2, o1, o2, c1, k1, k2, e1

McSku == {s1, s2}
McUser == {u1, u2}
McOrder == {o1, o2}
McTx == {k1, k2, e1}
McLimit == [c \in {c1} |-> 1]
McStock == [s \in McSku |-> IF s = s1 THEN 2 ELSE 1]
\* One cart has a line of each SKU, the other of the scarcer one.
McCart == [u \in McUser |-> [no |-> 0, lines |-> [s \in McSku |-> IF u = u1 \/ s = s2 THEN 1 ELSE 0]]]
McSeed == [o \in {} |-> {}]
\* Bound: cart requests are for a user's first cart, which they may outlive.
FirstCarts == \A t \in CartTx : ~ InEdit(t) /\ InEdit(t)' => ed'[t].no = 0
McNext == Next /\ FirstCarts
McSpec == Init /\ [][McNext]_vars /\ Fairness
================================================================================
