-------------------------------- MODULE MCShop ---------------------------------
(* One transaction of every kind at once: a checkout, a mover of orders and a  *)
(* stock adjustment, with one order already placed and room for another.       *)
EXTENDS Shop

CONSTANTS s1, s2, u1, o1, o2, k1, m1, a1

VARIABLE begun      \* how many checkouts have been sent

McSku == {s1, s2}
McOrder == {o1, o2}
McTx == {k1, m1, a1}
McLimit == [c \in {} |-> 0]
McStock == [s \in McSku |-> IF s = s1 THEN 1 ELSE 0]
Both == [s \in McSku |-> 1]
McCart == [u \in {u1} |-> [no |-> 1, lines |-> Both]]
McSeed == [o \in {o1} |->
             [status |-> "PENDING", lines |-> Both, user |-> u1, cart |-> 0,
              mode |-> "AUTO_FAILURE"]]
McDeltas == {-1, 1}
MaxBegun == 2       \* bound: the customer gives up after so many

\* A customer who retries for ever may meet the sweep in a deadlock for ever.
Sent == \E t \in CheckoutTx : ~ InCheckout(t) /\ InCheckout(t)'
McNext == Next /\ begun' = (IF Sent THEN begun + 1 ELSE begun) /\ begun' <= MaxBegun
McSpec == Init /\ begun = 0 /\ [][McNext]_<<vars, begun>> /\ Fairness
================================================================================
