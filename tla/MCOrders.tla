-------------------------------- MODULE MCOrders -------------------------------
(* An order that was placed already, moved by two transactions at once: timer, *)
(* webhook, administrators and both sweeps race for it.                        *)
EXTENDS Shop

CONSTANTS s1, s2, u1, o1, o2, m1, m2

McSku == {s1, s2}
McOrder == {o1, o2}
McTx == {m1, m2}
McLimit == [c \in {} |-> 0]
McStock == [s \in McSku |-> 0]
McCart == [u \in {u1} |-> [no |-> 2, lines |-> Nothing]]
Both == [s \in McSku |-> 1]
McSeed == [o \in {o1} |->
             [status |-> "PENDING", lines |-> Both, user |-> u1, cart |-> 0, mode |-> "AUTO_SUCCESS"]]
================================================================================
