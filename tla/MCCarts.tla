-------------------------------- MODULE MCCarts --------------------------------
(* Two requests at once, of one member and of a browser; a guest session that  *)
(* nothing names any more stands for the next one. Requests and rows of the    *)
(* table are interchangeable.                                                  *)
EXTENDS Carts, TLC

CONSTANTS s1, m1, g1, c1, c2, c3, r1, r2

\* Bound: no request for more units once MaxUnits are in the carts there are.
Asked == MapThenSumSet(LAMBDA o : added[o][s1], Owner)
McNext == Next /\ (Asked < MaxUnits \/ Asked' <= Asked)
McSpec == Init /\ [][McNext]_vars

McShelves == {[stock |-> 2, active |-> TRUE], [stock |-> 1, active |-> FALSE]}

Alike == Permutations({r1, r2}) \cup Permutations({c1, c2, c3})
================================================================================
