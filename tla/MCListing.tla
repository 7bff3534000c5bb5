------------------------------- MODULE MCListing -------------------------------
(* Four ids, rows created at two instants, two administrators. The lists start *)
(* empty or nearly as long as they can get.                                    *)
EXTENDS Listing

CONSTANTS a1, a2
McRow == 1 .. 4
McInit == Init /\ Cardinality(Live) \in {0, 3, 4}
McSpec == McInit /\ [][Next]_vars /\ WF_vars(LoadMore)
================================================================================
