--------------------------------- MODULE MCJobs --------------------------------
(* Two processes, one with a pool of two connections; two runs; two orders of  *)
(* one or two units of a SKU; stock corrections.                               *)
EXTENDS Jobs

CONSTANTS s1, o1, o2, p1, p2, c1, c2, c3, r1, r2

McSku == {s1}
McContents == {[s \in McSku |-> n] : n \in 1 .. 2}
McDeltas == {-1, 2}
McPoolOf == [c \in {c1, c2, c3} |-> IF c = c3 THEN p2 ELSE p1]
MaxSupplied == 4      \* bound
MaxTaken == 2         \* bound: how often one connection holds one lock

McInit ==
    /\ stock = [s \in Sku |-> 2] /\ supplied = stock
    /\ status = [o \in Order |-> "NONE"]
    /\ lines = [o \in Order |-> [s \in Sku |-> 0]]
    /\ JobsInit

McNext ==
    /\ JobsNext
    /\ \A s \in Sku : supplied'[s] <= MaxSupplied
    /\ \A c \in Conn, j \in Job : locks'[c][j] <= MaxTaken
McSpec == McInit /\ [][McNext]_allVars
================================================================================
