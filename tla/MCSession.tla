------------------------------- MODULE MCSession -------------------------------
(* Two requests at once, two users, three passes of each.                      *)
EXTENDS SessionClient

CONSTANTS u1, u2, r1, r2
McSerial == 1 .. 3
================================================================================
