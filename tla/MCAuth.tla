-------------------------------- MODULE MCAuth ---------------------------------
(* Two requests under way, a few tokens; a browser that sends one request at a *)
(* time and one with two tabs. The requests are interchangeable.               *)
EXTENDS AuthService, TLC

CONSTANTS r1, r2

One == <<1>>
Two == <<2>>
OneAndTwo == <<1, 2>>
EitherRequest == Permutations({r1, r2})
================================================================================
