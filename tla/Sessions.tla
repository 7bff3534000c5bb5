-------------------------------- MODULE Sessions --------------------------------
(*******************************************************************************)
(* What the refresh tokens promise, whoever races for them: a session is a     *)
(* family of tokens with one good token at a time. A sign-in opens it, a       *)
(* rotation puts a token nobody has seen in the place of the good one in one   *)
(* step, and once it has ended it never has a good token again.                *)
(* The module AuthService, which models the requests statement by statement,   *)
(* is shown to implement this specification.                                   *)
(*******************************************************************************)
CONSTANT Token

VARIABLES good,     \* the good tokens, each with its family: a set of <<family, token>>
          issued    \* the tokens ever handed out

vars == <<good, issued>>

Init == good = {} /\ issued = {}

\* A family bears the name of its first token.
Open == \E n \in Token \ issued :
    /\ good' = good \cup {<<n, n>>}
    /\ issued' = issued \cup {n}

Rotate == \E s \in good, n \in Token \ issued :
    /\ good' = (good \ {s}) \cup {<<s[1], n>>}
    /\ issued' = issued \cup {n}

\* A logout, or the purge of expired tokens, which takes any number at once.
End ==
    /\ good' \subseteq good
    /\ UNCHANGED issued

Next == Open \/ Rotate \/ End

Spec == Init /\ [][Next]_vars

\* Family f has no good token; token n is one.
Ended(f)  == \A s \in good : s[1] # f
IsGood(n) == \E s \in good : s[2] = n

(* A sign-out is for good, and so is a rotation: a family that has ended never *)
(* has a good token again, and a token that is no longer good never is again.  *)
NeverRevived ==
    [][\A n \in issued : /\ Ended(n) => Ended(n)'
                         /\ ~ IsGood(n) => ~ IsGood(n)']_vars
================================================================================
