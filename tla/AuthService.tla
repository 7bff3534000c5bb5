------------------------------- MODULE AuthService ------------------------------
(*******************************************************************************)
(* services/authService.ts and routes/auth.ts: the refresh tokens of a device, *)
(* rotated in families, with the 10 second grace window for retries, logout    *)
(* and the purge of jobs/cleanupRefreshTokens.ts. Requests are interleaved     *)
(* statement by statement; their answers may be lost or arrive out of order.   *)
(*                                                                             *)
(* The one row lock that matters is that of the token a rotation has revoked   *)
(* and not committed: an UPDATE of the same row waits for it and then tests    *)
(* "revokedAt IS NULL" again. What that transaction wrote becomes visible at   *)
(* its COMMIT (Insert).                                                        *)
(*******************************************************************************)
EXTENDS Naturals, FiniteSets

CONSTANTS Token,      \* bound: the refresh tokens that may ever be issued
          NoToken,
          Device,     \* browsers, each with its cookie jar
          Request,    \* bound: requests under way
          Tabs        \* bound: per device, its requests under way at once

ASSUME AuthConstants ==
    /\ NoToken \notin Token
    /\ IsFiniteSet(Request)
    /\ Tabs \in [Device -> Nat]

VARIABLES tokens,     \* the refresh_tokens table: a function on the tokens issued so far
          rq,         \* per request: where it stands and its local variables
          jar         \* per device, the value of its vella_refresh cookie

vars == <<tokens, rq, jar>>

\* "recent": revoked within the grace window. "purged": the job has deleted the row.
Row == [family : Token, parent : Token \cup {NoToken},
        revoked : {"no", "recent", "long"}, life : {"valid", "expired", "purged"}]

Rest == [pc |-> "idle"]

\* "plain" is the cookie the request carries, "target" the token it revokes or answers with.
Looking  == {"find", "latest", "burn", "reused"}
Rotating == {"revoke", "insert"}
Requests == [pc : Looking \cup Rotating \cup {"issue", "logout", "reply"}, dev : Device,
             plain : Token \cup {NoToken}, target : Token \cup {NoToken}]

TypeOK ==
    /\ DOMAIN tokens \subseteq Token
    /\ tokens \in [DOMAIN tokens -> Row]
    /\ rq \in [Request -> {Rest} \cup Requests]
    /\ jar \in [Device -> DOMAIN tokens \cup {NoToken}]
    /\ \A r \in Request : rq[r] # Rest =>
          /\ {rq[r].plain, rq[r].target} \subseteq DOMAIN tokens \cup {NoToken}
          /\ rq[r].pc \in Looking \cup Rotating => rq[r].plain # NoToken
          /\ rq[r].pc \in Rotating => rq[r].target # NoToken

Init ==
    /\ tokens = [n \in {} |-> NoToken]
    /\ rq = [r \in Request |-> Rest]
    /\ jar = [d \in Device |-> NoToken]

--------------------------------------------------------------------------------
Stored(n)   == tokens[n].life # "purged"
Unrevoked   == {n \in DOMAIN tokens : tokens[n].revoked = "no" /\ Stored(n)}
Latest(f)   == {n \in Unrevoked : tokens[n].family = f}
FamilyOf(r) == tokens[rq[r].plain].family

\* A rotation has updated the row and not committed.
Locked(n) == \E r \in Request : rq[r].pc = "insert" /\ rq[r].target = n

Fresh == CHOOSE n \in Token : n \notin DOMAIN tokens
Room  == DOMAIN tokens # Token

With(row) == [n \in DOMAIN tokens \cup {Fresh} |-> IF n = Fresh THEN row ELSE tokens[n]]

FirstRow == [family |-> Fresh, parent |-> NoToken, revoked |-> "no", life |-> "valid"]

\* Faulty variant: opts are not passed on, a rotation starts a family.
StrayRow(q) == FirstRow

\* Faulty variant: the grace path hangs the new token under the one it supersedes.
UnderLatest(q) ==
    [family |-> tokens[q.plain].family, parent |-> q.target, revoked |-> "no", life |-> "valid"]

NextRow(q) ==
    [family |-> tokens[q.plain].family, parent |-> q.plain, revoked |-> "no", life |-> "valid"]

Under(d)   == {r \in Request : rq[r] # Rest /\ rq[r].dev = d}
Free(r, d) == rq[r] = Rest /\ Cardinality(Under(d)) < Tabs[d]

Go(r, pc)  == rq' = [rq EXCEPT ![r].pc = pc]
Drop(r)    == rq' = [rq EXCEPT ![r] = Rest]

--------------------------------------------------------------------------------
(* POST /login and /register: one INSERT that commits by itself or with the    *)
(* user's row.                                                                 *)

SignIn(r, d) ==
    /\ Free(r, d)
    /\ rq' = [rq EXCEPT ![r] = [pc |-> "issue", dev |-> d, plain |-> NoToken, target |-> NoToken]]
    /\ UNCHANGED <<tokens, jar>>

Issue(r) ==
    /\ rq[r].pc = "issue"
    /\ Room
    /\ tokens' = With(FirstRow)
    /\ rq' = [rq EXCEPT ![r].pc = "reply", ![r].target = Fresh]
    /\ UNCHANGED jar

--------------------------------------------------------------------------------
(* POST /refresh: rotateRefreshToken inside one transaction.                   *)

\* Faulty variant: a request without the cookie goes on.
RefreshBlindly(r, d) ==
    /\ Free(r, d)
    /\ rq' = [rq EXCEPT ![r] = [pc |-> "find", dev |-> d, plain |-> jar[d], target |-> NoToken]]
    /\ UNCHANGED <<tokens, jar>>

Refresh(r, d) ==
    /\ Free(r, d)
    /\ jar[d] # NoToken
    /\ rq' = [rq EXCEPT ![r] = [pc |-> "find", dev |-> d, plain |-> jar[d], target |-> NoToken]]
    /\ UNCHANGED <<tokens, jar>>

\* findUnique: unknown and expired tokens are refused, a revoked one is looked into.
Find(r) ==
    LET row == tokens[rq[r].plain]
    IN  /\ rq[r].pc = "find"
        /\ \/ row.life # "valid" /\ Drop(r)
           \/ row.life = "valid" /\ row.revoked # "no" /\ Go(r, "latest")
           \/ /\ row.life = "valid" /\ row.revoked = "no"
              /\ rq' = [rq EXCEPT ![r].pc = "revoke", ![r].target = rq[r].plain]
        /\ UNCHANGED <<tokens, jar>>

\* findFirst of the family's newest unrevoked token, and the grace condition.
FindLatest(r) ==
    LET q == rq[r]
        grace(n) == tokens[n].parent = q.plain /\ tokens[q.plain].revoked = "recent"
    IN  /\ q.pc = "latest"
        /\ \/ \E n \in Latest(FamilyOf(r)) :
                 grace(n) /\ rq' = [rq EXCEPT ![r].pc = "revoke", ![r].target = n]
           \/ (\A n \in Latest(FamilyOf(r)) : ~ grace(n)) /\ Go(r, "burn")
        /\ UNCHANGED <<tokens, jar>>

\* Reuse: updateMany of the family, which waits for its locked rows, and a throw inside
\* the route's transaction, which takes the updateMany back.
Burn(r) ==
    /\ rq[r].pc = "burn"
    /\ \A n \in Latest(FamilyOf(r)) : ~ Locked(n)
    /\ Go(r, "reused")
    /\ UNCHANGED <<tokens, jar>>

\* Faulty variant: revoked.count is not looked at.
RevokeBlindly(r) ==
    /\ rq[r].pc = "revoke"
    /\ ~ Locked(rq[r].target)
    /\ Go(r, "insert")
    /\ UNCHANGED <<tokens, jar>>

\* Conditional updateMany; count = 0 is TOKEN_RACED.
Revoke(r) ==
    LET n == rq[r].target
    IN  /\ rq[r].pc = "revoke"
        /\ ~ Locked(n)
        /\ \/ n \in Unrevoked /\ Go(r, "insert")
           \/ n \notin Unrevoked /\ Drop(r)
        /\ UNCHANGED <<tokens, jar>>

\* issueRefreshToken and COMMIT: the revocation and the new row become visible together.
Insert(r) ==
    LET q == rq[r]
    IN  /\ q.pc = "insert"
        /\ Room
        /\ tokens' = [With(NextRow(q)) EXCEPT ![q.target].revoked = "recent"]
        /\ rq' = [rq EXCEPT ![r].pc = "reply", ![r].target = Fresh]
        /\ UNCHANGED jar

--------------------------------------------------------------------------------
(* POST /logout, with or without the cookie; the answer clears it.             *)

Logout(r, d) ==
    /\ Free(r, d)
    /\ rq' = [rq EXCEPT ![r] = [pc |-> "logout", dev |-> d, plain |-> jar[d], target |-> NoToken]]
    /\ UNCHANGED <<tokens, jar>>

RevokeOne(r) ==
    LET n == rq[r].plain
    IN  /\ rq[r].pc = "logout"
        /\ ~ Locked(n)
        /\ tokens' = IF n \in Unrevoked THEN [tokens EXCEPT ![n].revoked = "recent"] ELSE tokens
        /\ Go(r, "reply")
        /\ UNCHANGED jar

--------------------------------------------------------------------------------
(* The network, time and the purge.                                            *)

\* The answer arrives: Set-Cookie or clearCookie. A refusal leaves the cookie alone.
Deliver(r) ==
    /\ rq[r].pc \in {"reply", "reused"}
    /\ jar' = IF rq[r].pc = "reply" THEN [jar EXCEPT ![rq[r].dev] = rq[r].target] ELSE jar
    /\ Drop(r)
    /\ UNCHANGED tokens

\* The request or its answer is lost, or its transaction ends in an error or a crash: ROLLBACK.
Lose(r) ==
    /\ rq[r] # Rest
    /\ Drop(r)
    /\ UNCHANGED <<tokens, jar>>

\* Ten seconds pass.
CloseWindow(n) ==
    /\ tokens[n].revoked = "recent"
    /\ tokens' = [tokens EXCEPT ![n].revoked = "long"]
    /\ UNCHANGED <<rq, jar>>

\* Thirty days pass, for a token's predecessor first.
Expire(n) ==
    /\ tokens[n].life = "valid"
    /\ tokens[n].parent # NoToken => tokens[tokens[n].parent].life # "valid"
    /\ tokens' = [tokens EXCEPT ![n].life = "expired"]
    /\ UNCHANGED <<rq, jar>>

\* deleteMany of the rows that expired long ago and were not revoked recently.
Purge ==
    /\ \E gone \in (SUBSET {n \in DOMAIN tokens :
                       tokens[n].life = "expired" /\ tokens[n].revoked # "recent" /\ ~ Locked(n)}) \ {{}} :
          tokens' = [n \in DOMAIN tokens |->
                       IF n \in gone THEN [tokens[n] EXCEPT !.life = "purged"] ELSE tokens[n]]
    /\ UNCHANGED <<rq, jar>>

Step(r) ==
    \/ Issue(r)
    \/ Find(r) \/ FindLatest(r) \/ Burn(r) \/ Revoke(r) \/ Insert(r)
    \/ RevokeOne(r)
    \/ Deliver(r) \/ Lose(r)

Next ==
    \/ \E r \in Request, d \in Device : SignIn(r, d) \/ Refresh(r, d) \/ Logout(r, d)
    \/ \E r \in Request : Step(r)
    \/ \E n \in DOMAIN tokens : CloseWindow(n) \/ Expire(n)
    \/ Purge

Spec == Init /\ [][Next]_vars

--------------------------------------------------------------------------------
(* However the rotations, grace retries and logouts of a family interleave, it *)
(* never has two tokens that could both be rotated ("bail out instead of       *)
(* double-issuing", authService.ts:206-215, 238-251).                          *)
OneTokenPerFamily ==
    \A n, m \in Unrevoked : tokens[n].family = tokens[m].family => n = m

\* A session of Sessions is a family; its good token is the unrevoked one.
S == INSTANCE Sessions WITH good <- {<<tokens[n].family, n>> : n \in Unrevoked},
                            issued <- DOMAIN tokens

(* Every committed statement opens a family, ends some or replaces the one     *)
(* unrevoked token of a family by a new one: no interleaving revives a family  *)
(* that was ended or revokes a token without its successor being there.        *)
ImplementsSessions == S!Spec

(* A device with one request at a time may lose as many answers as the network *)
(* likes. It is refused with TOKEN_REUSED only when its token was rotated more *)
(* than ten seconds ago or its session is over: within the window every retry  *)
(* finds its token to be the parent of the family's unrevoked one, whichever   *)
(* tokens the lost answers left behind.                                        *)
RefusedOnlyLate ==
    \A r \in Request : (rq[r].pc \in {"burn", "reused"} /\ Tabs[rq[r].dev] = 1) =>
        \/ tokens[rq[r].plain].revoked = "long"
        \/ Latest(FamilyOf(r)) = {}

(* authService.ts:173 and SPEC.md:373: when a request is refused with          *)
(* TOKEN_REUSED its whole family has been revoked.                             *)
ReuseRevokesFamily ==
    \A r \in Request : rq[r].pc = "reused" => Latest(FamilyOf(r)) = {}
================================================================================
