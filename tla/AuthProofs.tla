------------------------------- MODULE AuthProofs -------------------------------
(*******************************************************************************)
(* Theorems of AuthService, for any number of tokens, devices and requests:    *)
(* types, one unrevoked token per family, that the statement-level model       *)
(* implements Sessions, and that refusals come late.                           *)
(*******************************************************************************)
EXTENDS AuthService, FiniteSetTheorems, TLAPS

(* While there is room, the next token's value is one nobody has seen.         *)
LEMMA FreshIsNew ==
    ASSUME Room, DOMAIN tokens \subseteq Token
    PROVE  Fresh \in Token /\ Fresh \notin DOMAIN tokens
  BY DEF Room, Fresh

(* Only these fields of a request change on the way through a handler.         *)
LEMMA RequestMoves ==
    ASSUME TypeOK, NEW r \in Request, rq[r].pc # "idle"
    PROVE  /\ rq[r] \in Requests
           /\ rq[r] # Rest
  BY DEF TypeOK, Rest, Requests

--------------------------------------------------------------------------------
(* Types.                                                                      *)

LEMMA IssueType ==
    ASSUME TypeOK, NEW r \in Request, Issue(r)
    PROVE  TypeOK'
<1>1. Fresh \in Token /\ Fresh \notin DOMAIN tokens
  BY FreshIsNew DEF Issue, TypeOK
<1>2. rq[r] \in Requests /\ rq[r] # Rest
  BY RequestMoves DEF Issue
<1>3. FirstRow \in Row
  BY <1>1 DEF FirstRow, Row
<1>4. /\ DOMAIN tokens' = DOMAIN tokens \cup {Fresh}
      /\ tokens' \in [DOMAIN tokens' -> Row]
  BY <1>3 DEF Issue, With, TypeOK
<1>5. rq' \in [Request -> {Rest} \cup Requests]
  BY <1>1, <1>2 DEF Issue, TypeOK, Requests
<1>6. \A u \in Request : rq'[u] # Rest =>
          /\ {rq'[u].plain, rq'[u].target} \subseteq DOMAIN tokens' \cup {NoToken}
          /\ rq'[u].pc \in Looking \cup Rotating => rq'[u].plain # NoToken
          /\ rq'[u].pc \in Rotating => rq'[u].target # NoToken
  <2> TAKE u \in Request
  <2>1. CASE u = r
    BY <2>1, <1>1, <1>2, <1>4 DEF Issue, TypeOK, Requests, Looking, Rotating
  <2>2. CASE u # r
    BY <2>2, <1>4 DEF Issue, TypeOK
  <2> QED
    BY <2>1, <2>2
<1> QED
  BY <1>1, <1>4, <1>5, <1>6 DEF Issue, TypeOK

LEMMA InsertType ==
    ASSUME TypeOK, NEW r \in Request, Insert(r)
    PROVE  TypeOK'
<1>1. Fresh \in Token /\ Fresh \notin DOMAIN tokens
  BY FreshIsNew DEF Insert, TypeOK
<1>2. rq[r] \in Requests /\ rq[r] # Rest
  BY RequestMoves DEF Insert
<1>3. rq[r].plain \in DOMAIN tokens /\ rq[r].target \in DOMAIN tokens
  BY <1>2 DEF Insert, TypeOK, Rotating
<1>4. NextRow(rq[r]) \in Row
  BY <1>3 DEF NextRow, Row, TypeOK
<1>5. /\ DOMAIN tokens' = DOMAIN tokens \cup {Fresh}
      /\ tokens' \in [DOMAIN tokens' -> Row]
  <2>1. With(NextRow(rq[r])) \in [DOMAIN tokens \cup {Fresh} -> Row]
    BY <1>4 DEF With, TypeOK
  <2> QED
    BY <2>1, ZenonT(40) DEF Insert, Row
<1>6. rq' \in [Request -> {Rest} \cup Requests]
  BY <1>1, <1>2 DEF Insert, TypeOK, Requests
<1>7. \A u \in Request : rq'[u] # Rest =>
          /\ {rq'[u].plain, rq'[u].target} \subseteq DOMAIN tokens' \cup {NoToken}
          /\ rq'[u].pc \in Looking \cup Rotating => rq'[u].plain # NoToken
          /\ rq'[u].pc \in Rotating => rq'[u].target # NoToken
  <2> TAKE u \in Request
  <2>1. CASE u = r
    BY <2>1, <1>1, <1>2, <1>5 DEF Insert, TypeOK, Requests, Looking, Rotating
  <2>2. CASE u # r
    BY <2>2, <1>5 DEF Insert, TypeOK
  <2> QED
    BY <2>1, <2>2
<1> QED
  BY <1>1, <1>5, <1>6, <1>7 DEF Insert, TypeOK

(* A step of one request that leaves the table alone.                          *)
LEMMA RequestType ==
    ASSUME TypeOK, UNCHANGED tokens, NEW r \in Request,
           jar' \in [Device -> DOMAIN tokens \cup {NoToken}],
           NEW q \in {Rest} \cup Requests, rq' = [rq EXCEPT ![r] = q],
           q # Rest => /\ {q.plain, q.target} \subseteq DOMAIN tokens \cup {NoToken}
                       /\ q.pc \in Looking \cup Rotating => q.plain # NoToken
                       /\ q.pc \in Rotating => q.target # NoToken
    PROVE  TypeOK'
<1>1. rq' \in [Request -> {Rest} \cup Requests]
  BY DEF TypeOK
<1>2. \A u \in Request : rq'[u] = IF u = r THEN q ELSE rq[u]
  BY DEF TypeOK
<1> QED
  BY <1>1, <1>2 DEF TypeOK

--------------------------------------------------------------------------------
(* The inductive invariant: a request between its UPDATE and its COMMIT holds, *)
(* alone, the one unrevoked token of the family it is about to extend.         *)
RotationsOK ==
    /\ \A n \in DOMAIN tokens : tokens[n].family \in DOMAIN tokens
    /\ OneTokenPerFamily
    /\ \A r \in Request : rq[r].pc \in Rotating =>
          tokens[rq[r].target].family = tokens[rq[r].plain].family
    /\ \A r \in Request : rq[r].pc = "insert" => rq[r].target \in Unrevoked
    /\ \A r, u \in Request :
          (rq[r].pc = "insert" /\ rq[u].pc = "insert" /\ rq[r].target = rq[u].target) => r = u

IInv == TypeOK /\ RotationsOK

(* The abstract step that a step of the code is.                               *)
Allowed == [S!Next]_(S!vars)

LEMMA RequestStep ==
    ASSUME IInv, UNCHANGED tokens, NEW r \in Request,
           jar' \in [Device -> DOMAIN tokens \cup {NoToken}],
           NEW q \in {Rest} \cup Requests, rq' = [rq EXCEPT ![r] = q],
           q # Rest => /\ {q.plain, q.target} \subseteq DOMAIN tokens \cup {NoToken}
                       /\ q.pc \in Looking \cup Rotating => q.plain # NoToken
                       /\ q.pc \in Rotating => q.target # NoToken,
           q.pc \in Rotating => tokens[q.target].family = tokens[q.plain].family,
           q.pc = "insert" => q.target \in Unrevoked /\ ~ Locked(q.target)
    PROVE  IInv' /\ Allowed
<1>1. TypeOK'
  BY RequestType DEF IInv
<1>2. Unrevoked' = Unrevoked
  BY DEF Unrevoked, Stored
<1>3. \A u \in Request : rq'[u] = IF u = r THEN q ELSE rq[u]
  BY DEF IInv, TypeOK
<1>4. OneTokenPerFamily'
  BY <1>2 DEF IInv, RotationsOK, OneTokenPerFamily
<1>5. RotationsOK'
  BY <1>2, <1>3, <1>4 DEF IInv, RotationsOK, Locked
<1>6. Allowed
  BY <1>2 DEF Allowed, S!vars
<1> QED
  BY <1>1, <1>5, <1>6 DEF IInv

(* Rows may stop being unrevoked, except the one a rotation holds.             *)
LEMMA EndStep ==
    ASSUME IInv, TypeOK', DOMAIN tokens' = DOMAIN tokens,
           \A n \in DOMAIN tokens : tokens'[n].family = tokens[n].family,
           Unrevoked' \subseteq Unrevoked,
           \A n \in Unrevoked : Locked(n) => n \in Unrevoked',
           \A u \in Request : rq'[u].pc \in Rotating => rq'[u] = rq[u]
    PROVE  IInv' /\ Allowed
<1>1. \A n \in Unrevoked : n \in DOMAIN tokens
  BY DEF Unrevoked
<1>2. OneTokenPerFamily'
  BY <1>1 DEF IInv, RotationsOK, OneTokenPerFamily
<1>3. \A u \in Request : rq'[u].pc \in Rotating =>
          rq'[u].target \in DOMAIN tokens /\ rq'[u].plain \in DOMAIN tokens
  BY DEF TypeOK, Rest, Rotating
<1>4. \A u \in Request : rq'[u].pc = "insert" => rq'[u].target \in Unrevoked'
  BY DEF IInv, RotationsOK, Locked, Rotating
<1>5. RotationsOK'
  <2>1. ASSUME NEW u \in Request, rq'[u].pc \in Rotating
        PROVE  tokens'[rq'[u].target].family = tokens'[rq'[u].plain].family
    <3>1. /\ rq'[u] = rq[u]
          /\ rq[u].target \in DOMAIN tokens /\ rq[u].plain \in DOMAIN tokens
      BY <1>3, <2>1
    <3>2. tokens[rq[u].target].family = tokens[rq[u].plain].family
      BY <2>1, <3>1 DEF IInv, RotationsOK
    <3> QED
      BY <3>1, <3>2
  <2>2. \A u, v \in Request :
            (rq'[u].pc = "insert" /\ rq'[v].pc = "insert" /\ rq'[u].target = rq'[v].target) => u = v
    BY DEF IInv, RotationsOK, Rotating
  <2> QED
    BY <1>2, <1>4, <2>1, <2>2 DEF IInv, RotationsOK
<1>6. S!End
  BY <1>1 DEF S!End
<1> QED
  BY <1>5, <1>6 DEF IInv, Allowed, S!Next

(* A sign-in opens a family of its own.                                        *)
LEMMA IssueStep ==
    ASSUME IInv, NEW r \in Request, Issue(r)
    PROVE  IInv' /\ Allowed
<1>1. TypeOK' /\ TypeOK
  BY IssueType DEF IInv
<1>2. Fresh \in Token /\ Fresh \notin DOMAIN tokens
  BY <1>1, FreshIsNew DEF Issue, TypeOK
<1>3. /\ DOMAIN tokens' = DOMAIN tokens \cup {Fresh}
      /\ tokens'[Fresh] = FirstRow
      /\ \A n \in DOMAIN tokens : tokens'[n] = tokens[n]
  BY <1>2 DEF Issue, With
<1>4. Unrevoked' = Unrevoked \cup {Fresh}
  BY <1>3 DEF Unrevoked, Stored, FirstRow
<1>5. \A n \in Unrevoked : n \in DOMAIN tokens /\ tokens[n].family # Fresh
  BY <1>2 DEF Unrevoked, IInv, RotationsOK
<1>6. \A u \in Request : rq'[u].pc \in Rotating =>
          rq'[u] = rq[u] /\ rq[u].target \in DOMAIN tokens /\ rq[u].plain \in DOMAIN tokens
  <2> SUFFICES ASSUME NEW u \in Request, rq'[u].pc \in Rotating
               PROVE  rq'[u] = rq[u] /\ rq[u].target \in DOMAIN tokens /\ rq[u].plain \in DOMAIN tokens
    OBVIOUS
  <2>1. u # r
    BY <1>1, RequestMoves DEF Issue, TypeOK, Rotating, Requests
  <2>2. rq'[u] = rq[u] /\ rq[u] # Rest
    BY <2>1, <1>1 DEF Issue, TypeOK, Rest, Rotating
  <2> QED
    BY <2>2, <1>1 DEF TypeOK
<1>7. OneTokenPerFamily'
  <2> SUFFICES ASSUME NEW n \in Unrevoked', NEW m \in Unrevoked',
                      tokens'[n].family = tokens'[m].family
               PROVE  n = m
    BY DEF OneTokenPerFamily
  <2>1. tokens'[Fresh].family = Fresh
    BY <1>3 DEF FirstRow
  <2>2. CASE n \in Unrevoked /\ m \in Unrevoked
    BY <2>2, <1>3, <1>5 DEF IInv, RotationsOK, OneTokenPerFamily
  <2>3. CASE n = Fresh \/ m = Fresh
    BY <2>1, <2>3, <1>3, <1>4, <1>5
  <2> QED
    BY <2>2, <2>3, <1>4
<1>8. RotationsOK'
  <2>1. \A n \in DOMAIN tokens' : tokens'[n].family \in DOMAIN tokens'
    BY <1>3 DEF IInv, RotationsOK, FirstRow
  <2>2. \A u \in Request : rq'[u].pc \in Rotating =>
            tokens'[rq'[u].target].family = tokens'[rq'[u].plain].family
    BY <1>3, <1>6 DEF IInv, RotationsOK
  <2>3. \A u \in Request : rq'[u].pc = "insert" => rq'[u].target \in Unrevoked'
    BY <1>4, <1>6 DEF IInv, RotationsOK, Rotating
  <2>4. \A u, v \in Request :
            (rq'[u].pc = "insert" /\ rq'[v].pc = "insert" /\ rq'[u].target = rq'[v].target) => u = v
    BY <1>6 DEF IInv, RotationsOK, Rotating
  <2> QED
    BY <1>7, <2>1, <2>2, <2>3, <2>4 DEF RotationsOK
<1>9. S!Open
  <2>1. {<<tokens'[n].family, n>> : n \in Unrevoked'}
          = {<<tokens[n].family, n>> : n \in Unrevoked} \cup {<<Fresh, Fresh>>}
    BY <1>3, <1>4, <1>5 DEF FirstRow
  <2> QED
    BY <1>2, <1>3, <2>1 DEF S!Open
<1> QED
  BY <1>1, <1>8, <1>9 DEF IInv, Allowed, S!Next

(* A rotation, plain or in the grace window, replaces the family's one         *)
(* unrevoked token by its successor in the step of its COMMIT.                 *)
LEMMA InsertStep ==
    ASSUME IInv, NEW r \in Request, Insert(r)
    PROVE  IInv' /\ Allowed
<1> DEFINE q == rq[r]
           f == tokens[q.plain].family
<1>1. TypeOK' /\ TypeOK
  BY InsertType DEF IInv
<1>2. Fresh \in Token /\ Fresh \notin DOMAIN tokens
  BY <1>1, FreshIsNew DEF Insert, TypeOK
<1>3. /\ q.pc = "insert" /\ q # Rest
      /\ q.plain \in DOMAIN tokens
      /\ q.target \in DOMAIN tokens
      /\ q.target \in Unrevoked
      /\ tokens[q.target].family = f
      /\ f \in DOMAIN tokens
  BY <1>1, RequestMoves DEF Insert, IInv, RotationsOK, TypeOK, Rotating
<1>4. /\ DOMAIN tokens' = DOMAIN tokens \cup {Fresh}
      /\ tokens'[Fresh] = NextRow(q)
      /\ \A n \in DOMAIN tokens : n # q.target => tokens'[n] = tokens[n]
      /\ tokens'[q.target] = [tokens[q.target] EXCEPT !.revoked = "recent"]
  BY <1>2, <1>3 DEF Insert, With
<1>5. /\ \A n \in DOMAIN tokens : tokens'[n].family = tokens[n].family
      /\ tokens'[Fresh].family = f
      /\ tokens'[q.target].revoked = "recent"
  BY <1>1, <1>3, <1>4 DEF NextRow, TypeOK, Row
<1>6. Unrevoked' = (Unrevoked \ {q.target}) \cup {Fresh}
  <2>1. tokens'[Fresh].revoked = "no" /\ tokens'[Fresh].life = "valid"
    BY <1>4 DEF NextRow
  <2> HIDE DEF q, f
  <2>2. \A n : n \in Unrevoked' <=> n \in Unrevoked \ {q.target} \/ n = Fresh
    BY <1>2, <1>3, <1>4, <1>5, <2>1 DEF Unrevoked, Stored
  <2> QED
    BY <2>2
<1>7. \A n \in Unrevoked : n \in DOMAIN tokens /\ (tokens[n].family = f => n = q.target)
  BY <1>3 DEF Unrevoked, IInv, RotationsOK, OneTokenPerFamily
<1> HIDE DEF q, f
<1>8. \A u \in Request : rq'[u].pc \in Rotating =>
          /\ rq'[u] = rq[u] /\ u # r
          /\ rq[u].target \in DOMAIN tokens /\ rq[u].plain \in DOMAIN tokens
  <2> SUFFICES ASSUME NEW u \in Request, rq'[u].pc \in Rotating
               PROVE  /\ rq'[u] = rq[u] /\ u # r
                      /\ rq[u].target \in DOMAIN tokens /\ rq[u].plain \in DOMAIN tokens
    OBVIOUS
  <2>1. u # r
    BY <1>1, RequestMoves DEF Insert, TypeOK, Rotating, Requests
  <2>2. rq'[u] = rq[u] /\ rq[u] # Rest
    BY <2>1, <1>1 DEF Insert, TypeOK, Rest, Rotating
  <2> QED
    BY <2>1, <2>2, <1>1 DEF TypeOK
<1>9. OneTokenPerFamily'
  <2> SUFFICES ASSUME NEW n \in Unrevoked', NEW m \in Unrevoked',
                      tokens'[n].family = tokens'[m].family
               PROVE  n = m
    BY DEF OneTokenPerFamily
  <2>1. CASE n # Fresh /\ m # Fresh
    BY <2>1, <1>5, <1>6, <1>7 DEF IInv, RotationsOK, OneTokenPerFamily
  <2>2. CASE n = Fresh \/ m = Fresh
    BY <2>2, <1>5, <1>6, <1>7
  <2> QED
    BY <2>1, <2>2
<1>10. RotationsOK'
  <2>1. \A n \in DOMAIN tokens' : tokens'[n].family \in DOMAIN tokens'
    BY <1>3, <1>4, <1>5 DEF IInv, RotationsOK
  <2>2. \A u \in Request : rq'[u].pc \in Rotating =>
            tokens'[rq'[u].target].family = tokens'[rq'[u].plain].family
    BY <1>5, <1>8, SMTT(30) DEF IInv, RotationsOK
  <2>3. \A u \in Request : rq'[u].pc = "insert" => rq'[u].target \in Unrevoked'
    BY <1>3, <1>6, <1>8 DEF IInv, RotationsOK, Rotating, q
  <2>4. \A u, v \in Request :
            (rq'[u].pc = "insert" /\ rq'[v].pc = "insert" /\ rq'[u].target = rq'[v].target) => u = v
    BY <1>8 DEF IInv, RotationsOK, Rotating
  <2> QED
    BY <1>9, <2>1, <2>2, <2>3, <2>4 DEF RotationsOK
<1>11. S!Rotate
  <2> DEFINE good == {<<tokens[n].family, n>> : n \in Unrevoked}
             s == <<f, q.target>>
  <2>1. s \in good /\ s[1] = f
    BY <1>3
  <2>2. {<<tokens'[n].family, n>> : n \in Unrevoked'} = (good \ {s}) \cup {<<f, Fresh>>}
    <3>1. \A n \in Unrevoked' : n = Fresh \/ (n \in Unrevoked /\ n # q.target)
      BY <1>6
    <3>2. \A n \in Unrevoked : tokens'[n].family = tokens[n].family
      BY <1>5, <1>7
    <3>3. {<<tokens'[n].family, n>> : n \in Unrevoked'} \subseteq (good \ {s}) \cup {<<f, Fresh>>}
      BY <1>5, <3>1, <3>2
    <3>4. \A n \in Unrevoked : <<tokens[n].family, n>> # s => n \in Unrevoked'
      BY <1>3, <1>6
    <3>5. <<f, Fresh>> \in {<<tokens'[n].family, n>> : n \in Unrevoked'}
      BY <1>5, <1>6
    <3>6. good \ {s} \subseteq {<<tokens'[n].family, n>> : n \in Unrevoked'}
      BY <3>2, <3>4
    <3> QED
      BY <3>3, <3>5, <3>6
  <2> QED
    BY <1>2, <1>4, <2>1, <2>2 DEF S!Rotate
<1> QED
  BY <1>1, <1>10, <1>11 DEF IInv, Allowed, S!Next

LEMMA GoStep ==
    ASSUME IInv, NEW r \in Request, rq[r].pc # "idle", UNCHANGED <<tokens, jar>>,
           NEW pc \in Looking \cup Rotating \cup {"reply"}, Go(r, pc),
           pc # "reply" => rq[r].plain # NoToken,
           pc \in Rotating => /\ rq[r].target # NoToken
                             /\ tokens[rq[r].target].family = tokens[rq[r].plain].family,
           pc = "insert" => rq[r].target \in Unrevoked /\ ~ Locked(rq[r].target)
    PROVE  IInv' /\ Allowed
<1> DEFINE q == [rq[r] EXCEPT !.pc = pc]
<1>1. TypeOK /\ rq[r] \in Requests /\ rq[r] # Rest
  BY RequestMoves DEF IInv
<1>2. q \in Requests /\ q.pc = pc /\ q.plain = rq[r].plain /\ q.target = rq[r].target
  BY <1>1 DEF Requests
<1>3. rq' = [rq EXCEPT ![r] = q]
  BY DEF Go
<1>4. {q.plain, q.target} \subseteq DOMAIN tokens \cup {NoToken}
  BY <1>1, <1>2 DEF TypeOK
<1>5. jar' \in [Device -> DOMAIN tokens \cup {NoToken}]
  BY <1>1 DEF TypeOK
<1> HIDE DEF q
<1>6. pc \in Looking \cup Rotating => pc # "reply"
  BY DEF Looking, Rotating
<1> QED
  BY <1>2, <1>3, <1>4, <1>5, <1>6, RequestStep

LEMMA DropStep ==
    ASSUME IInv, NEW r \in Request, Drop(r), UNCHANGED tokens,
           jar' \in [Device -> DOMAIN tokens \cup {NoToken}]
    PROVE  IInv' /\ Allowed
<1>1. Rest.pc = "idle" /\ "idle" \notin Rotating /\ rq' = [rq EXCEPT ![r] = Rest]
  BY DEF Rest, Rotating, Drop
<1> QED
  BY <1>1, RequestStep

(* The first step of a request.                                                *)
LEMMA StartStep ==
    ASSUME IInv, NEW r \in Request, NEW d \in Device, SignIn(r, d) \/ Refresh(r, d) \/ Logout(r, d)
    PROVE  IInv' /\ Allowed
<1>1. PICK q : /\ q \in [pc : {"issue"}, dev : {d}, plain : {NoToken}, target : {NoToken}]
                    \cup [pc : {"find"}, dev : {d}, plain : {jar[d]} \ {NoToken}, target : {NoToken}]
                    \cup [pc : {"logout"}, dev : {d}, plain : {jar[d]}, target : {NoToken}]
               /\ rq' = [rq EXCEPT ![r] = q]
  BY DEF SignIn, Refresh, Logout
<1>2. UNCHANGED <<tokens, jar>>
  BY DEF SignIn, Refresh, Logout
<1>3. jar[d] \in DOMAIN tokens \cup {NoToken} /\ jar[d] \in Token \cup {NoToken}
  BY DEF IInv, TypeOK
<1>4. q \in Requests /\ q.pc \notin Rotating
  BY <1>1, <1>3 DEF Requests, Looking, Rotating
<1>5. /\ {q.plain, q.target} \subseteq DOMAIN tokens \cup {NoToken}
      /\ q.pc \in Looking \cup Rotating => q.plain # NoToken
  BY <1>1, <1>3 DEF Looking, Rotating
<1>6. jar' \in [Device -> DOMAIN tokens \cup {NoToken}] /\ q.pc # "insert"
  BY <1>2, <1>4 DEF IInv, TypeOK, Rotating
<1> QED
  BY <1>1, <1>2, <1>4, <1>5, <1>6, RequestStep

(* findUnique: a request that goes on names a row.                             *)
LEMMA FindStep ==
    ASSUME IInv, NEW r \in Request, Find(r)
    PROVE  IInv' /\ Allowed
<1>1. /\ rq[r] \in Requests /\ rq[r] # Rest /\ rq[r].pc = "find"
      /\ rq[r].plain \in DOMAIN tokens /\ rq[r].plain # NoToken
      /\ UNCHANGED <<tokens, jar>>
      /\ jar' \in [Device -> DOMAIN tokens \cup {NoToken}]
  BY RequestMoves DEF Find, IInv, TypeOK, Looking
<1>2. CASE Drop(r)
  BY <1>1, <1>2, DropStep
<1>3. CASE Go(r, "latest")
  BY <1>1, <1>3, GoStep DEF Looking, Rotating
<1>4. CASE rq' = [rq EXCEPT ![r].pc = "revoke", ![r].target = rq[r].plain]
  <2> DEFINE q == [rq[r] EXCEPT !.pc = "revoke", !.target = rq[r].plain]
  <2>1. q \in Requests /\ q.pc = "revoke" /\ q.plain = rq[r].plain /\ q.target = rq[r].plain
    BY <1>1 DEF Requests, Rotating
  <2>2. rq' = [rq EXCEPT ![r] = q]
    BY <1>4
  <2> HIDE DEF q
  <2> QED
    BY <1>1, <2>1, <2>2, RequestStep
<1> QED
  BY <1>2, <1>3, <1>4 DEF Find

(* findFirst: the token the grace path goes for is of the same family.         *)
LEMMA FindLatestStep ==
    ASSUME IInv, NEW r \in Request, FindLatest(r)
    PROVE  IInv' /\ Allowed
<1>1. /\ rq[r] \in Requests /\ rq[r] # Rest /\ rq[r].pc = "latest"
      /\ rq[r].plain \in DOMAIN tokens /\ rq[r].plain # NoToken
      /\ UNCHANGED <<tokens, jar>>
      /\ jar' \in [Device -> DOMAIN tokens \cup {NoToken}]
  BY RequestMoves DEF FindLatest, IInv, TypeOK, Looking
<1>2. CASE Go(r, "burn")
  BY <1>1, <1>2, GoStep DEF Looking, Rotating
<1>3. ASSUME NEW n \in Latest(FamilyOf(r)), rq' = [rq EXCEPT ![r].pc = "revoke", ![r].target = n]
      PROVE  IInv' /\ Allowed
  <2> DEFINE q == [rq[r] EXCEPT !.pc = "revoke", !.target = n]
  <2>1. n \in DOMAIN tokens /\ n \in Token /\ n # NoToken
        /\ tokens[n].family = tokens[rq[r].plain].family
    BY AuthConstants DEF Latest, FamilyOf, Unrevoked, IInv, TypeOK
  <2>2. q \in Requests /\ q.pc = "revoke" /\ q.plain = rq[r].plain /\ q.target = n
    BY <1>1, <2>1 DEF Requests, Rotating
  <2>3. rq' = [rq EXCEPT ![r] = q]
    BY <1>3
  <2> HIDE DEF q
  <2> QED
    BY <1>1, <2>1, <2>2, <2>3, RequestStep
<1> QED
  BY <1>2, <1>3 DEF FindLatest

(* The conditional UPDATE: only an unrevoked token is locked, by one request.  *)
LEMMA RevokeStep ==
    ASSUME IInv, NEW r \in Request, Revoke(r)
    PROVE  IInv' /\ Allowed
<1>1. /\ rq[r].pc = "revoke"
      /\ rq[r].plain # NoToken /\ rq[r].target # NoToken
      /\ tokens[rq[r].target].family = tokens[rq[r].plain].family
      /\ ~ Locked(rq[r].target)
      /\ UNCHANGED <<tokens, jar>>
      /\ jar' \in [Device -> DOMAIN tokens \cup {NoToken}]
  BY RequestMoves DEF Revoke, IInv, TypeOK, RotationsOK, Looking, Rotating
<1>2. CASE Drop(r)
  BY <1>1, <1>2, DropStep
<1>3. CASE rq[r].target \in Unrevoked /\ Go(r, "insert")
  BY <1>1, <1>3, GoStep DEF Rotating
<1> QED
  BY <1>2, <1>3 DEF Revoke

(* TOKEN_REUSED, an answer that arrives, an answer or a transaction lost.      *)
LEMMA AnswerStep ==
    ASSUME IInv, NEW r \in Request, Burn(r) \/ Deliver(r) \/ Lose(r)
    PROVE  IInv' /\ Allowed
<1>1. CASE Burn(r)
  <2>1. rq[r].pc = "burn" /\ rq[r].plain # NoToken
    BY <1>1, RequestMoves DEF Burn, IInv, TypeOK, Looking
  <2> QED
    BY <1>1, <2>1, GoStep DEF Burn, Looking, Rotating
<1>2. CASE Deliver(r)
  <2>1. rq[r] # Rest
    BY <1>2, RequestMoves DEF Deliver, IInv
  <2>2. jar' \in [Device -> DOMAIN tokens \cup {NoToken}]
    BY <1>2, <2>1 DEF Deliver, IInv, TypeOK
  <2> QED
    BY <1>2, <2>2, DropStep DEF Deliver
<1>3. CASE Lose(r)
  BY <1>3, DropStep DEF Lose, IInv, TypeOK
<1> QED
  BY <1>1, <1>2, <1>3

(* Logout waits for a rotation of the same token and then leaves it alone.     *)
LEMMA LogoutStep ==
    ASSUME IInv, NEW r \in Request, RevokeOne(r)
    PROVE  IInv' /\ Allowed
<1> DEFINE n == rq[r].plain
<1>1. TypeOK /\ rq[r] \in Requests /\ rq[r] # Rest /\ ~ Locked(n)
  BY RequestMoves DEF RevokeOne, IInv
<1>2. CASE n \notin Unrevoked
  BY <1>2, GoStep DEF RevokeOne, Rotating
<1>3. CASE n \in Unrevoked
  <2>1. /\ n \in DOMAIN tokens
        /\ tokens' = [tokens EXCEPT ![n].revoked = "recent"]
        /\ rq' = [rq EXCEPT ![r].pc = "reply"]
        /\ jar' = jar
    BY <1>3 DEF RevokeOne, Unrevoked, Go
  <2>2. /\ DOMAIN tokens' = DOMAIN tokens
        /\ tokens' \in [DOMAIN tokens -> Row]
        /\ \A m \in DOMAIN tokens : tokens'[m].family = tokens[m].family
        /\ \A m \in DOMAIN tokens : m # n => tokens'[m] = tokens[m]
        /\ tokens'[n].revoked = "recent"
    BY <1>1, <2>1 DEF TypeOK, Row
  <2>3. rq' \in [Request -> {Rest} \cup Requests]
    BY <1>1, <2>1 DEF TypeOK, Requests
  <2>4. \A u \in Request : u # r => rq'[u] = rq[u]
    BY <2>1 DEF TypeOK
  <2>5. rq'[r].pc = "reply" /\ rq'[r].plain = rq[r].plain /\ rq'[r].target = rq[r].target
    BY <1>1, <2>1 DEF TypeOK, Requests
  <2>6. \A u \in Request : rq'[u] # Rest =>
            /\ {rq'[u].plain, rq'[u].target} \subseteq DOMAIN tokens \cup {NoToken}
            /\ rq'[u].pc \in Looking \cup Rotating => rq'[u].plain # NoToken
            /\ rq'[u].pc \in Rotating => rq'[u].target # NoToken
    <3> TAKE u \in Request
    <3>1. CASE u = r
      BY <3>1, <1>1, <2>5 DEF TypeOK, Looking, Rotating
    <3>2. CASE u # r
      BY <3>2, <1>1, <2>4 DEF TypeOK
    <3> QED
      BY <3>1, <3>2
  <2>7. TypeOK'
    BY <1>1, <2>1, <2>2, <2>3, <2>6 DEF TypeOK
  <2>8. Unrevoked' = Unrevoked \ {n}
    BY <2>2 DEF Unrevoked, Stored
  <2>9. \A m \in Unrevoked : Locked(m) => m \in Unrevoked'
    BY <1>1, <2>8
  <2>10. \A u \in Request : rq'[u].pc \in Rotating => rq'[u] = rq[u]
    BY <2>4, <2>5 DEF Rotating
  <2> QED
    BY <2>2, <2>7, <2>8, <2>9, <2>10, EndStep
<1> QED
  BY <1>2, <1>3

(* Ten seconds or thirty days pass: no token is revoked or revived.            *)
LEMMA TimeStep ==
    ASSUME IInv, NEW n \in DOMAIN tokens, CloseWindow(n) \/ Expire(n)
    PROVE  IInv' /\ Allowed
<1>1. TypeOK /\ UNCHANGED <<rq, jar>> /\ tokens[n] \in Row
  BY DEF IInv, CloseWindow, Expire, TypeOK
<1>2. PICK row \in Row :
         /\ tokens' = [tokens EXCEPT ![n] = row]
         /\ row.family = tokens[n].family
         /\ row.revoked = "no" <=> tokens[n].revoked = "no"
         /\ row.life # "purged" <=> tokens[n].life # "purged"
  <2>1. CASE CloseWindow(n)
    <3> DEFINE row == [tokens[n] EXCEPT !.revoked = "long"]
    <3>1. /\ row \in Row /\ row.family = tokens[n].family
          /\ row.revoked = "long" /\ row.life = tokens[n].life
      BY <1>1 DEF Row
    <3> QED
      BY <2>1, <3>1 DEF CloseWindow
  <2>2. CASE Expire(n)
    <3> DEFINE row == [tokens[n] EXCEPT !.life = "expired"]
    <3>1. /\ row \in Row /\ row.family = tokens[n].family
          /\ row.revoked = tokens[n].revoked /\ row.life = "expired"
      BY <1>1 DEF Row
    <3> QED
      BY <2>2, <3>1 DEF Expire
  <2> QED
    BY <2>1, <2>2
<1>3. /\ DOMAIN tokens' = DOMAIN tokens
      /\ tokens' \in [DOMAIN tokens -> Row]
      /\ \A m \in DOMAIN tokens : tokens'[m] = IF m = n THEN row ELSE tokens[m]
  BY <1>1, <1>2 DEF TypeOK
<1>4. TypeOK'
  BY <1>1, <1>3 DEF TypeOK
<1>5. Unrevoked' = Unrevoked
  BY <1>2, <1>3 DEF Unrevoked, Stored
<1> QED
  BY <1>1, <1>2, <1>3, <1>4, <1>5, EndStep

(* The purge may end a session whose token expired, never one being rotated.   *)
LEMMA PurgeStep ==
    ASSUME IInv, Purge
    PROVE  IInv' /\ Allowed
<1>1. PICK gone : /\ \A n \in gone : n \in DOMAIN tokens /\ ~ Locked(n)
                  /\ tokens' = [n \in DOMAIN tokens |->
                        IF n \in gone THEN [tokens[n] EXCEPT !.life = "purged"] ELSE tokens[n]]
  BY DEF Purge
<1>2. TypeOK /\ UNCHANGED <<rq, jar>>
  BY DEF IInv, Purge
<1>3. ASSUME NEW n \in DOMAIN tokens
      PROVE  /\ tokens'[n] \in Row
             /\ tokens'[n].family = tokens[n].family
             /\ tokens'[n].revoked = tokens[n].revoked
             /\ tokens'[n].life = IF n \in gone THEN "purged" ELSE tokens[n].life
  <2>1. tokens[n] \in Row
    BY <1>2 DEF TypeOK
  <2> QED
    BY <1>1, <2>1 DEF Row
<1>4. DOMAIN tokens' = DOMAIN tokens /\ tokens' \in [DOMAIN tokens -> Row]
  BY <1>1, <1>3
<1>5. TypeOK'
  BY <1>2, <1>4 DEF TypeOK
<1>6. Unrevoked' \subseteq Unrevoked /\ \A n \in Unrevoked : Locked(n) => n \in Unrevoked'
  BY <1>1, <1>3, <1>4 DEF Unrevoked, Stored
<1> QED
  BY <1>2, <1>3, <1>4, <1>5, <1>6, EndStep

--------------------------------------------------------------------------------
LEMMA InitSafe == Init => IInv /\ S!Init
<1> SUFFICES ASSUME Init PROVE IInv /\ S!Init
  OBVIOUS
<1>1. DOMAIN tokens = {} /\ Rest.pc = "idle"
  BY DEF Init, Rest
<1>2. TypeOK
  BY <1>1 DEF Init, TypeOK
<1>3. Unrevoked = {}
  BY <1>1 DEF Unrevoked
<1>4. RotationsOK
  BY <1>1, <1>3 DEF Init, RotationsOK, OneTokenPerFamily, Rotating
<1>5. S!Init
  BY <1>1, <1>3 DEF S!Init
<1> QED
  BY <1>2, <1>4, <1>5 DEF IInv

LEMMA NextSafe == IInv /\ [Next]_vars => IInv' /\ Allowed
<1> SUFFICES ASSUME IInv, [Next]_vars PROVE IInv' /\ Allowed
  OBVIOUS
<1>1. ASSUME NEW r \in Request, NEW d \in Device, SignIn(r, d) \/ Refresh(r, d) \/ Logout(r, d)
      PROVE  IInv' /\ Allowed
  BY <1>1, StartStep
<1>2. ASSUME NEW r \in Request, Step(r) PROVE IInv' /\ Allowed
  BY <1>2, IssueStep, FindStep, FindLatestStep, RevokeStep, InsertStep, LogoutStep, AnswerStep DEF Step
<1>3. ASSUME NEW n \in DOMAIN tokens, CloseWindow(n) \/ Expire(n) PROVE IInv' /\ Allowed
  BY <1>3, TimeStep
<1>4. CASE Purge
  BY <1>4, PurgeStep
<1>5. CASE UNCHANGED vars
  <2>1. IInv'
    BY <1>5 DEF vars, IInv, TypeOK, RotationsOK, OneTokenPerFamily, Unrevoked, Stored
  <2>2. Unrevoked' = Unrevoked /\ tokens' = tokens
    BY <1>5 DEF vars, Unrevoked, Stored
  <2> QED
    BY <2>1, <2>2 DEF Allowed, S!vars
<1> QED
  BY <1>1, <1>2, <1>3, <1>4, <1>5 DEF Next

(* Types and locks hold together after every statement of every request.       *)
THEOREM AuthInductive == Spec => []IInv
<1> QED
  BY InitSafe, NextSafe, PTL DEF Spec

(* Every row, request and cookie keeps its type; a request past the missing    *)
(* cookie check of POST /refresh always names an issued token.                 *)
THEOREM AuthTypeCorrect == Spec => []TypeOK
<1>1. IInv => TypeOK
  BY DEF IInv
<1> QED
  BY <1>1, AuthInductive, PTL

(* No interleaving of rotations, grace retries, logouts and purges leaves a    *)
(* family with two tokens that can be rotated: the conditional updateMany of   *)
(* rotateRefreshToken is enough.                                               *)
THEOREM NoDoubleIssue == Spec => []OneTokenPerFamily
<1>1. IInv => OneTokenPerFamily
  BY DEF IInv, RotationsOK
<1> QED
  BY <1>1, AuthInductive, PTL

(* Statement by statement, the code does what Sessions does in one step, or    *)
(* nothing that Sessions can see.                                              *)
THEOREM Refinement == Spec => ImplementsSessions
<1>1. Init => S!Init
  BY InitSafe
<1>2. IInv /\ [Next]_vars => [S!Next]_(S!vars)
  BY NextSafe DEF Allowed
<1> QED
  BY <1>1, <1>2, AuthInductive, PTL DEF Spec, ImplementsSessions, S!Spec

(* A family that a logout or the purge has ended stays without a token that    *)
(* could be rotated, and no token that was revoked is ever good again: neither *)
(* a late statement of a rotation nor the grace window brings it back.         *)
THEOREM RevokedForGood == Spec => S!NeverRevived
<1> DEFINE good == {<<tokens[n].family, n>> : n \in Unrevoked}
           Kept == \A n \in DOMAIN tokens :
                      /\ (\A s \in good : s[1] # n) => (\A s \in good : s[1] # n)'
                      /\ ~ (\E s \in good : s[2] = n) => ~ (\E s \in good : s[2] = n)'
<1>1. ASSUME IInv, [Next]_vars PROVE Kept \/ UNCHANGED S!vars
  <2>1. [S!Next]_(S!vars)
    BY <1>1, NextSafe DEF Allowed
  <2>2. \A s \in good : {s[1], s[2]} \subseteq DOMAIN tokens
    BY <1>1 DEF IInv, RotationsOK, Unrevoked
  <2>3. CASE S!Open
    <3>1. PICK n \in Token \ DOMAIN tokens : good' = good \cup {<<n, n>>}
      BY <2>3 DEF S!Open
    <3> HIDE DEF good
    <3> QED
      BY <2>2, <3>1
  <2>4. CASE S!Rotate
    <3>1. PICK s \in good, n \in Token \ DOMAIN tokens : good' = (good \ {s}) \cup {<<s[1], n>>}
      BY <2>4 DEF S!Rotate
    <3> HIDE DEF good
    <3> QED
      BY <2>2, <3>1
  <2>5. CASE S!End
    <3>1. good' \subseteq good
      BY <2>5 DEF S!End
    <3> HIDE DEF good
    <3> QED
      BY <3>1
  <2> QED
    BY <2>1, <2>3, <2>4, <2>5 DEF S!Next
<1>2. (Kept \/ UNCHANGED S!vars)
      => [\A n \in DOMAIN tokens : /\ S!Ended(n) => S!Ended(n)'
                                   /\ ~ S!IsGood(n) => ~ S!IsGood(n)']_(S!vars)
  BY DEF S!Ended, S!IsGood
<1> HIDE DEF Kept
<1> QED
  BY <1>1, <1>2, AuthInductive, PTL DEF Spec, S!NeverRevived

--------------------------------------------------------------------------------
(* The cookie of a device with one request at a time. Two devices never name   *)
(* tokens of one family, so only the device's own request extends the family   *)
(* of its cookie; and that request still names the cookie.                     *)

Names(d, n) == n # NoToken /\ (jar[d] = n \/ \E r \in Under(d) : n \in {rq[r].plain, rq[r].target})

Apart ==
    \A d, e \in Device, n, m \in DOMAIN tokens :
        (Names(d, n) /\ Names(e, m) /\ tokens[n].family = tokens[m].family) => d = e

OneAtATime == \A d \in Device : Tabs[d] = 1 => \A r, u \in Under(d) : r = u

UsableAt(c) == c # NoToken => \A n \in Latest(tokens[c].family) : c \in {n, tokens[n].parent}

\* A request knows what its device's cookie says, or brings the next cookie.
NamesCookie ==
    \A r \in Request : (rq[r] # Rest /\ Tabs[rq[r].dev] = 1) =>
        /\ rq[r].pc \notin {"issue", "reply"} => rq[r].plain = jar[rq[r].dev]
        /\ rq[r].pc \in {"logout", "reply"} => UsableAt(rq[r].target)

\* The cookie names the family's unrevoked token or its parent, if there is one left.
CookieUsable == \A d \in Device : Tabs[d] = 1 => UsableAt(jar[d])

CookieInv == Apart /\ OneAtATime /\ NamesCookie /\ CookieUsable

\* Rows keep their place in a family; some are revoked or purged.
OnlyEnds ==
    /\ DOMAIN tokens' = DOMAIN tokens
    /\ \A n \in DOMAIN tokens : /\ tokens'[n].family = tokens[n].family
                                /\ tokens'[n].parent = tokens[n].parent
    /\ Unrevoked' \subseteq Unrevoked

(* A cookie that the grace window accepts stays so while tokens only end.      *)
LEMMA UsableKept ==
    ASSUME OnlyEnds, NoToken \notin DOMAIN tokens
    PROVE  \A c \in DOMAIN tokens \cup {NoToken} : UsableAt(c) => UsableAt(c)'
<1>1. \A n \in Unrevoked : n \in DOMAIN tokens
  BY DEF Unrevoked
<1> QED
  BY <1>1 DEF UsableAt, Latest, OnlyEnds

(* Every new name has the family of an old name of the same device.            *)
LEMMA ApartKept ==
    ASSUME Apart,
           \A n \in DOMAIN tokens : n \in DOMAIN tokens' /\ tokens'[n].family = tokens[n].family,
           \A e \in Device : \A n \in DOMAIN tokens' : Names(e, n)' =>
               \E m \in DOMAIN tokens : Names(e, m) /\ tokens[m].family = tokens'[n].family
    PROVE  Apart'
<1> SUFFICES ASSUME NEW d \in Device, NEW e \in Device,
                    NEW n \in DOMAIN tokens', NEW m \in DOMAIN tokens',
                    Names(d, n)', Names(e, m)', tokens'[n].family = tokens'[m].family
             PROVE  d = e
  BY DEF Apart
<1>1. PICK i \in DOMAIN tokens : Names(d, i) /\ tokens[i].family = tokens'[n].family
  OBVIOUS
<1>2. PICK k \in DOMAIN tokens : Names(e, k) /\ tokens[k].family = tokens'[m].family
  OBVIOUS
<1> QED
  BY <1>1, <1>2 DEF Apart

(* A request of a device with one request at a time is its only one.           *)
LEMMA CookieFacts ==
    ASSUME IInv, CookieInv
    PROVE  /\ NoToken \notin DOMAIN tokens
           /\ \A d \in Device : jar[d] \in DOMAIN tokens \cup {NoToken}
           /\ \A d \in Device : jar[d] # NoToken => Names(d, jar[d])
           /\ \A r \in Request : rq[r] # Rest =>
                 /\ rq[r] \in Requests /\ rq[r].dev \in Device
                 /\ r \in Under(rq[r].dev)
                 /\ {rq[r].plain, rq[r].target} \subseteq DOMAIN tokens \cup {NoToken}
                 /\ \A n \in {rq[r].plain, rq[r].target} \ {NoToken} : Names(rq[r].dev, n)
           /\ \A r, u \in Request :
                 (rq[r] # Rest /\ rq[u] # Rest /\ rq[r].dev = rq[u].dev /\ Tabs[rq[r].dev] = 1) => r = u
<1>1. NoToken \notin DOMAIN tokens
  BY AuthConstants DEF IInv, TypeOK
<1>2. \A r \in Request : rq[r] # Rest => rq[r] \in Requests /\ rq[r].dev \in Device
  BY DEF IInv, TypeOK, Requests
<1>3. \A r \in Request : rq[r] # Rest => r \in Under(rq[r].dev)
  BY DEF Under
<1>4. \A r \in Request : rq[r] # Rest =>
          \A n \in {rq[r].plain, rq[r].target} \ {NoToken} : Names(rq[r].dev, n)
  BY <1>3 DEF Names
<1>5. \A r, u \in Request :
         (rq[r] # Rest /\ rq[u] # Rest /\ rq[r].dev = rq[u].dev /\ Tabs[rq[r].dev] = 1) => r = u
  BY <1>2, <1>3 DEF CookieInv, OneAtATime
<1>6. \A d \in Device : jar[d] # NoToken => Names(d, jar[d])
  BY DEF Names
<1>7. \A r \in Request : rq[r] # Rest =>
          {rq[r].plain, rq[r].target} \subseteq DOMAIN tokens \cup {NoToken}
  BY DEF IInv, TypeOK
<1>8. \A d \in Device : jar[d] \in DOMAIN tokens \cup {NoToken}
  BY DEF IInv, TypeOK
<1> QED
  BY <1>1, <1>2, <1>3, <1>4, <1>5, <1>6, <1>7, <1>8

(* A step of one request that, at most, ends tokens.                           *)
LEMMA CookieRequest ==
    ASSUME IInv, IInv', CookieInv, OnlyEnds, jar' = jar, NEW r \in Request,
           NEW q \in {Rest} \cup Requests, rq' = [rq EXCEPT ![r] = q],
           q # Rest =>
              /\ Tabs[q.dev] = 1 => \A u \in Under(q.dev) : u = r
              /\ \A n \in {q.plain, q.target} \ {NoToken} : \E m \in DOMAIN tokens :
                    Names(q.dev, m) /\ tokens[m].family = tokens[n].family
              /\ (Tabs[q.dev] = 1 /\ q.pc \notin {"issue", "reply"}) => q.plain = jar[q.dev]
              /\ (Tabs[q.dev] = 1 /\ q.pc \in {"logout", "reply"}) => UsableAt(q.target)'
    PROVE  CookieInv'
<1>1. \A u \in Request : rq'[u] = IF u = r THEN q ELSE rq[u]
  BY DEF IInv, TypeOK
<1>2. q # Rest => q.dev \in Device
  BY DEF Requests
<1>3. \A n \in DOMAIN tokens : tokens'[n].family = tokens[n].family
  BY DEF OnlyEnds
<1>4. Apart'
  <2>1. ASSUME NEW e \in Device, NEW n \in DOMAIN tokens', Names(e, n)'
        PROVE  \E m \in DOMAIN tokens : Names(e, m) /\ tokens[m].family = tokens'[n].family
    <3>1. n \in DOMAIN tokens /\ tokens'[n].family = tokens[n].family /\ n # NoToken
      BY <1>3, CookieFacts DEF OnlyEnds
    <3>2. CASE Names(e, n)
      BY <3>1, <3>2
    <3>3. CASE q # Rest /\ q.dev = e /\ n \in {q.plain, q.target}
      BY <3>1, <3>3
    <3> QED
      BY <2>1, <1>1, <3>2, <3>3 DEF Names, Under
  <2> QED
    BY <1>3, <2>1, ApartKept DEF CookieInv, OnlyEnds
<1>5. OneAtATime'
  <2> SUFFICES ASSUME NEW d \in Device, Tabs[d] = 1, NEW u \in Under(d)', NEW v \in Under(d)'
               PROVE  u = v
    BY DEF OneAtATime
  <2>1. \A w \in Under(d)' : w \in Under(d) \/ (w = r /\ q # Rest /\ q.dev = d)
    BY <1>1 DEF Under
  <2>2. (q # Rest /\ q.dev = d) => \A w \in Under(d) : w = r
    OBVIOUS
  <2> QED
    BY <2>1, <2>2 DEF CookieInv, OneAtATime
<1>6. \A c \in DOMAIN tokens \cup {NoToken} : UsableAt(c) => UsableAt(c)'
  BY UsableKept, CookieFacts
<1>7. NamesCookie'
  <2>1. ASSUME NEW u \in Request, rq'[u] # Rest, Tabs[rq'[u].dev] = 1,
               rq'[u].pc \notin {"issue", "reply"}
        PROVE  rq'[u].plain = jar'[rq'[u].dev]
    BY <1>1, <2>1 DEF CookieInv, NamesCookie
  <2>2. ASSUME NEW u \in Request, rq'[u] # Rest, Tabs[rq'[u].dev] = 1, rq'[u].pc \in {"logout", "reply"},
               NEW c \in DOMAIN tokens \cup {NoToken}, rq'[u].target = c
        PROVE  UsableAt(c)'
    <3>1. CASE u = r
      BY <2>2, <3>1, <1>1
    <3>2. CASE u # r
      <4>1. UsableAt(c)
        BY <2>2, <3>2, <1>1 DEF CookieInv, NamesCookie
      <4> QED
        BY <4>1, <1>6
    <3> QED
      BY <3>1, <3>2
  <2>3. \A u \in Request : rq'[u] # Rest => rq'[u].target \in DOMAIN tokens \cup {NoToken}
    BY DEF IInv, TypeOK, OnlyEnds
  <2> QED
    BY <2>1, <2>2, <2>3 DEF NamesCookie, UsableAt, Latest
<1>8. CookieUsable'
  <2> SUFFICES ASSUME NEW d \in Device, Tabs[d] = 1, jar[d] # NoToken
               PROVE  UsableAt(jar[d])'
    BY DEF CookieUsable, UsableAt, Latest
  <2>1. UsableAt(jar[d])
    BY DEF CookieInv, CookieUsable, UsableAt
  <2>2. jar[d] \in DOMAIN tokens \cup {NoToken}
    BY CookieFacts
  <2> QED
    BY <1>6, <2>1, <2>2 DEF UsableAt, Latest
<1> QED
  BY <1>4, <1>5, <1>7, <1>8 DEF CookieInv

(* A request on its way keeps its device and its cookie.                       *)
LEMMA CookieMove ==
    ASSUME IInv, IInv', CookieInv, OnlyEnds, jar' = jar, NEW r \in Request,
           rq[r].pc \notin {"idle", "issue", "reply"},
           NEW q \in Requests, rq' = [rq EXCEPT ![r] = q],
           q.dev = rq[r].dev, q.plain = rq[r].plain,
           \/ q.target \in {rq[r].plain, rq[r].target}
           \/ /\ {q.plain, q.target} \subseteq DOMAIN tokens
              /\ tokens[q.target].family = tokens[q.plain].family,
           q.pc \in {"logout", "reply"} => rq[r].pc = "logout" /\ q.target = rq[r].target
    PROVE  CookieInv'
<1>1. rq[r] # Rest
  BY RequestMoves DEF IInv
<1>2. \A u \in Under(q.dev) : Tabs[q.dev] = 1 => u = r
  BY <1>1, CookieFacts DEF Under
<1>3. \A n \in {q.plain, q.target} \ {NoToken} : \E m \in DOMAIN tokens :
          Names(q.dev, m) /\ tokens[m].family = tokens[n].family
  <2>1. q.plain # NoToken => q.plain \in DOMAIN tokens /\ Names(q.dev, q.plain)
    BY <1>1, CookieFacts
  <2>2. q.target \in {rq[r].plain, rq[r].target} \ {NoToken} =>
           q.target \in DOMAIN tokens /\ Names(q.dev, q.target)
    BY <1>1, CookieFacts
  <2>3. q.plain \in DOMAIN tokens => q.plain # NoToken
    BY CookieFacts
  <2> QED
    BY <2>1, <2>2, <2>3
<1>4. (Tabs[q.dev] = 1 /\ q.pc \notin {"issue", "reply"}) => q.plain = jar[q.dev]
  BY <1>1 DEF CookieInv, NamesCookie
<1>5. (Tabs[q.dev] = 1 /\ q.pc \in {"logout", "reply"}) => UsableAt(q.target)'
  <2> SUFFICES ASSUME Tabs[q.dev] = 1, q.pc \in {"logout", "reply"}
               PROVE  UsableAt(q.target)'
    OBVIOUS
  <2>1. UsableAt(q.target)
    BY <1>1 DEF CookieInv, NamesCookie
  <2>2. q.target \in DOMAIN tokens \cup {NoToken} /\ NoToken \notin DOMAIN tokens
    BY <1>1, CookieFacts
  <2> QED
    BY <2>1, <2>2, UsableKept
<1> QED
  BY <1>1, <1>2, <1>3, <1>4, <1>5, CookieRequest

(* A request that is over.                                                     *)
LEMMA CookieDrop ==
    ASSUME IInv, IInv', CookieInv, OnlyEnds, jar' = jar, NEW r \in Request, Drop(r)
    PROVE  CookieInv'
<1>1. rq' = [rq EXCEPT ![r] = Rest]
  BY DEF Drop
<1> QED
  BY <1>1, CookieRequest

(* A device whose one request at a time is over starts the next with what its  *)
(* cookie says now.                                                            *)
LEMMA CookieStart ==
    ASSUME IInv, IInv', CookieInv, NEW r \in Request, NEW d \in Device,
           SignIn(r, d) \/ Refresh(r, d) \/ Logout(r, d)
    PROVE  CookieInv'
<1>1. PICK q : /\ q \in [pc : {"issue"}, dev : {d}, plain : {NoToken}, target : {NoToken}]
                    \cup [pc : {"find", "logout"}, dev : {d}, plain : {jar[d]}, target : {NoToken}]
               /\ rq' = [rq EXCEPT ![r] = q]
  BY DEF SignIn, Refresh, Logout
<1>2. UNCHANGED <<tokens, jar>> /\ Free(r, d)
  BY DEF SignIn, Refresh, Logout
<1>3. OnlyEnds /\ NoToken \notin DOMAIN tokens /\ jar[d] \in DOMAIN tokens \cup {NoToken}
  BY <1>2, CookieFacts DEF OnlyEnds, Unrevoked, Stored
<1>4. q \in Requests /\ q.dev = d /\ q.target = NoToken /\ q.pc # "reply"
  BY <1>1, <1>3 DEF Requests, Looking, Rotating, IInv, TypeOK
<1>5. Tabs[d] = 1 => Under(d) = {}
  <2>1. IsFiniteSet(Under(d))
    BY AuthConstants, FS_Subset DEF Under
  <2>2. Tabs[d] = 1 => Cardinality(Under(d)) = 0
    BY <1>2, <2>1, FS_CardinalityType DEF Free
  <2> QED
    BY <2>1, <2>2, FS_EmptySet
<1>6. \A n \in {q.plain, q.target} \ {NoToken} : n \in DOMAIN tokens /\ Names(d, n)
  BY <1>1, <1>3, <1>4 DEF Names
<1>7. q.pc \notin {"issue", "reply"} => q.plain = jar[d]
  BY <1>1
<1>8. UsableAt(q.target)'
  BY <1>4 DEF UsableAt
<1> QED
  BY <1>1, <1>2, <1>3, <1>4, <1>5, <1>6, <1>7, <1>8, CookieRequest

(* The statements of a refresh up to its UPDATE, and what is refused or lost.  *)
LEMMA CookieQuiet ==
    ASSUME IInv, IInv', CookieInv, NEW r \in Request,
           Find(r) \/ FindLatest(r) \/ Burn(r) \/ Revoke(r) \/ Lose(r)
    PROVE  CookieInv'
<1>1. UNCHANGED <<tokens, jar>>
  BY DEF Find, FindLatest, Burn, Revoke, Lose
<1>2. OnlyEnds
  BY <1>1 DEF OnlyEnds, Unrevoked, Stored
<1>3. CASE Drop(r)
  BY <1>1, <1>2, <1>3, CookieDrop
<1>4. CASE ~ Drop(r)
  <2>1. /\ rq[r].pc \in {"find", "latest", "burn", "revoke"}
        /\ rq[r] \in Requests
        /\ rq[r].plain \in DOMAIN tokens
    BY <1>4, RequestMoves
       DEF Find, FindLatest, Burn, Revoke, Lose, IInv, TypeOK, Looking, Rotating
  <2>2. PICK pc \in Looking \cup Rotating, n \in DOMAIN tokens \cup {NoToken} :
           /\ rq' = [rq EXCEPT ![r] = [rq[r] EXCEPT !.pc = pc, !.target = n]]
           /\ \/ n = rq[r].target \/ n = rq[r].plain
              \/ n \in DOMAIN tokens /\ tokens[n].family = tokens[rq[r].plain].family
    <3>1. rq[r].target \in DOMAIN tokens \cup {NoToken}
      BY <2>1, RequestMoves DEF IInv, TypeOK
    <3>2. ASSUME NEW pc \in Looking \cup Rotating, Go(r, pc)
          PROVE  rq' = [rq EXCEPT ![r] = [rq[r] EXCEPT !.pc = pc, !.target = rq[r].target]]
      BY <2>1, <3>2 DEF Go, Requests, IInv, TypeOK
    <3>3. CASE \E pc \in Looking \cup Rotating : Go(r, pc)
      BY <3>1, <3>2, <3>3
    <3>4. CASE Find(r)
      BY <1>4, <2>1, <3>3, <3>4, ZenonT(40) DEF Find, Looking, Rotating
    <3>5. CASE FindLatest(r)
      <4>1. ASSUME NEW n \in Latest(FamilyOf(r)), rq' = [rq EXCEPT ![r].pc = "revoke", ![r].target = n]
            PROVE  /\ n \in DOMAIN tokens /\ tokens[n].family = tokens[rq[r].plain].family
                   /\ rq' = [rq EXCEPT ![r] = [rq[r] EXCEPT !.pc = "revoke", !.target = n]]
        BY <4>1 DEF Latest, Unrevoked, FamilyOf
      <4>2. CASE \E n \in Latest(FamilyOf(r)) : rq' = [rq EXCEPT ![r].pc = "revoke", ![r].target = n]
        BY <4>1, <4>2 DEF Rotating
      <4>3. CASE Go(r, "burn")
        BY <3>3, <4>3 DEF Looking
      <4> QED
        BY <3>5, <4>2, <4>3 DEF FindLatest
    <3>6. CASE Burn(r) \/ Revoke(r) \/ Lose(r)
      BY <1>4, <3>3, <3>6 DEF Burn, Revoke, Lose, Looking, Rotating
    <3> QED
      BY <3>4, <3>5, <3>6
  <2> DEFINE q == [rq[r] EXCEPT !.pc = pc, !.target = n]
  <2>3. /\ q \in Requests /\ q.dev = rq[r].dev /\ q.plain = rq[r].plain /\ q.target = n
        /\ q.pc \notin {"logout", "reply"}
    BY <2>1 DEF Requests, Looking, Rotating, IInv, TypeOK
  <2>4. rq' = [rq EXCEPT ![r] = q]
    BY <2>2
  <2>5. \/ q.target \in {rq[r].plain, rq[r].target}
        \/ /\ {q.plain, q.target} \subseteq DOMAIN tokens
           /\ tokens[q.target].family = tokens[q.plain].family
    BY <2>1, <2>2, <2>3
  <2>6. rq[r].pc \notin {"idle", "issue", "reply"}
    BY <2>1
  <2> HIDE DEF q
  <2> QED
    BY <1>1, <1>2, <2>3, <2>4, <2>5, <2>6, CookieMove
<1> QED
  BY <1>3, <1>4

(* Logout: the family may end before the cookie is cleared.                    *)
LEMMA CookieLogout ==
    ASSUME IInv, IInv', CookieInv, NEW r \in Request, RevokeOne(r)
    PROVE  CookieInv'
<1> DEFINE n == rq[r].plain
           q == [rq[r] EXCEPT !.pc = "reply"]
<1>1. TypeOK /\ rq[r] \in Requests /\ rq[r].pc = "logout" /\ jar' = jar
  BY RequestMoves DEF RevokeOne, IInv
<1>2. OnlyEnds
  <2>1. CASE n \notin Unrevoked
    BY <2>1 DEF RevokeOne, OnlyEnds, Unrevoked, Stored
  <2>2. CASE n \in Unrevoked
    <3>1. tokens' = [tokens EXCEPT ![n].revoked = "recent"] /\ n \in DOMAIN tokens
      BY <2>2 DEF RevokeOne, Unrevoked
    <3> HIDE DEF n
    <3>2. /\ DOMAIN tokens' = DOMAIN tokens
          /\ \A m \in DOMAIN tokens : tokens'[m].family = tokens[m].family
                                      /\ tokens'[m].parent = tokens[m].parent
          /\ \A m \in DOMAIN tokens : m # n => tokens'[m] = tokens[m]
          /\ tokens'[n].revoked = "recent"
      BY <1>1, <3>1 DEF TypeOK, Row
    <3> QED
      BY <3>2 DEF OnlyEnds, Unrevoked, Stored
  <2> QED
    BY <2>1, <2>2
<1>3. /\ q \in Requests /\ q.pc = "reply" /\ q.dev = rq[r].dev
      /\ q.plain = rq[r].plain /\ q.target = rq[r].target
  BY <1>1 DEF Requests
<1>4. rq' = [rq EXCEPT ![r] = q]
  BY DEF RevokeOne, Go
<1> HIDE DEF q
<1> QED
  BY <1>1, <1>2, <1>3, <1>4, CookieMove

(* Ten seconds or thirty days pass, or the purge runs.                         *)
LEMMA CookieTime ==
    ASSUME IInv, CookieInv, OnlyEnds, UNCHANGED <<rq, jar>>
    PROVE  CookieInv'
<1>1. \A n \in DOMAIN tokens : n \in DOMAIN tokens' /\ tokens'[n].family = tokens[n].family
  BY DEF OnlyEnds
<1>2. \A e \in Device : \A n \in DOMAIN tokens' : Names(e, n)' =>
          \E m \in DOMAIN tokens : Names(e, m) /\ tokens[m].family = tokens'[n].family
  BY <1>1 DEF OnlyEnds, Names, Under
<1>3. Apart'
  BY <1>1, <1>2, ApartKept DEF CookieInv
<1>4. OneAtATime'
  BY DEF CookieInv, OneAtATime, Under
<1>5. \A c \in DOMAIN tokens \cup {NoToken} : UsableAt(c) => UsableAt(c)'
  BY UsableKept, CookieFacts
<1>6. NamesCookie'
  BY <1>5, CookieFacts DEF CookieInv, NamesCookie, UsableAt, Latest
<1>7. CookieUsable'
  BY <1>5, CookieFacts DEF CookieInv, CookieUsable, UsableAt, Latest
<1> QED
  BY <1>3, <1>4, <1>6, <1>7 DEF CookieInv

LEMMA TimeEnds ==
    ASSUME IInv, NEW n \in DOMAIN tokens, CloseWindow(n) \/ Expire(n)
    PROVE  OnlyEnds /\ UNCHANGED <<rq, jar>>
<1>1. tokens[n] \in Row /\ UNCHANGED <<rq, jar>>
  BY DEF IInv, TypeOK, CloseWindow, Expire
<1>2. PICK row \in Row :
         /\ tokens' = [tokens EXCEPT ![n] = row]
         /\ row.family = tokens[n].family /\ row.parent = tokens[n].parent
         /\ (row.revoked = "no" /\ row.life # "purged")
               => (tokens[n].revoked = "no" /\ tokens[n].life # "purged")
  <2>1. CASE CloseWindow(n)
    <3> DEFINE row == [tokens[n] EXCEPT !.revoked = "long"]
    <3>1. /\ row \in Row /\ row.family = tokens[n].family /\ row.parent = tokens[n].parent
          /\ row.revoked = "long"
      BY <1>1 DEF Row
    <3> QED
      BY <2>1, <3>1 DEF CloseWindow
  <2>2. CASE Expire(n)
    <3> DEFINE row == [tokens[n] EXCEPT !.life = "expired"]
    <3>1. /\ row \in Row /\ row.family = tokens[n].family /\ row.parent = tokens[n].parent
          /\ row.revoked = tokens[n].revoked /\ tokens[n].life = "valid"
      BY <1>1, <2>2 DEF Row, Expire
    <3> QED
      BY <2>2, <3>1 DEF Expire
  <2> QED
    BY <2>1, <2>2
<1>3. /\ DOMAIN tokens' = DOMAIN tokens
      /\ \A m \in DOMAIN tokens : tokens'[m] = IF m = n THEN row ELSE tokens[m]
  BY <1>2
<1> QED
  BY <1>1, <1>2, <1>3 DEF OnlyEnds, Unrevoked, Stored

LEMMA PurgeEnds ==
    ASSUME IInv, Purge
    PROVE  OnlyEnds /\ UNCHANGED <<rq, jar>>
<1>1. PICK gone : tokens' = [n \in DOMAIN tokens |->
                     IF n \in gone THEN [tokens[n] EXCEPT !.life = "purged"] ELSE tokens[n]]
  BY DEF Purge
<1>2. ASSUME NEW n \in DOMAIN tokens
      PROVE  /\ tokens'[n].family = tokens[n].family
             /\ tokens'[n].parent = tokens[n].parent
             /\ tokens'[n].revoked = tokens[n].revoked
             /\ tokens'[n].life = IF n \in gone THEN "purged" ELSE tokens[n].life
  <2>1. tokens[n] \in Row
    BY DEF IInv, TypeOK
  <2> QED
    BY <1>1, <2>1 DEF Row
<1> QED
  BY <1>1, <1>2 DEF Purge, OnlyEnds, Unrevoked, Stored

(* Set-Cookie: with one request at a time it is the answer to the last one.    *)
LEMMA CookieDeliver ==
    ASSUME IInv, IInv', CookieInv, NEW r \in Request, Deliver(r)
    PROVE  CookieInv'
<1> DEFINE d == rq[r].dev
           t == rq[r].target
<1>1. tokens' = tokens /\ OnlyEnds /\ Drop(r)
  BY DEF Deliver, OnlyEnds, Unrevoked, Stored
<1>2. CASE rq[r].pc # "reply"
  BY <1>1, <1>2, CookieDrop DEF Deliver
<1>3. CASE rq[r].pc = "reply"
  <2>1. rq[r] # Rest
    BY <1>3, RequestMoves DEF IInv
  <2>2. /\ d \in Device /\ t \in DOMAIN tokens \cup {NoToken}
        /\ t # NoToken => Names(d, t)
    BY <2>1, CookieFacts
  <2>3. \A e \in Device : jar'[e] = IF e = d THEN t ELSE jar[e]
    BY <1>3, <2>2 DEF Deliver, IInv, TypeOK
  <2>4. \A u \in Request : rq'[u] = IF u = r THEN Rest ELSE rq[u]
    BY <1>1 DEF Drop, IInv, TypeOK
  <2>5. \A u \in Request : (rq'[u] # Rest /\ Tabs[rq'[u].dev] = 1) =>
            rq'[u] = rq[u] /\ rq[u].dev \in Device /\ rq[u].dev # d
    BY <2>1, <2>4, CookieFacts
  <2>6. Tabs[d] = 1 => UsableAt(t)
    BY <1>3, <2>1 DEF CookieInv, NamesCookie
  <2>7. \A e \in Device : (Tabs[e] = 1 /\ e # d) => UsableAt(jar[e])
    BY DEF CookieInv, CookieUsable, UsableAt
  <2> HIDE DEF d, t
  <2>8. Apart'
    <3>1. \A e \in Device, n \in DOMAIN tokens : Names(e, n)' => Names(e, n)
      BY <1>1, <2>2, <2>3, <2>4 DEF Names, Under
    <3> QED
      BY <1>1, <3>1 DEF CookieInv, Apart
  <2>9. OneAtATime'
    BY <2>4 DEF CookieInv, OneAtATime, Under
  <2>10. NamesCookie'
    BY <1>1, <2>3, <2>5 DEF CookieInv, NamesCookie, UsableAt, Latest, Unrevoked, Stored
  <2>11. CookieUsable'
    BY <1>1, <2>3, <2>6, <2>7 DEF CookieUsable, UsableAt, Latest, Unrevoked, Stored
  <2> QED
    BY <2>8, <2>9, <2>10, <2>11 DEF CookieInv
<1> QED
  BY <1>2, <1>3

(* A new token that only the request that made it names yet.                   *)
LEMMA CookieIssue ==
    ASSUME IInv, IInv', CookieInv, NEW r \in Request, NEW new, NEW row \in Row,
           rq[r] # Rest, new \notin DOMAIN tokens, new # NoToken,
           DOMAIN tokens' = DOMAIN tokens \cup {new},
           tokens'[new] = row, row.revoked = "no", row.life = "valid",
           \A n \in DOMAIN tokens : /\ tokens'[n].family = tokens[n].family
                                    /\ tokens'[n].parent = tokens[n].parent,
           Unrevoked' \subseteq Unrevoked \cup {new},
           \A n \in Unrevoked' : tokens'[n].family = row.family => n = new,
           NEW q \in Requests, rq' = [rq EXCEPT ![r] = q],
           q.pc = "reply", q.target = new, q.plain = rq[r].plain, q.dev = rq[r].dev,
           jar' = jar,
           \/ row.family = new
           \/ /\ rq[r].pc = "insert" /\ rq[r].plain \in DOMAIN tokens
              /\ row.family = tokens[rq[r].plain].family /\ row.parent = rq[r].plain
    PROVE  CookieInv'
<1> DEFINE d == rq[r].dev
<1>1. /\ rq[r] \in Requests /\ d \in Device /\ NoToken \notin DOMAIN tokens
      /\ \A u \in Request : (rq[u] # Rest /\ rq[u].dev = d /\ Tabs[d] = 1) => u = r
      /\ \A n \in {rq[r].plain, rq[r].target} \ {NoToken} : Names(d, n)
  BY CookieFacts
<1>2. /\ rq'[r].pc = "reply" /\ rq'[r].target = new /\ rq'[r] # Rest
      /\ rq'[r].plain = rq[r].plain /\ rq'[r].dev = d
      /\ \A u \in Request : u # r => rq'[u] = rq[u]
  BY <1>1 DEF Requests, Rest, IInv, TypeOK
<1>3. \A n \in DOMAIN tokens : tokens[n].family \in DOMAIN tokens
  BY DEF IInv, RotationsOK
<1>4. row.family = new
      \/ \E m \in DOMAIN tokens : Names(d, m) /\ tokens[m].family = row.family
  BY <1>1
<1> HIDE DEF d
<1>5. \A e \in Device : \A n \in DOMAIN tokens' :
          Names(e, n)' => (n \in DOMAIN tokens /\ Names(e, n)) \/ (n = new /\ e = d)
  <2> SUFFICES ASSUME NEW e \in Device, NEW n \in DOMAIN tokens', Names(e, n)'
               PROVE  (n \in DOMAIN tokens /\ Names(e, n)) \/ (n = new /\ e = d)
    OBVIOUS
  <2>1. n # NoToken
    BY DEF Names
  <2>2. CASE jar[e] = n
    BY <2>1, <2>2, CookieFacts DEF Names
  <2>3. ASSUME NEW u \in Request, rq'[u] # Rest, rq'[u].dev = e, n \in {rq'[u].plain, rq'[u].target}
        PROVE  (n \in DOMAIN tokens /\ Names(e, n)) \/ (n = new /\ e = d)
    <3>1. CASE u = r
      <4>1. e = d /\ n \in {rq[r].plain, new}
        BY <2>3, <3>1, <1>2
      <4>2. rq[r].plain \in DOMAIN tokens \cup {NoToken}
        BY CookieFacts
      <4> QED
        BY <2>1, <4>1, <4>2, <1>1
    <3>2. CASE u # r
      <4>1. rq[u] # Rest /\ rq[u].dev = e /\ n \in {rq[u].plain, rq[u].target}
        BY <2>3, <3>2, <1>2
      <4> QED
        BY <2>1, <4>1, CookieFacts
    <3> QED
      BY <3>1, <3>2
  <2> QED
    BY <2>2, <2>3 DEF Names, Under
<1>6. Apart'
  <2> SUFFICES ASSUME NEW a \in Device, NEW e \in Device,
                      NEW n \in DOMAIN tokens', NEW m \in DOMAIN tokens',
                      Names(a, n)', Names(e, m)', tokens'[n].family = tokens'[m].family
               PROVE  a = e
    BY DEF Apart
  <2>1. CASE n \in DOMAIN tokens /\ m \in DOMAIN tokens
    BY <2>1, <1>5 DEF CookieInv, Apart
  <2>2. CASE n = new /\ m \in DOMAIN tokens
    BY <2>2, <1>3, <1>4, <1>5, <1>1 DEF CookieInv, Apart
  <2>3. CASE n \in DOMAIN tokens /\ m = new
    BY <2>3, <1>3, <1>4, <1>5, <1>1 DEF CookieInv, Apart
  <2> QED
    BY <2>1, <2>2, <2>3, <1>5
<1>7. OneAtATime'
  <2>1. \A e \in Device : Under(e)' \subseteq Under(e)
    BY <1>2 DEF Under, d
  <2> QED
    BY <2>1 DEF CookieInv, OneAtATime
<1>8. ASSUME NEW e \in Device, NEW c \in DOMAIN tokens, Names(e, c), e # d, UsableAt(c)
      PROVE  UsableAt(c)'
  <2>1. tokens'[c].family # row.family
    BY <1>1, <1>3, <1>4, <1>8 DEF CookieInv, Apart
  <2>2. \A n \in Unrevoked' : tokens'[n].family = tokens'[c].family =>
           n \in Unrevoked /\ tokens'[n].family = tokens[n].family /\ tokens'[n].parent = tokens[n].parent
    BY <2>1 DEF Unrevoked
  <2> QED
    BY <1>8, <2>2 DEF UsableAt, Latest
<1>9. \A n \in Unrevoked' : tokens'[n].family = row.family =>
          n = new /\ tokens'[n].parent = row.parent
  OBVIOUS
<1>10. NamesCookie'
  <2>1. ASSUME NEW u \in Request, rq'[u] # Rest, Tabs[rq'[u].dev] = 1,
               rq'[u].pc \notin {"issue", "reply"}
        PROVE  rq'[u].plain = jar'[rq'[u].dev]
    BY <1>2, <2>1 DEF CookieInv, NamesCookie
  <2>2. ASSUME NEW u \in Request, rq'[u] # Rest, Tabs[rq'[u].dev] = 1,
               rq'[u].pc \in {"logout", "reply"}, rq'[u].target # NoToken,
               NEW c \in DOMAIN tokens', rq'[u].target = c
        PROVE  UsableAt(c)'
    <3>1. CASE u = r
      <4>1. c = new /\ tokens'[c].family = row.family
        BY <2>2, <3>1, <1>2
      <4> QED
        BY <4>1, <1>9 DEF UsableAt, Latest
    <3>2. CASE u # r
      <4>1. rq'[u] = rq[u] /\ rq[u].dev # d /\ rq[u].dev \in Device /\ UsableAt(c)
        <5>1. rq'[u] = rq[u] /\ rq[u] # Rest
          BY <1>2, <2>2, <3>2
        <5>2. rq[u].dev # d /\ rq[u].dev \in Device
          BY <1>1, <2>2, <3>2, <5>1, CookieFacts
        <5>3. UsableAt(rq[u].target) /\ rq[u].target = c
          BY <2>2, <5>1 DEF CookieInv, NamesCookie
        <5> QED
          BY <5>1, <5>2, <5>3
      <4>2. c \in DOMAIN tokens /\ Names(rq[u].dev, c)
        <5>1. rq[u] # Rest /\ rq[u].target = c /\ c # NoToken
          BY <2>2, <4>1
        <5> QED
          BY <5>1, CookieFacts
      <4>3. PICK e \in Device : e # d /\ Names(e, c)
        BY <4>1, <4>2
      <4> QED
        BY <4>1, <4>2, <4>3, <1>8
    <3> QED
      BY <3>1, <3>2
  <2>3. \A u \in Request : rq'[u] # Rest => rq'[u].target \in DOMAIN tokens' \cup {NoToken}
    BY DEF IInv, TypeOK
  <2> QED
    BY <2>1, <2>2, <2>3 DEF NamesCookie, UsableAt, Latest
<1>11. CookieUsable'
  <2> SUFFICES ASSUME NEW e \in Device, Tabs[e] = 1, NEW c \in DOMAIN tokens, jar[e] = c
               PROVE  UsableAt(c)'
    BY CookieFacts DEF CookieUsable, UsableAt, Latest
  <2>1. UsableAt(c) /\ Names(e, c) /\ c # NoToken
    BY CookieFacts DEF CookieInv, CookieUsable, UsableAt
  <2>2. CASE e # d
    BY <2>1, <2>2, <1>8
  <2>3. CASE e = d /\ row.family # new
    <3>1. rq[r].plain = c /\ row.family = tokens'[c].family /\ row.parent = c
      BY <2>3 DEF CookieInv, NamesCookie, d
    <3> QED
      BY <3>1, <1>9 DEF UsableAt, Latest
  <2>4. CASE row.family = new
    <3>1. \A n \in Unrevoked' : tokens'[n].family = tokens'[c].family =>
             n \in Unrevoked /\ tokens'[n].family = tokens[n].family /\ tokens'[n].parent = tokens[n].parent
      BY <2>4, <1>3 DEF Unrevoked
    <3> QED
      BY <2>1, <3>1 DEF UsableAt, Latest
  <2> QED
    BY <2>2, <2>3, <2>4
<1> QED
  BY <1>6, <1>7, <1>10, <1>11 DEF CookieInv

LEMMA CookieGrows ==
    ASSUME IInv, IInv', CookieInv, NEW r \in Request, Issue(r) \/ Insert(r)
    PROVE  CookieInv'
<1>1. /\ rq[r] # Rest /\ rq[r] \in Requests /\ jar' = jar
      /\ Fresh \in Token /\ Fresh \notin DOMAIN tokens /\ Fresh # NoToken
      /\ rq' = [rq EXCEPT ![r].pc = "reply", ![r].target = Fresh]
  BY AuthConstants, RequestMoves, FreshIsNew DEF Issue, Insert, IInv, TypeOK
<1>2. PICK new : new = Fresh
  OBVIOUS
<1>3. PICK next \in Requests :
         /\ rq' = [rq EXCEPT ![r] = next]
         /\ next.pc = "reply" /\ next.target = new
         /\ next.plain = rq[r].plain /\ next.dev = rq[r].dev
  <2> DEFINE next == [rq[r] EXCEPT !.pc = "reply", !.target = new]
  <2>1. /\ next \in Requests /\ next.pc = "reply" /\ next.target = new
        /\ next.plain = rq[r].plain /\ next.dev = rq[r].dev
    BY <1>1, <1>2 DEF Requests
  <2>2. rq' = [rq EXCEPT ![r] = next]
    BY <1>1, <1>2
  <2> QED
    BY <2>1, <2>2
<1>4. PICK row \in Row :
         /\ DOMAIN tokens' = DOMAIN tokens \cup {new}
         /\ tokens'[new] = row /\ row.revoked = "no" /\ row.life = "valid"
         /\ \A n \in DOMAIN tokens : /\ tokens'[n].family = tokens[n].family
                                     /\ tokens'[n].parent = tokens[n].parent
         /\ Unrevoked' \subseteq Unrevoked \cup {new}
         /\ \A n \in Unrevoked' : tokens'[n].family = row.family => n = new
         /\ \/ row.family = new
            \/ /\ rq[r].pc = "insert" /\ rq[r].plain \in DOMAIN tokens
               /\ row.family = tokens[rq[r].plain].family /\ row.parent = rq[r].plain
  <2>1. CASE Issue(r)
    <3>1. /\ DOMAIN tokens' = DOMAIN tokens \cup {new}
          /\ tokens'[new] = FirstRow
          /\ \A n \in DOMAIN tokens : tokens'[n] = tokens[n]
      BY <1>1, <1>2, <2>1 DEF Issue, With
    <3>2. /\ FirstRow \in Row /\ FirstRow.family = new
          /\ FirstRow.revoked = "no" /\ FirstRow.life = "valid"
      BY <1>1, <1>2 DEF FirstRow, Row
    <3>3. Unrevoked' \subseteq Unrevoked \cup {new}
      BY <3>1 DEF Unrevoked, Stored
    <3>4. \A n \in Unrevoked' : tokens'[n].family = new => n = new
      BY <1>1, <1>2, <3>1, <3>3 DEF IInv, RotationsOK, Unrevoked
    <3> QED
      BY <3>1, <3>2, <3>3, <3>4
  <2>2. CASE Insert(r)
    <3> DEFINE q == rq[r]
               row == NextRow(q)
    <3>1. /\ q.pc = "insert" /\ q.plain \in DOMAIN tokens /\ q.target \in DOMAIN tokens
          /\ q.target \in Unrevoked
          /\ tokens[q.target].family = tokens[q.plain].family
      BY <1>1, <2>2 DEF Insert, IInv, RotationsOK, TypeOK, Rotating
    <3>2. /\ row \in Row /\ row.family = tokens[q.plain].family /\ row.parent = q.plain
          /\ row.revoked = "no" /\ row.life = "valid"
      BY <1>1, <3>1 DEF NextRow, Row, IInv, TypeOK
    <3>3. /\ DOMAIN tokens' = DOMAIN tokens \cup {new}
          /\ tokens'[new] = row
          /\ \A n \in DOMAIN tokens : n # q.target => tokens'[n] = tokens[n]
          /\ tokens'[q.target] = [tokens[q.target] EXCEPT !.revoked = "recent"]
      BY <1>1, <1>2, <2>2, <3>1 DEF Insert, With
    <3>4. tokens[q.target] \in Row
      BY <3>1 DEF IInv, TypeOK
    <3>5. /\ \A n \in DOMAIN tokens : /\ tokens'[n].family = tokens[n].family
                                      /\ tokens'[n].parent = tokens[n].parent
          /\ tokens'[q.target].revoked = "recent"
      BY <3>3, <3>4 DEF Row
    <3> HIDE DEF q, row
    <3>6. Unrevoked' \subseteq (Unrevoked \ {q.target}) \cup {new}
      BY <3>3, <3>5 DEF Unrevoked, Stored
    <3>7. \A n \in Unrevoked' : tokens'[n].family = row.family => n = new
      BY <3>1, <3>2, <3>5, <3>6 DEF IInv, RotationsOK, OneTokenPerFamily, Unrevoked
    <3> QED
      BY <3>1, <3>2, <3>3, <3>5, <3>6, <3>7 DEF q
  <2> QED
    BY <2>1, <2>2
<1>5. rq[r] # Rest /\ jar' = jar /\ new \notin DOMAIN tokens /\ new # NoToken
  BY <1>1, <1>2
<1>6. CASE row.family = new
  BY <1>3, <1>4, <1>5, <1>6, CookieIssue, ZenonT(40)
<1>7. CASE rq[r].pc = "insert" /\ rq[r].plain \in DOMAIN tokens
           /\ row.family = tokens[rq[r].plain].family /\ row.parent = rq[r].plain
  BY <1>3, <1>4, <1>5, <1>7, CookieIssue, ZenonT(40)
<1> QED
  BY <1>4, <1>6, <1>7

LEMMA CookieNext == IInv /\ IInv' /\ CookieInv /\ [Next]_vars => CookieInv'
<1> SUFFICES ASSUME IInv, IInv', CookieInv, [Next]_vars PROVE CookieInv'
  OBVIOUS
<1>1. ASSUME NEW r \in Request, NEW d \in Device, SignIn(r, d) \/ Refresh(r, d) \/ Logout(r, d)
      PROVE  CookieInv'
  BY <1>1, CookieStart
<1>2. ASSUME NEW r \in Request, Step(r) PROVE CookieInv'
  BY <1>2, CookieGrows, CookieQuiet, CookieLogout, CookieDeliver DEF Step
<1>3. ASSUME NEW n \in DOMAIN tokens, CloseWindow(n) \/ Expire(n) PROVE CookieInv'
  BY <1>3, TimeEnds, CookieTime
<1>4. CASE Purge
  BY <1>4, PurgeEnds, CookieTime
<1>5. CASE UNCHANGED vars
  BY <1>5, CookieTime DEF vars, OnlyEnds, Unrevoked, Stored
<1> QED
  BY <1>1, <1>2, <1>3, <1>4, <1>5 DEF Next

LEMMA CookieInit == Init => CookieInv
<1> SUFFICES ASSUME Init PROVE CookieInv
  OBVIOUS
<1>1. DOMAIN tokens = {} /\ \A r \in Request : rq[r] = Rest
  BY DEF Init
<1>2. \A d \in Device : jar[d] = NoToken /\ Under(d) = {}
  BY <1>1 DEF Init, Under
<1> QED
  BY <1>1, <1>2 DEF CookieInv, Apart, OneAtATime, NamesCookie, CookieUsable, UsableAt

(* What a statement leaves of a table: families are not revived, a revoked     *)
(* token stays revoked, and a closed window stays closed.                      *)
OnlyAges ==
    /\ DOMAIN tokens \subseteq DOMAIN tokens'
    /\ \A n \in DOMAIN tokens :
          /\ tokens'[n].family = tokens[n].family
          /\ tokens[n].revoked # "no" => tokens'[n].revoked # "no"
          /\ tokens[n].revoked = "long" => tokens'[n].revoked = "long"
          /\ Latest(tokens[n].family) = {} => Latest(tokens[n].family)' = {}

\* A request that looks for the newest token has found its own one revoked.
LooksAtRevoked ==
    \A r \in Request : rq[r].pc \in {"latest", "burn", "reused"} => tokens[rq[r].plain].revoked # "no"

RefusedInv == LooksAtRevoked /\ RefusedOnlyLate

LEMMA EndsAge ==
    ASSUME IInv, OnlyEnds,
           \A n \in DOMAIN tokens : /\ tokens[n].revoked # "no" => tokens'[n].revoked # "no"
                                    /\ tokens[n].revoked = "long" => tokens'[n].revoked = "long"
    PROVE  OnlyAges
<1>1. \A f \in Token : Latest(f) = {} => Latest(f)' = {}
  BY DEF Latest, OnlyEnds, Unrevoked
<1>2. \A n \in DOMAIN tokens : tokens[n].family \in Token
  BY DEF IInv, TypeOK, Row
<1> QED
  BY <1>1, <1>2 DEF OnlyAges, OnlyEnds

LEMMA IssueAges ==
    ASSUME IInv, NEW r \in Request, Issue(r)
    PROVE  OnlyAges
<1>1. PICK new : new = Fresh
  OBVIOUS
<1>2. new \notin DOMAIN tokens
  BY <1>1, FreshIsNew DEF Issue, IInv, TypeOK
<1>3. /\ DOMAIN tokens' = DOMAIN tokens \cup {new}
      /\ tokens'[new].family = new
      /\ \A n \in DOMAIN tokens : tokens'[n] = tokens[n]
  BY <1>1, <1>2 DEF Issue, With, FirstRow
<1>4. \A n \in DOMAIN tokens : tokens[n].family \in DOMAIN tokens
  BY DEF IInv, RotationsOK
<1>5. \A f \in DOMAIN tokens : Latest(f)' \subseteq Latest(f)
  BY <1>2, <1>3 DEF Latest, Unrevoked, Stored
<1> QED
  BY <1>3, <1>4, <1>5 DEF OnlyAges

LEMMA InsertAges ==
    ASSUME IInv, NEW r \in Request, Insert(r)
    PROVE  OnlyAges
<1>1. PICK new : new = Fresh
  OBVIOUS
<1>2. PICK n \in DOMAIN tokens : n = rq[r].target /\ n \in Unrevoked
  BY DEF Insert, IInv, RotationsOK, Unrevoked
<1>3. rq[r].plain \in DOMAIN tokens /\ tokens[rq[r].plain].family = tokens[n].family
  BY <1>2 DEF Insert, IInv, RotationsOK, TypeOK, Rest, Looking, Rotating
<1>4. new \notin DOMAIN tokens
  BY <1>1, FreshIsNew DEF Insert, IInv, TypeOK
<1>5. PICK row : row = NextRow(rq[r])
  OBVIOUS
<1>6. /\ DOMAIN tokens' = DOMAIN tokens \cup {new}
      /\ tokens'[new] = row
      /\ \A m \in DOMAIN tokens : m # n => tokens'[m] = tokens[m]
      /\ tokens'[n] = [tokens[n] EXCEPT !.revoked = "recent"]
  BY <1>1, <1>2, <1>4, <1>5 DEF Insert, With
<1>7. row.family = tokens[n].family /\ tokens[n] \in Row
  BY <1>3, <1>5 DEF NextRow, IInv, TypeOK
<1>8. tokens'[n].family = tokens[n].family /\ tokens'[n].revoked = "recent"
  BY <1>6, <1>7 DEF Row
<1>9. tokens[n].revoked = "no" /\ n \in Latest(tokens[n].family)
  BY <1>2 DEF Unrevoked, Latest
<1>10. \A f \in Token : f # tokens[n].family => Latest(f)' \subseteq Latest(f)
  BY <1>6, <1>7, <1>8 DEF Latest, Unrevoked, Stored
<1>11. \A m \in DOMAIN tokens : tokens[m].family \in Token
  BY DEF IInv, TypeOK, Row
<1> QED
  BY <1>6, <1>8, <1>9, <1>10, <1>11 DEF OnlyAges

LEMMA LogoutAges ==
    ASSUME IInv, NEW r \in Request, RevokeOne(r)
    PROVE  OnlyAges
<1>1. CASE UNCHANGED tokens
  BY <1>1 DEF OnlyAges, Latest, Unrevoked, Stored
<1>2. CASE \E n \in Unrevoked : tokens' = [tokens EXCEPT ![n].revoked = "recent"]
  <2>1. PICK n \in Unrevoked : tokens' = [tokens EXCEPT ![n].revoked = "recent"]
    BY <1>2
  <2>2. n \in DOMAIN tokens /\ tokens[n] \in Row /\ tokens[n].revoked = "no"
    BY DEF Unrevoked, IInv, TypeOK
  <2>3. /\ DOMAIN tokens' = DOMAIN tokens
        /\ \A m \in DOMAIN tokens : m # n => tokens'[m] = tokens[m]
        /\ tokens'[n] = [tokens[n] EXCEPT !.revoked = "recent"]
    BY <2>1, <2>2
  <2>4. /\ tokens'[n].family = tokens[n].family /\ tokens'[n].parent = tokens[n].parent
        /\ tokens'[n].revoked = "recent"
    BY <2>2, <2>3 DEF Row
  <2>5. OnlyEnds
    BY <2>2, <2>3, <2>4 DEF OnlyEnds, Unrevoked, Stored
  <2> QED
    BY <2>2, <2>3, <2>4, <2>5, EndsAge
<1> QED
  BY <1>1, <1>2 DEF RevokeOne

LEMMA TimeAges ==
    ASSUME IInv, NEW n \in DOMAIN tokens, CloseWindow(n) \/ Expire(n)
    PROVE  OnlyAges
<1>1. PICK row \in Row :
         /\ tokens' = [tokens EXCEPT ![n] = row]
         /\ row.revoked \in {tokens[n].revoked, "long"}
         /\ tokens[n].revoked = "long" => row.revoked = "long"
  <2>1. tokens[n] \in Row
    BY DEF IInv, TypeOK
  <2>2. CASE CloseWindow(n)
    BY <2>1, <2>2 DEF CloseWindow, Row
  <2>3. CASE Expire(n)
    <3> DEFINE row == [tokens[n] EXCEPT !.life = "expired"]
    <3>1. row \in Row /\ row.revoked = tokens[n].revoked
      BY <2>1 DEF Row
    <3> QED
      BY <2>3, <3>1 DEF Expire
  <2> QED
    BY <2>2, <2>3
<1>2. \A m \in DOMAIN tokens : tokens'[m] = IF m = n THEN row ELSE tokens[m]
  BY <1>1
<1>3. \A m \in DOMAIN tokens : /\ tokens[m].revoked # "no" => tokens'[m].revoked # "no"
                               /\ tokens[m].revoked = "long" => tokens'[m].revoked = "long"
  BY <1>1, <1>2
<1> QED
  BY <1>3, TimeEnds, EndsAge

LEMMA PurgeAges ==
    ASSUME IInv, Purge
    PROVE  OnlyAges
<1>1. PICK gone : tokens' = [n \in DOMAIN tokens |->
                     IF n \in gone THEN [tokens[n] EXCEPT !.life = "purged"] ELSE tokens[n]]
  BY DEF Purge
<1>2. ASSUME NEW n \in DOMAIN tokens
      PROVE  tokens'[n].revoked = tokens[n].revoked
  <2>1. tokens[n] \in Row
    BY DEF IInv, TypeOK
  <2> QED
    BY <1>1, <2>1 DEF Row
<1> QED
  BY <1>2, PurgeEnds, EndsAge

\* What a step does to a request that is being refused.
Refuses ==
    \A r \in Request : rq'[r].pc \in {"latest", "burn", "reused"} =>
        \/ rq'[r] = rq[r]
        \/ rq[r].pc = "find" /\ Find(r)
        \/ rq[r].pc = "latest" /\ FindLatest(r)
        \/ rq[r].pc = "burn" /\ Burn(r)

LEMMA NextAges == ASSUME IInv, [Next]_vars PROVE OnlyAges /\ Refuses
<1>1. rq \in [Request -> {Rest} \cup Requests]
  BY DEF IInv, TypeOK
<1>2. ASSUME UNCHANGED tokens PROVE OnlyAges
  BY <1>2 DEF OnlyAges, Latest, Unrevoked, Stored
<1>4. ASSUME NEW r \in Request, NEW d \in Device, SignIn(r, d) \/ Refresh(r, d) \/ Logout(r, d)
      PROVE  OnlyAges /\ Refuses
  <2>1. UNCHANGED tokens
    BY <1>4 DEF SignIn, Refresh, Logout
  <2>2. PICK q \in Requests : /\ rq' = [rq EXCEPT ![r] = q]
                             /\ q.pc \notin {"latest", "burn", "reused"}
    <3> DEFINE of(pc, n) == [pc |-> pc, dev |-> d, plain |-> n, target |-> NoToken]
    <3>1. \A pc \in {"issue", "find", "logout"}, n \in DOMAIN tokens \cup {NoToken} :
              of(pc, n) \in Requests /\ of(pc, n).pc = pc
      BY DEF Requests, Looking, IInv, TypeOK
    <3>2. /\ jar[d] \in DOMAIN tokens \cup {NoToken}
          /\ \E pc \in {"issue", "find", "logout"}, n \in {NoToken, jar[d]} :
                rq' = [rq EXCEPT ![r] = of(pc, n)]
      BY <1>4 DEF SignIn, Refresh, Logout, IInv, TypeOK
    <3> QED
      BY <3>1, <3>2
  <2>3. \A u \in Request : rq'[u] = IF u = r THEN q ELSE rq[u]
    BY <1>1, <2>2
  <2> QED
    BY <1>2, <2>1, <2>2, <2>3 DEF Refuses
<1>5. ASSUME NEW r \in Request, Step(r)
      PROVE  OnlyAges /\ Refuses
  <2>1. OnlyAges
    <3>1. CASE Issue(r) \/ Insert(r) \/ RevokeOne(r)
      BY <3>1, IssueAges, InsertAges, LogoutAges
    <3>2. CASE Find(r) \/ FindLatest(r) \/ Burn(r) \/ Revoke(r) \/ Deliver(r) \/ Lose(r)
      BY <1>2, <3>2 DEF Find, FindLatest, Burn, Revoke, Deliver, Lose
    <3> QED
      BY <1>5, <3>1, <3>2 DEF Step
  <2>2. Refuses
    <3>1. CASE Find(r) \/ FindLatest(r) \/ Burn(r)
      <4>1. \A u \in Request : u # r => rq'[u] = rq[u]
        BY <1>1, <3>1 DEF Find, FindLatest, Burn, Go, Drop
      <4>2. rq[r].pc = IF Find(r) THEN "find" ELSE IF FindLatest(r) THEN "latest" ELSE "burn"
        BY <3>1 DEF Find, FindLatest, Burn
      <4> QED
        BY <3>1, <4>1, <4>2 DEF Refuses
    <3>2. CASE \/ Drop(r) \/ \E pc \in {"insert", "reply"} : Go(r, pc)
               \/ rq' = [rq EXCEPT ![r].pc = "reply", ![r].target = Fresh]
      <4>1. \A u \in Request : u # r => rq'[u] = rq[u]
        BY <1>1, <3>2 DEF Go, Drop
      <4>2. rq[r].pc # "idle" => rq[r] \in Requests
        BY <1>1 DEF Rest
      <4>3. CASE rq[r].pc # "idle"
        <5>1. rq'[r].pc \in {"idle", "insert", "reply"}
          BY <1>1, <3>2, <4>2, <4>3 DEF Go, Drop, Rest, Requests
        <5> QED
          BY <4>1, <5>1 DEF Refuses
      <4>4. CASE rq[r].pc = "idle"
        BY <1>5, <4>4 DEF Step, Issue, Find, FindLatest, Burn, Revoke, Insert, RevokeOne, Deliver, Lose,
                          IInv, TypeOK, Rest, Requests, Looking, Rotating
      <4> QED
        BY <4>3, <4>4
    <3>3. CASE Find(r) \/ FindLatest(r) \/ Burn(r) \/ Issue(r) \/ Revoke(r) \/ Insert(r)
               \/ RevokeOne(r) \/ Deliver(r) \/ Lose(r)
      BY <3>1, <3>2, <3>3, ZenonT(40) DEF Issue, Revoke, Insert, RevokeOne, Deliver, Lose
    <3> QED
      BY <1>5, <3>3 DEF Step
  <2> QED
    BY <2>1, <2>2
<1>6. ASSUME NEW n \in DOMAIN tokens, CloseWindow(n) \/ Expire(n)
      PROVE  OnlyAges /\ Refuses
  BY <1>6, TimeAges, TimeEnds DEF Refuses
<1>7. CASE Purge
  BY <1>7, PurgeAges, PurgeEnds DEF Refuses
<1>8. CASE UNCHANGED vars
  BY <1>2, <1>8 DEF vars, Refuses
<1> QED
  BY <1>4, <1>5, <1>6, <1>7, <1>8 DEF Next

(* The fields of a request after a statement of its handler.                   *)
LEMMA RequestBecomes ==
    ASSUME IInv, NEW r \in Request, rq[r] \in Requests
    PROVE  /\ \A pc : Go(r, pc) => /\ rq'[r].pc = pc
                                   /\ rq'[r].plain = rq[r].plain /\ rq'[r].dev = rq[r].dev
           /\ \A n : rq' = [rq EXCEPT ![r].pc = "revoke", ![r].target = n] => rq'[r].pc = "revoke"
           /\ Drop(r) => rq'[r].pc = "idle"
<1>1. rq \in [Request -> {Rest} \cup Requests]
  BY DEF IInv, TypeOK
<1> QED
  BY <1>1 DEF Go, Drop, Rest, Requests

(* A token found revoked is its device's cookie. With one request at a time    *)
(* that is the parent of the family's unrevoked token, so only the window's    *)
(* end keeps the grace path from taking it.                                    *)
LEMMA RefusedNext == IInv /\ IInv' /\ CookieInv /\ RefusedInv /\ [Next]_vars => RefusedInv'
<1> SUFFICES ASSUME IInv, CookieInv, RefusedInv, [Next]_vars,
                    NEW r \in Request, rq'[r].pc \in {"latest", "burn", "reused"}
             PROVE  /\ tokens'[rq'[r].plain].revoked # "no"
                    /\ (rq'[r].pc # "latest" /\ Tabs[rq'[r].dev] = 1) =>
                          tokens'[rq'[r].plain].revoked = "long" \/ Latest(FamilyOf(r))' = {}
  BY DEF RefusedInv, LooksAtRevoked, RefusedOnlyLate
<1>1. OnlyAges /\ Refuses
  BY NextAges
<1>2. rq[r].pc \in {"find", "latest", "burn", "reused"}
  BY <1>1 DEF Refuses
<1>3. /\ rq[r] # Rest /\ rq[r] \in Requests /\ rq[r].plain \in DOMAIN tokens
      /\ rq[r].dev \in Device
  BY <1>2 DEF IInv, TypeOK, Rest, Requests, Looking
<1>4. /\ rq'[r].plain = rq[r].plain /\ rq'[r].dev = rq[r].dev
      /\ rq[r].pc = "find" => Find(r) /\ rq'[r].pc = "latest" /\ tokens[rq[r].plain].revoked # "no"
  <2>1. CASE rq'[r] = rq[r]
    BY <2>1
  <2>2. CASE Find(r)
    BY <1>3, <2>2, RequestBecomes DEF Find
  <2>3. CASE FindLatest(r)
    BY <1>3, <2>3, RequestBecomes DEF FindLatest
  <2>4. CASE Burn(r)
    BY <1>3, <2>4, RequestBecomes DEF Burn
  <2> QED
    BY <1>1, <2>1, <2>2, <2>3, <2>4 DEF Refuses, FindLatest, Burn
<1>5. PICK c \in DOMAIN tokens : c = rq[r].plain
  BY <1>3
<1>6. /\ tokens'[c].family = tokens[c].family
      /\ tokens[c].revoked # "no" => tokens'[c].revoked # "no"
      /\ tokens[c].revoked = "long" => tokens'[c].revoked = "long"
      /\ Latest(tokens[c].family) = {} => Latest(tokens[c].family)' = {}
  BY <1>1 DEF OnlyAges
<1>7. tokens[c].revoked # "no"
  <2>1. CASE rq[r].pc = "find"
    BY <1>4, <1>5, <2>1
  <2>2. CASE rq[r].pc # "find"
    BY <1>2, <1>5, <2>2 DEF RefusedInv, LooksAtRevoked
  <2> QED
    BY <2>1, <2>2
<1>8. ASSUME rq'[r].pc # "latest", Tabs[rq[r].dev] = 1
      PROVE  tokens[c].revoked = "long" \/ Latest(tokens[c].family) = {}
  <2>1. CASE rq[r].pc \in {"burn", "reused"}
    BY <1>5, <1>8, <2>1 DEF RefusedInv, RefusedOnlyLate, FamilyOf
  <2>2. CASE rq[r].pc = "latest" /\ FindLatest(r)
    <3>1. UsableAt(c) /\ c # NoToken
      BY <1>3, <1>5, <1>8, <2>2, CookieFacts DEF CookieInv, NamesCookie, CookieUsable
    <3>2. \A n \in Latest(tokens[c].family) : tokens[n].parent = c
      BY <1>7, <3>1 DEF UsableAt, Latest, Unrevoked
    <3>3. rq'[r].pc # "revoke"
      OBVIOUS
    <3>4. \A n \in Latest(tokens[c].family) : ~ (tokens[n].parent = c /\ tokens[c].revoked = "recent")
      BY <1>3, <1>5, <2>2, <3>3 DEF FindLatest, FamilyOf, Requests, IInv, TypeOK
    <3>5. tokens[c].revoked \in {"no", "recent", "long"}
      BY DEF IInv, TypeOK, Row
    <3> QED
      BY <1>7, <3>2, <3>4, <3>5
  <2>3. CASE rq[r].pc = "find"
    BY <1>4, <1>8, <2>3
  <2> QED
    BY <1>1, <1>2, <1>8, <2>1, <2>2, <2>3 DEF Refuses
<1>9. FamilyOf(r)' = tokens[c].family
  BY <1>4, <1>5, <1>6 DEF FamilyOf
<1>10. Latest(FamilyOf(r))' = Latest(tokens[c].family)'
  BY <1>6, <1>9 DEF Latest
<1> QED
  BY <1>4, <1>5, <1>6, <1>7, <1>8, <1>10

(* A browser with one request at a time is told TOKEN_REUSED only after its    *)
(* window has closed or its session has ended, however many answers it lost:   *)
(* the parent pointer of rotateRefreshToken's grace path is the right one.     *)
THEOREM RefusalsAreLate == Spec => []RefusedOnlyLate
<1>1. RefusedInv => RefusedOnlyLate
  BY DEF RefusedInv
<1>2. Init => RefusedInv
  BY DEF Init, Rest, RefusedInv, LooksAtRevoked, RefusedOnlyLate
<1> QED
  BY <1>1, <1>2, CookieInit, CookieNext, RefusedNext, AuthInductive, PTL DEF Spec
================================================================================
