------------------------------ MODULE SessionClient ----------------------------
(*******************************************************************************)
(* One tab of the web client and its session: the store (authStore.ts), the    *)
(* axios client that refreshes once and retries (apiClient.ts), login, logout  *)
(* and boot (useAuth.ts, main.tsx, Boot.tsx), against the guards of the API    *)
(* (middleware/auth.ts) and the answers of the auth routes. Callbacks run to   *)
(* completion: what happens in one turn of the event loop is one step. Which   *)
(* cookies and tokens the server accepts is AuthService's matter: here it may  *)
(* accept or refuse any. An answer's cookie and access token are one Pass.     *)
(*******************************************************************************)
EXTENDS Naturals, FiniteSets

CONSTANTS User, Serial, Request,
          Boot,             \* the flight that restoreSession starts
          NoUser, NoPass

Pass == [who : User, serial : Serial]

ASSUME ClientConstants == NoUser \notin User /\ NoPass \notin Pass /\ Boot \notin Request

VARIABLES
    user, token,    \* the store
    initialized,    \* the store's flag that boot has finished
    jar,            \* the refresh cookie of the browser
    flights,        \* the calls of refreshAccessToken that made a request, by who made them
    rq,             \* the requests of the client, in the order of their interceptors
    auth,           \* the login, registration or logout under way
    rotated,        \* the cookies that the server has replaced
    adrift          \* the cookies of refreshes that the tab has stopped waiting for, served or not

store  == <<user, token, initialized>>
wire   == <<rotated, adrift>>
vars   == <<store, jar, flights, rq, auth, wire>>

Flight   == Request \cup {Boot}
NoFlight == [pc |-> "none", cookie |-> NoPass, got |-> NoPass]
Settled  == [pc |-> "idle", on |-> Boot, sends |-> 0]
NoAuth   == [pc |-> "none", op |-> "login", who |-> NoUser, got |-> NoPass]
Sent(cookie) == [NoFlight EXCEPT !.pc = "sent", !.cookie = cookie]

Passes == Pass \cup {NoPass}
TypeOK ==
    /\ user \in User \cup {NoUser} /\ token \in Passes /\ initialized \in BOOLEAN /\ jar \in Passes
    /\ flights \in [Flight -> [pc : {"none", "sent", "served"}, cookie : Passes, got : Passes]]
    /\ rq \in [Request -> [pc : {"idle", "sent", "answered", "denied", "awaiting"}, on : Flight, sends : 0 .. 2]]
    /\ auth \in [pc : {"none", "sent", "served"}, op : {"login", "logout"}, who : User \cup {NoUser}, got : Passes]
    /\ rotated \subseteq Pass /\ adrift \subseteq Pass

Init ==
    /\ user = NoUser /\ token = NoPass /\ initialized = FALSE
    /\ jar \in Passes
    /\ flights = [f \in Flight |-> IF f = Boot THEN Sent(jar) ELSE NoFlight]
    /\ rq = [r \in Request |-> Settled]
    /\ auth = NoAuth
    /\ rotated = {} /\ adrift = {}

--------------------------------------------------------------------------------
(* The server.                                                                 *)

\* A pass that nobody holds any more stands for a new one, of which nothing is known yet.
Held == {jar, token, auth.got} \cup UNION {{flights[f].cookie, flights[f].got} : f \in Flight}
Issuable(p) == p \notin Held

\* POST /refresh: a pass in the name of the cookie's user, or 401 or 5xx, which leaves the
\* cookie where it is.
ServeRefresh(f) ==
    LET c == flights[f].cookie IN
    /\ flights[f].pc = "sent"
    /\ \/ /\ c # NoPass
          /\ \E p \in Pass :
                /\ p.who = c.who /\ Issuable(p)
                /\ flights' = [flights EXCEPT ![f].pc = "served", ![f].got = p]
                /\ rotated' = rotated \cup {c}
       \/ flights' = [flights EXCEPT ![f].pc = "served"] /\ UNCHANGED rotated
    /\ UNCHANGED <<store, jar, rq, auth, adrift>>

\* A refresh that nobody waits for any more reaches the server all the same.
ServeAdrift(c) ==
    /\ c \in adrift
    /\ rotated' = rotated \cup {c}
    /\ UNCHANGED <<store, jar, flights, rq, auth, adrift>>

\* requireAuth and optionalAuth: 401 for a token that has expired, or for none where one is
\* needed; anything else settles the request (403 of requireRole and demoReadonly included).
ServeRequest(r) ==
    /\ rq[r].pc = "sent"
    /\ \E pc \in {"answered", "denied"} : rq' = [rq EXCEPT ![r].pc = pc]
    /\ UNCHANGED <<store, jar, flights, auth, wire>>

ServeAuth ==
    /\ auth.pc = "sent"
    /\ \/ /\ auth.op = "login"
          /\ \E p \in Pass : p.who = auth.who /\ Issuable(p) /\ auth' = [auth EXCEPT !.pc = "served", !.got = p]
       \/ auth.op = "logout" /\ auth' = [auth EXCEPT !.pc = "served"]
    /\ UNCHANGED <<store, jar, flights, rq, wire>>

--------------------------------------------------------------------------------
(* The client.                                                                 *)

\* Faulty variant: a refresh stores the token and keeps the user it finds.
KeepUser(p)   == user' = (IF user = NoUser THEN p.who ELSE user) /\ token' = p
SetSession(p) == user' = p.who /\ token' = p
ClearSession  == user' = NoUser /\ token' = NoPass

\* A page asks for something, once Boot has let it through; the request interceptor puts the
\* store's token on it.
Send(r) ==
    /\ initialized /\ rq[r].pc = "idle"
    /\ rq' = [rq EXCEPT ![r] = [pc |-> "sent", on |-> Boot, sends |-> 1]]
    /\ UNCHANGED <<store, jar, flights, auth, wire>>

\* Faulty variant: no latch.
NoLatch == {}
\* inflightRefresh, released in the turn in which the refresh settles.
Latch == {f \in Flight : flights[f].pc # "none"}

\* Faulty variant: _retry is never looked at.
MayRetry(r) == rq[r].sends <= 2
Retriable(r) == rq[r].sends < 2

\* The response interceptor on a 401.
Refresh(r) ==
    /\ rq[r].pc = "denied"
    /\ \/ ~ Retriable(r) /\ rq' = [rq EXCEPT ![r] = Settled] /\ UNCHANGED flights
       \/ /\ Retriable(r)
          /\ \E f \in Latch : rq' = [rq EXCEPT ![r].pc = "awaiting", ![r].on = f]
          /\ UNCHANGED flights
       \/ /\ Retriable(r) /\ Latch = {}
          /\ rq' = [rq EXCEPT ![r].pc = "awaiting", ![r].on = r]
          /\ flights' = [flights EXCEPT ![r] = Sent(jar)]
    /\ UNCHANGED <<store, jar, auth, wire>>

Awaits(r, f) == rq[r].pc = "awaiting" /\ rq[r].on = f
Retry(q) == [q EXCEPT !.pc = "sent", !.on = Boot, !.sends = @ + 1]
\* Faulty variant: a failed refresh forgets those who wait for it.
WakeOnSuccess(f, p) == [r \in Request |-> IF Awaits(r, f) /\ p # NoPass THEN Retry(rq[r]) ELSE rq[r]]
\* Those who await the flight go on with its token, or give up if it is null.
Wake(f, p) == [r \in Request |->
    IF ~ Awaits(r, f) THEN rq[r] ELSE IF p = NoPass THEN Settled ELSE Retry(rq[r])]

\* Faulty variant: the flag is set only if there is a session to restore.
BootedWell(f, p) == initialized \/ (f = Boot /\ p # NoPass)
Booted(f, p) == initialized \/ f = Boot

\* The cookies of refreshes under way that the server has not refused.
Unanswered(fs) ==
    {flights[f].cookie : f \in {g \in fs : flights[g].pc = "sent" \/ flights[g].got # NoPass}} \ {NoPass}
\* The flights' answers will reach nobody; what is known of cookies that nobody holds is forgotten.
Abandon(fs) ==
    /\ rotated' = rotated \cap Held'
    /\ adrift' = (adrift \cup Unanswered(fs)) \cap Held'

\* The answer of a refresh that worked: cookie, store and waiting requests in one turn.
Refreshed(f) ==
    LET p == flights[f].got IN
    /\ flights[f].pc = "served" /\ p # NoPass
    /\ jar' = p
    /\ SetSession(p)
    /\ rq' = Wake(f, p)
    /\ initialized' = Booted(f, p)
    /\ flights' = [flights EXCEPT ![f] = NoFlight]
    /\ UNCHANGED auth
    /\ Abandon({})

\* Refused, or lost on the way there or back: the catch. There is no timeout on this call.
NotRefreshed(f) ==
    /\ flights[f].pc # "none"
    /\ ClearSession
    /\ rq' = Wake(f, NoPass)
    /\ initialized' = Booted(f, NoPass)
    /\ flights' = [flights EXCEPT ![f] = NoFlight]
    /\ UNCHANGED <<jar, auth>>
    /\ Abandon({f})

\* The answer, or a timeout after 15 s.
Settle(r) ==
    /\ rq[r].pc \in {"sent", "answered"}
    /\ rq' = [rq EXCEPT ![r] = Settled]
    /\ UNCHANGED <<store, jar, flights, auth, wire>>

SignIn(u) ==
    /\ initialized /\ auth = NoAuth
    /\ auth' = [NoAuth EXCEPT !.pc = "sent", !.op = "login", !.who = u]
    /\ UNCHANGED <<store, jar, flights, rq, wire>>

\* The button is there while a user is shown.
SignOut ==
    /\ initialized /\ auth = NoAuth /\ user # NoUser
    /\ auth' = [NoAuth EXCEPT !.pc = "sent", !.op = "logout"]
    /\ UNCHANGED <<store, jar, flights, rq, wire>>

\* handleAuthSuccess; the answer of a logout clears the cookie.
AuthAnswered ==
    /\ auth.pc = "served"
    /\ jar' = auth.got
    /\ IF auth.op = "login" THEN user' = auth.got.who /\ token' = auth.got ELSE ClearSession
    /\ auth' = NoAuth
    /\ UNCHANGED <<initialized, flights, rq>>
    /\ Abandon({})

\* Refused, or lost: a login changes nothing, a logout clears the store all the same.
AuthFailed ==
    /\ auth # NoAuth
    /\ IF auth.op = "logout" THEN ClearSession ELSE UNCHANGED <<user, token>>
    /\ auth' = NoAuth
    /\ UNCHANGED <<initialized, jar, flights, rq>>
    /\ Abandon({})

\* F5: everything in memory goes, and main.tsx asks for a refresh. What is on the wire stays
\* there, but its answers reach nobody. (Bound: with one cookie the refresh of a boot is cut
\* short once.)
Reload ==
    /\ flights[Boot].pc = "none" \/ Unanswered({Boot}) \ adrift # {}
    /\ ClearSession /\ initialized' = FALSE
    /\ rq' = [r \in Request |-> Settled] /\ auth' = NoAuth
    /\ flights' = [f \in Flight |-> IF f = Boot THEN Sent(jar) ELSE NoFlight]
    /\ UNCHANGED jar
    /\ Abandon(Flight)

FlightStep(f) == ServeRefresh(f) \/ Refreshed(f) \/ NotRefreshed(f)
RequestStep(r) == ServeRequest(r) \/ Refresh(r) \/ Settle(r)

Next ==
    \/ \E f \in Flight : FlightStep(f)
    \/ \E r \in Request : Send(r) \/ RequestStep(r)
    \/ \E u \in User : SignIn(u)
    \/ \E c \in Pass : ServeAdrift(c)
    \/ SignOut \/ ServeAuth \/ AuthAnswered \/ AuthFailed \/ Reload

Spec == Init /\ [][Next]_vars

\* Servers answer or connections break; callbacks run.
FairSpec ==
    /\ Spec
    /\ \A f \in Flight : WF_vars(FlightStep(f))
    /\ \A r \in Request : WF_vars(RequestStep(r))

--------------------------------------------------------------------------------
(* The user shown is the one whose cookie the browser holds, in whatever order *)
(* the answers of refreshes, logins and logouts arrive or get lost: a refresh  *)
(* never mixes one user's name with another's session.                         *)
ShownUserOwnsCookie == user # NoUser => jar # NoPass /\ jar.who = user /\ token = jar

(* A refresh carries a cookie that the server has replaced only if the answer  *)
(* of an earlier refresh with it never came: it was lost, or an F5 made it     *)
(* adrift. Requests denied at once or late, and logins and logouts in between, *)
(* never lead the tab into reuse detection (apiClient.ts:21-25).               *)
ReuseOnlyAfterLoss ==
    \A f \in Flight : (flights[f].pc = "sent" /\ flights[f].cookie \in rotated) =>
        flights[f].cookie \in adrift

(* Every request settles: nobody waits for ever for a refresh that failed.     *)
RequestsSettle == \A r \in Request : rq[r].pc # "idle" ~> rq[r].pc = "idle"

(* The splash of Boot goes away, whatever becomes of the refresh.              *)
BootFinishes == ~ initialized ~> initialized
================================================================================
