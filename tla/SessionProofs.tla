------------------------------ MODULE SessionProofs ----------------------------
(*******************************************************************************)
(* Theorems of SessionClient, for any numbers of users, passes and requests.   *)
(* The inductive invariant adds three facts to the types: at most one flight   *)
(* is under way, a request that waits for it has been sent once only, and an   *)
(* answer of the server is there if and only if a login was served.            *)
(* A second one, on top of it, says that nobody waits for a flight that is     *)
(* over; a third one that neither the cookie nor an answer on its way is one   *)
(* that the server has replaced, unless its refresh was cut off.               *)
(*******************************************************************************)
EXTENDS SessionClient, TLAPS

SingleFlight == \A f, g \in Flight : flights[f].pc # "none" /\ flights[g].pc # "none" => f = g
IdleIsEmpty  == \A f \in Flight : flights[f].pc = "none" => flights[f].cookie = NoPass /\ flights[f].got = NoPass
WaitersSentOnce == \A r \in Request : rq[r].pc = "awaiting" => rq[r].sends < 2
AuthPass ==
    /\ auth.pc = "served" /\ auth.op = "login" => auth.got # NoPass
    /\ auth.op = "logout" => auth.got = NoPass

IInv == TypeOK /\ SingleFlight /\ IdleIsEmpty /\ WaitersSentOnce /\ AuthPass /\ ShownUserOwnsCookie

FlightType  == [pc : {"none", "sent", "served"}, cookie : Passes, got : Passes]
RequestType == [pc : {"idle", "sent", "answered", "denied", "awaiting"}, on : Flight, sends : 0 .. 2]

LEMMA NewRequest == ASSUME NEW n \in 0 .. 2, NEW pc \in {"idle", "sent"}
                    PROVE  [pc |-> pc, on |-> Boot, sends |-> n] \in RequestType
  BY DEF RequestType, Flight

LEMMA Records ==
    /\ NoFlight \in FlightType /\ NoFlight.pc = "none" /\ NoFlight.cookie = NoPass /\ NoFlight.got = NoPass
    /\ Settled \in RequestType /\ Settled.pc = "idle"
    /\ NoAuth.pc = "none" /\ NoAuth.op = "login" /\ NoAuth.got = NoPass
    /\ \A c \in Passes : /\ Sent(c) \in FlightType /\ Sent(c).pc = "sent"
                         /\ Sent(c).cookie = c /\ Sent(c).got = NoPass
<1>1. NoFlight \in FlightType /\ NoFlight.pc = "none" /\ NoFlight.cookie = NoPass /\ NoFlight.got = NoPass
  BY DEF NoFlight, FlightType, Passes
<1>2. Settled \in RequestType /\ Settled.pc = "idle"
  <2>1. 0 \in 0 .. 2
    OBVIOUS
  <2> QED
    BY <2>1, NewRequest DEF Settled
<1>3. NoAuth.pc = "none" /\ NoAuth.op = "login" /\ NoAuth.got = NoPass
  BY DEF NoAuth
<1>4. ASSUME NEW c \in Passes PROVE /\ Sent(c) \in FlightType /\ Sent(c).pc = "sent"
                                   /\ Sent(c).cookie = c /\ Sent(c).got = NoPass
  BY DEF Sent, NoFlight, FlightType, Passes
<1> QED
  BY <1>1, <1>2, <1>3, <1>4

LEMMA NoAuthType ==
    NoAuth \in [pc : {"none", "sent", "served"}, op : {"login", "logout"}, who : User \cup {NoUser}, got : Passes]
  BY DEF NoAuth, Passes

(* One record of the flights changes, and the flights keep their shape.        *)
LEMMA OneFlightChanges ==
    ASSUME IInv, NEW f \in Flight, NEW new \in FlightType,
           flights' = [flights EXCEPT ![f] = new],
           new.pc # "none" => \A g \in Flight : flights[g].pc # "none" => g = f,
           new.pc = "none" => new.cookie = NoPass /\ new.got = NoPass
    PROVE  /\ flights' \in [Flight -> FlightType]
           /\ SingleFlight' /\ IdleIsEmpty'
  BY DEF IInv, TypeOK, SingleFlight, IdleIsEmpty, FlightType

(* What is kept about cookies stays about passes.                              *)
LEMMA WireType ==
    ASSUME IInv, NEW fs, fs \subseteq Flight, Abandon(fs)
    PROVE  rotated' \subseteq Pass /\ adrift' \subseteq Pass
<1>1. \A f \in Flight : flights[f].cookie \in Passes
  BY DEF IInv, TypeOK
<1>2. Unanswered(fs) \subseteq Pass
  BY <1>1 DEF Unanswered, Passes
<1> QED
  BY <1>2 DEF Abandon, IInv, TypeOK

(* Those who wait for a flight settle or are sent once more.                   *)
LEMMA WakeType ==
    ASSUME IInv, NEW f \in Flight, NEW p \in Passes, rq' = Wake(f, p)
    PROVE  rq' \in [Request -> RequestType] /\ WaitersSentOnce'
<1>1. ASSUME NEW r \in Request
      PROVE  rq'[r] \in RequestType /\ (rq'[r].pc = "awaiting" => rq'[r].sends < 2)
  <2>1. rq[r] \in RequestType /\ (rq[r].pc = "awaiting" => rq[r].sends < 2)
    BY DEF IInv, TypeOK, RequestType, WaitersSentOnce
  <2>2. rq'[r] = IF ~ Awaits(r, f) THEN rq[r] ELSE IF p = NoPass THEN Settled ELSE Retry(rq[r])
    BY DEF Wake
  <2>3. CASE Awaits(r, f) /\ p # NoPass
    <3>1. rq'[r] = [rq[r] EXCEPT !.pc = "sent", !.on = Boot, !.sends = @ + 1]
      BY <2>2, <2>3 DEF Retry
    <3>2. rq[r].sends \in 0 .. 2 /\ rq[r].sends < 2
      BY <2>1, <2>3 DEF Awaits, RequestType
    <3>3. rq'[r] = [pc |-> "sent", on |-> Boot, sends |-> rq[r].sends + 1]
      BY <2>1, <3>1 DEF RequestType
    <3>4. rq[r].sends + 1 \in 0 .. 2
      BY <3>2
    <3>5. rq'[r] \in RequestType
      BY <3>3, <3>4, NewRequest
    <3> QED
      BY <3>3, <3>5
  <2> QED
    BY <2>1, <2>2, <2>3, Records
<1>2. DOMAIN rq' = Request /\ rq' = [r \in Request |-> rq'[r]]
  BY DEF Wake
<1> QED
  BY <1>1, <1>2 DEF WaitersSentOnce

--------------------------------------------------------------------------------
LEMMA InitIInv == Init => IInv
<1> SUFFICES ASSUME Init PROVE IInv
  OBVIOUS
<1>1. jar \in Passes /\ user = NoUser /\ token = NoPass /\ initialized = FALSE /\ auth = NoAuth
  BY DEF Init, Passes
<1>2. flights = [f \in Flight |-> IF f = Boot THEN Sent(jar) ELSE NoFlight]
  BY DEF Init
<1>3. flights \in [Flight -> FlightType] /\ SingleFlight /\ IdleIsEmpty
  BY <1>1, <1>2, Records DEF SingleFlight, IdleIsEmpty
<1>4. rq \in [Request -> RequestType] /\ WaitersSentOnce
  BY Records DEF Init, WaitersSentOnce
<1>5. AuthPass /\ ShownUserOwnsCookie
  BY <1>1, Records DEF AuthPass, ShownUserOwnsCookie
<1>6. TypeOK
  <2>1. rotated = {} /\ adrift = {}
    BY DEF Init
  <2> QED
    BY <2>1, <1>1, <1>3, <1>4, NoAuthType DEF TypeOK, FlightType, RequestType, Passes
<1> QED
  BY <1>3, <1>4, <1>5, <1>6 DEF IInv

(* The server's answer, a pass or none, on the flight's record.                *)
LEMMA ServedFlight ==
    ASSUME IInv, NEW f \in Flight, ServeRefresh(f)
    PROVE  \E new \in FlightType : flights' = [flights EXCEPT ![f] = new] /\ new.pc = "served"
<1>1. flights[f] \in FlightType
  BY DEF IInv, TypeOK, FlightType
<1>2. CASE flights' = [flights EXCEPT ![f].pc = "served"]
  <2>1. [flights[f] EXCEPT !.pc = "served"] \in FlightType
    BY <1>1 DEF FlightType
  <2> QED
    BY <1>1, <1>2, <2>1 DEF FlightType
<1>3. CASE \E p \in Pass : flights' = [flights EXCEPT ![f].pc = "served", ![f].got = p]
  <2>1. PICK p \in Pass : flights' = [flights EXCEPT ![f].pc = "served", ![f].got = p]
    BY <1>3
  <2>2. [flights[f] EXCEPT !.pc = "served", !.got = p] \in FlightType
    BY <1>1 DEF FlightType, Passes
  <2>3. flights' = [flights EXCEPT ![f] = [flights[f] EXCEPT !.pc = "served", !.got = p]]
    BY <2>1 DEF IInv, TypeOK
  <2> QED
    BY <1>1, <2>2, <2>3 DEF FlightType
<1> QED
  BY <1>2, <1>3 DEF ServeRefresh

LEMMA ServeRefreshIInv ==
    ASSUME IInv, NEW f \in Flight, ServeRefresh(f)
    PROVE  IInv'
<1>1. flights[f] \in FlightType /\ flights[f].pc = "sent"
  BY DEF IInv, TypeOK, FlightType, ServeRefresh
<1>2. PICK new \in FlightType : flights' = [flights EXCEPT ![f] = new] /\ new.pc = "served"
  BY ServedFlight
<1>3. flights' \in [Flight -> FlightType] /\ SingleFlight' /\ IdleIsEmpty'
  BY <1>1, <1>2, OneFlightChanges DEF IInv, SingleFlight
<1>4. rotated' \subseteq Pass /\ adrift' \subseteq Pass
  BY <1>1 DEF ServeRefresh, IInv, TypeOK, FlightType, Passes
<1> QED
  BY <1>3, <1>4 DEF IInv, TypeOK, WaitersSentOnce, AuthPass, ShownUserOwnsCookie, ServeRefresh, store, FlightType

LEMMA ServeAdriftIInv ==
    ASSUME IInv, NEW c \in Pass, ServeAdrift(c)
    PROVE  IInv'
  BY DEF ServeAdrift, store, IInv, TypeOK, SingleFlight, IdleIsEmpty, WaitersSentOnce, AuthPass, ShownUserOwnsCookie

(* The steps of one request that leave flights, store and cookie alone.        *)
LEMMA RequestIInv ==
    ASSUME IInv, NEW r \in Request, NEW new \in RequestType,
           rq' = [rq EXCEPT ![r] = new], new.pc = "awaiting" => new.sends < 2,
           UNCHANGED <<store, jar, flights, auth, wire>>
    PROVE  IInv'
<1>1. rq' \in [Request -> RequestType] /\ WaitersSentOnce'
  BY DEF IInv, TypeOK, RequestType, WaitersSentOnce
<1> QED
  BY <1>1 DEF IInv, TypeOK, SingleFlight, IdleIsEmpty, AuthPass, ShownUserOwnsCookie, store, wire, RequestType

LEMMA RefreshIInv ==
    ASSUME IInv, NEW r \in Request, Refresh(r)
    PROVE  IInv'
<1>1. rq[r] \in RequestType /\ r \in Flight
  BY DEF IInv, TypeOK, RequestType, Flight
<1>2. CASE rq' = [rq EXCEPT ![r] = Settled] /\ UNCHANGED flights
  BY <1>2, Records, RequestIInv DEF Refresh
<1>3. CASE Retriable(r) /\ (\E f \in Latch : rq' = [rq EXCEPT ![r].pc = "awaiting", ![r].on = f]) /\ UNCHANGED flights
  <2>1. PICK f \in Flight : rq' = [rq EXCEPT ![r].pc = "awaiting", ![r].on = f]
    BY <1>3 DEF Latch
  <2>2. /\ rq' = [rq EXCEPT ![r] = [rq[r] EXCEPT !.pc = "awaiting", !.on = f]]
        /\ [rq[r] EXCEPT !.pc = "awaiting", !.on = f] \in RequestType
        /\ rq[r].sends < 2
    BY <1>1, <1>3, <2>1 DEF RequestType, IInv, TypeOK, Retriable
  <2> QED
    BY <1>1, <1>3, <2>2, RequestIInv DEF Refresh, RequestType
<1>4. CASE /\ Retriable(r) /\ Latch = {}
           /\ rq' = [rq EXCEPT ![r].pc = "awaiting", ![r].on = r]
           /\ flights' = [flights EXCEPT ![r] = Sent(jar)]
  <2>1. flights' \in [Flight -> FlightType] /\ SingleFlight' /\ IdleIsEmpty'
    <3>1. \A g \in Flight : flights[g].pc = "none"
      BY <1>4 DEF Latch
    <3>2. jar \in Passes
      BY DEF IInv, TypeOK
    <3> QED
      BY <1>1, <1>4, <3>1, <3>2, Records, OneFlightChanges
  <2>2. [rq[r] EXCEPT !.pc = "awaiting", !.on = r] \in RequestType /\ rq[r].sends < 2
    BY <1>1, <1>4 DEF RequestType, Retriable
  <2>3. rq' = [rq EXCEPT ![r] = [rq[r] EXCEPT !.pc = "awaiting", !.on = r]]
    BY <1>4 DEF IInv, TypeOK
  <2>4. rq' \in [Request -> RequestType] /\ WaitersSentOnce'
    BY <1>1, <2>2, <2>3 DEF IInv, TypeOK, RequestType, WaitersSentOnce
  <2> QED
    BY <2>1, <2>4 DEF IInv, TypeOK, AuthPass, ShownUserOwnsCookie, Refresh, store, wire, FlightType, RequestType
<1> QED
  BY <1>2, <1>3, <1>4 DEF Refresh

LEMMA FlightEnds ==
    ASSUME IInv, NEW f \in Flight, Refreshed(f) \/ NotRefreshed(f)
    PROVE  IInv'
<1>1. flights[f] \in FlightType
  BY DEF IInv, TypeOK, FlightType
<1>2. flights' \in [Flight -> FlightType] /\ SingleFlight' /\ IdleIsEmpty'
  BY Records, OneFlightChanges DEF Refreshed, NotRefreshed
<1>3. rq' \in [Request -> RequestType] /\ WaitersSentOnce'
  <2>1. flights[f].got \in Passes /\ NoPass \in Passes
    BY <1>1 DEF FlightType, Passes
  <2> QED
    BY <2>1, WakeType DEF Refreshed, NotRefreshed
<1>4. initialized' \in BOOLEAN /\ auth' = auth
  BY DEF Refreshed, NotRefreshed, Booted, IInv, TypeOK
<1>5. rotated' \subseteq Pass /\ adrift' \subseteq Pass
  BY WireType DEF Refreshed, NotRefreshed
<1>6. CASE Refreshed(f)
  <2>1. flights[f].got \in Pass
    BY <1>1, <1>6 DEF Refreshed, FlightType, Passes
  <2>2. jar' = flights[f].got /\ token' = flights[f].got /\ user' = flights[f].got.who /\ user' \in User
    BY <1>6, <2>1 DEF Refreshed, SetSession, Pass
  <2> QED
    BY <1>2, <1>3, <1>4, <1>5, <2>1, <2>2, ClientConstants
       DEF IInv, TypeOK, AuthPass, ShownUserOwnsCookie, FlightType, RequestType, Passes
<1>7. CASE NotRefreshed(f)
  BY <1>2, <1>3, <1>4, <1>5, <1>7
     DEF IInv, TypeOK, AuthPass, ShownUserOwnsCookie, NotRefreshed, ClearSession, FlightType, RequestType, Passes
<1> QED
  BY <1>6, <1>7

LEMMA AuthIInv ==
    ASSUME IInv,
           (\E u \in User : SignIn(u)) \/ SignOut \/ ServeAuth \/ AuthAnswered \/ AuthFailed
    PROVE  IInv'
<1> DEFINE AuthType == [pc : {"none", "sent", "served"}, op : {"login", "logout"},
                        who : User \cup {NoUser}, got : Passes]
<1>1. auth \in AuthType
  BY DEF IInv, TypeOK
<1>2. flights' = flights /\ rq' = rq /\ initialized' = initialized
  BY DEF SignIn, SignOut, ServeAuth, AuthAnswered, AuthFailed, store
<1>3. SingleFlight' /\ IdleIsEmpty' /\ WaitersSentOnce'
  BY <1>2 DEF IInv, SingleFlight, IdleIsEmpty, WaitersSentOnce
<1>4. auth' \in AuthType /\ AuthPass'
  <2>1. CASE \E u \in User : SignIn(u)
    <3>1. PICK u \in User : SignIn(u)
      BY <2>1
    <3>2. auth' = [NoAuth EXCEPT !.pc = "sent", !.op = "login", !.who = u]
      BY <3>1 DEF SignIn
    <3> QED
      BY <3>2 DEF NoAuth, AuthPass, Passes
  <2>2. CASE SignOut
    BY <2>2 DEF SignOut, NoAuth, AuthPass, Passes
  <2>3. CASE ServeAuth
    <3>1. CASE auth.op = "logout"
      BY <1>1, <2>3, <3>1 DEF ServeAuth, AuthPass, IInv
    <3>2. CASE auth.op = "login"
      <4>1. PICK p \in Pass : auth' = [auth EXCEPT !.pc = "served", !.got = p]
        BY <2>3, <3>2 DEF ServeAuth
      <4> QED
        BY <1>1, <3>2, <4>1, ClientConstants DEF AuthPass, Passes
    <3> QED
      BY <1>1, <3>1, <3>2
  <2>4. CASE AuthAnswered \/ AuthFailed
    BY <2>4, Records, NoAuthType DEF AuthAnswered, AuthFailed, AuthPass
  <2> QED
    BY <2>1, <2>2, <2>3, <2>4
<1>5. /\ user' \in User \cup {NoUser} /\ token' \in Passes /\ jar' \in Passes
      /\ ShownUserOwnsCookie'
  <2>1. CASE AuthAnswered
    <3>1. CASE auth.op = "login"
      <4>1. auth.got \in Pass /\ auth.got # NoPass
        BY <1>1, <2>1, <3>1 DEF AuthAnswered, IInv, AuthPass, Passes
      <4>2. user' = auth.got.who /\ token' = auth.got /\ jar' = auth.got
        BY <2>1, <3>1 DEF AuthAnswered
      <4>3. auth.got.who \in User
        BY <4>1 DEF Pass
      <4> QED
        BY <4>1, <4>2, <4>3 DEF ShownUserOwnsCookie, Passes
    <3>2. CASE auth.op = "logout"
      BY <1>1, <2>1, <3>2 DEF AuthAnswered, ClearSession, ShownUserOwnsCookie, Passes
    <3> QED
      BY <1>1, <3>1, <3>2
  <2>2. CASE AuthFailed
    BY <2>2 DEF AuthFailed, ClearSession, ShownUserOwnsCookie, IInv, TypeOK, Passes
  <2>3. CASE (\E u \in User : SignIn(u)) \/ SignOut \/ ServeAuth
    BY <2>3 DEF SignIn, SignOut, ServeAuth, store, ShownUserOwnsCookie, IInv, TypeOK
  <2> QED
    BY <2>1, <2>2, <2>3
<1>6. rotated' \subseteq Pass /\ adrift' \subseteq Pass
  BY WireType DEF SignIn, SignOut, ServeAuth, AuthAnswered, AuthFailed, wire, IInv, TypeOK
<1> QED
  BY <1>2, <1>3, <1>4, <1>5, <1>6 DEF IInv, TypeOK

LEMMA ReloadIInv == ASSUME IInv, Reload PROVE IInv'
<1>1. jar \in Passes /\ jar' = jar /\ user' = NoUser /\ token' = NoPass /\ initialized' = FALSE /\ auth' = NoAuth
  BY DEF Reload, ClearSession, IInv, TypeOK
<1>2. flights' = [f \in Flight |-> IF f = Boot THEN Sent(jar) ELSE NoFlight]
  BY DEF Reload
<1>3. flights' \in [Flight -> FlightType] /\ SingleFlight' /\ IdleIsEmpty'
  BY <1>1, <1>2, Records DEF SingleFlight, IdleIsEmpty
<1>4. rq' \in [Request -> RequestType] /\ WaitersSentOnce'
  BY Records DEF Reload, WaitersSentOnce
<1>5. AuthPass' /\ ShownUserOwnsCookie'
  BY <1>1, Records DEF AuthPass, ShownUserOwnsCookie
<1>6. TypeOK'
  BY <1>1, <1>3, <1>4, NoAuthType, WireType DEF Reload, TypeOK, FlightType, RequestType, Passes
<1> QED
  BY <1>3, <1>4, <1>5, <1>6 DEF IInv

LEMMA NextIInv == IInv /\ [Next]_vars => IInv'
<1> SUFFICES ASSUME IInv, [Next]_vars PROVE IInv'
  OBVIOUS
<1>1. ASSUME NEW f \in Flight, FlightStep(f) PROVE IInv'
  BY <1>1, ServeRefreshIInv, FlightEnds DEF FlightStep
<1>2. ASSUME NEW r \in Request, Send(r) \/ ServeRequest(r) \/ Settle(r) PROVE IInv'
  <2>1. rq[r] \in RequestType /\ Boot \in Flight
    BY DEF IInv, TypeOK, RequestType, Flight
  <2>2. CASE Send(r)
    <3>1. 1 \in 0 .. 2
      OBVIOUS
    <3>2. [pc |-> "sent", on |-> Boot, sends |-> 1] \in RequestType
      BY <3>1, NewRequest
    <3> QED
      BY <2>2, <3>2, RequestIInv DEF Send
  <2>3. CASE ServeRequest(r)
    <3>1. PICK pc \in {"answered", "denied"} : rq' = [rq EXCEPT ![r].pc = pc]
      BY <2>3 DEF ServeRequest
    <3>2. /\ rq' = [rq EXCEPT ![r] = [rq[r] EXCEPT !.pc = pc]]
          /\ [rq[r] EXCEPT !.pc = pc] \in RequestType
          /\ [rq[r] EXCEPT !.pc = pc].pc # "awaiting"
      BY <2>1, <3>1 DEF RequestType, IInv, TypeOK
    <3> QED
      BY <2>3, <3>2, RequestIInv DEF ServeRequest
  <2>4. CASE Settle(r)
    BY <2>4, Records, RequestIInv DEF Settle
  <2> QED
    BY <1>2, <2>2, <2>3, <2>4
<1>3. ASSUME NEW r \in Request, Refresh(r) PROVE IInv'
  BY <1>3, RefreshIInv
<1>4. CASE (\E u \in User : SignIn(u)) \/ SignOut \/ ServeAuth \/ AuthAnswered \/ AuthFailed
  BY <1>4, AuthIInv
<1>5. CASE Reload
  BY <1>5, ReloadIInv
<1>6. CASE UNCHANGED vars
  BY <1>6 DEF vars, store, wire, IInv, TypeOK, SingleFlight, IdleIsEmpty, WaitersSentOnce, AuthPass, ShownUserOwnsCookie
<1>7. ASSUME NEW c \in Pass, ServeAdrift(c) PROVE IInv'
  BY <1>7, ServeAdriftIInv
<1> QED
  BY <1>1, <1>2, <1>3, <1>4, <1>5, <1>6, <1>7 DEF Next, RequestStep

(* The store, the cookie, the flights and the requests keep their types; no    *)
(* request is sent a third time.                                               *)
THEOREM SessionTypeCorrect == Spec => []TypeOK
<1>1. IInv => TypeOK
  BY DEF IInv
<1> QED
  BY <1>1, InitIInv, NextIInv, PTL DEF Spec

(* Whatever answers of refreshes, logins and logouts arrive or get lost, the   *)
(* user on the screen is the one whose cookie the browser holds.               *)
THEOREM ShownUserIsSignedIn == Spec => []ShownUserOwnsCookie
<1>1. IInv => ShownUserOwnsCookie
  BY DEF IInv
<1> QED
  BY <1>1, InitIInv, NextIInv, PTL DEF Spec

--------------------------------------------------------------------------------
(* Why a cookie that the server has replaced is not presented by itself: the   *)
(* flight that has it replaced is the only one, ends by putting the new one in *)
(* the jar, and what the jar gets has never been presented.                    *)

\* A pass that has been issued and is still on its way.
Fresh(p) ==
    /\ p \notin {jar} \cup rotated \cup adrift
    /\ \A f \in Flight : flights[f].cookie # p

FreshInv ==
    /\ rotated \cup adrift \subseteq Held
    /\ \A f \in Flight : flights[f].pc = "sent" => flights[f].got = NoPass
    /\ \A f \in Flight : flights[f].got # NoPass => Fresh(flights[f].got) /\ auth.got # flights[f].got
    /\ auth.got # NoPass => Fresh(auth.got)
    /\ \A f \in Flight : flights[f].got = NoPass /\ flights[f].cookie \in rotated => flights[f].cookie \in adrift
    /\ jar \in rotated => jar \in adrift \/ \E f \in Flight : flights[f].got # NoPass /\ flights[f].cookie = jar

LEMMA InitFresh == ASSUME Init PROVE FreshInv
  BY Records DEF Init, FreshInv, Fresh

\* Nothing about cookies changes.
LEMMA QuietFresh ==
    ASSUME FreshInv, UNCHANGED <<jar, token, flights, rotated, adrift>>, auth'.got = auth.got
    PROVE  FreshInv'
  BY DEF FreshInv, Fresh, Held

(* A new flight: none is under way, so what the jar's cookie may have lost was *)
(* lost with an answer.                                                        *)
LEMMA RefreshFresh ==
    ASSUME IInv, FreshInv, NEW r \in Request, Refresh(r)
    PROVE  FreshInv'
<1>1. CASE UNCHANGED flights
  BY <1>1, QuietFresh DEF Refresh, store, wire
<1>2. CASE Latch = {} /\ flights' = [flights EXCEPT ![r] = Sent(jar)]
  <2>1. /\ UNCHANGED <<jar, token, rotated, adrift, auth>> /\ r \in Flight
        /\ \A f \in Flight : flights[f].pc = "none"
    BY <1>2 DEF Refresh, store, wire, Flight, Latch
  <2>2. \A f \in Flight : flights[f].cookie = NoPass /\ flights[f].got = NoPass
    BY <2>1 DEF IInv, IdleIsEmpty
  <2>3. /\ flights'[r].cookie = jar /\ flights'[r].got = NoPass
        /\ \A f \in Flight : f # r => flights'[f] = flights[f]
    BY <1>2, <2>1, Records DEF IInv, TypeOK
  <2>4. Held \subseteq Held' \cup {NoPass} /\ NoPass \notin rotated \cup adrift
    BY <2>1, <2>2, ClientConstants DEF Held, IInv, TypeOK
  <2>5. \A f \in Flight : flights'[f].got = NoPass /\ flights'[f].cookie \in {NoPass, jar}
    BY <2>2, <2>3
  <2> QED
    BY <2>1, <2>2, <2>4, <2>5 DEF FreshInv, Fresh
<1> QED
  BY <1>1, <1>2 DEF Refresh

LEMMA ServeRefreshFresh ==
    ASSUME IInv, FreshInv, NEW f \in Flight, ServeRefresh(f)
    PROVE  FreshInv'
<1>1. /\ flights[f] \in FlightType /\ flights[f].pc = "sent" /\ flights[f].got = NoPass
      /\ UNCHANGED <<jar, token, adrift, auth>>
      /\ \A g \in Flight : g # f => flights'[g] = flights[g] /\ flights[g].got = NoPass
  BY DEF IInv, TypeOK, FlightType, ServeRefresh, store, FreshInv, SingleFlight, IdleIsEmpty
<1>2. CASE flights' = [flights EXCEPT ![f].pc = "served"] /\ UNCHANGED rotated
  <2>1. /\ flights'[f].cookie = flights[f].cookie /\ flights'[f].got = NoPass
        /\ flights'[f].pc = "served"
    BY <1>1, <1>2 DEF IInv, TypeOK, FlightType
  <2>2. \A g \in Flight : flights'[g].cookie = flights[g].cookie /\ flights'[g].got = flights[g].got
    BY <1>1, <2>1
  <2>3. Held' = Held
    BY <1>1, <2>2 DEF Held
  <2> QED
    BY <1>1, <1>2, <2>1, <2>2, <2>3 DEF FreshInv, Fresh
<1>3. CASE \E p \in Pass : /\ Issuable(p) /\ flights[f].cookie # NoPass
                           /\ flights' = [flights EXCEPT ![f].pc = "served", ![f].got = p]
                           /\ rotated' = rotated \cup {flights[f].cookie}
  <2>1. PICK p \in Pass : /\ Issuable(p) /\ flights[f].cookie # NoPass
                          /\ flights' = [flights EXCEPT ![f].pc = "served", ![f].got = p]
                          /\ rotated' = rotated \cup {flights[f].cookie}
    BY <1>3
  <2>2. /\ flights'[f].cookie = flights[f].cookie /\ flights'[f].got = p
        /\ flights'[f].pc = "served"
    BY <1>1, <2>1 DEF IInv, TypeOK, FlightType
  <2>3. /\ p \notin Held /\ p # NoPass
        /\ p \notin {jar, auth.got} /\ \A g \in Flight : flights[g].cookie # p
    BY <2>1, ClientConstants DEF Issuable, Held
  <2>4. p \notin rotated' \cup adrift
    BY <2>1, <2>3 DEF FreshInv
  <2>5. Held \subseteq Held' \cup {NoPass} /\ flights[f].cookie \in Held'
    BY <1>1, <2>2 DEF Held
  <2>6. NoPass \notin rotated' \cup adrift
    BY <2>1, ClientConstants DEF IInv, TypeOK
  <2>7. rotated' \cup adrift' \subseteq Held'
    BY <1>1, <2>1, <2>5, <2>6 DEF FreshInv
  <2>8. \A g \in Flight : flights'[g].cookie = flights[g].cookie
    BY <1>1, <2>2
  <2>9. auth.got # NoPass => Fresh(auth.got)'
    BY <1>1, <2>1, <2>8 DEF FreshInv, Fresh
  <2>10. \A g \in Flight : flights'[g].got = NoPass /\ flights'[g].cookie \in rotated' => flights'[g].cookie \in adrift
    <3> SUFFICES ASSUME NEW g \in Flight, g # f, flights[g].cookie \in rotated'
                 PROVE  flights[g].cookie \in adrift
      BY <1>1, <2>2, <2>3
    <3>1. flights[g].pc = "none"
      BY <1>1 DEF IInv, SingleFlight
    <3> QED
      BY <2>6, <3>1 DEF IInv, IdleIsEmpty
  <2>11. jar \in rotated' => jar \in adrift \/ \E g \in Flight : flights'[g].got # NoPass /\ flights'[g].cookie = jar
    BY <1>1, <2>1, <2>2, <2>3 DEF FreshInv
  <2>12. \A g \in Flight : flights'[g].pc = "sent" => flights'[g].got = NoPass
    BY <1>1, <2>2
  <2>13. \A g \in Flight : flights'[g].got # NoPass => Fresh(flights[g].got)' /\ auth.got # flights'[g].got
    <3>1. Fresh(p)' /\ auth.got # p
      BY <1>1, <2>3, <2>4, <2>8 DEF Fresh
    <3>2. \A g \in Flight : flights'[g].got # NoPass => flights'[g].got = p
      BY <1>1, <2>2
    <3> QED
      BY <3>1, <3>2 DEF Fresh
  <2>14. auth' = auth /\ jar' = jar /\ adrift' = adrift
    BY <1>1
  <2> QED
    BY <2>14, <2>7, <2>9, <2>10, <2>11, <2>12, <2>13 DEF FreshInv
<1> QED
  BY <1>2, <1>3 DEF ServeRefresh

LEMMA ServeAdriftFresh ==
    ASSUME IInv, FreshInv, NEW c \in Pass, ServeAdrift(c)
    PROVE  FreshInv'
<1>1. /\ c \in adrift /\ rotated' = rotated \cup {c}
      /\ UNCHANGED <<jar, token, flights, adrift, auth>>
  BY DEF ServeAdrift, store
<1>2. Held' = Held
  BY <1>1 DEF Held
<1> QED
  BY <1>1, <1>2 DEF FreshInv, Fresh

(* The flight that has ended leaves a jar that knows its successor, or a       *)
(* cookie adrift.                                                              *)
LEMMA RefreshedFresh ==
    ASSUME IInv, FreshInv, NEW f \in Flight, Refreshed(f)
    PROVE  FreshInv'
<1> DEFINE p == flights[f].got
<1>1. /\ p # NoPass /\ jar' = p /\ auth' = auth
      /\ rotated' = rotated \cap Held' /\ adrift' = (adrift \cup Unanswered({})) \cap Held'
      /\ flights' = [flights EXCEPT ![f] = NoFlight]
  BY DEF Refreshed, Abandon
<1>2. \A g \in Flight : flights'[g].cookie = NoPass /\ flights'[g].got = NoPass
  BY <1>1, Records DEF Refreshed, IInv, TypeOK, SingleFlight, IdleIsEmpty
<1>3. p \notin rotated /\ auth.got # p
  BY <1>1 DEF FreshInv, Fresh
<1>4. Unanswered({}) = {}
  BY DEF Unanswered
<1>5. NoPass \notin rotated /\ (auth.got # NoPass => auth.got \notin rotated \cup adrift)
  BY ClientConstants DEF IInv, TypeOK, FreshInv, Fresh
<1> HIDE DEF p
<1> QED
  BY <1>1, <1>2, <1>3, <1>4, <1>5 DEF FreshInv, Fresh

LEMMA NotRefreshedFresh ==
    ASSUME IInv, FreshInv, NEW f \in Flight, NotRefreshed(f)
    PROVE  FreshInv'
<1>1. /\ UNCHANGED <<jar, auth>>
      /\ rotated' = rotated \cap Held' /\ adrift' = (adrift \cup Unanswered({f})) \cap Held'
      /\ flights' = [flights EXCEPT ![f] = NoFlight]
  BY DEF NotRefreshed, Abandon
<1>2. \A g \in Flight : flights'[g].cookie = NoPass /\ flights'[g].got = NoPass
  BY <1>1, Records DEF NotRefreshed, IInv, TypeOK, SingleFlight, IdleIsEmpty
<1>3. NoPass \notin rotated /\ Unanswered({f}) \subseteq {flights[f].cookie}
  BY ClientConstants DEF IInv, TypeOK, Unanswered
<1>4. auth.got # NoPass => auth.got \notin rotated' \cup adrift' \cup {jar}
  BY <1>1, <1>3 DEF FreshInv, Fresh
<1>5. jar \in rotated' => jar \in adrift'
  <2> SUFFICES ASSUME jar \in rotated PROVE jar \in adrift \cup Unanswered({f})
    BY <1>1 DEF Held
  <2>1. ASSUME NEW g \in Flight, flights[g].got # NoPass, flights[g].cookie = jar
        PROVE  jar \in Unanswered({f})
    <3>1. g = f
      BY <2>1 DEF NotRefreshed, IInv, SingleFlight, IdleIsEmpty
    <3> QED
      BY <1>3, <2>1, <3>1 DEF Unanswered
  <2> QED
    BY <2>1 DEF FreshInv
<1>6. rotated' \cup adrift' \subseteq Held'
  BY <1>1
<1>7. auth.got # NoPass => Fresh(auth.got)'
  BY <1>1, <1>2, <1>4 DEF Fresh
<1>8. NoPass \notin rotated'
  BY <1>1, <1>3
<1> QED
  BY <1>1, <1>2, <1>5, <1>6, <1>7, <1>8 DEF FreshInv

LEMMA AuthFresh ==
    ASSUME IInv, FreshInv,
           (\E u \in User : SignIn(u)) \/ SignOut \/ ServeAuth \/ AuthAnswered \/ AuthFailed
    PROVE  FreshInv'
<1>1. flights' = flights /\ NoPass \notin rotated \cup adrift
  BY ClientConstants DEF SignIn, SignOut, ServeAuth, AuthAnswered, AuthFailed, IInv, TypeOK
<1>2. CASE (\E u \in User : SignIn(u)) \/ SignOut
  <2>1. auth.got = NoPass /\ auth'.got = NoPass
    BY <1>2 DEF SignIn, SignOut, NoAuth
  <2> QED
    BY <1>2, <2>1, QuietFresh DEF SignIn, SignOut, store, wire
<1>3. CASE ServeAuth
  <2>1. UNCHANGED <<jar, token, flights, rotated, adrift>>
    BY <1>3 DEF ServeAuth, store, wire
  <2>2. CASE auth.op = "logout"
    <3>1. auth'.got = auth.got
      BY <1>3, <2>2 DEF ServeAuth, IInv, TypeOK
    <3> QED
      BY <2>1, <3>1, QuietFresh
  <2>3. CASE auth.op = "login"
    <3>1. PICK p \in Pass : Issuable(p) /\ auth' = [auth EXCEPT !.pc = "served", !.got = p]
      BY <1>3, <2>3 DEF ServeAuth
    <3>2. auth'.got = p /\ p # NoPass
      BY <3>1, ClientConstants DEF IInv, TypeOK
    <3>3. p \notin Held
      BY <3>1 DEF Issuable
    <3>4. Fresh(p) /\ \A f \in Flight : flights[f].got # p
      BY <3>3 DEF Fresh, FreshInv, Held
    <3>5. auth.got = NoPass \/ auth.got \notin rotated \cup adrift
      BY DEF FreshInv, Fresh
    <3>6. rotated \cup adrift \subseteq Held'
      BY <1>1, <2>1, <3>5 DEF FreshInv, Held
    <3> QED
      BY <2>1, <3>2, <3>4, <3>6 DEF FreshInv, Fresh
  <2> QED
    BY <1>3, <2>2, <2>3 DEF ServeAuth
<1>4. CASE AuthAnswered \/ AuthFailed
  <2>1. /\ rotated' = rotated \cap Held' /\ adrift' = (adrift \cup Unanswered({})) \cap Held'
        /\ auth'.got = NoPass /\ jar' \in {jar, auth.got}
    BY <1>4 DEF AuthAnswered, AuthFailed, Abandon, NoAuth
  <2>2. Unanswered({}) = {}
    BY DEF Unanswered
  <2>3. /\ rotated' \subseteq rotated /\ adrift' \subseteq adrift
        /\ \A f \in Flight : flights[f].cookie \in adrift => flights[f].cookie \in adrift'
        /\ jar' \in adrift => jar' \in adrift'
    BY <1>1, <2>1, <2>2 DEF Held
  <2>4. jar' = jar \/ (jar' # NoPass => jar' \notin rotated)
    BY <2>1 DEF FreshInv, Fresh
  <2>5. jar' \in rotated' => jar' \in adrift' \/ \E f \in Flight : flights'[f].got # NoPass /\ flights'[f].cookie = jar'
    BY <1>1, <2>3, <2>4 DEF FreshInv
  <2>6. \A f \in Flight : flights[f].got # NoPass => flights[f].got # jar'
    BY <2>1 DEF FreshInv, Fresh
  <2>7. \A f \in Flight : flights[f].got # NoPass => Fresh(flights[f].got)'
    BY <1>1, <2>3, <2>6 DEF FreshInv, Fresh
  <2>8. rotated' \cup adrift' \subseteq Held'
    BY <2>1
  <2> QED
    BY <1>1, <2>1, <2>3, <2>5, <2>7, <2>8 DEF FreshInv
<1> QED
  BY <1>2, <1>3, <1>4

LEMMA ReloadFresh == ASSUME IInv, FreshInv, Reload PROVE FreshInv'
<1>1. /\ jar' = jar /\ auth' = NoAuth /\ jar \in Passes
      /\ rotated' = rotated \cap Held' /\ adrift' = (adrift \cup Unanswered(Flight)) \cap Held'
      /\ flights' = [f \in Flight |-> IF f = Boot THEN Sent(jar) ELSE NoFlight]
  BY DEF Reload, Abandon, IInv, TypeOK
<1>2. auth'.got = NoPass /\ NoPass \notin rotated
  BY <1>1, Records, ClientConstants DEF IInv, TypeOK
<1>3. \A f \in Flight : flights'[f].got = NoPass /\ flights'[f].cookie \in {NoPass, jar}
  BY <1>1, Records
<1>4. jar \in rotated' => jar \in adrift'
  <2> SUFFICES ASSUME jar \in rotated PROVE jar \in adrift \cup Unanswered(Flight)
    BY <1>1 DEF Held
  <2>1. \A g \in Flight : flights[g].got # NoPass /\ flights[g].cookie = jar => jar \in Unanswered(Flight)
    BY <1>2 DEF Unanswered
  <2> QED
    BY <2>1 DEF FreshInv
<1> QED
  BY <1>1, <1>2, <1>3, <1>4 DEF FreshInv, Fresh

LEMMA NextFresh == IInv /\ FreshInv /\ [Next]_vars => FreshInv'
<1> SUFFICES ASSUME IInv, FreshInv, [Next]_vars PROVE FreshInv'
  OBVIOUS
<1>1. ASSUME NEW f \in Flight, FlightStep(f) PROVE FreshInv'
  BY <1>1, ServeRefreshFresh, RefreshedFresh, NotRefreshedFresh DEF FlightStep
<1>2. ASSUME NEW r \in Request, Send(r) \/ ServeRequest(r) \/ Settle(r) PROVE FreshInv'
  BY <1>2, QuietFresh DEF Send, ServeRequest, Settle, store, wire
<1>3. CASE UNCHANGED vars
  BY <1>3, QuietFresh DEF vars, store, wire
<1> QED
  BY <1>1, <1>2, <1>3, RefreshFresh, ServeAdriftFresh, AuthFresh, ReloadFresh DEF Next, RequestStep

(* The latch of refreshAccessToken, and the cookie and the latch that change   *)
(* in one turn: a replaced cookie is presented only when an answer was lost.   *)
THEOREM ReuseNeedsALoss == Spec => []ReuseOnlyAfterLoss
<1>1. FreshInv => ReuseOnlyAfterLoss
  BY DEF FreshInv, ReuseOnlyAfterLoss
<1> QED
  BY <1>1, InitFresh, InitIInv, NextIInv, NextFresh, PTL DEF Spec

--------------------------------------------------------------------------------
(* Nobody waits for nothing. A request that awaits a refresh awaits one that   *)
(* is under way, and while the splash of Boot is shown so does it: whoever     *)
(* ends a flight wakes all who wait for it in the same turn. It is the safety  *)
(* part of RequestsSettle and BootFinishes.                                    *)
AwaitedFlies  == \A r \in Request : rq[r].pc = "awaiting" => flights[rq[r].on].pc # "none"
BootFlies     == ~ initialized => flights[Boot].pc # "none"
WaitInv == AwaitedFlies /\ BootFlies

(* One request changes and no flight ends.                                     *)
LEMMA RequestWaits ==
    ASSUME IInv, WaitInv, NEW r \in Request, NEW new, rq' = [rq EXCEPT ![r] = new],
           \A f \in Flight : flights[f].pc # "none" => flights'[f].pc # "none",
           new.pc = "awaiting" => flights'[new.on].pc # "none",
           initialized' = initialized
    PROVE  WaitInv'
<1>1. Boot \in Flight /\ \A s \in Request : rq[s].on \in Flight
  BY DEF IInv, TypeOK, Flight
<1>2. rq'[r] = new /\ \A s \in Request : s # r => rq'[s] = rq[s]
  BY DEF IInv, TypeOK
<1>3. AwaitedFlies'
  BY <1>1, <1>2 DEF WaitInv, AwaitedFlies
<1>4. BootFlies'
  BY <1>1 DEF WaitInv, BootFlies
<1> QED
  BY <1>3, <1>4 DEF WaitInv

(* The interceptor joins a flight of the latch, or starts one.                 *)
LEMMA RefreshWaits ==
    ASSUME IInv, WaitInv, NEW r \in Request, Refresh(r)
    PROVE  WaitInv'
<1>1. rq[r] \in RequestType /\ r \in Flight /\ initialized' = initialized
  BY DEF IInv, TypeOK, RequestType, Flight, Refresh, store
<1>2. CASE rq' = [rq EXCEPT ![r] = Settled] /\ UNCHANGED flights
  BY <1>1, <1>2, Records, RequestWaits
<1>3. CASE (\E f \in Latch : rq' = [rq EXCEPT ![r].pc = "awaiting", ![r].on = f]) /\ UNCHANGED flights
  <2>1. PICK f \in Latch : rq' = [rq EXCEPT ![r].pc = "awaiting", ![r].on = f]
    BY <1>3
  <2>2. /\ rq' = [rq EXCEPT ![r] = [rq[r] EXCEPT !.pc = "awaiting", !.on = f]]
        /\ [rq[r] EXCEPT !.pc = "awaiting", !.on = f].on = f
    BY <1>1, <2>1 DEF RequestType, IInv, TypeOK
  <2> QED
    BY <1>1, <1>3, <2>2, RequestWaits DEF Latch
<1>4. CASE rq' = [rq EXCEPT ![r].pc = "awaiting", ![r].on = r] /\ flights' = [flights EXCEPT ![r] = Sent(jar)]
  <2>1. /\ rq' = [rq EXCEPT ![r] = [rq[r] EXCEPT !.pc = "awaiting", !.on = r]]
        /\ [rq[r] EXCEPT !.pc = "awaiting", !.on = r].on = r
    BY <1>1, <1>4 DEF RequestType, IInv, TypeOK
  <2>2. Sent(jar).pc # "none"
    BY Records DEF IInv, TypeOK
  <2>3. flights'[r].pc # "none" /\ \A f \in Flight : f # r => flights'[f] = flights[f]
    BY <1>1, <1>4, <2>2 DEF IInv, TypeOK
  <2> QED
    BY <1>1, <2>1, <2>3, RequestWaits
<1> QED
  BY <1>2, <1>3, <1>4 DEF Refresh

(* A flight that ends leaves nobody behind, and no other flight is touched.    *)
LEMMA FlightEndWakes ==
    ASSUME IInv, WaitInv, NEW f \in Flight, Refreshed(f) \/ NotRefreshed(f)
    PROVE  WaitInv'
<1>1. PICK p \in Passes : rq' = Wake(f, p) /\ initialized' = Booted(f, p)
  BY DEF Refreshed, NotRefreshed, IInv, TypeOK, Passes
<1>2. \A g \in Flight : g # f => flights'[g] = flights[g]
  BY DEF Refreshed, NotRefreshed, IInv, TypeOK
<1>3. ASSUME NEW r \in Request, rq'[r].pc = "awaiting"
      PROVE  flights'[rq'[r].on].pc # "none"
  <2>1. rq'[r] = IF ~ Awaits(r, f) THEN rq[r] ELSE IF p = NoPass THEN Settled ELSE Retry(rq[r])
    BY <1>1 DEF Wake
  <2>2. rq[r] \in RequestType
    BY DEF IInv, TypeOK, RequestType
  <2>3. Retry(rq[r]).pc = "sent" /\ Settled.pc = "idle"
    BY <2>2, Records DEF Retry, RequestType
  <2>4. ~ Awaits(r, f) /\ rq'[r] = rq[r]
    BY <1>3, <2>1, <2>3
  <2>5. rq[r].on \in Flight /\ rq[r].on # f /\ flights[rq[r].on].pc # "none"
    BY <1>3, <2>2, <2>4 DEF Awaits, RequestType, WaitInv, AwaitedFlies
  <2> QED
    BY <1>2, <2>4, <2>5
<1>4. BootFlies'
  BY <1>1, <1>2 DEF BootFlies, WaitInv, Booted, Flight, IInv, TypeOK
<1> QED
  BY <1>3, <1>4 DEF WaitInv, AwaitedFlies

LEMMA NextWaits == IInv /\ WaitInv /\ [Next]_vars => WaitInv'
<1> SUFFICES ASSUME IInv, WaitInv, [Next]_vars PROVE WaitInv'
  OBVIOUS
<1>1. ASSUME NEW f \in Flight, ServeRefresh(f) PROVE WaitInv'
  <2>1. rq' = rq /\ initialized' = initialized
    BY <1>1 DEF ServeRefresh, store
  <2>2. PICK new \in FlightType : flights' = [flights EXCEPT ![f] = new] /\ new.pc = "served"
    BY <1>1, ServedFlight
  <2>3. Boot \in Flight /\ \A r \in Request : rq[r].on \in Flight
    BY DEF IInv, TypeOK, Flight
  <2>4. \A g \in Flight : flights[g].pc # "none" => flights'[g].pc # "none"
    BY <2>2 DEF IInv, TypeOK
  <2> QED
    BY <2>1, <2>3, <2>4 DEF WaitInv, AwaitedFlies, BootFlies
<1>2. ASSUME NEW r \in Request, Send(r) \/ ServeRequest(r) \/ Settle(r) PROVE WaitInv'
  <2>1. PICK new : rq' = [rq EXCEPT ![r] = new] /\ new.pc # "awaiting"
    <3>1. CASE Send(r)
      <4>1. rq' = [rq EXCEPT ![r] = [pc |-> "sent", on |-> Boot, sends |-> 1]]
        BY <3>1 DEF Send
      <4>2. [pc |-> "sent", on |-> Boot, sends |-> 1].pc # "awaiting"
        OBVIOUS
      <4> QED
        BY <4>1, <4>2
    <3>2. CASE ServeRequest(r)
      <4>1. PICK pc \in {"answered", "denied"} : rq' = [rq EXCEPT ![r].pc = pc]
        BY <3>2 DEF ServeRequest
      <4>2. /\ rq' = [rq EXCEPT ![r] = [rq[r] EXCEPT !.pc = pc]]
            /\ [rq[r] EXCEPT !.pc = pc].pc # "awaiting"
        BY <4>1 DEF IInv, TypeOK
      <4> QED
        BY <4>2
    <3>3. CASE Settle(r)
      BY <3>3, Records DEF Settle
    <3> QED
      BY <1>2, <3>1, <3>2, <3>3
  <2>2. UNCHANGED <<flights, initialized>>
    BY <1>2 DEF Send, ServeRequest, Settle, store
  <2> QED
    BY <2>1, <2>2, RequestWaits
<1>3. CASE (\E u \in User : SignIn(u)) \/ SignOut \/ ServeAuth \/ AuthAnswered \/ AuthFailed
           \/ (\E c \in Pass : ServeAdrift(c)) \/ UNCHANGED vars
  <2>1. UNCHANGED <<rq, flights, initialized>>
    BY <1>3 DEF SignIn, SignOut, ServeAuth, AuthAnswered, AuthFailed, ServeAdrift, vars, store
  <2> QED
    BY <2>1 DEF WaitInv, AwaitedFlies, BootFlies
<1>4. CASE Reload
  <2>1. jar \in Passes /\ Boot \in Flight
    BY DEF IInv, TypeOK, Flight
  <2>2. flights'[Boot] = Sent(jar) /\ \A r \in Request : rq'[r] = Settled
    BY <1>4, <2>1 DEF Reload
  <2> QED
    BY <2>1, <2>2, Records DEF WaitInv, AwaitedFlies, BootFlies
<1> QED
  BY <1>1, <1>2, <1>3, <1>4, RefreshWaits, FlightEndWakes DEF Next, FlightStep, RequestStep

(* Every request that waits, and the splash of Boot, wait for a refresh that   *)
(* is under way: what ends it, an answer or a broken connection, wakes them.   *)
THEOREM NobodyWaitsForNothing == Spec => []WaitInv
<1>1. Init => WaitInv
  <2> SUFFICES ASSUME Init PROVE WaitInv
    OBVIOUS
  <2>1. jar \in Passes /\ Boot \in Flight
    BY DEF Init, Flight, Passes
  <2>2. flights[Boot] = Sent(jar) /\ \A r \in Request : rq[r] = Settled
    BY <2>1 DEF Init
  <2> QED
    BY <2>1, <2>2, Records DEF WaitInv, AwaitedFlies, BootFlies
<1> QED
  BY <1>1, InitIInv, NextIInv, NextWaits, PTL DEF Spec
================================================================================
