--------------------------- MODULE SessionDocument ---------------------------
(***************************************************************************)
(* xbl/session.go: one xbl.Session and the document it keeps at Xbox Live. *)
(* Three goroutines write the document: runSession itself (Create), the    *)
(* update ticker (main.go:483-539) and the RTA read loop, which runs both  *)
(* callbacks, OnSessionChanged (RefreshNonces) and OnConnectionIDChanged.  *)
(* Each of them builds a request from the local state and then sends it,   *)
(* so up to three requests are on their way at once and land in any order. *)
(*                                                                         *)
(* A nonce is represented by the member connection it was issued for: the  *)
(* code makes a new one exactly when that changes.  Connections of members *)
(* and of the RTA websocket are numbered in the order they are made.  The  *)
(* session ends (phase "over") when Create or a reconcile fails; that it   *)
(* is rebuilt then is SessionLoop's subject.                               *)
(***************************************************************************)
EXTENDS Naturals

CONSTANTS
    Members,    \* XUIDs of players, ours not among them
    MaxJoins,   \* bound: member connections ever made
    MaxRev,     \* bound: changes of the advertised world info
    MaxDrops,   \* bound: times the RTA websocket is lost
    NoRequest   \* nothing being sent

Writers == {"main", "ticker", "rta"}

VARIABLES
    phase,    \* runSession: start, putting, handle (Create), live, over
    member,   \* member[x]: x's member connection at Xbox Live, 0 if none
    joins,    \* member connections made so far
    notify,   \* session-change events on the RTA websocket, not read yet
    missed,   \* history: members whose last change no refresh will see
    rta,      \* the RTA websocket: up or down
    rtaConn,  \* number of RTA connections made so far: the current one's ID
    work,     \* what the RTA goroutine is doing
    snap,     \* the member list RefreshNonces has fetched
    conn,     \* Session.connectionID
    rev,      \* Session.cfg, as a revision number
    nonces,   \* Session.nonces and nonceConnections
    flight,   \* flight[w]: the request w is sending, or NoRequest
    doc       \* the document at Xbox Live

localVars == <<conn, rev, nonces>>
rtaVars == <<rta, rtaConn, work, snap>>
memberVars == <<member, joins, notify>>
vars == <<phase, memberVars, missed, rtaVars, localVars, flight, doc>>

Connection == 0..MaxJoins
RtaConnection == 0..(MaxDrops + 1)
Request == [conn : RtaConnection, rev : 0..MaxRev, nonces : [Members -> Connection]]

ASSUME DocumentAssumption ==
    /\ MaxJoins \in Nat \ {0} /\ MaxRev \in Nat /\ MaxDrops \in Nat
    /\ NoRequest \notin Request

TypeOK ==
    /\ phase \in {"start", "putting", "handle", "live", "over"}
    /\ member \in [Members -> Connection] /\ joins \in Connection
    /\ notify \in Nat /\ missed \in SUBSET Members
    /\ rta \in {"up", "down"} /\ rtaConn \in RtaConnection
    /\ rta = "down" => rtaConn <= MaxDrops
    /\ work \in {"idle", "get", "apply", "push", "reconcile"}
    /\ snap \in [Members -> Connection]
    /\ conn \in RtaConnection /\ rev \in 0..MaxRev
    /\ nonces \in [Members -> Connection]
    /\ flight \in [Writers -> Request \cup {NoRequest}]
    /\ doc \in Request

\* A new Session: no nonces, though after a rebuild members may be there that
\* joined under an earlier one.
Init ==
    /\ phase = "start"
    /\ \E old \in SUBSET Members :
         /\ member = [x \in Members |-> IF x \in old THEN 1 ELSE 0]
         /\ missed = old
    /\ joins = 1
    /\ notify = 0
    /\ rta = "up" /\ rtaConn = 1
    /\ work = "idle" /\ snap = [x \in Members |-> 0]
    /\ conn = 1 /\ rev = 0 /\ nonces = [x \in Members |-> 0]
    /\ flight = [w \in Writers |-> NoRequest]
    /\ doc = [conn |-> 0, rev |-> 0, nonces |-> [x \in Members |-> 0]]

Running == phase # "over"

-----------------------------------------------------------------------------
(* Xbox Live: players come and go, and the RTA websocket is told.          *)

\* Events go to the connection the document names for us.
Notified == rta = "up" /\ doc.conn = rtaConn

MemberChanges(x, c) ==
    /\ Running
    /\ member' = [member EXCEPT ![x] = c]
    /\ IF Notified
       THEN notify' = notify + 1 /\ missed' = missed \ {x}
       ELSE UNCHANGED notify /\ missed' = missed \cup {x}
    /\ UNCHANGED <<phase, rtaVars, localVars, flight, doc>>

\* A player joins, or joins again: a new member connection either way.
Joins(x) ==
    /\ joins < MaxJoins
    /\ joins' = joins + 1
    /\ MemberChanges(x, joins + 1)

Leaves(x) ==
    /\ member[x] # 0
    /\ MemberChanges(x, 0)
    /\ UNCHANGED joins

\* Members whose current connection has no nonce here, or who are gone and
\* still have one.
Outdated == {x \in Members : nonces[x] # member[x]}

\* Members whose last change the refresh under way, if any, does not see.
Unseen == CASE work = "get" -> {}
            [] work = "apply" -> {x \in Members : snap[x] # member[x]}
            [] OTHER -> Outdated

\* The websocket drops; events that were not read are lost.
RtaDrops ==
    /\ Running /\ rta = "up" /\ rtaConn <= MaxDrops
    /\ rta' = "down"
    /\ notify' = 0
    /\ missed' = missed \cup Unseen
    /\ UNCHANGED <<phase, member, joins, rtaConn, work, snap, localVars, flight, doc>>

-----------------------------------------------------------------------------
(* Requests.                                                               *)

BuildRequest(r, n) == [conn |-> conn, rev |-> r, nonces |-> n]

Sends(w, request) == flight' = [flight EXCEPT ![w] = request]

\* What the sender does once its request is answered.
Answered(w, ok) ==
    /\ flight' = [flight EXCEPT ![w] = NoRequest]
    /\ phase' = CASE w = "main" -> IF ok THEN "handle" ELSE "over"
                  [] w = "rta" /\ work = "reconcile" /\ ~ok -> "over"
                  [] OTHER -> phase
    /\ work' = IF w = "rta" THEN "idle" ELSE work
    /\ UNCHANGED <<memberVars, missed, rta, rtaConn, snap, localVars>>

\* A PUT is applied and answered 200; or it fails, before or after it was
\* applied.
PutLands(w) ==
    /\ Running /\ flight[w] # NoRequest
    /\ doc' = flight[w]
    /\ Answered(w, TRUE)

PutFails(w) ==
    /\ Running /\ flight[w] # NoRequest
    /\ doc' \in {doc, flight[w]}
    /\ Answered(w, FALSE)

-----------------------------------------------------------------------------
(* runSession and the update ticker.                                       *)

Create ==
    /\ phase = "start"
    /\ phase' = "putting"
    /\ Sends("main", BuildRequest(rev, nonces))
    /\ UNCHANGED <<memberVars, missed, rtaVars, localVars, doc>>

\* The activity handle is granted if the document shows a live connection.
CreateHandle ==
    /\ phase = "handle"
    /\ \/ Notified /\ phase' = "live"
       \/ phase' = "over"
    /\ UNCHANGED <<memberVars, missed, rtaVars, localVars, flight, doc>>

\* A tick of the ticker, or of the player count's: SetWorldInfo, then Update.
\* A failed Update is logged, and the next tick sends the state of then.
Tick ==
    /\ phase = "live" /\ flight["ticker"] = NoRequest
    /\ rev' \in {rev, rev + 1} \cap 0..MaxRev
    /\ Sends("ticker", BuildRequest(rev', nonces))
    /\ UNCHANGED <<phase, memberVars, missed, rtaVars, conn, nonces, doc>>

-----------------------------------------------------------------------------
(* The RTA goroutine.                                                      *)

\* An event is read and RefreshNonces called.
SessionChanged ==
    /\ Running /\ rta = "up" /\ work = "idle" /\ notify > 0
    /\ notify' = notify - 1
    /\ work' = "get"
    /\ UNCHANGED <<phase, member, joins, missed, rta, rtaConn, snap, localVars,
                   flight, doc>>

\* The member list is fetched; an error is logged and the event forgotten.
GetMembers ==
    /\ Running /\ work = "get"
    /\ snap' = member
    /\ work' = "apply"
    /\ UNCHANGED <<phase, memberVars, missed, rta, rtaConn, localVars, flight, doc>>

GetFails ==
    /\ Running /\ work = "get"
    /\ work' = "idle"
    /\ missed' = missed \cup Outdated
    /\ UNCHANGED <<phase, memberVars, rta, rtaConn, snap, localVars, flight, doc>>

\* Mutant of NeedsNonce: only a player never seen before gets one.
NeedsNonceOnce(x) == nonces[x] = 0

\* A nonce is issued per join, not per player.
NeedsNonce(x) == nonces[x] # snap[x]

\* Mutant of RefreshedNonce: those of players who left are kept.
RefreshedNonceKept(x) == IF NeedsNonce(x) /\ snap[x] # 0 THEN snap[x] ELSE nonces[x]

RefreshedNonce(x) ==
    IF snap[x] = 0 THEN 0 ELSE IF NeedsNonce(x) THEN snap[x] ELSE nonces[x]

RefreshNonces ==
    /\ Running /\ work = "apply"
    /\ nonces' = [x \in Members |-> RefreshedNonce(x)]
    /\ missed' = {x \in missed : snap[x] # member[x]}
    /\ IF nonces' # nonces
       THEN work' = "push" /\ Sends("rta", BuildRequest(rev, nonces'))
       ELSE work' = "idle" /\ UNCHANGED flight
    /\ UNCHANGED <<phase, memberVars, rta, rtaConn, snap, conn, rev, doc>>

\* Mutant of SetConnectionID: the session keeps the ID it was built with.
SetConnectionIDIgnored(c) == conn' = conn

SetConnectionID(c) == conn' = c

\* The websocket is up again: its new connection ID is taken over and pushed.
RtaReconnects ==
    /\ Running /\ rta = "down" /\ work = "idle"
    /\ rta' = "up" /\ rtaConn' = rtaConn + 1
    /\ SetConnectionID(rtaConn')
    /\ Sends("rta", [BuildRequest(rev, nonces) EXCEPT !.conn = conn'])
    /\ work' = "reconcile"
    /\ UNCHANGED <<phase, memberVars, missed, snap, rev, nonces, doc>>

-----------------------------------------------------------------------------
RtaStep == SessionChanged \/ GetMembers \/ GetFails \/ RefreshNonces \/ RtaReconnects

PutEnds(w) == PutLands(w) \/ PutFails(w)

Next ==
    \/ \E x \in Members : Joins(x) \/ Leaves(x)
    \/ \E w \in Writers : PutEnds(w)
    \/ RtaDrops \/ Create \/ CreateHandle \/ Tick \/ RtaStep

\* The goroutines run, the ticker ticks, every request is answered, and of the
\* ticker's, which is sent again and again, some get through.
Fairness ==
    /\ WF_vars(RtaStep) /\ WF_vars(Create) /\ WF_vars(CreateHandle)
    /\ WF_vars(Tick) /\ \A w \in Writers : WF_vars(PutEnds(w))
    /\ SF_vars(PutLands("ticker"))

Spec == Init /\ [][Next]_vars /\ Fairness

-----------------------------------------------------------------------------
(* Properties.                                                             *)

\* Once every event was read and handled, the nonces are exactly those of the
\* members' current connections, whatever happened between the fetch of the
\* member list and its use: rejoins get a new nonce, leavers keep none
\* (xbl/session.go:366-381).
NoncesCurrent ==
    notify = 0 /\ work \notin {"get", "apply"} /\ Running => Outdated \subseteq missed

\* A player who joins gets a nonce for that join into the document, though
\* other writers may overwrite it with an older state for a while: unless the
\* event or the fetch after it is lost, or the player leaves or joins again.
NoncesReachDoc ==
    \A x \in Members, c \in 1..MaxJoins :
       []<>(member[x] = c => doc.nonces[x] = c \/ x \in missed \/ ~Running)

Converged == Running => doc = BuildRequest(rev, nonces) /\ doc.conn = rtaConn

\* When nothing changes any more, the document comes to show the current world
\* info, nonces and live RTA connection, and keeps showing them: no request
\* that was overtaken by a newer one decides in the end.
DocumentConverges == <>[]Converged
=============================================================================
