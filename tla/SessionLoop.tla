----------------------------- MODULE SessionLoop -----------------------------
(***************************************************************************)
(* One account's Friends-tab broadcast: broadcasts.go's runBroadcast, the  *)
(* loop that rebuilds the Xbox Live session forever, main.go's runSession, *)
(* one pass of it, and what they share with the other goroutines: the RTA  *)
(* websocket (xbl/rta.go), whose reconnects change the connection ID the   *)
(* session must advertise, the renewal timer, the presence heartbeat and   *)
(* the cached multiplayer token (session/session.go).                      *)
(*                                                                         *)
(* A network call is one action that may succeed or fail, but for a write  *)
(* of the session document: three goroutines build one each and send it,   *)
(* they land in any order, and one whose sender has given up may land at   *)
(* any later time.  A connection ID is the number of the RTA connection it *)
(* belongs to, 0 for none; of a document only that is kept here, the rest  *)
(* is SessionDocument's subject.  A NetherNet ID is 0 for none, First for  *)
(* the one minted by the first Listen of the process, Later for any other. *)
(* The session ID is minted once by xbl.New and handed back unchanged by   *)
(* every pass, so it is not state here.                                    *)
(***************************************************************************)
EXTENDS Naturals, FiniteSets

CONSTANTS
    NoRelay,     \* backend_transport is "nethernet-norelay"
    MaxDrops,    \* bound: times the RTA websocket is lost
    MaxAges,     \* bound: times a token is seen to age
    MaxBackoff,  \* maxBackoff in seconds (broadcasts.go:209)
    ForceRefreshAfter  \* forceRefreshAfter (broadcasts.go:264)

ASSUME SessionLoopAssumption ==
    /\ NoRelay \in BOOLEAN
    /\ MaxDrops \in Nat /\ MaxAges \in Nat
    /\ MaxBackoff \in Nat \ {0} /\ ForceRefreshAfter \in Nat \ {0}

VARIABLES
    ctx,          \* the process context is alive
    pc,           \* where runBroadcast's goroutine is
    result,       \* what runSession has just returned
    backoff,      \* seconds before the next rebuild
    failures,     \* consecutiveFailures, counted up to ForceRefreshAfter
    netherNetID,  \* the ID passed to the next Listen
    wsFailed,     \* history: a Listen has lost its websocket leg
    rta,          \* the RTA websocket and its read loop
    rtaConn,      \* RTA.connectionID
    conn,         \* the connection ID of the current xbl.Session
    registered,   \* OnConnectionIDChanged is the current session's
    docConn,      \* the connection the session document shows for us
    put,          \* put[w]: the connection in the write w is sending, or 0
    late,         \* those of writes whose senders have given up
    overtaken,    \* history: those on their way when conn was taken over
    cause,        \* why sessionCtx is cancelled, or "none"
    presence,     \* what Xbox Live knows of our presence
    token,        \* age of the cached multiplayer token
    timer,        \* the renewal timer of the current session is armed
    renewed,      \* history: no token has aged since a forced refresh worked
    ages          \* how often a token has aged

loopVars == <<result, backoff, failures>>
idVars == <<netherNetID, wsFailed>>
rtaVars == <<rta, rtaConn>>
docVars == <<docConn, put, late, overtaken>>
sessVars == <<conn, registered, docVars, cause>>
tokenVars == <<token, timer, renewed, ages>>
vars == <<ctx, pc, loopVars, idVars, rtaVars, sessVars, presence,
          tokenVars>>

Transports == {"websocket", "messaging"}

\* The steps of runSession, from the read of the connection ID to Serve.
InSession == {"presence", "settle", "create", "putting", "handle", "serving"}

\* Who writes the document: Create, the update ticker and the RTA read loop.
Writers == {"create", "ticker", "rta"}

First == 1
Later == 2

Connections == 0..(MaxDrops + 1)

FlagsOK ==
    /\ ctx \in BOOLEAN /\ wsFailed \in BOOLEAN
    /\ registered \in BOOLEAN /\ timer \in BOOLEAN
    /\ renewed \in BOOLEAN

LoopOK ==
    /\ pc \in {"boot", "loop", "listen", "dialing", "construct", "returned",
               "backoff", "stopped", "failed"} \cup InSession
    /\ result \in {"none", "renewal", "error", "clean"}
    /\ backoff \in 1..MaxBackoff /\ failures \in 0..ForceRefreshAfter
    /\ netherNetID \in {0, First, Later}
    /\ cause \in {"none", "renewal", "reconcile", "done"}
    /\ presence \in {"off", "posted", "active"}
    /\ token \in {"none", "fresh", "renewable", "expired"} /\ ages \in 0..MaxAges

ConnectionsOK ==
    /\ rta \in {"down", "handling", "up", "stalled"}
    /\ rtaConn \in Connections /\ conn \in Connections /\ docConn \in Connections
    /\ put \in [Writers -> Connections]
    /\ late \in SUBSET Connections /\ overtaken \in SUBSET Connections
    /\ rta \in {"down", "stalled"} => rtaConn <= MaxDrops

TypeOK == FlagsOK /\ LoopOK /\ ConnectionsOK

Init ==
    /\ ctx = TRUE /\ pc = "boot"
    /\ result = "none" /\ backoff = 1 /\ failures = 0
    /\ netherNetID = 0 /\ wsFailed = FALSE
    /\ rta = "down" /\ rtaConn = 0
    /\ conn = 0 /\ docConn = 0 /\ registered = FALSE /\ cause = "done"
    /\ put = [w \in Writers |-> 0] /\ late = {} /\ overtaken = {}
    /\ presence = "off"
    /\ token = "none" /\ timer = FALSE /\ renewed = FALSE
    /\ ages = 0

Live == ctx /\ cause = "none"

-----------------------------------------------------------------------------
(* The session document.                                                   *)

\* The connections in the writes on their way.
Sent == {put[w] : w \in Writers} \ {0}

Sends(w) == put' = [put EXCEPT ![w] = conn]

\* The session takes connection c over; what is on its way still shows another.
TakesOver(c) ==
    /\ conn' = c
    /\ overtaken' = (Sent \cup late) \ {c}

\* The RTA goroutine is done with what it was called for.
CallbackDone == rta' = IF rta = "handling" THEN "up" ELSE rta

\* A write is applied and its sender told so, the session being alive.
PutLands(w) ==
    /\ put[w] # 0 /\ Live
    /\ w = "create" => pc = "putting"
    /\ docConn' = put[w]
    /\ put' = [put EXCEPT ![w] = 0]
    /\ pc' = IF w = "create" THEN "handle" ELSE pc
    /\ IF w = "rta" THEN CallbackDone ELSE UNCHANGED rta
    /\ UNCHANGED <<ctx, loopVars, idVars, rtaConn, conn, registered, late,
                   overtaken, cause, presence, tokenVars>>

\* Mutant of ReconcileFailed: the failure is logged and otherwise ignored.
ReconcileIgnored == UNCHANGED cause

\* A session whose new connection could not be pushed is rebuilt.
ReconcileFailed ==
    cause' = IF rta = "handling" /\ cause = "none" THEN "reconcile" ELSE cause

\* Its sender gets an error, which the ticker and OnSessionChanged only log.
UpdateFails(w) ==
    /\ put[w] # 0
    /\ put' = [put EXCEPT ![w] = 0] /\ late' = late \cup {put[w]}
    /\ IF w = "rta" THEN CallbackDone /\ ReconcileFailed ELSE UNCHANGED <<rta, cause>>
    /\ UNCHANGED <<ctx, pc, loopVars, idVars, rtaConn, conn, registered, docConn,
                   overtaken, presence, tokenVars>>

\* A write given up on is applied after all.  The document is first looked at when
\* the handle is requested, Create's own write being in it; before that it makes
\* no difference.
LateLands ==
    /\ pc \in {"handle", "serving"}
    /\ docConn' \in late
    /\ UNCHANGED <<ctx, pc, loopVars, idVars, rtaVars, conn, registered, put,
                   late, overtaken, cause, presence, tokenVars>>

\* The ticker's Update, every few seconds as long as the session serves.
Tick ==
    /\ pc = "serving" /\ Live /\ put["ticker"] = 0
    /\ Sends("ticker")
    /\ UNCHANGED <<ctx, pc, loopVars, idVars, rtaVars, conn, registered, docConn,
                   late, overtaken, cause, presence, tokenVars>>

\* OnSessionChanged: members have changed, so their nonces and the document do.
RefreshNonces ==
    /\ rta = "up" /\ registered /\ Live /\ put["rta"] = 0
    /\ Sends("rta")
    /\ UNCHANGED <<ctx, pc, loopVars, idVars, rtaVars, conn, registered, docConn,
                   late, overtaken, cause, presence, tokenVars>>

-----------------------------------------------------------------------------
(* The RTA goroutine: Connect, handle and the reconnect loop.              *)

\* A websocket is dialed and its subscription confirmed: handle stores the new
\* connection ID and calls OnConnectionIDChanged on this goroutine.
RtaSubscribed ==
    /\ ctx /\ rta = "down" /\ put["rta"] = 0
    /\ rtaConn' = rtaConn + 1
    /\ rta' = "handling"
    /\ UNCHANGED <<ctx, pc, loopVars, idVars, sessVars, presence,
                   tokenVars>>

\* Does the callback find a session to reconcile?  Not before one is registered,
\* nor for the ID the session was built with; the callback of a session that
\* is over only fails on its cancelled context.
MustReconcile == registered /\ cause = "none" /\ rtaConn # conn

\* OnConnectionIDChanged: the new ID is taken over and the document with it sent.
Reconcile ==
    /\ rta = "handling" /\ put["rta"] = 0 /\ MustReconcile
    /\ TakesOver(rtaConn)
    /\ put' = [put EXCEPT !["rta"] = rtaConn]
    /\ UNCHANGED <<ctx, pc, loopVars, idVars, rtaVars, registered, docConn,
                   late, cause, presence, tokenVars>>

RtaHandled ==
    /\ rta = "handling" /\ put["rta"] = 0 /\ ~MustReconcile
    /\ rta' = "up"
    /\ UNCHANGED <<ctx, pc, loopVars, idVars, rtaConn, sessVars, presence,
                   tokenVars>>

\* The websocket drops with an error, or goes silent without one; a silent one
\* is closed by a failed ping or by the health check of the update ticker.
RtaLost ==
    /\ rta = "up" /\ rtaConn <= MaxDrops
    /\ rta' \in {"down", "stalled"}
    /\ UNCHANGED <<ctx, pc, loopVars, idVars, rtaConn, sessVars,
                   presence, tokenVars>>

ForceReconnect ==
    /\ rta = "stalled"
    /\ rta' = "down"
    /\ UNCHANGED <<ctx, pc, loopVars, idVars, rtaConn, sessVars,
                   presence, tokenVars>>

-----------------------------------------------------------------------------
(* Xbox Live and time.                                                     *)

\* A posted presence becomes visible to the session directory; it lapses when
\* no session's heartbeat goroutine is left to renew it.
PresencePropagates ==
    /\ presence = "posted"
    /\ presence' = "active"
    /\ UNCHANGED <<ctx, pc, loopVars, idVars, rtaVars, sessVars,
                   tokenVars>>

PresenceLapses ==
    /\ presence # "off" /\ pc \notin InSession \ {"presence"}
    /\ presence' = "off"
    /\ UNCHANGED <<ctx, pc, loopVars, idVars, rtaVars, sessVars,
                   tokenVars>>

\* What an age may be seen to have become.
Older(t) == CASE t = "fresh" -> {"renewable", "expired"}
              [] t = "renewable" -> {"expired"}
              [] OTHER -> {}

TokenAges ==
    /\ ages < MaxAges
    /\ token' \in Older(token) /\ ages' = ages + 1
    /\ renewed' = FALSE
    /\ UNCHANGED <<ctx, pc, loopVars, idVars, rtaVars, sessVars,
                   presence, timer>>

\* The renewal timer goes off a few minutes before the token expires, or after
\* a minute if less is left.
RenewalFires ==
    /\ timer /\ ctx /\ cause = "none" /\ token \in {"renewable", "expired"}
    /\ cause' = "renewal"
    /\ timer' = FALSE
    /\ UNCHANGED <<ctx, pc, loopVars, idVars, rtaVars, conn,
                   registered, docVars, presence, token, renewed, ages>>

Shutdown ==
    /\ ctx /\ pc \notin {"stopped", "failed"}
    /\ ctx' = FALSE
    /\ UNCHANGED <<pc, loopVars, idVars, rtaVars, sessVars,
                   presence, tokenVars>>

-----------------------------------------------------------------------------
(* runSession.                                                             *)

\* MCToken: the cached token unless it has expired; obtaining one may fail.
MCToken(ok) ==
    IF token \in {"fresh", "renewable"} THEN UNCHANGED token
    ELSE token' = IF ok THEN "fresh" ELSE token

HasToken(ok) == ok \/ token \in {"fresh", "renewable"}

\* Mutant of CurrentConnection: the connection ID first seen is used for good.
CachedConnection == IF conn # 0 THEN conn ELSE rtaConn

\* RTA.ConnectionID, read again on every rebuild (main.go:291).
CurrentConnection == rtaConn

ReadConnectionID ==
    /\ pc = "loop" /\ ctx
    /\ TakesOver(CurrentConnection)
    /\ pc' = "listen"
    /\ UNCHANGED <<ctx, loopVars, idVars, rtaVars, registered, docConn,
                   put, late, cause, presence, tokenVars>>

\* Only before the first Listen is there neither an ID nor a Listen that failed.
Minted == IF netherNetID = 0 /\ ~wsFailed THEN First ELSE Later

\* Mutant of ListenID: the ID is minted anew on every rebuild.
MintAlways == Minted

\* The ID Listen binds the websocket transport to: the one it is given, or a
\* new one when it is given none.
ListenID == IF netherNetID # 0 THEN netherNetID ELSE Minted

\* What runSession leaves behind when it returns r: its context is cancelled and
\* every write on its way given up.  Its transports are not followed here.
Returns(r) ==
    /\ pc' = "returned" /\ result' = r
    /\ cause' = "done" /\ timer' = FALSE
    /\ registered' = FALSE
    /\ put' = [w \in Writers |-> 0] /\ late' = late \cup Sent
    /\ UNCHANGED <<docConn, overtaken>>

\* Listen: each transport may fail to start; a failed websocket leg zeroes the
\* numeric ID that is returned and kept for the next rebuild.
Listen ==
    /\ pc = "listen"
    /\ \E tok \in BOOLEAN, up \in SUBSET Transports :
         /\ up # {} => ctx /\ HasToken(tok)
         /\ MCToken(tok)
         /\ netherNetID' = IF "websocket" \in up THEN ListenID ELSE 0
         /\ wsFailed' = (wsFailed \/ "websocket" \notin up)
         /\ IF up = {} THEN Returns("error")
            ELSE pc' = "construct" /\ UNCHANGED <<result, cause, timer, registered, docVars>>
    /\ UNCHANGED <<ctx, backoff, failures, rtaVars, conn, presence, renewed,
                   ages>>

\* The websocket leg is dialed and no credentials come over it: DialContext goes
\* on waiting, with the process context, and the messaging leg is not tried.
ListenHangs ==
    /\ pc = "listen" /\ ctx
    /\ HasToken(TRUE) /\ MCToken(TRUE)
    /\ pc' = "dialing"
    /\ UNCHANGED <<ctx, loopVars, idVars, rtaVars, sessVars, presence,
                   timer, renewed, ages>>

\* Shutdown ends that wait, and the messaging leg then fails on its context too.
DialGivesUp ==
    /\ pc = "dialing" /\ ~ctx
    /\ Returns("error")
    /\ netherNetID' = 0 /\ wsFailed' = TRUE
    /\ UNCHANGED <<ctx, backoff, failures, rtaVars, conn, presence, token,
                   renewed, ages>>

\* xbl.New; the renewal timer is armed if the token can be read, and the RTA
\* callbacks are pointed at this session.
Construct ==
    /\ pc = "construct"
    /\ \E tok \in BOOLEAN : MCToken(tok) /\ timer' = HasToken(tok)
    /\ cause' = "none"
    /\ registered' = TRUE
    /\ pc' = "presence"
    /\ UNCHANGED <<ctx, loopVars, idVars, rtaVars, conn, docVars,
                   presence, renewed, ages>>

\* An early return, before Serve.
ReturnsEarly(r) ==
    /\ Returns(r)
    /\ UNCHANGED <<ctx, backoff, failures, idVars, rtaVars, conn,
                   token, renewed, ages>>

Continue(next) ==
    /\ pc' = next
    /\ UNCHANGED <<ctx, result, backoff, failures, rtaVars, conn,
                   registered, cause, tokenVars>>

\* Presence.Run: the first heartbeat must go through.
PresenceOk ==
    /\ pc = "presence"
    /\ Live /\ Continue("settle")
    /\ presence' = IF presence = "active" THEN "active" ELSE "posted"
    /\ UNCHANGED <<docVars, idVars>>

PresenceFails ==
    /\ pc = "presence"
    /\ ReturnsEarly("error")
    /\ UNCHANGED presence

\* The three-second wait; a session cancelled meanwhile returns its cause,
\* unless the wait is over too and the select happens to take that case.
Settle ==
    /\ pc = "settle"
    /\ \/ Continue("create") /\ UNCHANGED <<idVars, docVars>>
       \/ ~Live /\ ReturnsEarly(IF cause = "renewal" THEN "renewal" ELSE "error")
    /\ UNCHANGED presence

\* Create: the document is built and sent, and when it has landed the activity
\* handle requested.
CreatePut ==
    /\ pc = "create"
    /\ Live /\ Continue("putting")
    /\ Sends("create")
    /\ UNCHANGED <<presence, idVars, docConn, late, overtaken>>

\* Xbox Live refuses a handle unless our presence is active and the document
\* shows a live RTA connection.
OwnerActive ==
    presence = "active" /\ docConn = rtaConn /\ rta \in {"handling", "up"}

CreateHandle ==
    /\ pc = "handle"
    /\ OwnerActive
    /\ Live /\ Continue("serving")
    /\ UNCHANGED <<presence, docVars, idVars>>

CreateFails ==
    /\ pc \in {"create", "putting", "handle"}
    /\ ReturnsEarly("error")
    /\ UNCHANGED presence

\* Serve returns when its context ends or one of its transports dies.
ServeEnds ==
    /\ pc = "serving"
    /\ Returns(IF cause = "renewal" THEN "renewal"
               ELSE IF NoRelay /\ ~Live THEN "clean" ELSE "error")
    /\ UNCHANGED <<ctx, backoff, failures, idVars, rtaVars, conn,
                   presence, token, renewed, ages>>

-----------------------------------------------------------------------------
(* runBroadcast.                                                           *)

\* Startup waits for the first connection ID, and gives up after ten seconds.
Boot ==
    /\ pc = "boot"
    /\ \/ rtaConn # 0 /\ pc' = "loop"
       \/ rtaConn = 0 /\ pc' = "failed"
    /\ UNCHANGED <<ctx, loopVars, idVars, rtaVars, sessVars,
                   presence, tokenVars>>

\* Mutant of ForceRefreshMCToken: MCToken, which keeps a token not expired.
LazyRefresh(ok) == MCToken(ok)

ForceRefreshMCToken(ok) == token' = IF ok THEN "fresh" ELSE token

Renew ==
    /\ pc = "returned" /\ ctx /\ result = "renewal"
    /\ \E ok \in BOOLEAN : ForceRefreshMCToken(ok) /\ renewed' = ok
    /\ backoff' = 1 /\ failures' = 0
    /\ pc' = "loop" /\ result' = "none"
    /\ UNCHANGED <<ctx, idVars, rtaVars, sessVars,
                   presence, timer, ages>>

CountUp(n) == IF n < ForceRefreshAfter THEN n + 1 ELSE n

CountFailure ==
    /\ pc = "returned" /\ ctx /\ result \in {"error", "clean"}
    /\ failures' = CountUp(failures)
    /\ IF failures' >= ForceRefreshAfter
       THEN \E ok \in BOOLEAN : ForceRefreshMCToken(ok)
       ELSE UNCHANGED token
    /\ pc' = "backoff" /\ result' = "none"
    /\ UNCHANGED <<ctx, backoff, idVars, rtaVars,
                   sessVars, presence, timer, renewed, ages>>

NextBackoff(b) == IF b < MaxBackoff /\ 2 * b <= MaxBackoff THEN 2 * b
                  ELSE MaxBackoff

BackoffOver ==
    /\ pc = "backoff" /\ ctx
    /\ backoff' = NextBackoff(backoff)
    /\ pc' = "loop"
    /\ UNCHANGED <<ctx, result, failures, idVars,
                   rtaVars, sessVars, presence, tokenVars>>

Stop ==
    /\ pc \in {"loop", "returned", "backoff"} /\ ~ctx
    /\ pc' = "stopped"
    /\ UNCHANGED <<ctx, loopVars, idVars, rtaVars, sessVars,
                   presence, tokenVars>>

-----------------------------------------------------------------------------
PutEnds(w) == PutLands(w) \/ UpdateFails(w)

Rta == RtaSubscribed \/ Reconcile \/ RtaHandled \/ ForceReconnect \/ PutEnds("rta")

Broadcast == Boot \/ ReadConnectionID \/ Listen \/ DialGivesUp \/ Construct
             \/ PresenceOk \/ PresenceFails \/ Settle \/ CreatePut \/ PutLands("create")
             \/ CreateHandle \/ CreateFails \/ Renew \/ CountFailure \/ BackoffOver \/ Stop

Next == Rta \/ Broadcast \/ PutEnds("ticker") \/ Tick \/ RefreshNonces \/ LateLands
        \/ ListenHangs \/ RtaLost \/ ServeEnds \/ PresencePropagates \/ PresenceLapses
        \/ TokenAges \/ RenewalFires \/ Shutdown

\* The goroutines keep running, a write is answered or fails, the RTA loop redials
\* every three seconds, the timer goes off, and Serve returns once its context
\* is cancelled.  When the ticker ticks does not matter here.
Fairness ==
    /\ WF_vars(Rta) /\ WF_vars(Broadcast \/ (~Live /\ ServeEnds))
    /\ WF_vars(RenewalFires) /\ WF_vars(PresencePropagates)

Spec == Init /\ [][Next]_vars /\ Fairness

-----------------------------------------------------------------------------
(* Properties.                                                             *)

\* A session that serves has the RTA connection that is alive, so every write it
\* sends shows it, and the document does unless a write that was on its way when
\* the connection was taken over has landed since, which the next tick repairs:
\* a reconnect during Listen makes Create fail, one after it is reconciled by
\* the callback or has the session rebuilt (main.go:388-418, 524-525).
ServingConnectionLive ==
    pc = "serving" /\ cause = "none" /\ rta = "up" =>
        conn = rtaConn /\ docConn \in {rtaConn} \cup overtaken

\* As long as websocket signaling has never failed to start, every session of
\* the process advertises the NetherNet ID of the first one (broadcasts.go:217).
StableIDWithoutFailure ==
    ~wsFailed /\ pc = "serving" => netherNetID = First

\* A renewal that obtained a new token is not followed by another one until the
\* token has aged: without the forced refresh the rebuilt session got the same
\* cached token and was renewed again every minute (broadcasts.go:229-243).
NoRenewalLoop ==
    [][cause # "renewal" /\ cause' = "renewal" => ~renewed]_vars

\* A step in which Xbox Live or the network fails the broadcast: no transport
\* starts, a call of a live session fails though nothing stands in its way, a
\* token is not refreshed, presence takes longer than the three-second wait, or a
\* write long given up on replaces a newer one.
Fault ==
    \/ Listen /\ pc' = "returned"
    \/ Live /\ PresenceFails
    \/ Live /\ CreateFails /\ (pc = "handle" => OwnerActive)
    \/ Live /\ cause' = "reconcile"
    \/ Renew /\ token' # "fresh"
    \/ CountFailure /\ failures' = ForceRefreshAfter /\ token' # "fresh"
    \/ pc = "settle" /\ pc' = "create" /\ presence # "active"
    \/ LateLands /\ docConn' # docConn

Serves == (pc = "serving" /\ Live) \/ pc \in {"stopped", "failed", "dialing"}

\* Whatever has failed before, once there are no more faults the broadcast comes
\* back, through any RTA drop, token expiry or transport that dies: a session
\* serves and is not cancelled, again and again, unless the process was told to
\* stop, never got a first connection ID, or dialed a websocket over which the
\* credentials never came (broadcasts.go:198-208, signaling/dial.go:76-81).
ServesAgain == <>[][~Fault]_vars => []<>Serves
=============================================================================
