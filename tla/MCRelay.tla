------------------------------- MODULE MCRelay -------------------------------
(***************************************************************************)
(* The way of a player to the backend: signaling over the websocket or over *)
(* HTTP, the server list's entry, the two logins and the relay.            *)
(*                                                                         *)
(* These parts share no state: one of them, focus, runs, and the others stay *)
(* in an initial state.  To interleave them would add no behaviour of any. *)
(***************************************************************************)
EXTENDS PlayerRelay, Integers, SequencesExt

CONSTANTS
    UpLen, DownLen, StatusAt,           \* of LoginLink
    Joins, Clients,                     \* of HttpJoin
    Requests, Nobody, TTL, MaxPlayers,  \* of ServerList
    MaxSignals, MaxSkipped, MaxInbox    \* of WebsocketSignaling

\* Both streams are finite; whether there is a LoginSuccess in them, and where, is free.
ASSUME LoginAssumption == UpLen \in Nat /\ DownLen \in Nat

VARIABLES
    focus,
    encrypts, wire, codec, batch, deferred, loginPc, sent, got, refused,
    httpClient, dial, step, status, due, pending, ch, conn, sig, notifier, missed,
    mu, cached, age, listPc, gone, answer, listBackend, asked,
    ctx, dialer, sock, inbox, wsSent, stored, ready, connCtx, reader, holding,
    wsNotifier, pinger, notified

L == INSTANCE LoginLink WITH pc <- loginPc

loginVars == <<encrypts, wire, codec, batch, deferred, loginPc, sent, got, refused>>

H == INSTANCE HttpJoin WITH client <- httpClient

httpVars == <<httpClient, dial, step, status, due, pending, ch, conn, sig, notifier,
              missed>>

S == INSTANCE ServerList WITH pc <- listPc, backend <- listBackend

listVars == <<mu, cached, age, listPc, gone, answer, listBackend, asked>>

W == INSTANCE WebsocketSignaling WITH sent <- wsSent, notifier <- wsNotifier

wsVars == <<ctx, dialer, sock, inbox, wsSent, stored, ready, connCtx, reader, holding,
            wsNotifier, pinger, notified>>

MCInit ==
    /\ focus \in {"relay", "login", "http", "list", "websocket"}
    /\ Init
    /\ L!Init /\ (focus # "login" => ~refused /\ encrypts = [e \in L!Servers |-> FALSE])
    /\ H!Init
    /\ S!Init /\ (focus # "list" => listBackend = 0)
    /\ W!Init

MCNext ==
    \/ /\ focus = "relay" /\ Next
       /\ UNCHANGED <<focus, loginVars, httpVars, listVars, wsVars>>
    \/ /\ focus = "login" /\ L!Next
       /\ UNCHANGED <<focus, vars, httpVars, listVars, wsVars>>
    \/ /\ focus = "http" /\ H!Next
       /\ UNCHANGED <<focus, vars, loginVars, listVars, wsVars>>
    \/ /\ focus = "list" /\ S!Next
       /\ UNCHANGED <<focus, vars, loginVars, httpVars, wsVars>>
    \/ /\ focus = "websocket" /\ W!Next
       /\ UNCHANGED <<focus, vars, loginVars, httpVars, listVars>>

mcVars == <<focus, vars, loginVars, httpVars, listVars, wsVars>>

MCSafe == MCInit /\ [][MCNext]_mcVars

MCSpec ==
    /\ MCSafe
    /\ \A c \in Conns :
        WF_vars(focus = "relay" /\ (pc[c] = "login" => client[c] = "closed") /\ Handle(c))
    /\ \A c \in Conns, d \in Directions :
        WF_vars(focus = "relay" /\ (ReadFails(c, d) \/ Report(c, d)))
    /\ \A e \in L!Ends : WF_loginVars(focus = "login" /\ L!ReadLoop(e))
    /\ WF_loginVars(focus = "login" /\ (L!ForwardIdentity \/ L!TellPlayer))
    /\ \A e \in L!Relay : WF_loginVars(focus = "login" /\ L!Pump(e))
    /\ WF_loginVars(focus = "login" /\ L!Join)
    /\ WF_loginVars(focus = "login" /\ L!Refuse)
    /\ \A e \in {L!Player, L!Backend} : WF_loginVars(focus = "login" /\ L!Streams(e))
    /\ \A e \in {L!Player, L!Backend} : WF_loginVars(focus = "login" /\ L!Receive(e))
    /\ \A j \in Joins : WF_httpVars(focus = "http" /\ H!HandleOffer(j))
    /\ \A j \in Joins : WF_httpVars(focus = "http" /\ H!TimePasses(j))
    /\ \A j \in Joins : WF_httpVars(focus = "http" /\ H!Response(j))
    /\ WF_listVars(focus = "list" /\ S!Tick)
    /\ \A r \in Requests : WF_listVars(focus = "list" /\ S!Body(r))
    /\ \A r \in Requests : SF_listVars(focus = "list" /\ S!Lock(r))
    /\ WF_wsVars(focus = "websocket" /\ W!Dialer)
    /\ WF_wsVars(focus = "websocket" /\ W!Reader)
    /\ WF_wsVars(focus = "websocket" /\ W!Notifier)
    /\ WF_wsVars(focus = "websocket" /\ W!PingEnds)

-----------------------------------------------------------------------------
(* Properties: those of the parts, which hold of a part at rest as well.    *)

\* Of players and backends that follow the protocol: no login fails, packets arrive in order,
\* and the player's link is set up at both ends before the relay turns to the backend.
LoginSound == L!HonestNeverFails /\ L!InOrder /\ L!SetUpBeforeBackend

\* A player who joins, if the login runs, ends up in the game or is told why not.
JoinsOrIsTold == []<>(focus = "login" => L!JoinedOrTold)

\* Over HTTP a request is given its own answer, and one that ends without leaves no
\* connection behind; over a websocket, which has its credentials, signals reach the
\* listener in order.
SignalingDelivers ==
    /\ H!AnswersArrive /\ H!NoneHalfOpen
    /\ W!SignalsInOrder /\ W!ReadyWithCredentials

\* Every request for the entry is answered, with one request to the backend for a
\* burst of them, and the entry comes to show the backend.
ShowsBackend == S!Answered /\ S!BackendSpared /\ S!ShowsBackend

\* Every dial over HTTP ends, and so do the goroutines of a dead websocket.
NothingLingers == H!EveryJoinEnds /\ W!GoroutinesEnd

=============================================================================
