----------------------------- MODULE PlayerRelay -----------------------------
(***************************************************************************)
(* bridge/relay.go and bridge/pingserver.go: HandleConn takes one accepted *)
(* connection from the player's login to the end of the relay, and keeps   *)
(* the registry of connected players that the ping API and the inviters    *)
(* read.  Several connections, also of one player, are handled at once.    *)
(*                                                                         *)
(* The login itself is LoginLink's; here it succeeds or fails.  An entry   *)
(* of the registry is a pointer of which each connection makes one, so the *)
(* entry goes by the name of its connection.                               *)
(***************************************************************************)
EXTENDS Naturals, FiniteSets

CONSTANTS
    Conns,         \* connections accepted
    Players,       \* XUIDs
    Allowed        \* those AllowXUID lets in

ASSUME RelayAssumption == Allowed \subseteq Players

NoConn == "none"
NoPlayer == "nobody"
ASSUME NoneAssumption == NoConn \notin Conns /\ NoPlayer \notin Players

Up == "up"        \* client to backend
Down == "down"    \* backend to client
Directions == {Up, Down}

VARIABLES
    pc,        \* pc[c]: where HandleConn of connection c is
    xuid,      \* xuid[c]: the player it has authenticated
    client,    \* client[c]: the player's end: open, or closed by either side
    backend,   \* backend[c]: the backend leg: none, open, silent or closed
    pump,      \* pump[c][d]: the goroutine copying packets in direction d
    errCh,     \* errCh[c]: errors waiting in the channel
    registry,  \* registry[x]: the connection whose entry player x has
    legs,      \* legs[x]: the connection whose backend leg that entry holds
    ctxDone,   \* the context of the process has ended
    last       \* history: last[x]: the last connection registered for x

connVars == <<pc, xuid, client, backend>>
pumpVars == <<pump, errCh>>
regVars == <<registry, legs, last>>
vars == <<connVars, pumpVars, regVars, ctxDone>>

\* Capacity of errCh: one place for each pump.
ErrChSize == 2

Steps == {"none", "login", "admitted", "dialing", "dialed", "forwarding",
          "joined", "relaying", "closing", "unregistered", "done"}

PumpSteps == {"off", "copying", "failed", "ended"}

TypeOK ==
    /\ pc \in [Conns -> Steps]
    /\ xuid \in [Conns -> Players \cup {NoPlayer}]
    /\ client \in [Conns -> {"open", "closed"}]
    /\ backend \in [Conns -> {"none", "open", "silent", "closed"}]
    /\ pump \in [Conns -> [Directions -> PumpSteps]]
    /\ errCh \in [Conns -> 0..ErrChSize]
    /\ registry \in [Players -> Conns \cup {NoConn}]
    /\ last \in [Players -> Conns \cup {NoConn}]
    /\ legs \in [Players -> Conns \cup {NoConn}]
    /\ ctxDone \in BOOLEAN

Init ==
    /\ pc = [c \in Conns |-> "none"] /\ xuid = [c \in Conns |-> NoPlayer]
    /\ client = [c \in Conns |-> "open"] /\ backend = [c \in Conns |-> "none"]
    /\ pump = [c \in Conns |-> [d \in Directions |-> "off"]]
    /\ errCh = [c \in Conns |-> 0]
    /\ registry = [x \in Players |-> NoConn] /\ last = registry
    /\ legs = registry
    /\ ctxDone = FALSE

Goto(c, step) == pc' = [pc EXCEPT ![c] = step]

-----------------------------------------------------------------------------
(* Outside: the player, the backend, the process.                          *)

Accept(c) ==
    /\ pc[c] = "none" /\ ~ctxDone
    /\ Goto(c, "login")
    /\ UNCHANGED <<xuid, client, backend, pumpVars, regVars, ctxDone>>

ClientLeaves(c) ==
    /\ pc[c] # "none" /\ client[c] = "open"
    /\ client' = [client EXCEPT ![c] = "closed"]
    /\ UNCHANGED <<pc, xuid, backend, pumpVars, regVars, ctxDone>>

BackendCloses(c) ==
    /\ backend[c] \in {"open", "silent"}
    /\ backend' = [backend EXCEPT ![c] = "closed"]
    /\ UNCHANGED <<pc, xuid, client, pumpVars, regVars, ctxDone>>

\* It answers nothing any more and keeps the connection open.
BackendSilent(c) ==
    /\ backend[c] = "open"
    /\ backend' = [backend EXCEPT ![c] = "silent"]
    /\ UNCHANGED <<pc, xuid, client, pumpVars, regVars, ctxDone>>

Shutdown ==
    /\ ~ctxDone
    /\ ctxDone' = TRUE
    /\ UNCHANGED <<connVars, pumpVars, regVars>>

-----------------------------------------------------------------------------
(* HandleConn.                                                             *)

\* The player's login is read; it has no time limit of its own.
LoginSucceeds(c, x) ==
    /\ pc[c] = "login" /\ client[c] = "open"
    /\ xuid' = [xuid EXCEPT ![c] = x]
    /\ Goto(c, IF x \in Allowed THEN "admitted" ELSE "unregistered")
    /\ UNCHANGED <<client, backend, pumpVars, regVars, ctxDone>>

\* A login that is not genuine, malformed, or cut off.
LoginFails(c) ==
    /\ pc[c] = "login"
    /\ Goto(c, "unregistered")
    /\ UNCHANGED <<xuid, client, backend, pumpVars, regVars, ctxDone>>

\* registerPing: a new entry takes the place of an older one.
RegisterPing(c) ==
    /\ pc[c] = "admitted"
    /\ registry' = [registry EXCEPT ![xuid[c]] = c]
    /\ legs' = [legs EXCEPT ![xuid[c]] = NoConn]
    /\ last' = [last EXCEPT ![xuid[c]] = c]
    /\ Goto(c, "dialing")
    /\ UNCHANGED <<xuid, client, backend, pumpVars, ctxDone>>

DialSucceeds(c) ==
    /\ pc[c] = "dialing"
    /\ backend' = [backend EXCEPT ![c] = "open"]
    /\ Goto(c, "dialed")
    /\ UNCHANGED <<xuid, client, pumpVars, regVars, ctxDone>>

\* registerBackendPing: it goes by the player's XUID, so the entry may be that of
\* another connection of the player, or be gone.
RegisterBackendPing(c) ==
    /\ pc[c] = "dialed"
    /\ legs' = IF registry[xuid[c]] = NoConn THEN legs
               ELSE [legs EXCEPT ![xuid[c]] = c]
    /\ Goto(c, "forwarding")
    /\ UNCHANGED <<xuid, client, backend, pumpVars, registry, last, ctxDone>>

\* Mutant of AfterFailedDial: unregisterPing is deferred after the dial only.
AfterFailedDialUnregistered == "unregistered"

AfterFailedDial == "closing"

\* The dial has a time limit, and the process may be ending.
DialFails(c) ==
    /\ pc[c] = "dialing"
    /\ Goto(c, AfterFailedDial)
    /\ UNCHANGED <<xuid, client, backend, pumpVars, regVars, ctxDone>>

\* ForwardIdentity, which reads from the backend until it is logged in.
ForwardSucceeds(c) ==
    /\ pc[c] = "forwarding" /\ backend[c] = "open"
    /\ Goto(c, "joined")
    /\ UNCHANGED <<xuid, client, backend, pumpVars, regVars, ctxDone>>

\* The backend refuses the login, or its connection ends.
ForwardFails(c) ==
    /\ pc[c] = "forwarding" /\ backend[c] \in {"open", "closed"}
    /\ Goto(c, "closing")
    /\ UNCHANGED <<xuid, client, backend, pumpVars, regVars, ctxDone>>

\* OnJoin, and the pumps are started.
StartPumps(c) ==
    /\ pc[c] = "joined"
    /\ pump' = [pump EXCEPT ![c] = [d \in Directions |-> "copying"]]
    /\ Goto(c, "relaying")
    /\ UNCHANGED <<xuid, client, backend, errCh, regVars, ctxDone>>

\* Mutant of RelayEnds: both pumps are waited for.
RelayEndsWithBoth(c) ==
    /\ pc[c] = "relaying"
    /\ \/ errCh[c] = 2 /\ errCh' = [errCh EXCEPT ![c] = 0]
       \/ ctxDone /\ UNCHANGED errCh
    /\ Goto(c, "closing")
    /\ UNCHANGED <<xuid, client, backend, pump, regVars, ctxDone>>

\* The first error of either pump, or the end of the process.
RelayEnds(c) ==
    /\ pc[c] = "relaying"
    /\ \/ errCh[c] > 0 /\ errCh' = [errCh EXCEPT ![c] = @ - 1]
       \/ ctxDone /\ UNCHANGED errCh
    /\ Goto(c, "closing")
    /\ UNCHANGED <<xuid, client, backend, pump, regVars, ctxDone>>

\* Mutant of StillRegistered: the entry is deleted by the player's XUID alone.
StillRegisteredByXUID(c) == TRUE

\* unregisterPing deletes no entry but its own.
StillRegistered(c) == registry[xuid[c]] = c

\* The deferred calls: the backend leg is closed, the entry deleted ...
CloseBackend(c) ==
    /\ pc[c] = "closing"
    /\ backend' = [backend EXCEPT ![c] = IF @ = "none" THEN @ ELSE "closed"]
    /\ registry' = IF StillRegistered(c) THEN [registry EXCEPT ![xuid[c]] = NoConn]
                   ELSE registry
    /\ legs' = IF StillRegistered(c) THEN [legs EXCEPT ![xuid[c]] = NoConn] ELSE legs
    /\ Goto(c, "unregistered")
    /\ UNCHANGED <<xuid, client, pumpVars, last, ctxDone>>

\* ... and the player's connection closed.
CloseClient(c) ==
    /\ pc[c] = "unregistered"
    /\ client' = [client EXCEPT ![c] = "closed"]
    /\ Goto(c, "done")
    /\ UNCHANGED <<xuid, backend, pumpVars, regVars, ctxDone>>

-----------------------------------------------------------------------------
(* pump.                                                                   *)

SetPump(c, d, step) == pump' = [pump EXCEPT ![c][d] = step]

\* Can the leg direction d reads from, or writes to, be used?
Readable(c, d) == IF d = Up THEN client[c] = "open" ELSE backend[c] = "open"
ReadEnds(c, d) == IF d = Up THEN client[c] = "closed" ELSE backend[c] = "closed"
Writable(c, d) == IF d = Up THEN backend[c] # "closed" ELSE client[c] = "open"

\* A packet that is copied changes nothing modelled; the end of the leg read from
\* is noticed at once ...
ReadFails(c, d) ==
    /\ pump[c][d] = "copying" /\ ReadEnds(c, d)
    /\ SetPump(c, d, "failed")
    /\ UNCHANGED <<connVars, errCh, regVars, ctxDone>>

\* ... and that of the other with the next packet, if one comes.
WriteFails(c, d) ==
    /\ pump[c][d] = "copying" /\ Readable(c, d) /\ ~Writable(c, d)
    /\ SetPump(c, d, "failed")
    /\ UNCHANGED <<connVars, errCh, regVars, ctxDone>>

\* Mutant of HasRoom: the channel has one place only.
HasRoomForOne(c) == errCh[c] < 1

HasRoom(c) == errCh[c] < ErrChSize

\* errCh <- err, and the pump returns.
Report(c, d) ==
    /\ pump[c][d] = "failed" /\ HasRoom(c)
    /\ errCh' = [errCh EXCEPT ![c] = @ + 1]
    /\ SetPump(c, d, "ended")
    /\ UNCHANGED <<connVars, regVars, ctxDone>>

-----------------------------------------------------------------------------
Outside == \/ \E c \in Conns : Accept(c) \/ ClientLeaves(c) \/ BackendCloses(c)
                               \/ BackendSilent(c)
           \/ Shutdown

LoggedIn(c) == \E x \in Players : LoginSucceeds(c, x)

Handle(c) == LoggedIn(c) \/ LoginFails(c) \/ RegisterPing(c)
             \/ DialSucceeds(c) \/ DialFails(c) \/ RegisterBackendPing(c)
             \/ ForwardSucceeds(c) \/ ForwardFails(c) \/ StartPumps(c) \/ RelayEnds(c)
             \/ CloseBackend(c) \/ CloseClient(c)

Pump(c, d) == ReadFails(c, d) \/ WriteFails(c, d) \/ Report(c, d)

Next == Outside \/ \E c \in Conns : Handle(c) \/ \E d \in Directions : Pump(c, d)

\* Goroutines run.  Nothing is assumed of what the player or the backend sends, but
\* that a backend which is not silent answers a login, and that a dial ends, as
\* its time limit sees to.
Fairness ==
    /\ \A c \in Conns :
          WF_vars((pc[c] = "login" => client[c] = "closed") /\ Handle(c))
    /\ \A c \in Conns, d \in Directions :
          WF_vars(ReadFails(c, d) \/ Report(c, d))

Spec == Init /\ [][Next]_vars

FairSpec == Spec /\ Fairness

-----------------------------------------------------------------------------
(* Properties.                                                             *)

Active(c) == pc[c] \in {"dialing", "dialed", "forwarding", "joined", "relaying"}

\* "an unregisterPing call only ever removes the entry it is actually responsible
\* for" (pingserver.go:75-76): the last connection a player has made stays in the
\* registry while it is handled, whatever older ones do meanwhile.
LastRegistered ==
    \A c \in Conns : Active(c) /\ last[xuid[c]] = c => registry[xuid[c]] = c

\* The registry does not outlive connections: on every path out of HandleConn the
\* entry is gone, or belongs to a connection still handled (relay.go:162-163).
NoStaleEntry ==
    \A x \in Players : registry[x] # NoConn =>
       /\ xuid[registry[x]] = x
       /\ Active(registry[x]) \/ pc[registry[x]] = "closing"

\* The registered connection of a player has both its legs once it is dialed, so
\* that /ping reports "the real end-to-end round trip" (pingserver.go:56-57), and
\* neither is another player's.
BothLegs ==
    \A x \in Players :
       /\ legs[x] # NoConn => registry[x] # NoConn /\ xuid[legs[x]] = x
       /\ registry[x] # NoConn =>
             pc[registry[x]] \in {"dialing", "dialed", "closing"} \/ legs[x] # NoConn

\* The registry holds what is being handled: the newest connection of each player,
\* with both legs, and no connection that is over.
RegistryCurrent == LastRegistered /\ NoStaleEntry /\ BothLegs

\* When the player has gone, the connection is given up in the end and neither of
\* its pumps hangs on its error, though HandleConn only ever reads one of the two
\* (relay.go:206-225); unless a backend that keeps silent is waited for, which has
\* no time limit (relay.go:188).
GoneIsDone ==
    \A c \in Conns :
       []<>(client[c] = "closed" =>
              \/ pc[c] = "done" /\ \A d \in Directions : pump[c][d] # "failed"
              \/ pc[c] = "forwarding" /\ backend[c] = "silent")
=============================================================================
