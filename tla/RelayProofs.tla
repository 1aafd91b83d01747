----------------------------- MODULE RelayProofs -----------------------------
(***************************************************************************)
(* Proofs about MCRelay and its parts: the registry of connected players,  *)
(* for any number of connections and players; joins over HTTP, for any     *)
(* number of joins and clients; the websocket, for any number of signals;  *)
(* and the login of a player on both links, for streams of any length and  *)
(* every way to batch them.                                                *)
(***************************************************************************)
EXTENDS MCRelay, TLAPS

\* The steps HandleConn goes through with unregisterPing deferred.
Held == {"dialing", "dialed", "forwarding", "joined", "relaying", "closing"}

\* The leg of an entry is that of a connection past its login, whose player it
\* therefore keeps.
LegsOwned ==
    /\ BothLegs
    /\ \A x \in Players : legs[x] # NoConn => pc[legs[x]] \notin {"none", "login"}

\* What the properties rest on: an entry is found under the player of its
\* connection, which still holds it, and a connection past its login knows its
\* player.
RegInv ==
    /\ TypeOK
    /\ \A c \in Conns : pc[c] \in Held \cup {"admitted"} => xuid[c] \in Players
    /\ NoStaleEntry
    /\ LastRegistered
    /\ LegsOwned

LEMMA InitReg == Init => RegInv
<1> SUFFICES ASSUME Init PROVE RegInv
  OBVIOUS
<1>1. /\ \A c \in Conns : pc[c] = "none"
      /\ \A x \in Players : registry[x] = NoConn
      /\ \A x \in Players : legs[x] = NoConn
  BY DEF Init
<1>2. TypeOK
  <2>1. /\ pc \in [Conns -> Steps]
        /\ xuid \in [Conns -> Players \cup {NoPlayer}]
        /\ client \in [Conns -> {"open", "closed"}]
        /\ backend \in [Conns -> {"none", "open", "silent", "closed"}]
    BY DEF Init, Steps
  <2>2. pump \in [Conns -> [Directions -> PumpSteps]]
    BY DEF Init, PumpSteps
  <2>3. errCh \in [Conns -> 0..ErrChSize]
    BY DEF Init, ErrChSize
  <2>4. /\ registry \in [Players -> Conns \cup {NoConn}]
        /\ last \in [Players -> Conns \cup {NoConn}]
        /\ legs \in [Players -> Conns \cup {NoConn}]
        /\ ctxDone \in BOOLEAN
    BY DEF Init
  <2>5. QED
    BY <2>1, <2>2, <2>3, <2>4 DEF TypeOK
<1>3. QED
  BY <1>1, <1>2 DEF RegInv, NoStaleEntry, LastRegistered, Active, LegsOwned, BothLegs,
                    Held

LEMMA NextReg == RegInv /\ [Next]_vars => RegInv'
<1> SUFFICES ASSUME RegInv, [Next]_vars PROVE RegInv'
  OBVIOUS
<1> USE RelayAssumption, NoneAssumption
<1>1. CASE UNCHANGED vars
  BY <1>1 DEF RegInv, TypeOK, NoStaleEntry, LastRegistered, Active, LegsOwned, BothLegs,
              vars, connVars, pumpVars, regVars
<1>2. CASE Shutdown
  BY <1>2 DEF RegInv, TypeOK, NoStaleEntry, LastRegistered, Active, LegsOwned, BothLegs,
              Shutdown, connVars, pumpVars, regVars
<1>3. ASSUME NEW c \in Conns,
             Accept(c) \/ ClientLeaves(c) \/ BackendCloses(c) \/ BackendSilent(c)
      PROVE  RegInv'
  <2>1. TypeOK'
    BY <1>3 DEF RegInv, TypeOK, Accept, ClientLeaves, BackendCloses, BackendSilent,
                Goto, Steps, pumpVars, regVars
  <2>2. /\ UNCHANGED <<xuid, registry, legs, last>>
        /\ \/ UNCHANGED pc
           \/ pc[c] = "none" /\ pc' = [pc EXCEPT ![c] = "login"]
    BY <1>3 DEF Accept, ClientLeaves, BackendCloses, BackendSilent, Goto, regVars
  <2>3. NoStaleEntry' /\ LastRegistered'
    BY <2>2 DEF RegInv, TypeOK, NoStaleEntry, LastRegistered, Active
  <2>4. LegsOwned'
    BY <2>2 DEF RegInv, TypeOK, LegsOwned, BothLegs, NoStaleEntry, Active
  <2>5. QED
    BY <2>1, <2>2, <2>3, <2>4 DEF RegInv, TypeOK, Held
<1>4. ASSUME NEW c \in Conns, NEW x \in Players, LoginSucceeds(c, x)
      PROVE  RegInv'
  <2>1. TypeOK'
    BY <1>4 DEF RegInv, TypeOK, LoginSucceeds, Goto, Steps, pumpVars, regVars
  <2>2. NoStaleEntry' /\ LastRegistered'
    BY <1>4 DEF RegInv, TypeOK, NoStaleEntry, LastRegistered, Active, LoginSucceeds,
                Goto, regVars
  <2>3. LegsOwned'
    <3>1. /\ pc[c] = "login"
          /\ \A k \in Conns \ {c} : pc'[k] = pc[k] /\ xuid'[k] = xuid[k]
          /\ pc'[c] \in {"admitted", "unregistered"}
          /\ UNCHANGED <<registry, legs>>
      BY <1>4 DEF RegInv, TypeOK, LoginSucceeds, Goto, regVars
    <3>2. \A y \in Players : legs[y] # NoConn => legs[y] \in Conns \ {c}
      BY <3>1 DEF RegInv, TypeOK, LegsOwned
    <3>3. \A y \in Players : registry[y] # NoConn => registry[y] \in Conns \ {c}
      BY <3>1 DEF RegInv, TypeOK, NoStaleEntry, Active
    <3>4. QED
      BY <3>1, <3>2, <3>3 DEF RegInv, LegsOwned, BothLegs
  <2>4. QED
    BY <1>4, <2>1, <2>2, <2>3 DEF RegInv, TypeOK, Held, LoginSucceeds, Goto
<1>5. ASSUME NEW c \in Conns, LoginFails(c)
      PROVE  RegInv'
  BY <1>5 DEF RegInv, TypeOK, NoStaleEntry, LastRegistered, Active, LegsOwned, BothLegs,
              Held, LoginFails, Goto, Steps, pumpVars, regVars
<1>6. ASSUME NEW c \in Conns, RegisterPing(c)
      PROVE  RegInv'
  <2>1. xuid[c] \in Players
    BY <1>6 DEF RegInv, RegisterPing
  <2>2. TypeOK'
    BY <1>6, <2>1 DEF RegInv, TypeOK, RegisterPing, Goto, Steps, pumpVars
  <2>3. NoStaleEntry'
    BY <1>6, <2>1 DEF RegInv, TypeOK, NoStaleEntry, Active, RegisterPing, Goto
  <2>4. LastRegistered'
    BY <1>6, <2>1 DEF RegInv, TypeOK, LastRegistered, Active, Held, RegisterPing, Goto
  <2>5. LegsOwned'
    BY <1>6, <2>1 DEF RegInv, TypeOK, LegsOwned, BothLegs, NoStaleEntry, Active,
                      RegisterPing, Goto
  <2>6. QED
    BY <1>6, <2>1, <2>2, <2>3, <2>4, <2>5 DEF RegInv, TypeOK, Held, RegisterPing, Goto
<1>7. ASSUME NEW c \in Conns, DialSucceeds(c) \/ DialFails(c) \/ ForwardSucceeds(c)
                              \/ ForwardFails(c) \/ StartPumps(c) \/ RelayEnds(c)
      PROVE  RegInv'
  <2>1. TypeOK'
    <3> USE DEF RegInv, TypeOK, Goto, Steps, pumpVars, regVars
    <3>1. CASE DialSucceeds(c) \/ DialFails(c) \/ ForwardSucceeds(c) \/ ForwardFails(c)
      BY <3>1 DEF DialSucceeds, DialFails, AfterFailedDial, ForwardSucceeds,
                  ForwardFails
    <3>2. CASE StartPumps(c)
      BY <3>2 DEF StartPumps, PumpSteps
    <3>3. CASE RelayEnds(c)
      BY <3>3 DEF RelayEnds, ErrChSize
    <3>4. QED
      BY <1>7, <3>1, <3>2, <3>3
  <2>2. /\ pc[c] \in Held
        /\ pc' \in {[pc EXCEPT ![c] = s] : s \in Held}
        /\ UNCHANGED <<xuid, registry, legs, last>>
    BY <1>7 DEF Held, DialSucceeds, DialFails, AfterFailedDial, ForwardSucceeds,
                ForwardFails, StartPumps, RelayEnds, Goto, regVars
  <2>3. Active(c)' => Active(c)
    BY <1>7 DEF RegInv, TypeOK, Active, DialSucceeds, DialFails, AfterFailedDial,
                ForwardSucceeds, ForwardFails, StartPumps, RelayEnds, Goto
  <2>4. pc'[c] \in Held /\ \A k \in Conns \ {c} : pc'[k] = pc[k]
    BY <2>2 DEF RegInv, TypeOK
  <2>5. NoStaleEntry'
    BY <2>2, <2>4 DEF RegInv, TypeOK, NoStaleEntry, Active, Held
  <2>6. LastRegistered'
    BY <2>2, <2>3, <2>4 DEF RegInv, LastRegistered, Active
  <2>7. pc'[c] \in {"forwarding", "joined", "relaying"} =>
           pc[c] \in {"forwarding", "joined", "relaying"}
    BY <1>7 DEF RegInv, TypeOK, DialSucceeds, DialFails, AfterFailedDial,
                ForwardSucceeds, ForwardFails, StartPumps, RelayEnds, Goto
  <2>8. LegsOwned'
    BY <2>2, <2>4, <2>7 DEF RegInv, TypeOK, LegsOwned, BothLegs, NoStaleEntry, Active,
                            Held
  <2>9. QED
    BY <2>1, <2>2, <2>4, <2>5, <2>6, <2>8 DEF RegInv
<1>8. ASSUME NEW c \in Conns, CloseBackend(c)
      PROVE  RegInv'
  <2>1. xuid[c] \in Players
    BY <1>8 DEF RegInv, CloseBackend, Held
  <2>2. TypeOK'
    BY <1>8, <2>1 DEF RegInv, TypeOK, CloseBackend, Goto, Steps, pumpVars
  <2>3. NoStaleEntry'
    BY <1>8, <2>1 DEF RegInv, TypeOK, NoStaleEntry, Active, CloseBackend,
                      StillRegistered, Goto
  <2>4. LastRegistered'
    BY <1>8, <2>1 DEF RegInv, TypeOK, NoStaleEntry, LastRegistered, Active, Held,
                      CloseBackend, StillRegistered, Goto
  <2>5. LegsOwned'
    BY <1>8, <2>1 DEF RegInv, TypeOK, LegsOwned, BothLegs, NoStaleEntry, Active,
                      CloseBackend, StillRegistered, Goto
  <2>6. QED
    BY <1>8, <2>2, <2>3, <2>4, <2>5 DEF RegInv, TypeOK, Held, CloseBackend, Goto
<1>9. ASSUME NEW c \in Conns, CloseClient(c)
       PROVE  RegInv'
  BY <1>9 DEF RegInv, TypeOK, NoStaleEntry, LastRegistered, Active, LegsOwned, BothLegs,
              Held, CloseClient, Goto, Steps, pumpVars, regVars
<1>10. ASSUME NEW c \in Conns, NEW d \in Directions, Pump(c, d)
       PROVE  RegInv'
  <2>1. TypeOK'
    <3> USE DEF RegInv, TypeOK, SetPump, PumpSteps, connVars, regVars
    <3>1. CASE ReadFails(c, d)
      BY <3>1 DEF ReadFails
    <3>2. CASE WriteFails(c, d)
      BY <3>2 DEF WriteFails
    <3>3. CASE Report(c, d)
      <4>1. errCh[c] + 1 \in 0..ErrChSize
        <5>1. errCh[c] \in 0..ErrChSize
          OBVIOUS
        <5>2. errCh[c] < ErrChSize
          BY <3>3 DEF Report, HasRoom
        <5> QED
          BY <5>1, <5>2 DEF ErrChSize
      <4>2. /\ errCh' = [errCh EXCEPT ![c] = errCh[c] + 1]
            /\ pump' = [pump EXCEPT ![c][d] = "ended"]
            /\ UNCHANGED <<connVars, regVars, ctxDone>>
        BY <3>3 DEF Report
      <4>3. errCh' \in [Conns -> 0..ErrChSize]
        BY <4>1, <4>2
      <4>4. pump' \in [Conns -> [Directions -> PumpSteps]]
        BY <4>2
      <4> QED
        BY <4>2, <4>3, <4>4
    <3>4. QED
      BY <1>10, <3>1, <3>2, <3>3 DEF Pump
  <2>2. UNCHANGED <<connVars, regVars>>
    BY <1>10 DEF Pump, ReadFails, WriteFails, Report
  <2>3. QED
    BY <2>1, <2>2 DEF RegInv, NoStaleEntry, LastRegistered, Active, LegsOwned, BothLegs,
                      connVars, regVars
<1>11. ASSUME NEW c \in Conns, RegisterBackendPing(c)
       PROVE  RegInv'
  <2>1. xuid[c] \in Players
    BY <1>11 DEF RegInv, RegisterBackendPing, Held
  <2>2. registry[xuid[c]] # NoConn =>
           /\ registry[xuid[c]] \in Conns
           /\ xuid[registry[xuid[c]]] = xuid[c]
           /\ pc[registry[xuid[c]]] \notin {"none", "login"}
    BY <2>1 DEF RegInv, TypeOK, NoStaleEntry, Active
  <2>3. TypeOK'
    BY <1>11, <2>2 DEF RegInv, TypeOK, RegisterBackendPing, Goto, Steps, pumpVars
  <2>4. NoStaleEntry' /\ LastRegistered'
    BY <1>11 DEF RegInv, TypeOK, NoStaleEntry, LastRegistered, Active,
                 RegisterBackendPing, Goto
  <2>5. LegsOwned'
    BY <1>11, <2>1, <2>2 DEF RegInv, TypeOK, LegsOwned, BothLegs, NoStaleEntry,
                             RegisterBackendPing, Goto
  <2>6. QED
    BY <1>11, <2>3, <2>4, <2>5 DEF RegInv, TypeOK, Held, RegisterBackendPing, Goto
<1>12. QED
  BY <1>1, <1>2, <1>3, <1>4, <1>5, <1>6, <1>7, <1>8, <1>9, <1>10, <1>11
  DEF Next, Outside, Handle, LoggedIn

LEMMA RegHolds == Spec => []RegInv
  BY InitReg, NextReg, PTL DEF Spec

\* An entry of the registry (bridge/pingserver.go) belongs to a connection of that
\* player that HandleConn has not yet left, on every path out of it.
THEOREM RelayNoStaleEntry == Spec => []NoStaleEntry
<1>1. RegInv => NoStaleEntry
  BY DEF RegInv
<1> QED
  BY <1>1, RegHolds, PTL

\* unregisterPing of an older connection never removes the entry of the player's
\* newest one, however many are handled at once.
THEOREM RelayLastRegistered == Spec => []LastRegistered
<1>1. RegInv => LastRegistered
  BY DEF RegInv
<1> QED
  BY <1>1, RegHolds, PTL

\* All together: what a request for a ping finds in the registry is the newest
\* connection of its player, and one that is still handled.
THEOREM RelayRegistryCurrent == Spec => []RegistryCurrent
<1>1. RegInv => RegistryCurrent
  BY DEF RegInv, RegistryCurrent, LegsOwned, BothLegs
<1> QED
  BY <1>1, RegHolds, PTL

-----------------------------------------------------------------------------
(* HttpJoin: joins over HTTP signaling.                                    *)

\* The functions the argument looks into have the joins, and the keys, as domain.
HttpShape ==
    /\ DOMAIN step = Joins /\ DOMAIN pending = H!Keys
    /\ DOMAIN ch = Joins /\ DOMAIN sig = Joins

\* Between its registration and its deferred delete a request is under its key.
Parked ==
    \A j \in Joins : step[j] \in H!Waiting => pending[H!KeyOf(j)] = {j}

\* No other request is under it, and what is on its way to a request, or in its
\* channel, is its own.
Routed ==
    /\ \A j \in Joins : pending[H!KeyOf(j)] \in {{j}, {}}
    /\ \A j \in Joins : sig[j] # H!NoCall => sig[j].to = {j} /\ sig[j].result.of = j
    /\ \A j \in Joins : ch[j] # H!NoResult => ch[j].of = j

HttpInv == HttpShape /\ Parked /\ Routed /\ H!AnswersArrive

\* Before anything has happened, nothing is on its way.
LEMMA HttpInit == H!Init => HttpInv
BY DEF H!Init, HttpInv, HttpShape, Parked, Routed, H!AnswersArrive, H!KeyOf, H!Keys,
       H!Waiting

\* The steps of the dialing side, of time and of handleOffer that touch neither
\* the map nor a channel.
LEMMA HttpOwnStep ==
  ASSUME HttpInv, NEW j \in Joins, NEW s, UNCHANGED <<pending, ch, sig, missed>>,
         H!Goto(j, s), s \in H!Waiting => step[j] \in H!Waiting
  PROVE  HttpInv'
BY DEF HttpInv, HttpShape, Parked, Routed, H!AnswersArrive, H!Goto, H!KeyOf

\* No step leads an answer astray.
LEMMA HttpStep == HttpInv /\ [H!Next]_httpVars => HttpInv'
<1> SUFFICES ASSUME HttpInv, [H!Next]_httpVars PROVE HttpInv'
  OBVIOUS
<1> USE DEF H!KeyOf
<1>1. CASE UNCHANGED httpVars
  BY <1>1 DEF httpVars, H!serverVars, H!listenerVars, HttpInv, HttpShape, Parked,
              Routed, H!AnswersArrive
<1>2. CASE H!Shutdown
  BY <1>2 DEF H!Shutdown, H!serverVars, HttpInv, HttpShape, Parked, Routed,
              H!AnswersArrive
<1>3. ASSUME NEW j \in Joins, H!DialGivesUp(j) \/ H!Response(j) \/ H!TimePasses(j)
                              \/ H!Accepted(j)
      PROVE  HttpInv'
  BY <1>3 DEF H!DialGivesUp, H!Response, H!TimePasses, H!Accepted, H!serverVars,
              H!listenerVars, HttpInv, HttpShape, Parked, Routed, H!AnswersArrive
<1>4. ASSUME NEW j \in Joins, H!Dial(j) \/ H!ReadOffer(j) \/ H!RefuseOffer(j)
                              \/ H!LookUpNotifier(j)
      PROVE  HttpInv'
  <2>1. UNCHANGED <<pending, ch, sig, missed>>
    BY <1>4 DEF H!Dial, H!ReadOffer, H!RefuseOffer, H!LookUpNotifier, H!listenerVars
  <2>2. \E s \in {"reading", "lookup", "register", "done"} : H!Goto(j, s)
    BY <1>4 DEF H!Dial, H!ReadOffer, H!RefuseOffer, H!LookUpNotifier
  <2> QED
    BY <2>1, <2>2, HttpOwnStep DEF H!Waiting
<1>5. ASSUME NEW j \in Joins, H!OfferTaken(j) \/ H!OfferDeclined(j) \/ H!ContextEnds(j)
                              \/ H!Abandon(j)
      PROVE  HttpInv'
  <2>1. UNCHANGED <<pending, ch, sig, missed>> /\ step[j] \in H!Waiting
    BY <1>5 DEF H!OfferTaken, H!OfferDeclined, H!ContextEnds, H!Abandon, H!listenerVars,
                H!Waiting
  <2>2. \E s : H!Goto(j, s)
    BY <1>5 DEF H!OfferTaken, H!OfferDeclined, H!ContextEnds, H!Abandon
  <2> QED
    BY <2>1, <2>2, HttpOwnStep
<1>6. ASSUME NEW j \in Joins, H!Register(j) PROVE HttpInv'
  BY <1>6 DEF H!Register, H!Goto, H!listenerVars, HttpInv, HttpShape, Parked, Routed,
              H!AnswersArrive, H!Keys
<1>7. ASSUME NEW j \in Joins, H!TakeResult(j) PROVE HttpInv'
  BY <1>7 DEF H!TakeResult, H!Goto, H!listenerVars, HttpInv, HttpShape, Parked, Routed,
              H!AnswersArrive, H!Waiting
<1>8. ASSUME NEW j \in Joins, H!Return(j) PROVE HttpInv'
  BY <1>8 DEF H!Return, H!Goto, H!listenerVars, HttpInv, HttpShape, Parked, Routed,
              H!AnswersArrive, H!Keys, H!Waiting
<1>9. ASSUME NEW j \in Joins, NEW type \in {"answer", "error"}, H!Signal(j, type)
      PROVE  HttpInv'
  <2>1. pending[j] = {} => step[j] # "waiting"
    BY DEF HttpInv, Parked, H!Waiting
  <2>2. missed' = missed /\ UNCHANGED <<step, pending, ch>>
    BY <1>9, <2>1 DEF H!Signal, H!serverVars
  <2>3. \/ sig' = [sig EXCEPT ![j] = H!NoCall]
        \/ sig' = [sig EXCEPT ![j] = [result |-> [type |-> type, of |-> j], to |-> {j}]]
    BY <1>9 DEF H!Signal, HttpInv, Routed
  <2>4. Routed' /\ HttpShape'
    BY <2>2, <2>3 DEF HttpInv, HttpShape, Routed
  <2> QED
    BY <2>2, <2>4 DEF HttpInv, Parked, H!AnswersArrive
<1>10. ASSUME NEW j \in Joins, H!SignalSent(j) PROVE HttpInv'
  <2>1. sig[j] # H!NoCall
    BY <1>10 DEF H!SignalSent, H!NoCall
  <2>2. sig[j].to = {j} /\ sig[j].result.of = j
    BY <2>1 DEF HttpInv, Routed
  <2>3. ch' = [ch EXCEPT ![j] = sig[j].result] /\ sig' = [sig EXCEPT ![j] = H!NoCall]
    BY <1>10, <2>2 DEF H!SignalSent
  <2>4. UNCHANGED <<step, pending, missed>>
    BY <1>10 DEF H!SignalSent
  <2> QED
    BY <2>2, <2>3, <2>4 DEF HttpInv, HttpShape, Parked, Routed, H!AnswersArrive
<1>11. ASSUME NEW j \in Joins, H!SignalFails(j) PROVE HttpInv'
  BY <1>11 DEF H!SignalFails, H!serverVars, HttpInv, HttpShape, Parked, Routed,
               H!AnswersArrive
<1> QED
  BY <1>1, <1>2, <1>3, <1>4, <1>5, <1>6, <1>7, <1>8, <1>9, <1>10, <1>11
  DEF H!Next, H!HandleOffer, H!Listener

\* The connection of join j goes with its request: there is none before the
\* listener has the offer, and an error that is on its way to the request, in its
\* channel or in its response is that of a connection that is gone.
Tied(j) ==
    /\ step[j] \in {"none", "reading", "lookup", "register", "notify"} => conn[j] = "none"
    /\ sig[j] # H!NoCall =>
         conn[j] # "none" /\ (sig[j].result.type = "answer" \/ conn[j] = "gone")
    /\ ch[j] # H!NoResult => ch[j].type = "answer" \/ conn[j] = "gone"
    /\ step[j] \in {"return", "done"} /\ status[j] \notin {"none", "ok"} =>
         conn[j] \in {"none", "gone"}

ConnInv ==
    /\ DOMAIN conn = Joins /\ DOMAIN status = Joins
    /\ \A j \in Joins : Tied(j)

\* There is no request without a dial.
Undialed == \A j \in Joins : dial[j] = "idle" => step[j] = "none"

LEMMA UndialedStep ==
  ASSUME HttpInv, DOMAIN dial = Joins, Undialed, [H!Next]_httpVars
  PROVE  DOMAIN dial' = Joins /\ Undialed'
<1> USE DEF Undialed, HttpInv, HttpShape, H!Goto
<1>1. ASSUME NEW j \in Joins, H!HandleOffer(j) PROVE DOMAIN dial' = Joins /\ Undialed'
  <2>1. /\ UNCHANGED dial /\ step[j] # "none"
        /\ \E s : step' = [step EXCEPT ![j] = s]
    BY <1>1 DEF H!HandleOffer, H!ReadOffer, H!RefuseOffer, H!LookUpNotifier, H!Register,
       H!OfferTaken, H!OfferDeclined, H!TakeResult, H!ContextEnds, H!Abandon, H!Return
  <2> QED
    BY <2>1
<1>2. ASSUME NEW j \in Joins, H!Dial(j) \/ H!DialGivesUp(j) \/ H!Response(j)
      PROVE  DOMAIN dial' = Joins /\ Undialed'
  BY <1>2 DEF H!Dial, H!DialGivesUp, H!Response, H!serverVars
<1>3. ASSUME NEW j \in Joins, H!TimePasses(j) \/ H!Listener(j)
      PROVE  DOMAIN dial' = Joins /\ Undialed'
  <2>1. UNCHANGED <<dial, step>>
    BY <1>3 DEF H!TimePasses, H!Listener, H!Signal, H!SignalSent, H!SignalFails,
                H!Accepted, H!serverVars
  <2> QED
    BY <2>1
<1>4. CASE H!Shutdown
  BY <1>4 DEF H!Shutdown, H!serverVars
<1>5. CASE UNCHANGED httpVars
  BY <1>5 DEF httpVars
<1> QED
  BY <1>1, <1>2, <1>3, <1>4, <1>5 DEF H!Next

\* No step leaves a connection without its request: the inductive step.
LEMMA ConnStep ==
  ASSUME HttpInv, Undialed, ConnInv, [H!Next]_httpVars
  PROVE  ConnInv'
<1> USE DEF ConnInv, Tied, H!Goto, H!Answer
<1>0. DOMAIN step = Joins /\ DOMAIN ch = Joins /\ DOMAIN sig = Joins
  BY DEF HttpInv, HttpShape
<1>1. CASE UNCHANGED httpVars
  BY <1>1 DEF httpVars
<1>2. CASE H!Shutdown
  <2>1. UNCHANGED <<step, status, ch, sig>>
    BY <1>2 DEF H!Shutdown, H!serverVars
  <2>2. conn' = [j \in Joins |-> IF conn[j] = "none" THEN "none" ELSE "gone"]
    BY <1>2 DEF H!Shutdown
  <2> QED
    BY <2>1, <2>2
<1>3. ASSUME NEW j \in Joins, H!DialGivesUp(j) \/ H!Response(j) \/ H!TimePasses(j)
      PROVE  ConnInv'
  BY <1>3 DEF H!DialGivesUp, H!Response, H!TimePasses, H!serverVars, H!listenerVars
<1>4. ASSUME NEW j \in Joins, H!Dial(j) \/ H!ReadOffer(j) \/ H!RefuseOffer(j)
                              \/ H!LookUpNotifier(j) \/ H!Register(j)
      PROVE  ConnInv'
  <2>1. UNCHANGED <<conn, ch, sig>>
    BY <1>4 DEF H!Dial, H!ReadOffer, H!RefuseOffer, H!LookUpNotifier, H!Register,
                H!listenerVars
  <2>2. \E s \in {"reading", "lookup", "register", "notify", "done"} :
          step' = [step EXCEPT ![j] = s]
    BY <1>4 DEF H!Dial, H!ReadOffer, H!RefuseOffer, H!LookUpNotifier, H!Register
  <2>3. DOMAIN status' = Joins /\ \A k \in Joins \ {j} : status'[k] = status[k]
    BY <1>4 DEF H!Dial, H!ReadOffer, H!RefuseOffer, H!LookUpNotifier, H!Register
  <2>4. conn[j] = "none"
    <3>1. step[j] \in {"none", "reading", "lookup", "register", "notify"}
      BY <1>4 DEF H!Dial, Undialed, H!ReadOffer, H!RefuseOffer, H!LookUpNotifier,
                  H!Register
    <3> QED
      BY <3>1
  <2> QED
    BY <1>0, <2>1, <2>2, <2>3, <2>4
<1>5. ASSUME NEW j \in Joins, H!OfferTaken(j) PROVE ConnInv'
  BY <1>0, <1>5 DEF H!OfferTaken
<1>6. ASSUME NEW j \in Joins, H!OfferDeclined(j) \/ H!ContextEnds(j) PROVE ConnInv'
  BY <1>0, <1>6 DEF H!OfferDeclined, H!ContextEnds, H!listenerVars
<1>7. ASSUME NEW j \in Joins, H!TakeResult(j) PROVE ConnInv'
  BY <1>0, <1>7 DEF H!TakeResult, H!listenerVars
<1>8. ASSUME NEW j \in Joins, H!Abandon(j) PROVE ConnInv'
  BY <1>0, <1>8 DEF H!Abandon
<1>9. ASSUME NEW j \in Joins, H!Return(j) PROVE ConnInv'
  BY <1>0, <1>9 DEF H!Return, H!listenerVars
<1>10. ASSUME NEW j \in Joins, NEW type \in {"answer", "error"}, H!Signal(j, type)
       PROVE  ConnInv'
  <2> DEFINE to == pending[H!KeyOf(j)]
             failed == type = "error" \/ to = {}
             call == [result |-> [type |-> type, of |-> j], to |-> to]
  <2>1. /\ conn[j] # "none" /\ UNCHANGED <<step, status, ch>>
        /\ sig' = [sig EXCEPT ![j] = IF to = {} THEN H!NoCall ELSE call]
        /\ conn' = [conn EXCEPT ![j] = IF failed THEN "gone" ELSE "answered"]
        /\ conn[j] \in {"negotiating", "answered"}
    BY <1>10 DEF H!Signal, H!serverVars
  <2>2. call.result.type = type
    OBVIOUS
  <2>3. /\ sig'[j] # H!NoCall => sig'[j].result.type = "answer" \/ conn'[j] = "gone"
        /\ conn'[j] # "none"
    BY <1>0, <2>1, <2>2
  <2>4. \A k \in Joins \ {j} : sig'[k] = sig[k] /\ conn'[k] = conn[k]
    BY <1>0, <2>1
  <2>5. conn'[j] \in {"gone", "answered"} /\ (conn[j] = "gone" => conn'[j] = "gone")
    BY <2>1
  <2>6. Tied(j)'
    <3>1. ch[j] # H!NoResult => ch[j].type = "answer"
      BY <2>1
    <3>2. ~(step[j] \in {"none", "reading", "lookup", "register", "notify"})
      BY <2>1
    <3>3. ~(step[j] \in {"return", "done"} /\ status[j] \notin {"none", "ok"})
      BY <2>1
    <3> QED
      BY <2>1, <2>3, <3>1, <3>2, <3>3
  <2> QED
    BY <1>0, <2>1, <2>4, <2>6
<1>11. ASSUME NEW j \in Joins, H!SignalSent(j) PROVE ConnInv'
  <2>1. sig[j] # H!NoCall
    BY <1>11 DEF H!SignalSent, H!NoCall
  <2>2. sig[j].to = {j}
    BY <2>1 DEF HttpInv, Routed
  <2> QED
    BY <1>0, <1>11, <2>1, <2>2 DEF H!SignalSent
<1>12. ASSUME NEW j \in Joins, H!SignalFails(j) PROVE ConnInv'
  <2>1. /\ UNCHANGED <<step, status, ch>> /\ sig[j] # H!NoCall
        /\ sig' = [sig EXCEPT ![j] = H!NoCall] /\ conn' = [conn EXCEPT ![j] = "gone"]
    BY <1>12 DEF H!SignalFails, H!serverVars, H!NoCall
  <2> QED
    BY <1>0, <2>1
<1>13. ASSUME NEW j \in Joins, H!Accepted(j) PROVE ConnInv'
  <2>1. /\ UNCHANGED <<step, status, ch, sig>> /\ conn[j] = "answered"
        /\ conn' = [conn EXCEPT ![j] = "open"]
    BY <1>13 DEF H!Accepted, H!serverVars
  <2> QED
    BY <1>0, <2>1
<1> QED
  BY <1>1, <1>2, <1>3, <1>4, <1>5, <1>6, <1>7, <1>8, <1>9, <1>10, <1>11, <1>12,
     <1>13
  DEF H!Next, H!HandleOffer, H!Listener

-----------------------------------------------------------------------------
(* WebsocketSignaling: the signals of one connection.                      *)

\* The signal the listener waits for: the first that has not left the inbox.
NextSignal == Len(notified) + (IF reader = "handing" THEN 2 ELSE 1)

IsSignal(i) == inbox[i].kind = "signal"

WsMessage == [kind : W!Kinds, id : Nat]

WsType ==
    /\ inbox \in Seq(WsMessage) /\ notified \in Seq(Nat)
    /\ wsSent \in [W!Kinds -> Nat]
    /\ reader = "handing" => holding = Len(notified) + 1

\* The signals in the inbox are those from NextSignal on to the last that was sent,
\* and in that order.
InOrderInbox ==
    /\ \A i \in 1..Len(inbox) :
         IsSignal(i) => inbox[i].id >= NextSignal /\ inbox[i].id <= wsSent["signal"]
    /\ \A i, k \in 1..Len(inbox) :
         IsSignal(i) /\ IsSignal(k) /\ i < k => inbox[i].id < inbox[k].id
    /\ \A m \in Nat : m >= NextSignal /\ m <= wsSent["signal"] =>
         \E i \in 1..Len(inbox) : IsSignal(i) /\ inbox[i].id = m
    /\ NextSignal <= wsSent["signal"] + 1

\* The credentials are stored before anyone is told, and nothing is read before the
\* dial.
StoredFirst ==
    /\ dialer = "start" => reader = "off"
    /\ ready \/ reader = "announcing" => stored
    /\ dialer \in {"conn", "served", "stopped"} => stored

WsInv == WsType /\ W!SignalsInOrder /\ InOrderInbox /\ StoredFirst

\* A step that neither takes from the inbox nor adds to it, nor hands over.
LEMMA WsQuiet ==
  ASSUME WsInv, UNCHANGED <<inbox, wsSent, notified, holding>>,
         reader' # "handing", reader # "handing", StoredFirst'
  PROVE  WsInv'
BY DEF WsInv, WsType, W!SignalsInOrder, InOrderInbox, NextSignal, IsSignal

\* What is read is the signal that the listener waits for, or none.
LEMMA HeadNext ==
  ASSUME WsInv, reader # "handing", inbox # <<>>, Head(inbox).kind = "signal"
  PROVE  Head(inbox).id = Len(notified) + 1
<1>1. 1 \in 1..Len(inbox) /\ Head(inbox) = inbox[1] /\ IsSignal(1)
  BY DEF WsInv, WsType, IsSignal
<1>0. inbox[1] \in WsMessage
  BY <1>1 DEF WsInv, WsType
<1>2. inbox[1].id \in Nat /\ Len(notified) \in Nat /\ wsSent["signal"] \in Nat
  BY <1>0 DEF WsInv, WsType, WsMessage, W!Kinds
<1>3. inbox[1].id >= Len(notified) + 1 /\ inbox[1].id <= wsSent["signal"]
  BY <1>1 DEF WsInv, InOrderInbox, NextSignal
<1>4. PICK i \in 1..Len(inbox) : IsSignal(i) /\ inbox[i].id = Len(notified) + 1
  BY <1>2, <1>3 DEF WsInv, InOrderInbox, NextSignal
<1>5. i # 1 => inbox[1].id < inbox[i].id
  BY <1>1, <1>4 DEF WsInv, InOrderInbox
<1> QED
  BY <1>1, <1>2, <1>3, <1>4, <1>5

\* No step announces credentials that are not stored.
LEMMA StoredStep ==
  ASSUME WsType, StoredFirst, [W!Next]_wsVars PROVE StoredFirst'
<1> USE DEF StoredFirst, W!dialVars, W!wireVars, W!connVars
<1>1. CASE W!Reader
  <2>1. CASE W!ReadMessage
    <3>0. Head(inbox) \in WsMessage
      BY <2>1 DEF W!ReadMessage, WsType
    <3>1. Head(inbox).kind \in W!Kinds
      BY <3>0 DEF WsMessage
    <3>2. reader' # "announcing"
      BY <2>1, <3>1 DEF W!ReadMessage, W!AfterRead, W!Kinds
    <3> QED
      BY <2>1, <3>2 DEF W!ReadMessage
  <2>2. CASE W!StoreCredentials
    BY <2>2 DEF W!StoreCredentials
  <2>3. CASE W!CloseReady
    BY <2>3 DEF W!CloseReady
  <2>4. CASE W!HandOver \/ W!ReadFails
    BY <2>4 DEF W!HandOver, W!ReadFails
  <2> QED
    BY <1>1, <2>1, <2>2, <2>3, <2>4 DEF W!Reader
<1>2. CASE W!DialOk \/ W!DialFails \/ W!Dialer \/ W!Notify \/ W!Drop \/ W!StopNotify
  BY <1>2 DEF W!DialOk, W!DialFails, W!Dialer, W!DialReady, W!DialCancelled, W!Notify,
     W!Drop, W!StopNotify
<1>3. CASE W!Shutdown \/ W!Server \/ W!Break \/ W!Notifier \/ W!PingEnds
  BY <1>3 DEF W!Shutdown, W!Server, W!SendCredentials, W!SendSkipped, W!SendSignal,
              W!Send, W!Break, W!Notifier, W!NotifySignalReturns, W!NotifyEnds,
              W!PingEnds
<1>4. CASE UNCHANGED wsVars
  BY <1>4 DEF wsVars
<1> QED
  BY <1>1, <1>2, <1>3, <1>4 DEF W!Next

\* Every step keeps WsInv.
LEMMA WsStep == WsInv /\ [W!Next]_wsVars => WsInv'
<1> SUFFICES ASSUME WsInv, [W!Next]_wsVars PROVE WsInv'
  OBVIOUS
<1> USE DEF W!dialVars, W!wireVars, W!connVars
<1>1. StoredFirst'
  BY StoredStep DEF WsInv, WsType
<1>2. ASSUME UNCHANGED <<inbox, wsSent, notified, holding, reader>> PROVE WsInv'
  BY <1>1, <1>2 DEF WsInv, WsType, W!SignalsInOrder, InOrderInbox, NextSignal, IsSignal
<1>3. CASE W!DialOk \/ W!StoreCredentials \/ W!CloseReady \/ W!ReadFails
  <2>1. /\ UNCHANGED <<inbox, wsSent, notified, holding>>
        /\ reader \in {"off", "storing", "announcing", "reading"}
        /\ reader' \in {"reading", "announcing", "done"}
    BY <1>3 DEF W!DialOk, W!StoreCredentials, W!CloseReady, W!ReadFails, WsInv,
                StoredFirst
  <2> QED
    BY <1>1, <2>1, WsQuiet
<1>4. /\ Len(inbox) \in Nat /\ Len(notified) \in Nat /\ wsSent["signal"] \in Nat
      /\ \A i \in 1..Len(inbox) : inbox[i] \in WsMessage /\ inbox[i].id \in Nat
                                  /\ inbox[i].kind \in W!Kinds
  <2>1. \A i \in 1..Len(inbox) : inbox[i] \in WsMessage
    BY DEF WsInv, WsType
  <2> QED
    BY <2>1 DEF WsInv, WsType, WsMessage, W!Kinds
<1>5. ASSUME NEW kind \in W!Kinds, NEW id \in Nat, W!Send(kind, id),
             kind = "signal" => id = wsSent["signal"] + 1
      PROVE  WsInv'
  <2>0. PICK n \in Nat : n = Len(inbox) + 1
    BY <1>4
  <2> DEFINE m == [kind |-> kind, id |-> id]
  <2>1. m \in WsMessage /\ m.kind = kind /\ m.id = id
    BY DEF WsMessage
  <2> HIDE DEF m
  <2>2. /\ inbox' = Append(inbox, m) /\ wsSent' = [wsSent EXCEPT ![kind] = @ + 1]
        /\ UNCHANGED <<reader, holding, notified>>
    BY <1>5 DEF W!Send, m
  <2>3. /\ inbox' \in Seq(WsMessage) /\ Len(inbox') = n /\ inbox'[n] = m
        /\ \A i \in 1..Len(inbox) : inbox'[i] = inbox[i]
    BY <2>0, <2>1, <2>2 DEF WsInv, WsType
  <2>4. /\ wsSent' \in [W!Kinds -> Nat]
        /\ kind = "signal" => wsSent'["signal"] = id
        /\ kind # "signal" => wsSent'["signal"] = wsSent["signal"]
    BY <1>5, <2>2 DEF WsInv, WsType, W!Kinds
  <2>5. NextSignal' = NextSignal /\ NextSignal \in Nat /\ NextSignal <= wsSent["signal"] + 1
    BY <1>4, <2>2 DEF NextSignal, WsInv, InOrderInbox
  <2>6. \A i \in 1..Len(inbox) : IsSignal(i)' = IsSignal(i) /\ inbox'[i].id = inbox[i].id
    BY <2>3 DEF IsSignal
  <2>7. IsSignal(n)' = (kind = "signal") /\ inbox'[n].id = id
    BY <2>1, <2>3 DEF IsSignal
  <2>8. WsType' /\ W!SignalsInOrder'
    BY <2>2, <2>3, <2>4 DEF WsInv, WsType, W!SignalsInOrder
  <2>9. \A i \in 1..Len(inbox') : i \in 1..Len(inbox) \/ i = n
    BY <2>0, <1>4, <2>3
  <2>10. \A i \in 1..Len(inbox') :
           IsSignal(i)' => inbox'[i].id >= NextSignal' /\ inbox'[i].id <= wsSent'["signal"]
    <3> SUFFICES ASSUME NEW i \in 1..Len(inbox'), IsSignal(i)'
                 PROVE  inbox'[i].id >= NextSignal' /\ inbox'[i].id <= wsSent'["signal"]
      OBVIOUS
    <3>1. CASE i = n
      <4>1. kind = "signal" /\ inbox'[i].id = id
        BY <2>7, <3>1
      <4>2. id = wsSent["signal"] + 1 /\ wsSent'["signal"] = id
        BY <1>5, <2>4, <4>1
      <4> QED
        BY <1>4, <2>5, <4>1, <4>2
    <3>2. CASE i \in 1..Len(inbox)
      <4>1. inbox[i].id >= NextSignal /\ inbox[i].id <= wsSent["signal"]
        BY <2>6, <3>2 DEF WsInv, InOrderInbox
      <4> QED
        BY <1>4, <1>5, <2>4, <2>5, <2>6, <3>2, <4>1
    <3> QED
      BY <2>9, <3>1, <3>2
  <2>11. \A i, k \in 1..Len(inbox') :
           IsSignal(i)' /\ IsSignal(k)' /\ i < k => inbox'[i].id < inbox'[k].id
    <3> SUFFICES ASSUME NEW i \in 1..Len(inbox'), NEW k \in 1..Len(inbox'),
                        IsSignal(i)', IsSignal(k)', i < k
                 PROVE  inbox'[i].id < inbox'[k].id
      OBVIOUS
    <3>1. i \in 1..Len(inbox)
      BY <2>0, <1>4, <2>3, <2>9
    <3>2. CASE k = n
      <4>1. inbox[i].id <= wsSent["signal"]
        BY <2>6, <3>1 DEF WsInv, InOrderInbox
      <4>2. kind = "signal" /\ inbox'[k].id = id
        BY <2>7, <3>2
      <4>3. id = wsSent["signal"] + 1
        BY <1>5, <4>2
      <4> QED
        BY <1>4, <2>6, <3>1, <4>1, <4>2, <4>3
    <3>3. CASE k \in 1..Len(inbox)
      BY <2>6, <3>1, <3>3 DEF WsInv, InOrderInbox
    <3> QED
      BY <2>9, <3>2, <3>3
  <2>12. \A x \in Nat : x >= NextSignal' /\ x <= wsSent'["signal"] =>
           \E i \in 1..Len(inbox') : IsSignal(i)' /\ inbox'[i].id = x
    <3> SUFFICES ASSUME NEW x \in Nat, x >= NextSignal', x <= wsSent'["signal"]
                 PROVE  \E i \in 1..Len(inbox') : IsSignal(i)' /\ inbox'[i].id = x
      OBVIOUS
    <3>1. CASE x <= wsSent["signal"]
      <4>1. PICK i \in 1..Len(inbox) : IsSignal(i) /\ inbox[i].id = x
        BY <2>5, <3>1 DEF WsInv, InOrderInbox
      <4>2. i \in 1..Len(inbox')
        BY <2>0, <1>4, <2>3
      <4> QED
        BY <2>6, <4>1, <4>2
    <3>2. CASE x > wsSent["signal"]
      <4>1. kind = "signal" /\ x = id
        BY <1>4, <1>5, <2>4, <3>2
      <4>2. n \in 1..Len(inbox')
        BY <2>0, <1>4, <2>3
      <4> QED
        BY <2>7, <4>1, <4>2
    <3> QED
      BY <1>4, <3>1, <3>2
  <2>13. NextSignal' <= wsSent'["signal"] + 1
    BY <1>4, <1>5, <2>4, <2>5
  <2>14. InOrderInbox'
    BY <2>10, <2>11, <2>12, <2>13 DEF InOrderInbox
  <2> QED
    BY <1>1, <2>8, <2>14 DEF WsInv
<1>6. CASE W!ReadMessage
  <2>1. /\ inbox # <<>> /\ reader = "reading" /\ inbox' = Tail(inbox)
        /\ reader' = W!AfterRead(Head(inbox).kind) /\ holding' = Head(inbox).id
        /\ UNCHANGED <<wsSent, notified>>
    BY <1>6 DEF W!ReadMessage
  <2>2. /\ inbox' \in Seq(WsMessage) /\ Len(inbox') = Len(inbox) - 1 /\ Len(inbox) >= 1
        /\ Head(inbox) = inbox[1]
        /\ \A i \in 1..Len(inbox') : inbox'[i] = inbox[i + 1] /\ i + 1 \in 1..Len(inbox)
    BY <2>1 DEF WsInv, WsType
  <2>3. 1 \in 1..Len(inbox) /\ inbox[1].kind \in W!Kinds
    BY <1>4, <2>2
  <2>4. reader' = "handing" <=> inbox[1].kind = "signal"
    BY <2>1, <2>2, <2>3 DEF W!AfterRead, W!Kinds
  <2>5. inbox[1].kind = "signal" => inbox[1].id = Len(notified) + 1
    BY <2>1, <2>2, HeadNext
  <2>6. /\ NextSignal = Len(notified) + 1
        /\ NextSignal' = IF inbox[1].kind = "signal" THEN Len(notified) + 2
                         ELSE Len(notified) + 1
    BY <2>1, <2>4 DEF NextSignal
  <2>7. WsType' /\ W!SignalsInOrder'
    BY <2>1, <2>2, <2>4, <2>5 DEF WsInv, WsType, W!SignalsInOrder
  <2>8. \A i \in 1..Len(inbox') : /\ IsSignal(i)' = IsSignal(i + 1)
                                  /\ inbox'[i].id = inbox[i + 1].id
    BY <2>2 DEF IsSignal
  <2>9. \A i \in 1..Len(inbox') :
          IsSignal(i)' => inbox'[i].id >= NextSignal' /\ inbox'[i].id <= wsSent'["signal"]
    <3> SUFFICES ASSUME NEW i \in 1..Len(inbox'), IsSignal(i)'
                 PROVE  inbox'[i].id >= NextSignal' /\ inbox'[i].id <= wsSent'["signal"]
      OBVIOUS
    <3>0. i + 1 \in 1..Len(inbox) /\ 1 < i + 1
      BY <1>4, <2>2
    <3>1. /\ i + 1 \in 1..Len(inbox) /\ IsSignal(i + 1) /\ inbox'[i].id = inbox[i + 1].id
          /\ inbox[i + 1].id \in Nat /\ 1 < i + 1
      <4>1. IsSignal(i + 1) /\ inbox'[i].id = inbox[i + 1].id
        BY <2>8
      <4>2. inbox[i + 1].id \in Nat
        BY <1>4, <3>0
      <4> QED
        BY <3>0, <4>1, <4>2
    <3>2. inbox[i + 1].id >= Len(notified) + 1 /\ inbox[i + 1].id <= wsSent["signal"]
      BY <2>6, <3>1 DEF WsInv, InOrderInbox
    <3>3. inbox[1].kind = "signal" => inbox[1].id < inbox[i + 1].id
      BY <2>3, <3>1 DEF WsInv, InOrderInbox, IsSignal
    <3> QED
      BY <1>4, <2>1, <2>3, <2>5, <2>6, <3>1, <3>2, <3>3
  <2>10. \A i, k \in 1..Len(inbox') :
           IsSignal(i)' /\ IsSignal(k)' /\ i < k => inbox'[i].id < inbox'[k].id
    <3> SUFFICES ASSUME NEW i \in 1..Len(inbox'), NEW k \in 1..Len(inbox'),
                        IsSignal(i)', IsSignal(k)', i < k
                 PROVE  inbox'[i].id < inbox'[k].id
      OBVIOUS
    <3>1. /\ i + 1 \in 1..Len(inbox) /\ k + 1 \in 1..Len(inbox) /\ i + 1 < k + 1
          /\ IsSignal(i + 1) /\ IsSignal(k + 1)
      <4>1. i + 1 \in 1..Len(inbox) /\ k + 1 \in 1..Len(inbox) /\ i + 1 < k + 1
        BY <1>4, <2>2
      <4>2. IsSignal(i + 1) /\ IsSignal(k + 1)
        BY <2>8
      <4> QED
        BY <4>1, <4>2
    <3> QED
      BY <2>8, <3>1 DEF WsInv, InOrderInbox
  <2>11. \A x \in Nat : x >= NextSignal' /\ x <= wsSent'["signal"] =>
           \E i \in 1..Len(inbox') : IsSignal(i)' /\ inbox'[i].id = x
    <3> SUFFICES ASSUME NEW x \in Nat, x >= NextSignal', x <= wsSent'["signal"]
                 PROVE  \E i \in 1..Len(inbox') : IsSignal(i)' /\ inbox'[i].id = x
      OBVIOUS
    <3>1. x >= NextSignal /\ x <= wsSent["signal"]
      BY <1>4, <2>1, <2>6
    <3>2. PICK k \in 1..Len(inbox) : IsSignal(k) /\ inbox[k].id = x
      BY <3>1 DEF WsInv, InOrderInbox
    <3>3. k # 1
      BY <1>4, <2>5, <2>6, <3>2 DEF IsSignal
    <3>4. PICK i \in Nat : i = k - 1
      BY <1>4, <3>3
    <3>5. i \in 1..Len(inbox') /\ k = i + 1
      BY <1>4, <2>2, <3>3, <3>4
    <3> QED
      BY <2>8, <3>2, <3>5
  <2>12. NextSignal' <= wsSent'["signal"] + 1
    <3>1. inbox[1].kind = "signal" => inbox[1].id <= wsSent["signal"]
      BY <2>3 DEF WsInv, InOrderInbox, IsSignal
    <3>2. NextSignal <= wsSent["signal"] + 1
      BY DEF WsInv, InOrderInbox
    <3> QED
      BY <1>4, <2>1, <2>5, <2>6, <3>1, <3>2
  <2>13. InOrderInbox'
    BY <2>9, <2>10, <2>11, <2>12 DEF InOrderInbox
  <2> QED
    BY <1>1, <2>7, <2>13 DEF WsInv
<1>10. CASE W!HandOver
  <2>1. /\ reader = "handing" /\ reader' = "reading" /\ notified' = Append(notified, holding)
        /\ UNCHANGED <<inbox, wsSent>>
    BY <1>10 DEF W!HandOver
  <2>2. holding = Len(notified) + 1 /\ holding \in Nat
    BY <1>4, <2>1 DEF WsInv, WsType
  <2>3. /\ notified' \in Seq(Nat) /\ Len(notified') = Len(notified) + 1
        /\ notified'[Len(notified) + 1] = holding
        /\ \A i \in 1..Len(notified) : notified'[i] = notified[i]
    BY <2>1, <2>2 DEF WsInv, WsType
  <2>4. NextSignal' = NextSignal
    BY <1>4, <2>1, <2>3 DEF NextSignal
  <2>5. W!SignalsInOrder'
    BY <1>4, <2>2, <2>3 DEF WsInv, W!SignalsInOrder
  <2>6. WsType' /\ InOrderInbox'
    BY <2>1, <2>3, <2>4 DEF WsInv, WsType, InOrderInbox, IsSignal
  <2> QED
    BY <1>1, <2>5, <2>6 DEF WsInv
<1>7. CASE UNCHANGED wsVars
  BY <1>2, <1>7 DEF wsVars
<1>8. CASE W!DialFails \/ W!Dialer \/ W!Notify \/ W!Drop \/ W!StopNotify \/ W!Shutdown
           \/ W!Break \/ W!Notifier \/ W!PingEnds
  BY <1>2, <1>8 DEF W!DialFails, W!Dialer, W!DialReady, W!DialCancelled, W!Notify,
                    W!Drop, W!StopNotify, W!Shutdown, W!Break, W!Notifier,
                    W!NotifySignalReturns, W!NotifyEnds, W!PingEnds
<1>9. CASE W!Server
  <2>1. CASE W!SendSignal
    <3>1. wsSent["signal"] + 1 \in Nat /\ "signal" \in W!Kinds
      BY <1>4 DEF W!Kinds
    <3> QED
      BY <1>5, <2>1, <3>1 DEF W!SendSignal
  <2>2. CASE W!SendCredentials
    BY <1>5, <2>2 DEF W!SendCredentials, W!Kinds
  <2>3. CASE W!SendSkipped
    BY <1>5, <2>3 DEF W!SendSkipped, W!Kinds
  <2> QED
    BY <1>9, <2>1, <2>2, <2>3 DEF W!Server
<1> QED
  BY <1>3, <1>6, <1>7, <1>8, <1>9, <1>10 DEF W!Next, W!Reader

-----------------------------------------------------------------------------
(* The whole.                                                              *)

\* A step of the whole is one of each part, or leaves the part alone.
LEMMA RelayParts ==
  ASSUME [MCNext]_mcVars
  PROVE  [H!Next]_httpVars /\ [W!Next]_wsVars
<1>1. CASE focus = "http" /\ H!Next
           /\ UNCHANGED <<focus, vars, loginVars, listVars, wsVars>>
  BY <1>1
<1>2. CASE focus = "websocket" /\ W!Next
           /\ UNCHANGED <<focus, vars, loginVars, httpVars, listVars>>
  BY <1>2
<1>3. CASE UNCHANGED <<httpVars, wsVars>>
  BY <1>3
<1> QED
  BY <1>1, <1>2, <1>3 DEF MCNext, mcVars

\* Over HTTP whatever a listener calls Signal with, and whenever, goes to the request
\* of that connection, and a request that ends without an answer leaves no connection
\* behind, also when the answer comes as the time runs out; over the websocket the
\* listener is given every signal once and in order, and a connection that is handed
\* out has its credentials (bridge/nnserver.go:195-268, signaling/conn.go:49-147).
THEOREM RelaySignalingDelivers == MCSafe => []SignalingDelivers
<1> DEFINE SignalInv == HttpInv /\ DOMAIN dial = Joins /\ Undialed /\ ConnInv /\ WsInv
<1>1. MCInit => SignalInv
  <2> SUFFICES ASSUME H!Init, W!Init PROVE SignalInv
    BY DEF MCInit
  <2>1. DOMAIN dial = Joins /\ Undialed /\ ConnInv
    BY DEF H!Init, Undialed, ConnInv, Tied
  <2>2. WsInv
    BY DEF W!Init, WsInv, WsType, W!SignalsInOrder, InOrderInbox, NextSignal, IsSignal,
           StoredFirst, W!Kinds
  <2> QED
    BY <2>1, <2>2, HttpInit
<1>2. SignalInv /\ [MCNext]_mcVars => SignalInv'
  BY RelayParts, HttpStep, UndialedStep, ConnStep, WsStep
<1>3. SignalInv => SignalingDelivers
  BY DEF SignalingDelivers, HttpInv, ConnInv, Tied, H!NoneHalfOpen, WsInv, StoredFirst,
         W!ReadyWithCredentials
<1> QED
  BY <1>1, <1>2, <1>3, PTL DEF MCSafe

-----------------------------------------------------------------------------
(* The two logins. Stretches of a stream.                                  *)

\* The packets of a login, and those of the game.
LoginTypes == {"RequestNetworkSettings", "NetworkSettings", "Login",
               "ServerToClientHandshake", "ClientToServerHandshake"}
PkTypes == LoginTypes \cup {"data", "PlayStatus", "Disconnect"}
\* A packet, a batch on a wire, and what a game may send: sequences without login packets.
Pack == [type : PkTypes, n : Nat]
Bundle == [pks : Seq(Pack), codec : L!Codecs]
Streamed == {t \in Seq(Pack) : \A i \in 1..Len(t) : t[i].type \notin LoginTypes}
\* The stretch of t behind a, up to b.
Part(t, a, b) == [i \in 1..(b - a) |-> t[a + i]]
\* A batch without the login packet at its head: what is in it for the game.
Game(pks) == IF pks # <<>> /\ Head(pks).type \in LoginTypes THEN Tail(pks) ELSE pks

\* Two sequences that agree in length and at every place are the same.
LEMMA SeqEq ==
  ASSUME NEW X, NEW s \in Seq(X), NEW t \in Seq(X), Len(s) = Len(t),
         \A i \in 1..Len(s) : s[i] = t[i]
  PROVE  s = t
OBVIOUS

\* The head and the tail of a sequence, and when there are any.
LEMMA EmptySeq ==
  ASSUME NEW X, NEW s \in Seq(X)
  PROVE  /\ s = <<>> <=> Len(s) = 0
         /\ s # <<>> => /\ Head(s) = s[1] /\ 1 \in 1..Len(s) /\ Head(s) \in X
                       /\ Tail(s) \in Seq(X) /\ Len(Tail(s)) = Len(s) - 1
                       /\ \A i \in 1..Len(Tail(s)) : Tail(s)[i] = s[i + 1]
OBVIOUS

\* The tail of a single packet is empty.
LEMMA TailOne ==
  ASSUME NEW X, NEW s \in Seq(X), Len(s) = 1
  PROVE  Tail(s) = <<>>
<1> DEFINE r == Tail(s)
<1>1. r \in Seq(X) /\ Len(r) = 0
  BY EmptySeq
<1> HIDE DEF r
<1>2. r = <<>>
  BY <1>1, EmptySeq
<1> QED BY <1>2 DEF r

\* A concatenation, place by place.
LEMMA CatFacts ==
  ASSUME NEW X, NEW s \in Seq(X), NEW t \in Seq(X)
  PROVE  /\ s \o t \in Seq(X) /\ Len(s \o t) = Len(s) + Len(t)
         /\ \A i \in 1..(Len(s) + Len(t)) :
               (s \o t)[i] = IF i <= Len(s) THEN s[i] ELSE t[i - Len(s)]
OBVIOUS

\* A stretch, place by place.
LEMMA PartSeq ==
  ASSUME NEW t \in Streamed, NEW a \in Nat, NEW b \in Nat, a <= b, b <= Len(t)
  PROVE  /\ Part(t, a, b) \in Seq(Pack)
         /\ Len(Part(t, a, b)) = b - a
         /\ \A i \in 1..(b - a) : Part(t, a, b)[i] = t[a + i]
<1>1. \A i \in 1..(b - a) : a + i \in 1..Len(t) /\ t[a + i] \in Pack
  BY DEF Streamed
<1>2. [i \in 1..(b - a) |-> t[a + i]] \in [1..(b - a) -> Pack]
  BY <1>1
<1>3. Part(t, a, b) \in [1..(b - a) -> Pack]
  BY <1>2 DEF Part
<1>4. b - a \in Nat
  OBVIOUS
<1>5. \A i \in 1..(b - a) : Part(t, a, b)[i] = t[a + i]
  BY DEF Part
<1> QED BY <1>3, <1>4, <1>5

\* A stretch is all for the game, and empty only if it ends where it starts.
LEMMA PartGame ==
  ASSUME NEW t \in Streamed, NEW a \in Nat, NEW b \in Nat, a <= b, b <= Len(t)
  PROVE  /\ Game(Part(t, a, b)) = Part(t, a, b)
         /\ Part(t, a, b) = <<>> <=> a = b
<1> DEFINE p == Part(t, a, b)
<1>1. p \in Seq(Pack) /\ Len(p) = b - a
  BY PartSeq
<1>2. \A i \in 1..(b - a) : p[i] = t[a + i]
  BY PartSeq
<1> HIDE DEF p
<1>3. p = <<>> <=> a = b
  BY <1>1, EmptySeq
<1>4. p # <<>> => Head(p).type \notin LoginTypes
  <2> SUFFICES ASSUME p # <<>> PROVE Head(p).type \notin LoginTypes
    OBVIOUS
  <2>1. a < b
    BY <1>3
  <2>2. Head(p) = t[a + 1] /\ a + 1 \in 1..Len(t)
    BY <1>1, <1>2, <2>1, EmptySeq DEF Streamed
  <2> QED BY <2>2 DEF Streamed
<1> QED BY <1>3, <1>4 DEF p, Game

\* Adjacent stretches make one.
LEMMA PartCat ==
  ASSUME NEW t \in Streamed, NEW a \in Nat, NEW b \in Nat, NEW c \in Nat,
         a <= b, b <= c, c <= Len(t)
  PROVE  Part(t, a, b) \o Part(t, b, c) = Part(t, a, c)
<1> DEFINE p == Part(t, a, b)
           q == Part(t, b, c)
           r == Part(t, a, c)
<1>0. Len(t) \in Nat /\ b <= Len(t) /\ a <= c
  BY DEF Streamed
<1>1. p \in Seq(Pack) /\ Len(p) = b - a /\ \A i \in 1..(b - a) : p[i] = t[a + i]
  BY <1>0, PartSeq
<1>2. q \in Seq(Pack) /\ Len(q) = c - b /\ \A i \in 1..(c - b) : q[i] = t[b + i]
  BY <1>0, PartSeq
<1>3. r \in Seq(Pack) /\ Len(r) = c - a /\ \A i \in 1..(c - a) : r[i] = t[a + i]
  BY <1>0, PartSeq
<1> HIDE DEF p, q, r
<1>4. Len(p) + Len(q) = c - a
  BY <1>1, <1>2
<1>5. /\ p \o q \in Seq(Pack) /\ Len(p \o q) = Len(p) + Len(q)
      /\ \A i \in 1..(Len(p) + Len(q)) :
            (p \o q)[i] = IF i <= Len(p) THEN p[i] ELSE q[i - Len(p)]
  BY <1>1, <1>2, CatFacts
<1>6. ASSUME NEW i \in 1..(c - a)
      PROVE  (p \o q)[i] = r[i]
  <2>1. CASE i <= b - a
    BY <1>1, <1>3, <1>4, <1>5, <2>1
  <2>2. CASE i > b - a
    <3>1. i - (b - a) \in 1..(c - b) /\ b + (i - (b - a)) = a + i
      BY <2>2
    <3> QED BY <1>1, <1>2, <1>3, <1>4, <1>5, <2>2, <3>1
  <2>3. i <= b - a \/ i > b - a
    OBVIOUS
  <2> QED BY <2>1, <2>2, <2>3, Zenon
<1>7. p \o q = r
  <2>1. Len(p \o q) = Len(r) /\ \A i \in 1..Len(p \o q) : (p \o q)[i] = r[i]
    BY <1>3, <1>4, <1>5, <1>6
  <2> QED BY <1>3, <1>5, <2>1, SeqEq
<1> QED BY <1>7 DEF p, q, r

\* The first packet of a stretch, and the others.
LEMMA PartHead ==
  ASSUME NEW t \in Streamed, NEW a \in Nat, NEW b \in Nat, a < b, b <= Len(t)
  PROVE  /\ <<Head(Part(t, a, b))>> = Part(t, a, a + 1)
         /\ Tail(Part(t, a, b)) = Part(t, a + 1, b)
         /\ Head(Part(t, a, b)) = t[a + 1]
<1> DEFINE p == Part(t, a, b)
           q == Part(t, a, a + 1)
           r == Part(t, a + 1, b)
<1>0. /\ Len(t) \in Nat /\ a + 1 \in Nat /\ a <= b
      /\ a + 1 <= b /\ a <= a + 1 /\ a + 1 <= Len(t)
  BY DEF Streamed
<1>1. p \in Seq(Pack) /\ Len(p) = b - a /\ \A i \in 1..(b - a) : p[i] = t[a + i]
  BY <1>0, PartSeq
<1>2. /\ q \in Seq(Pack) /\ Len(q) = (a + 1) - a
      /\ \A i \in 1..((a + 1) - a) : q[i] = t[a + i]
  BY <1>0, PartSeq
<1>3. /\ r \in Seq(Pack) /\ Len(r) = b - (a + 1)
      /\ \A i \in 1..(b - (a + 1)) : r[i] = t[(a + 1) + i]
  BY <1>0, PartSeq
<1> HIDE DEF p, q, r
<1>4. /\ p # <<>> /\ Head(p) = t[a + 1] /\ Head(p) \in Pack
      /\ Tail(p) \in Seq(Pack) /\ Len(Tail(p)) = Len(p) - 1
      /\ \A i \in 1..Len(Tail(p)) : Tail(p)[i] = p[i + 1]
  BY <1>1, EmptySeq
<1>5. <<Head(p)>> = q
  BY <1>2, <1>4, SeqEq
<1>6. \A i \in 1..(b - (a + 1)) : Tail(p)[i] = r[i]
  <2>1. \A i \in 1..(b - (a + 1)) : i + 1 \in 1..(b - a) /\ a + (i + 1) = (a + 1) + i
    OBVIOUS
  <2> QED BY <1>1, <1>3, <1>4, <2>1
<1> DEFINE s == Tail(p)
<1>7. s \in Seq(Pack) /\ Len(s) = b - (a + 1) /\ \A i \in 1..(b - (a + 1)) : s[i] = r[i]
  BY <1>1, <1>4, <1>6
<1> HIDE DEF s
<1>8. s = r
  BY <1>3, <1>7, SeqEq
<1> QED BY <1>4, <1>5, <1>8 DEF p, q, r, s

\* What Send takes from a stream is a stretch of it.
LEMMA PartSub ==
  ASSUME NEW t \in Streamed, NEW a \in Nat, NEW k \in Nat, a + k <= Len(t)
  PROVE  SubSeq(t, a + 1, a + k) = Part(t, a, a + k)
<1> DEFINE p == Part(t, a, a + k)
           q == SubSeq(t, a + 1, a + k)
<1>0. t \in Seq(Pack) /\ Len(t) \in Nat /\ a + k \in Nat /\ a <= a + k
  BY DEF Streamed
<1>1. /\ p \in Seq(Pack) /\ Len(p) = (a + k) - a
      /\ \A i \in 1..((a + k) - a) : p[i] = t[a + i]
  BY <1>0, PartSeq
<1>2. q \in Seq(Pack) /\ Len(q) = k /\ \A i \in 1..k : q[i] = t[a + i]
  BY <1>0
<1> HIDE DEF p, q
<1>a. Len(p) = Len(q) /\ \A i \in 1..Len(p) : p[i] = q[i]
  BY <1>1, <1>2
<1>3. p = q
  BY <1>1, <1>2, <1>a, SeqEq
<1> QED BY <1>3 DEF p, q

\* The batches w carry t from a to b, one stretch each.
Chain(w, t, a, b) ==
    \E f \in [0..Len(w) -> Nat] :
        /\ f[0] = a /\ f[Len(w)] = b
        /\ \A i, j \in 0..Len(w) : i <= j => f[i] <= f[j]
        /\ \A i \in 1..Len(w) : Game(w[i].pks) = Part(t, f[i - 1], f[i])

\* No batches carry nothing.
LEMMA ChainEmpty ==
  ASSUME NEW t, NEW a \in Nat, NEW b \in Nat
  PROVE  Chain(<<>>, t, a, b) <=> a = b
<1>1. Len(<<>>) = 0
  OBVIOUS
<1>2. Chain(<<>>, t, a, b) => a = b
  BY <1>1 DEF Chain
<1>3. ASSUME a = b PROVE Chain(<<>>, t, a, b)
  <2> DEFINE f == [i \in 0..Len(<<>>) |-> a]
  <2>1. f \in [0..Len(<<>>) -> Nat]
    OBVIOUS
  <2>2. f[0] = a /\ f[Len(<<>>)] = b
    BY <1>1, <1>3
  <2>3. \A i, j \in 0..Len(<<>>) : i <= j => f[i] <= f[j]
    OBVIOUS
  <2>4. \A i \in 1..Len(<<>>) : Game(<<>>[i].pks) = Part(t, f[i - 1], f[i])
    BY <1>1
  <2> HIDE DEF f
  <2> QED BY <2>1, <2>2, <2>3, <2>4 DEF Chain
<1> QED BY <1>2, <1>3

\* The first batch carries the first stretch, and the others what is behind it.
LEMMA ChainHead ==
  ASSUME NEW w \in Seq(Bundle), w # <<>>, NEW t, NEW a \in Nat, NEW b \in Nat,
         Chain(w, t, a, b)
  PROVE  \E m \in Nat : /\ a <= m /\ m <= b
                        /\ Game(Head(w).pks) = Part(t, a, m) /\ Chain(Tail(w), t, m, b)
<1> DEFINE n == Len(w)
<1>1. /\ n \in Nat /\ 0 < n /\ Head(w) = w[1] /\ Len(Tail(w)) = n - 1
      /\ \A i \in 1..(n - 1) : Tail(w)[i] = w[i + 1]
  BY EmptySeq
<1>2. PICK f \in [0..n -> Nat] :
         /\ f[0] = a /\ f[n] = b
         /\ \A i, j \in 0..n : i <= j => f[i] <= f[j]
         /\ \A i \in 1..n : Game(w[i].pks) = Part(t, f[i - 1], f[i])
  BY DEF Chain
<1> HIDE DEF n
<1> DEFINE m == f[1]
           g == [i \in 0..(n - 1) |-> f[i + 1]]
<1>3. m \in Nat /\ a <= m /\ m <= b
  BY <1>1, <1>2
<1>4. Game(Head(w).pks) = Part(t, a, m)
  <2>1. 1 \in 1..n /\ 1 - 1 = 0
    BY <1>1
  <2> QED BY <1>1, <1>2, <2>1
<1>5. Chain(Tail(w), t, m, b)
  <2>1. \A i \in 0..(n - 1) : i + 1 \in 0..n
    BY <1>1
  <2>2. g \in [0..(n - 1) -> Nat]
    BY <2>1
  <2>3. g[0] = m /\ g[n - 1] = b
    <3>1. 0 \in 0..(n - 1) /\ n - 1 \in 0..(n - 1) /\ 0 + 1 = 1 /\ (n - 1) + 1 = n
      BY <1>1
    <3> QED BY <1>2, <3>1
  <2>4. \A i, j \in 0..(n - 1) : i <= j => g[i] <= g[j]
    BY <1>1, <1>2, <2>1
  <2>5. ASSUME NEW i \in 1..(n - 1)
        PROVE  Game(Tail(w)[i].pks) = Part(t, g[i - 1], g[i])
    <3>1. /\ i - 1 \in 0..(n - 1) /\ i \in 0..(n - 1) /\ i + 1 \in 1..n
          /\ (i - 1) + 1 = i /\ (i + 1) - 1 = i
      BY <1>1
    <3>2. g[i - 1] = f[i] /\ g[i] = f[i + 1]
      BY <3>1
    <3>3. Game(w[i + 1].pks) = Part(t, f[i], f[i + 1])
      BY <1>2, <3>1
    <3> QED BY <1>1, <3>2, <3>3
  <2> HIDE DEF g, m
  <2> QED BY <1>1, <2>2, <2>3, <2>4, <2>5 DEF Chain
<1> QED BY <1>3, <1>4, <1>5

\* A batch that is written carries on where the last one ended.
LEMMA ChainAppend ==
  ASSUME NEW w \in Seq(Bundle), NEW x \in Bundle, NEW t,
         NEW a \in Nat, NEW b \in Nat, NEW c \in Nat, b <= c,
         Chain(w, t, a, b), Game(x.pks) = Part(t, b, c)
  PROVE  Chain(Append(w, x), t, a, c)
<1> DEFINE n == Len(w)
           v == Append(w, x)
<1>1. /\ n \in Nat /\ Len(v) = n + 1 /\ v[n + 1] = x
      /\ \A i \in 1..n : v[i] = w[i]
  OBVIOUS
<1>2. PICK f \in [0..n -> Nat] :
         /\ f[0] = a /\ f[n] = b
         /\ \A i, j \in 0..n : i <= j => f[i] <= f[j]
         /\ \A i \in 1..n : Game(w[i].pks) = Part(t, f[i - 1], f[i])
  BY DEF Chain
<1> HIDE DEF n, v
<1> DEFINE g == [i \in 0..(n + 1) |-> IF i = n + 1 THEN c ELSE f[i]]
<1>3. /\ g[n + 1] = c /\ \A i \in 0..n : g[i] = f[i]
      /\ g \in [0..(n + 1) -> Nat]
  BY <1>1
<1> HIDE DEF g
<1>4. \A i \in 0..n : f[i] <= b
  BY <1>1, <1>2
<1>5. \A i, j \in 0..(n + 1) : i <= j => g[i] <= g[j]
  <2> SUFFICES ASSUME NEW i \in 0..(n + 1), NEW j \in 0..(n + 1), i <= j
               PROVE  g[i] <= g[j]
    OBVIOUS
  <2>1. CASE j = n + 1 /\ i = n + 1
    BY <1>1, <1>3, <2>1
  <2>2. CASE j = n + 1 /\ i # n + 1
    <3>1. i \in 0..n /\ f[i] \in Nat /\ f[i] <= b
      BY <1>1, <1>4, <2>2
    <3> QED BY <1>3, <2>2, <3>1
  <2>3. CASE j # n + 1
    <3>1. i \in 0..n /\ j \in 0..n
      BY <1>1, <2>3
    <3> QED BY <1>2, <1>3, <3>1
  <2> QED BY <2>1, <2>2, <2>3
<1>6. ASSUME NEW i \in 1..(n + 1)
      PROVE  Game(v[i].pks) = Part(t, g[i - 1], g[i])
  <2>1. CASE i = n + 1
    <3>1. g[i - 1] = b /\ g[i] = c /\ v[i] = x
      <4>1. i - 1 = n /\ n \in 0..n
        BY <1>1, <2>1
      <4> QED BY <1>1, <1>2, <1>3, <2>1, <4>1
    <3> QED BY <3>1
  <2>2. CASE i # n + 1
    <3>1. i \in 1..n /\ i \in 0..n /\ i - 1 \in 0..n
      BY <1>1, <2>2
    <3>2. Game(w[i].pks) = Part(t, f[i - 1], f[i])
      BY <1>2, <3>1
    <3> QED BY <1>1, <1>3, <3>1, <3>2
  <2> QED BY <2>1, <2>2
<1>7. g[0] = a
  BY <1>1, <1>2, <1>3
<1>8. \E h \in [0..Len(v) -> Nat] :
         /\ h[0] = a /\ h[Len(v)] = c
         /\ \A i, j \in 0..Len(v) : i <= j => h[i] <= h[j]
         /\ \A i \in 1..Len(v) : Game(v[i].pks) = Part(t, h[i - 1], h[i])
  BY <1>1, <1>3, <1>5, <1>6, <1>7
<1> QED BY <1>8 DEF Chain, v

-----------------------------------------------------------------------------
(* What is under way to an end.                                            *)

\* What is put by (d), what is left of the batch that was read (q) and the batches on the
\* wire (w) are, in this order, t from a to b.
Ahead(d, q, w, t, a, b) ==
    /\ b <= Len(t)
    /\ \E m, n \in Nat :
          /\ a <= m /\ m <= n /\ n <= b
          /\ d = Part(t, a, m) /\ Game(q) = Part(t, m, n) /\ Chain(w, t, n, b)

\* There is nothing for the game in an empty batch.
LEMMA GameEmpty == Game(<<>>) = <<>>
BY DEF Game

\* The next batch is read.
LEMMA AheadRead ==
  ASSUME NEW t \in Streamed, NEW a \in Nat, NEW b \in Nat, NEW d,
         NEW w \in Seq(Bundle), w # <<>>, Ahead(d, <<>>, w, t, a, b)
  PROVE  Ahead(d, Head(w).pks, Tail(w), t, a, b)
<1>1. PICK m, n \in Nat :
         /\ a <= m /\ m <= n /\ n <= b
         /\ d = Part(t, a, m) /\ Game(<<>>) = Part(t, m, n) /\ Chain(w, t, n, b)
  BY DEF Ahead
<1>2. m = n
  BY <1>1, GameEmpty, PartGame, Len(t) \in Nat DEF Ahead, Streamed
<1>3. PICK k \in Nat : /\ n <= k /\ k <= b
                       /\ Game(Head(w).pks) = Part(t, n, k) /\ Chain(Tail(w), t, k, b)
  BY <1>1, ChainHead
<1>4. a <= m /\ m <= k /\ k <= b /\ d = Part(t, a, m) /\ Game(Head(w).pks) = Part(t, m, k)
  BY <1>1, <1>2, <1>3
<1> QED BY <1>3, <1>4 DEF Ahead

\* A login packet leaves the batch.
LEMMA AheadSkip ==
  ASSUME NEW t \in Streamed, NEW a \in Nat, NEW b \in Nat, NEW d \in Seq(Pack),
         NEW q \in Seq(Pack), NEW w, q # <<>>, Head(q).type \in LoginTypes,
         Ahead(d, q, w, t, a, b)
  PROVE  Ahead(d, Tail(q), w, t, a, b) /\ Ahead(d \o Tail(q), <<>>, w, t, a, b)
<1>0. Len(t) \in Nat /\ b <= Len(t)
  BY DEF Streamed, Ahead
<1>1. PICK m, n \in Nat :
         /\ a <= m /\ m <= n /\ n <= b
         /\ d = Part(t, a, m) /\ Game(q) = Part(t, m, n) /\ Chain(w, t, n, b)
  BY DEF Ahead
<1>2. n <= Len(t) /\ a <= n
  BY <1>0, <1>1
<1>3. Tail(q) = Part(t, m, n)
  BY <1>1 DEF Game
<1>4. Game(Tail(q)) = Part(t, m, n)
  <2>1. Game(Part(t, m, n)) = Part(t, m, n)
    BY <1>1, <1>2, PartGame
  <2> QED BY <1>3, <2>1, Zenon
<1>5. d \o Tail(q) = Part(t, a, n)
  <2>1. Part(t, a, m) \o Part(t, m, n) = Part(t, a, n)
    BY <1>1, <1>2, PartCat
  <2> QED BY <1>1, <1>3, <2>1, Zenon
<1>6. Game(<<>>) = Part(t, n, n) /\ n <= n
  BY <1>2, GameEmpty, PartGame
<1>7. Ahead(d, Tail(q), w, t, a, b)
  BY <1>0, <1>1, <1>4, Zenon DEF Ahead
<1>8. Ahead(d \o Tail(q), <<>>, w, t, a, b)
  BY <1>0, <1>1, <1>2, <1>5, <1>6, Zenon DEF Ahead
<1> QED BY <1>7, <1>8

\* The first packet of the batch, one of the game, is deferred; alone, or with all that is
\* behind it.
LEMMA AheadKeep ==
  ASSUME NEW t \in Streamed, NEW a \in Nat, NEW b \in Nat, NEW d \in Seq(Pack),
         NEW q \in Seq(Pack), NEW w, q # <<>>, Head(q).type \notin LoginTypes,
         Ahead(d, q, w, t, a, b)
  PROVE  /\ Ahead(Append(d, Head(q)), Tail(q), w, t, a, b)
         /\ Ahead((d \o <<Head(q)>>) \o Tail(q), <<>>, w, t, a, b)
<1>0. Len(t) \in Nat /\ b <= Len(t)
  BY DEF Streamed, Ahead
<1>1. PICK m, n \in Nat :
         /\ a <= m /\ m <= n /\ n <= b
         /\ d = Part(t, a, m) /\ Game(q) = Part(t, m, n) /\ Chain(w, t, n, b)
  BY DEF Ahead
<1>2. n <= Len(t) /\ a <= n /\ m <= Len(t) /\ q = Part(t, m, n)
  BY <1>0, <1>1 DEF Game
<1>3. m < n /\ m + 1 \in Nat /\ a <= m + 1 /\ m <= m + 1 /\ m + 1 <= n /\ m + 1 <= Len(t)
  <2>1. m # n
    BY <1>1, <1>2, PartGame
  <2> QED BY <1>0, <1>1, <1>2, <2>1
<1>4. <<Head(q)>> = Part(t, m, m + 1) /\ Tail(q) = Part(t, m + 1, n)
  BY <1>2, <1>3, PartHead
<1>5. d \o <<Head(q)>> = Part(t, a, m + 1)
  <2>1. Part(t, a, m) \o Part(t, m, m + 1) = Part(t, a, m + 1)
    <3>h. PICK h \in Nat : h = m + 1
      BY <1>3
    <3>1. a <= m /\ m <= h /\ h <= Len(t)
      BY <1>1, <1>3, <3>h
    <3>2. Part(t, a, m) \o Part(t, m, h) = Part(t, a, h)
      BY <3>1, PartCat
    <3> QED BY <3>h, <3>2, Zenon
  <2> QED BY <1>1, <1>4, <2>1, Zenon
<1>6. Append(d, Head(q)) = d \o <<Head(q)>>
  <2>1. Head(q) \in Pack
    BY EmptySeq
  <2> QED BY <2>1
<1>7. (d \o <<Head(q)>>) \o Tail(q) = Part(t, a, n)
  <2>1. Part(t, a, m + 1) \o Part(t, m + 1, n) = Part(t, a, n)
    BY <1>2, <1>3, PartCat
  <2> QED BY <1>4, <1>5, <2>1, Zenon
<1>8. Game(Tail(q)) = Part(t, m + 1, n)
  <2>1. Game(Part(t, m + 1, n)) = Part(t, m + 1, n)
    BY <1>2, <1>3, PartGame
  <2> QED BY <1>4, <2>1, Zenon
<1>9. Game(<<>>) = Part(t, n, n) /\ n <= n
  BY <1>2, GameEmpty, PartGame
<1>10. Ahead(Append(d, Head(q)), Tail(q), w, t, a, b)
  <2>1. Append(d, Head(q)) = Part(t, a, m + 1)
    BY <1>5, <1>6, Zenon
  <2> QED BY <1>0, <1>1, <1>3, <1>8, <2>1, Zenon DEF Ahead
<1>11. Ahead((d \o <<Head(q)>>) \o Tail(q), <<>>, w, t, a, b)
  BY <1>0, <1>1, <1>2, <1>7, <1>9, Zenon DEF Ahead
<1> QED BY <1>10, <1>11

\* What was deferred is taken.
LEMMA AheadTake ==
  ASSUME NEW t \in Streamed, NEW a \in Nat, NEW b \in Nat, NEW d, NEW w,
         Ahead(d, <<>>, w, t, a, b)
  PROVE  \E m \in Nat : /\ a <= m /\ m <= b /\ d = Part(t, a, m)
                        /\ Ahead(<<>>, <<>>, w, t, m, b)
<1>0. Len(t) \in Nat /\ b <= Len(t)
  BY DEF Streamed, Ahead
<1>1. PICK m, n \in Nat :
         /\ a <= m /\ m <= n /\ n <= b
         /\ d = Part(t, a, m) /\ Game(<<>>) = Part(t, m, n) /\ Chain(w, t, n, b)
  BY DEF Ahead
<1>2. n <= Len(t) /\ m <= Len(t)
  BY <1>0, <1>1
<1>3. m = n
  BY <1>1, <1>2, GameEmpty, PartGame
<1>4. <<>> = Part(t, m, m)
  BY <1>2, PartGame
<1> QED BY <1>0, <1>1, <1>3, <1>4, GameEmpty DEF Ahead

\* A batch is taken.
LEMMA AheadTakeBatch ==
  ASSUME NEW t \in Streamed, NEW a \in Nat, NEW b \in Nat,
         NEW w \in Seq(Bundle), w # <<>>, Game(Head(w).pks) = Head(w).pks,
         Ahead(<<>>, <<>>, w, t, a, b)
  PROVE  \E m \in Nat : /\ a <= m /\ m <= b /\ Head(w).pks = Part(t, a, m)
                        /\ Ahead(<<>>, <<>>, Tail(w), t, m, b)
<1>0. Len(t) \in Nat /\ b <= Len(t)
  BY DEF Streamed, Ahead
<1>1. PICK m, n \in Nat :
         /\ a <= m /\ m <= n /\ n <= b
         /\ <<>> = Part(t, a, m) /\ Game(<<>>) = Part(t, m, n) /\ Chain(w, t, n, b)
  BY DEF Ahead
<1>2. n <= Len(t) /\ m <= Len(t)
  BY <1>0, <1>1
<1>3. m = n /\ m = a
  BY <1>1, <1>2, GameEmpty, PartGame
<1>4. PICK k \in Nat : /\ n <= k /\ k <= b
                       /\ Game(Head(w).pks) = Part(t, n, k) /\ Chain(Tail(w), t, k, b)
  BY <1>1, ChainHead
<1>5. <<>> = Part(t, k, k)
  BY <1>0, <1>4, PartGame
<1>6. Ahead(<<>>, <<>>, Tail(w), t, k, b)
  BY <1>0, <1>4, <1>5, GameEmpty DEF Ahead
<1> QED BY <1>3, <1>4, <1>6

\* A batch is written.
LEMMA AheadGive ==
  ASSUME NEW t \in Streamed, NEW a \in Nat, NEW b \in Nat, NEW c \in Nat, NEW d, NEW q,
         NEW w \in Seq(Bundle), NEW x \in Bundle, b <= c, c <= Len(t),
         Game(x.pks) = Part(t, b, c), Ahead(d, q, w, t, a, b)
  PROVE  Ahead(d, q, Append(w, x), t, a, c)
<1>1. PICK m, n \in Nat :
         /\ a <= m /\ m <= n /\ n <= b
         /\ d = Part(t, a, m) /\ Game(q) = Part(t, m, n) /\ Chain(w, t, n, b)
  BY DEF Ahead
<1>2. Chain(Append(w, x), t, n, c)
  BY <1>1, ChainAppend
<1>3. n <= c
  BY <1>1
<1> QED BY <1>1, <1>2, <1>3 DEF Ahead

\* Nothing is under way.
LEMMA AheadNone ==
  ASSUME NEW t \in Streamed, NEW a \in Nat, a <= Len(t)
  PROVE  Ahead(<<>>, <<>>, <<>>, t, a, a)
<1>1. <<>> = Part(t, a, a)
  BY PartGame
<1> QED BY <1>1, ChainEmpty, GameEmpty DEF Ahead

\* Nothing of one stream is nothing of another.
LEMMA AheadOther ==
  ASSUME NEW t \in Streamed, NEW u \in Streamed, NEW d, NEW q, NEW w \in Seq(Bundle),
         Ahead(d, q, w, t, 0, 0)
  PROVE  Ahead(d, q, w, u, 0, 0)
<1>0. Len(u) \in Nat /\ 0 <= Len(u)
  BY DEF Streamed
<1>1. PICK m, n \in Nat :
         /\ 0 <= m /\ m <= n /\ n <= 0
         /\ d = Part(t, 0, m) /\ Game(q) = Part(t, m, n) /\ Chain(w, t, n, 0)
  BY DEF Ahead
<1>2. m = 0 /\ n = 0
  BY <1>1
<1>3. Part(t, 0, 0) = Part(u, 0, 0)
  BY DEF Part
<1>4. Chain(w, u, 0, 0)
  <2>1. PICK f \in [0..Len(w) -> Nat] :
          /\ f[0] = 0 /\ f[Len(w)] = 0
          /\ \A i, j \in 0..Len(w) : i <= j => f[i] <= f[j]
          /\ \A i \in 1..Len(w) : Game(w[i].pks) = Part(t, f[i - 1], f[i])
    BY <1>1, <1>2 DEF Chain
  <2>2. \A i \in 0..Len(w) : f[i] = 0
    BY <2>1
  <2>3. ASSUME NEW i \in 1..Len(w) PROVE Game(w[i].pks) = Part(u, f[i - 1], f[i])
    <3>1. i \in 0..Len(w) /\ i - 1 \in 0..Len(w)
      OBVIOUS
    <3>2. f[i - 1] = 0 /\ f[i] = 0
      BY <2>2, <3>1
    <3> QED BY <1>3, <2>1, <3>2
  <2> QED BY <2>1, <2>3 DEF Chain
<1> QED BY <1>0, <1>1, <1>2, <1>3, <1>4 DEF Ahead

-----------------------------------------------------------------------------
(* The stages of a link.                                                   *)

\* The two links, each by the end that logs in over it.
Dialers == {L!Player, L!Back}

\* What a game sends to end e.
GameTypes(e) == IF e \in Dialers THEN {"data", "PlayStatus", "Disconnect"} ELSE {"data"}
OfGame(e, pks) == \A i \in 1..Len(pks) : pks[i].type \in GameTypes(e)
GameFrom(e, n) == \A i \in n..Len(wire[e]) : OfGame(e, wire[e][i].pks)

\* A login packet at the head of a batch; the game's may be behind only two of them.
Leads(t, e, pks) ==
    /\ pks # <<>> /\ Head(pks).type = t
    /\ IF t \in {"Login", "ClientToServerHandshake"} THEN OfGame(e, Tail(pks))
       ELSE Tail(pks) = <<>>

\* Nothing has arrived at e, and nothing is on its way there.
Silent(e) == wire[e] = <<>> /\ batch[e] = <<>>

\* Its batch is all that is under way to e, or comes before the rest.
Alone(t, e) ==
    \/ wire[e] = <<>> /\ Leads(t, e, batch[e])
    \/ batch[e] = <<>> /\ Len(wire[e]) = 1 /\ Leads(t, e, wire[e][1].pks)
Foremost(t, e) ==
    \/ Leads(t, e, batch[e]) /\ GameFrom(e, 1)
    \/ /\ OfGame(e, batch[e]) /\ wire[e] # <<>>
       /\ Leads(t, e, wire[e][1].pks) /\ GameFrom(e, 2)

\* What the codecs of a link are set to, and whether both its ends are in ReadLoop.
On(comp, enc) == [comp |-> comp, enc |-> enc]
Set(c, x, y) == codec[c] = x /\ codec[L!Peer(c)] = y
Reading(c) == loginPc[c] = "reading" /\ loginPc[L!Peer(c)] = "reading"

\* The stages of a link.
Apart(c) ==
    /\ loginPc[c] \in {"idle", "closed"} /\ loginPc[L!Peer(c)] = "reading"
    /\ Set(c, L!Plain, L!Plain) /\ Silent(c) /\ Silent(L!Peer(c))
Asking(c) ==
    /\ Reading(c) /\ Set(c, L!Plain, L!Plain)
    /\ Alone("RequestNetworkSettings", L!Peer(c)) /\ Silent(c)
Replied(c) ==
    /\ Reading(c) /\ Set(c, L!Plain, On(TRUE, FALSE))
    /\ Alone("NetworkSettings", c) /\ Silent(L!Peer(c))
LoggingIn(c) ==
    /\ Reading(c) /\ Set(c, On(TRUE, FALSE), On(TRUE, FALSE))
    /\ Alone("Login", L!Peer(c)) /\ Silent(c)
Challenged(c) ==
    /\ Reading(c) /\ encrypts[L!Peer(c)] /\ Set(c, On(TRUE, FALSE), On(TRUE, TRUE))
    /\ Alone("ServerToClientHandshake", c)
    /\ wire[L!Peer(c)] = <<>> /\ OfGame(L!Peer(c), batch[L!Peer(c)])
Answering(c) ==
    /\ loginPc[c] = "done" /\ loginPc[L!Peer(c)] = "reading"
    /\ encrypts[L!Peer(c)] /\ Set(c, On(TRUE, TRUE), On(TRUE, TRUE))
    /\ Foremost("ClientToServerHandshake", L!Peer(c)) /\ Silent(c)
Settled(c) ==
    /\ loginPc[c] \in {"reading", "done", "refused", "closed"}
    /\ loginPc[L!Peer(c)] \in {"done", "closed"}
    /\ Set(c, On(TRUE, encrypts[L!Peer(c)]), On(TRUE, encrypts[L!Peer(c)]))
    /\ encrypts[L!Peer(c)] => loginPc[c] = "done"
    /\ loginPc[c] = "done" => batch[c] = <<>>
    /\ OfGame(c, batch[c]) /\ batch[L!Peer(c)] = <<>>
    /\ GameFrom(c, 1) /\ GameFrom(L!Peer(c), 1)

\* A link is at one of these stages.
Link(c) ==
    \/ Apart(c) \/ Asking(c) \/ Replied(c) \/ LoggingIn(c)
    \/ Challenged(c) \/ Answering(c) \/ Settled(c)

\* Every batch on the wire was encoded as its receiver decodes.
Agreed == \A e \in L!Ends : \A i \in 1..Len(wire[e]) : wire[e][i].codec = codec[e]

\* The relay logs in to the backend once the player's login is over, and a closed relay is
\* closed at both its ends.
Turns ==
    /\ loginPc[L!Back] # "idle" => loginPc[L!Door] \in {"done", "closed"}
    /\ loginPc[L!Back] = "closed" <=> loginPc[L!Door] = "closed"
    /\ loginPc[L!Player] # "closed"

\* The types of the variables, finer than TypeOK.
LoginPcs == {"idle", "reading", "done", "closed", "garbled", "rejected", "refused"}

LoginTyped ==
    /\ encrypts \in [L!Servers -> BOOLEAN] /\ refused \in BOOLEAN
    /\ wire \in [L!Ends -> Seq(Bundle)]
    /\ batch \in [L!Ends -> Seq(Pack)] /\ deferred \in [L!Ends -> Seq(Pack)]
    /\ got \in [L!Ends -> Seq(Pack)]
    /\ codec \in [L!Ends -> L!Codecs]
    /\ loginPc \in [L!Ends -> LoginPcs]
    /\ sent \in [{L!Player, L!Backend} -> Nat]

\* Only packets of the game are deferred.
OnlyGame == \A e \in L!Ends : OfGame(e, deferred[e])

\* The stages of both links, and what holds at each of them.
Linked == LoginTyped /\ Agreed /\ Turns /\ OnlyGame /\ \A c \in Dialers : Link(c)

\* The four ends, their peers and their roles.
LEMMA PeerFacts ==
  /\ L!Peer(L!Player) = L!Door /\ L!Peer(L!Door) = L!Player
  /\ L!Peer(L!Back) = L!Backend /\ L!Peer(L!Backend) = L!Back
  /\ L!Ends = {L!Player, L!Door, L!Back, L!Backend}
  /\ L!Servers = {L!Door, L!Backend} /\ L!Relay = {L!Door, L!Back}
  /\ L!Player # L!Door /\ L!Player # L!Back /\ L!Player # L!Backend
  /\ L!Door # L!Back /\ L!Door # L!Backend /\ L!Back # L!Backend
  /\ \A e \in L!Ends : /\ L!Peer(e) \in L!Ends \ {e} /\ L!Peer(L!Peer(e)) = e
                       /\ e \in Dialers <=> L!Peer(e) \in L!Servers
                       /\ e \in Dialers <=> e \notin L!Servers
BY DEF L!Peer, L!Ends, L!Servers, L!Relay, L!Player, L!Door, L!Back, L!Backend, Dialers

\* A batch of the game has no login packet at its head, and its tail is of the game.
LEMMA OfGameHead ==
  ASSUME NEW e, NEW q \in Seq(Pack), q # <<>>, OfGame(e, q)
  PROVE  /\ Head(q).type \in GameTypes(e) /\ Head(q).type \notin LoginTypes
         /\ OfGame(e, Tail(q))
<1>1. /\ Head(q) = q[1] /\ 1 \in 1..Len(q) /\ Len(Tail(q)) = Len(q) - 1
      /\ \A i \in 1..Len(Tail(q)) : Tail(q)[i] = q[i + 1]
  BY EmptySeq
<1>2. \A i \in 1..Len(Tail(q)) : i + 1 \in 1..Len(q)
  BY <1>1
<1>3. GameTypes(e) \cap LoginTypes = {}
  BY DEF GameTypes, LoginTypes
<1> QED BY <1>1, <1>2, <1>3 DEF OfGame

\* What Append adds, and what it leaves.
LEMMA AppendFacts ==
  ASSUME NEW X, NEW s \in Seq(X), NEW x \in X
  PROVE  /\ Append(s, x) \in Seq(X) /\ Len(Append(s, x)) = Len(s) + 1
         /\ Append(s, x)[Len(s) + 1] = x /\ \A i \in 1..Len(s) : Append(s, x)[i] = s[i]
         /\ Append(s, x) # <<>>
OBVIOUS

\* Before the player joins both links are apart.
LEMMA LoginInit == L!Init => Linked
<1> SUFFICES ASSUME L!Init PROVE Linked
  OBVIOUS
<1> USE PeerFacts DEF L!Init
<1>1. LoginTyped
  BY DEF LoginTyped, L!Plain, L!Codecs, LoginPcs
<1>2. Agreed
  BY DEF Agreed
<1>3. Turns
  BY DEF Turns
<1>4. \A c \in Dialers : Apart(c)
  BY DEF Apart, Set, Silent, Dialers
<1>5. OnlyGame
  BY DEF OnlyGame, OfGame
<1> QED BY <1>1, <1>2, <1>3, <1>4, <1>5 DEF Linked, Link

\* Which packet ReadLoop may find, and when.
LEMMA AtHead ==
  ASSUME LoginTyped, \A c \in Dialers : Link(c), NEW e \in L!Ends,
         loginPc[e] = "reading", batch[e] # <<>>
  PROVE  LET t == Head(batch[e]).type
             rest == Tail(batch[e])
         IN  /\ t = "RequestNetworkSettings" =>
                  e \in L!Servers /\ Asking(L!Peer(e)) /\ wire[e] = <<>> /\ rest = <<>>
             /\ t = "NetworkSettings" =>
                  e \in Dialers /\ Replied(e) /\ wire[e] = <<>> /\ rest = <<>>
             /\ t = "Login" =>
                  /\ e \in L!Servers /\ LoggingIn(L!Peer(e)) /\ wire[e] = <<>>
                  /\ OfGame(e, rest)
             /\ t = "ServerToClientHandshake" =>
                  e \in Dialers /\ Challenged(e) /\ wire[e] = <<>> /\ rest = <<>>
             /\ t = "ClientToServerHandshake" =>
                  /\ e \in L!Servers /\ Answering(L!Peer(e)) /\ GameFrom(e, 1)
                  /\ OfGame(e, rest)
             /\ t \notin LoginTypes =>
                  /\ t \in GameTypes(e) /\ OfGame(e, batch[e]) /\ OfGame(e, rest)
                  /\ e \in Dialers => Settled(e)
                  /\ e \in L!Servers => Challenged(L!Peer(e)) \/ Answering(L!Peer(e))
<1> DEFINE t == Head(batch[e]).type
<1>1. batch[e] \in Seq(Pack)
  BY DEF LoginTyped
<1>2. OfGame(e, batch[e]) => /\ t \in GameTypes(e) /\ t \notin LoginTypes
                             /\ OfGame(e, Tail(batch[e]))
  BY <1>1, OfGameHead
<1>3. CASE e \in Dialers
  <2>1. Link(e) /\ e \notin L!Servers
    BY <1>3, PeerFacts
  <2>2. CASE Replied(e)
    BY <1>3, <2>1, <2>2 DEF Replied, Alone, Leads, LoginTypes
  <2>3. CASE Challenged(e)
    BY <1>3, <2>1, <2>3 DEF Challenged, Alone, Leads, LoginTypes
  <2>4. CASE Settled(e)
    BY <1>2, <1>3, <2>1, <2>4 DEF Settled, LoginTypes
  <2> QED BY <2>1, <2>2, <2>3, <2>4
          DEF Link, Apart, Asking, LoggingIn, Answering, Silent, Reading
<1>4. CASE e \in L!Servers
  <2> DEFINE c == L!Peer(e)
  <2>1. Link(c) /\ e \notin Dialers /\ L!Peer(c) = e
    BY <1>4, PeerFacts
  <2>2. CASE Asking(c)
    BY <1>4, <2>1, <2>2 DEF Asking, Alone, Leads, LoginTypes
  <2>3. CASE LoggingIn(c)
    BY <1>4, <2>1, <2>3 DEF LoggingIn, Alone, Leads, LoginTypes
  <2>4. CASE Challenged(c)
    BY <1>2, <1>4, <2>1, <2>4 DEF Challenged, LoginTypes
  <2>5. CASE Answering(c)
    BY <1>2, <1>4, <2>1, <2>5 DEF Answering, Foremost, Leads, LoginTypes
  <2> QED BY <2>1, <2>2, <2>3, <2>4, <2>5
          DEF Link, Apart, Replied, Settled, Silent, Reading
<1> QED BY <1>3, <1>4, PeerFacts

\* A link none of whose ends takes part in a step.
LEMMA LinkSame ==
  ASSUME NEW c \in Dialers, Link(c), encrypts' = encrypts,
         wire'[c] = wire[c], wire'[L!Peer(c)] = wire[L!Peer(c)],
         batch'[c] = batch[c], batch'[L!Peer(c)] = batch[L!Peer(c)],
         codec'[c] = codec[c], codec'[L!Peer(c)] = codec[L!Peer(c)],
         loginPc'[c] = loginPc[c], loginPc'[L!Peer(c)] = loginPc[L!Peer(c)]
  PROVE  Link(c)'
<1> USE DEF Set, Silent, Alone, Foremost, Reading, GameFrom
<1>1. CASE Apart(c)
  BY <1>1 DEF Apart, Link
<1>2. CASE Asking(c)
  BY <1>2 DEF Asking, Link
<1>3. CASE Replied(c)
  BY <1>3 DEF Replied, Link
<1>4. CASE LoggingIn(c)
  BY <1>4 DEF LoggingIn, Link
<1>5. CASE Challenged(c)
  BY <1>5 DEF Challenged, Link
<1>6. CASE Answering(c)
  BY <1>6 DEF Answering, Link
<1>7. CASE Settled(c)
  BY <1>7 DEF Settled, Link
<1> QED BY <1>1, <1>2, <1>3, <1>4, <1>5, <1>6, <1>7 DEF Link

\* A step at one link leaves the other at its stage.
LEMMA LinkElse ==
  ASSUME Linked, NEW e \in L!Ends, NEW d \in Dialers, d \in {e, L!Peer(e)},
         encrypts' = encrypts, Link(d)',
         \A k \in L!Ends \ {e, L!Peer(e)} :
            /\ wire'[k] = wire[k] /\ batch'[k] = batch[k]
            /\ codec'[k] = codec[k] /\ loginPc'[k] = loginPc[k]
  PROVE  \A c \in Dialers : Link(c)'
<1> SUFFICES ASSUME NEW c \in Dialers, c # d PROVE Link(c)'
  OBVIOUS
<1>1. /\ c \in L!Ends \ {e, L!Peer(e)} /\ L!Peer(c) \in L!Ends \ {e, L!Peer(e)}
  BY PeerFacts DEF Dialers
<1>2. Link(c)
  BY DEF Linked
<1> QED BY <1>1, <1>2, LinkSame

\* A batch that the receiver decodes is added to the wire.
LEMMA AgreedWrite ==
  ASSUME LoginTyped, Agreed, NEW e \in L!Ends, NEW x \in Bundle,
         wire' = [wire EXCEPT ![L!Peer(e)] = Append(@, x)], x.codec = codec[L!Peer(e)],
         \A k \in L!Ends \ {e} : codec'[k] = codec[k],
         codec'[e] = codec[e] \/ wire[e] = <<>>
  PROVE  Agreed'
<1> DEFINE p == L!Peer(e)
<1>1. p \in L!Ends \ {e} /\ wire[p] \in Seq(Bundle)
  BY PeerFacts DEF LoginTyped
<1>2. /\ wire'[p] = Append(wire[p], x)
      /\ \A k \in L!Ends \ {p} : wire'[k] = wire[k]
  BY <1>1 DEF LoginTyped
<1>3. \A i \in 1..Len(wire'[p]) : wire'[p][i].codec = codec'[p]
  <2>1. /\ Len(wire'[p]) = Len(wire[p]) + 1 /\ wire'[p][Len(wire[p]) + 1] = x
        /\ \A i \in 1..Len(wire[p]) : wire'[p][i] = wire[p][i]
    BY <1>1, <1>2, AppendFacts
  <2> QED BY <1>1, <2>1 DEF Agreed
<1>4. \A k \in L!Ends \ {p} : \A i \in 1..Len(wire'[k]) : wire'[k][i].codec = codec'[k]
  BY <1>1, <1>2 DEF Agreed
<1> QED BY <1>3, <1>4 DEF Agreed

\* A batch is taken from the wire.
LEMMA AgreedTake ==
  ASSUME LoginTyped, Agreed, NEW e \in L!Ends, wire[e] # <<>>, codec' = codec,
         wire' = [wire EXCEPT ![e] = Tail(@)]
  PROVE  Agreed'
<1>1. /\ Len(Tail(wire[e])) = Len(wire[e]) - 1
      /\ \A i \in 1..Len(Tail(wire[e])) : Tail(wire[e])[i] = wire[e][i + 1]
  BY EmptySeq DEF LoginTyped
<1>2. wire'[e] = Tail(wire[e]) /\ \A k \in L!Ends \ {e} : wire'[k] = wire[k]
  BY DEF LoginTyped
<1>3. \A i \in 1..Len(wire'[e]) : i + 1 \in 1..Len(wire[e])
  BY <1>1, <1>2 DEF LoginTyped
<1> QED BY <1>1, <1>2, <1>3 DEF Agreed

\* A step that changes no pc but within ReadLoop keeps the turns.
LEMMA TurnsKept ==
  ASSUME LoginTyped, Turns, NEW e \in L!Ends, loginPc[e] = "reading",
         \/ loginPc' = loginPc
         \/ \E v \in LoginPcs \ {"idle", "closed"} : loginPc' = [loginPc EXCEPT ![e] = v]
  PROVE  Turns'
BY PeerFacts DEF Turns, LoginTyped

\* The first batch of a wire is read.
LEMMA GameTake ==
  ASSUME LoginTyped, NEW e \in L!Ends, wire[e] # <<>>, NEW n \in {1, 2}, GameFrom(e, n),
         wire'[e] = Tail(wire[e])
  PROVE  /\ GameFrom(e, 1)'
         /\ n = 1 => OfGame(e, Head(wire[e]).pks)
<1>1. /\ Head(wire[e]) = wire[e][1] /\ 1 \in 1..Len(wire[e])
      /\ Len(Tail(wire[e])) = Len(wire[e]) - 1
      /\ \A i \in 1..Len(Tail(wire[e])) : Tail(wire[e])[i] = wire[e][i + 1]
  BY EmptySeq DEF LoginTyped
<1>2. \A i \in 1..Len(wire'[e]) : i + 1 \in 2..Len(wire[e]) /\ i + 1 \in n..Len(wire[e])
  BY <1>1 DEF LoginTyped
<1> QED BY <1>1, <1>2 DEF GameFrom

\* The next batch is read: it is decoded, and the link stays at its stage.
LEMMA ReadBatchLink ==
  ASSUME Linked, NEW e \in L!Ends, L!ReadBatch(e)
  PROVE  /\ Linked' /\ L!Decodes(e)
         /\ batch' = [batch EXCEPT ![e] = Head(wire[e]).pks] /\ loginPc' = loginPc
<1> DEFINE w == wire[e]
<1>0. LoginTyped /\ Agreed /\ Turns /\ OnlyGame /\ \A c \in Dialers : Link(c)
  BY DEF Linked
<1>1. /\ w \in Seq(Bundle) /\ w # <<>> /\ Head(w) = w[1] /\ Head(w) \in Bundle
      /\ 1 \in 1..Len(w) /\ Tail(w) \in Seq(Bundle) /\ Len(Tail(w)) = Len(w) - 1
      /\ loginPc[e] = "reading" /\ batch[e] = <<>>
  BY <1>0, EmptySeq DEF L!ReadBatch, L!HasBatch, LoginTyped
<1>2. L!Decodes(e)
  BY <1>0, <1>1 DEF L!Decodes, Agreed
<1>3. /\ wire' = [wire EXCEPT ![e] = Tail(@)]
      /\ batch' = [batch EXCEPT ![e] = Head(wire[e]).pks]
      /\ loginPc' = loginPc
      /\ UNCHANGED <<encrypts, codec, deferred, sent, got, refused>>
  BY <1>0, <1>2 DEF L!ReadBatch, LoginTyped
<1>4. LoginTyped'
  BY <1>0, <1>1, <1>3 DEF LoginTyped, Bundle
<1>5. Agreed' /\ Turns' /\ OnlyGame'
  BY <1>0, <1>1, <1>3, AgreedTake, TurnsKept DEF OnlyGame
<1>6. /\ wire'[e] = Tail(w) /\ batch'[e] = Head(w).pks
      /\ \A k \in L!Ends \ {e} : wire'[k] = wire[k] /\ batch'[k] = batch[k]
  BY <1>0, <1>3 DEF LoginTyped
<1>7. Len(w) = 1 => Tail(w) = <<>>
  BY <1>0, TailOne DEF LoginTyped
<1>8. \A n \in {1, 2} : GameFrom(e, n) => /\ GameFrom(e, 1)'
                                          /\ n = 1 => OfGame(e, Head(w).pks)
  BY <1>0, <1>1, <1>6, GameTake
<1>9. \A t : Alone(t, e) => wire'[e] = <<>> /\ Leads(t, e, batch'[e])
  BY <1>1, <1>6, <1>7 DEF Alone, Leads
<1>10. CASE e \in Dialers
  <2>1. Link(e) /\ L!Peer(e) \in L!Ends \ {e}
    BY <1>0, <1>10, PeerFacts
  <2>2. ASSUME Replied(e) PROVE Link(e)'
    BY <1>3, <1>6, <1>9, <2>1, <2>2 DEF Replied, Set, Silent, Reading, Alone, Link
  <2>3. ASSUME Challenged(e) PROVE Link(e)'
    BY <1>3, <1>6, <1>9, <2>1, <2>3 DEF Challenged, Set, Reading, Alone, Link
  <2>4. ASSUME Settled(e) PROVE Link(e)'
    <3>1. GameFrom(L!Peer(e), 1)'
      BY <1>6, <2>1, <2>4 DEF Settled, GameFrom
    <3> QED BY <1>1, <1>3, <1>6, <1>8, <2>1, <2>4, <3>1 DEF Settled, Set, Link
  <2>5. Link(e)'
    BY <1>1, <2>1, <2>2, <2>3, <2>4
       DEF Link, Apart, Asking, LoggingIn, Answering, Silent, Reading
  <2> QED BY <1>2, <1>3, <1>4, <1>5, <1>6, <1>10, <2>5, LinkElse DEF Linked
<1>11. CASE e \in L!Servers
  <2> DEFINE c == L!Peer(e)
  <2>1. Link(c) /\ L!Peer(c) = e /\ c \in L!Ends \ {e} /\ c \in Dialers
    BY <1>0, <1>11, PeerFacts
  <2>2. ASSUME Asking(c) PROVE Link(c)'
    BY <1>3, <1>6, <1>9, <2>1, <2>2 DEF Asking, Set, Silent, Reading, Alone, Link
  <2>3. ASSUME LoggingIn(c) PROVE Link(c)'
    BY <1>3, <1>6, <1>9, <2>1, <2>3 DEF LoggingIn, Set, Silent, Reading, Alone, Link
  <2>4. ASSUME Answering(c) PROVE Link(c)'
    <3>1. ~Leads("ClientToServerHandshake", e, batch[e])
      BY <1>1 DEF Leads
    <3>2. Foremost("ClientToServerHandshake", e)'
      BY <1>1, <1>3, <1>6, <1>8, <2>1, <2>4, <3>1 DEF Answering, Foremost, Leads
    <3> QED BY <1>3, <1>6, <2>1, <2>4, <3>2 DEF Answering, Set, Silent, Link
  <2>5. Link(c)'
    BY <1>1, <2>1, <2>2, <2>3, <2>4
       DEF Link, Apart, Replied, Challenged, Settled, Silent, Reading
  <2> QED BY <1>2, <1>3, <1>4, <1>5, <1>6, <2>1, <2>5, LinkElse DEF Linked
<1> QED BY <1>10, <1>11, PeerFacts

-----------------------------------------------------------------------------
(* Packets and codecs.                                                     *)

\* A codec is its two switches.
LEMMA CodecFields ==
  ASSUME NEW k \in L!Codecs
  PROVE  k = On(k.comp, k.enc)
BY DEF On, L!Codecs

\* The fields of a codec.
LEMMA OnFacts ==
  /\ \A x, y : On(x, y).comp = x /\ On(x, y).enc = y
  /\ \A x, y \in BOOLEAN : On(x, y) \in L!Codecs
BY DEF On, L!Codecs

\* Compression or encryption is switched on.
LEMMA SwitchedOn ==
  ASSUME NEW k \in L!Codecs
  PROVE  /\ [k EXCEPT !.comp = TRUE] = On(TRUE, k.enc)
         /\ [k EXCEPT !.enc = TRUE] = On(k.comp, TRUE)
<1> DEFINE r == [k EXCEPT !.comp = TRUE]
           q == [k EXCEPT !.enc = TRUE]
<1>1. r \in L!Codecs /\ q \in L!Codecs
  BY DEF L!Codecs
<1>2. r.comp = TRUE /\ q.enc = TRUE
  BY DEF L!Codecs
<1>3. r.enc = k.enc
  BY DEF L!Codecs
<1>4. q.comp = k.comp
  BY DEF L!Codecs
<1> HIDE DEF r, q
<1>5. r = On(r.comp, r.enc) /\ q = On(q.comp, q.enc)
  BY <1>1, CodecFields
<1>6. r = On(TRUE, k.enc) /\ q = On(k.comp, TRUE)
  BY <1>2, <1>3, <1>4, <1>5, Zenon
<1> QED BY <1>6 DEF r, q

\* Compressed and Encrypted, of the codec of an end.
LEMMA Switches ==
  ASSUME LoginTyped, NEW e \in L!Ends, NEW a \in BOOLEAN, NEW b \in BOOLEAN,
         codec[e] = On(a, b)
  PROVE  /\ L!Compressed(e) = On(TRUE, b) /\ L!Encrypted(e) = On(a, TRUE)
         /\ On(TRUE, b) \in L!Codecs /\ On(a, TRUE) \in L!Codecs
<1>1. codec[e] \in L!Codecs
  BY DEF LoginTyped
<1>2. codec[e].comp = a /\ codec[e].enc = b
  BY OnFacts
<1> QED BY <1>1, <1>2, SwitchedOn, OnFacts DEF L!Compressed, L!Encrypted

\* A packet with others behind it.
LEMMA ConsFacts ==
  ASSUME NEW X, NEW x \in X, NEW s \in Seq(X)
  PROVE  /\ <<x>> \o s \in Seq(X) /\ <<x>> \o s # <<>> /\ Head(<<x>> \o s) = x
         /\ Tail(<<x>> \o s) = s
<1> DEFINE p == <<x>> \o s
           r == Tail(p)
<1>1. /\ p \in Seq(X) /\ Len(p) = 1 + Len(s)
      /\ \A i \in 1..(1 + Len(s)) : p[i] = IF i <= 1 THEN x ELSE s[i - 1]
  <2>1. <<x>> \in Seq(X) /\ Len(<<x>>) = 1 /\ <<x>>[1] = x
    OBVIOUS
  <2> QED BY <2>1, CatFacts
<1> HIDE DEF p
<1>2. p # <<>> /\ Head(p) = x
  BY <1>1, EmptySeq
<1>3. /\ r \in Seq(X) /\ Len(r) = Len(s) /\ \A i \in 1..Len(r) : r[i] = p[i + 1]
  BY <1>1, <1>2, EmptySeq
<1> HIDE DEF r
<1>4. \A i \in 1..Len(s) : i + 1 \in 1..(1 + Len(s)) /\ ~(i + 1 <= 1) /\ (i + 1) - 1 = i
  OBVIOUS
<1>5. \A i \in 1..Len(s) : r[i] = s[i]
  BY <1>1, <1>3, <1>4
<1>6. r = s
  BY <1>3, <1>5, SeqEq
<1> QED BY <1>1, <1>2, <1>6 DEF p, r

\* A login packet sent alone.
LEMMA PkFacts ==
  ASSUME NEW t \in PkTypes, NEW k \in L!Codecs
  PROVE  /\ L!Pk(t) \in Pack /\ <<L!Pk(t)>> \in Seq(Pack) /\ L!Pk(t).type = t
         /\ L!Encoded(<<L!Pk(t)>>, k) \in Bundle
         /\ L!Encoded(<<L!Pk(t)>>, k).pks = <<L!Pk(t)>>
         /\ L!Encoded(<<L!Pk(t)>>, k).codec = k
         /\ Head(<<L!Pk(t)>>) = L!Pk(t) /\ Tail(<<L!Pk(t)>>) = <<>> /\ <<L!Pk(t)>> # <<>>
<1>1. L!Pk(t) \in Pack /\ L!Pk(t).type = t
  BY DEF L!Pk, Pack
<1>2. <<L!Pk(t)>> \in Seq(Pack) /\ Len(<<L!Pk(t)>>) = 1 /\ <<L!Pk(t)>>[1] = L!Pk(t)
  BY <1>1
<1>3. L!Encoded(<<L!Pk(t)>>, k) \in Bundle
  BY <1>2 DEF L!Encoded, Bundle
<1> QED BY <1>1, <1>2, <1>3, EmptySeq, TailOne DEF L!Encoded

\* A login packet alone, as its receiver sees it.
LEMMA SentAlone ==
  ASSUME NEW t \in PkTypes, t \notin {"Login", "ClientToServerHandshake"}, NEW k \in L!Codecs,
         NEW e, NEW x, x = L!Encoded(<<L!Pk(t)>>, k)
  PROVE  x \in Bundle /\ x.codec = k /\ x.pks = <<L!Pk(t)>> /\ Leads(t, e, x.pks)
<1>1. /\ x \in Bundle /\ x.codec = k /\ x.pks = <<L!Pk(t)>> /\ L!Pk(t).type = t
      /\ Head(<<L!Pk(t)>>) = L!Pk(t) /\ Tail(<<L!Pk(t)>>) = <<>> /\ <<L!Pk(t)>> # <<>>
  BY PkFacts
<1> QED BY <1>1, Zenon DEF Leads

\* A login packet with a packet of the game behind it, or none: what the batch carries for
\* the game is what is behind.
LEMMA Carried ==
  ASSUME LoginTyped, NEW e \in Dialers, NEW more \in L!Behind(e), NEW t \in PkTypes,
         t \in {"Login", "ClientToServerHandshake"}, NEW k \in L!Codecs,
         NEW x, x = L!Encoded(<<L!Pk(t)>> \o more, k)
  PROVE  /\ more \in Seq(Pack) /\ x \in Bundle /\ x.codec = k
         /\ x.pks = <<L!Pk(t)>> \o more /\ Leads(t, L!Peer(e), x.pks)
         /\ Game(x.pks) = more
<1>1. more = <<>> \/ (e = L!Player /\ sent[e] < UpLen /\ more = <<L!Up[sent[e] + 1]>>)
  BY DEF L!Behind
<1>2. more \in Seq(Pack) /\ OfGame(L!Peer(e), more)
  <2>1. CASE more = <<>>
    BY <2>1 DEF OfGame
  <2>2. CASE e = L!Player /\ sent[e] < UpLen /\ more = <<L!Up[sent[e] + 1]>>
    <3>1. sent[e] \in Nat /\ sent[e] + 1 \in 1..UpLen
      BY <2>2, LoginAssumption DEF LoginTyped
    <3>2. \A i \in 1..UpLen : L!Up[i] \in Pack /\ L!Up[i].type = "data"
      BY LoginAssumption DEF L!Up, Pack, PkTypes
    <3>3. more \in Seq(Pack) /\ Len(more) = 1 /\ more[1].type = "data"
      BY <2>2, <3>1, <3>2
    <3> QED BY <3>3 DEF OfGame, GameTypes
  <2> QED BY <1>1, <2>1, <2>2
<1>3. L!Pk(t) \in Pack /\ L!Pk(t).type = t
  BY PkFacts
<1>4. /\ <<L!Pk(t)>> \o more \in Seq(Pack) /\ <<L!Pk(t)>> \o more # <<>>
      /\ Head(<<L!Pk(t)>> \o more) = L!Pk(t)
      /\ Tail(<<L!Pk(t)>> \o more) = more
  BY <1>2, <1>3, ConsFacts
<1> DEFINE p == <<L!Pk(t)>> \o more
<1>a. /\ p \in Seq(Pack) /\ p # <<>> /\ Head(p).type = t /\ Tail(p) = more
      /\ x = L!Encoded(p, k)
  BY <1>3, <1>4
<1>b. p = <<L!Pk(t)>> \o more
  OBVIOUS
<1> HIDE DEF p
<1>5. x.pks = p /\ x.codec = k /\ x \in Bundle
  <2>1. /\ L!Encoded(p, k).pks = p /\ L!Encoded(p, k).codec = k
        /\ p \in Seq(Pack) => L!Encoded(p, k) \in Bundle
    BY DEF L!Encoded, Bundle
  <2> QED BY <1>a, <2>1, Zenon
<1>6. Leads(t, L!Peer(e), p)
  BY <1>2, <1>a DEF Leads
<1>7. t \in LoginTypes
  BY DEF LoginTypes
<1>8. Game(p) = more
  BY <1>a, <1>7 DEF Game
<1> QED BY <1>2, <1>b, <1>5, <1>6, <1>8, Zenon

\* The only batch on a wire.
LEMMA AppendOne ==
  ASSUME NEW X, NEW x \in X
  PROVE  Len(Append(<<>>, x)) = 1 /\ Append(<<>>, x)[1] = x
OBVIOUS

\* A batch of the game is added to a wire of such batches.
LEMMA GamePut ==
  ASSUME LoginTyped, NEW p \in L!Ends, NEW x \in Bundle, wire'[p] = Append(wire[p], x),
         OfGame(p, x.pks), NEW n \in {1, 2}, GameFrom(p, n)
  PROVE  GameFrom(p, n)'
<1>1. wire[p] \in Seq(Bundle)
  BY DEF LoginTyped
<1>2. /\ Len(wire'[p]) = Len(wire[p]) + 1 /\ wire'[p][Len(wire[p]) + 1] = x
      /\ \A i \in 1..Len(wire[p]) : wire'[p][i] = wire[p][i]
  BY <1>1, AppendFacts
<1>3. \A i \in n..Len(wire'[p]) : i = Len(wire[p]) + 1 \/ (i \in n..Len(wire[p]) /\ i \in 1..Len(wire[p]))
  BY <1>1, <1>2
<1> QED BY <1>2, <1>3 DEF GameFrom

\* What writing to the wire of an end changes.
LEMMA WriteFacts ==
  ASSUME LoginTyped, NEW e \in L!Ends, NEW x \in Bundle,
         wire' = [wire EXCEPT ![e] = Append(@, x)]
  PROVE  /\ wire' \in [L!Ends -> Seq(Bundle)]
         /\ wire'[e] = Append(wire[e], x)
         /\ \A k \in L!Ends \ {e} : wire'[k] = wire[k]
<1>1. wire[e] \in Seq(Bundle) /\ Append(wire[e], x) \in Seq(Bundle)
  BY AppendFacts DEF LoginTyped
<1> QED BY <1>1 DEF LoginTyped

\* What taking a batch from the wire of an end changes.
LEMMA TakeFacts ==
  ASSUME LoginTyped, NEW e \in L!Ends, batch[e] # <<>>,
         batch' = [batch EXCEPT ![e] = Tail(@)] \/ batch' = [batch EXCEPT ![e] = <<>>]
  PROVE  /\ batch' \in [L!Ends -> Seq(Pack)]
         /\ batch'[e] = Tail(batch[e]) \/ batch'[e] = <<>>
         /\ \A k \in L!Ends \ {e} : batch'[k] = batch[k]
         /\ Head(batch[e]) \in Pack /\ Tail(batch[e]) \in Seq(Pack)
<1>1. /\ batch[e] \in Seq(Pack) /\ Head(batch[e]) \in Pack
      /\ Tail(batch[e]) \in Seq(Pack) /\ <<>> \in Seq(Pack)
  BY EmptySeq DEF LoginTyped
<1> QED BY <1>1 DEF LoginTyped

\* Batches of the game together are one.
LEMMA CatGame ==
  ASSUME NEW e, NEW p \in Seq(Pack), NEW q \in Seq(Pack), OfGame(e, p), OfGame(e, q)
  PROVE  OfGame(e, p \o q)
BY CatFacts DEF OfGame

\* A handler takes the packet at the head of the batch of e, answers it with x, sets the
\* codec of e to k and its place in the login to v.
Answers(e, x, k, v) ==
    /\ loginPc[e] = "reading" /\ batch[e] # <<>> /\ wire[e] = <<>>
    /\ x \in Bundle /\ x.codec = codec[L!Peer(e)] /\ k \in L!Codecs
    /\ v \in LoginPcs \ {"idle", "closed"}
    /\ wire' = [wire EXCEPT ![L!Peer(e)] = Append(@, x)]
    /\ batch' = [batch EXCEPT ![e] = Tail(@)] \/ batch' = [batch EXCEPT ![e] = <<>>]
    /\ codec' = [codec EXCEPT ![e] = k]
    /\ loginPc' = [loginPc EXCEPT ![e] = v]
    /\ deferred' \in [L!Ends -> Seq(Pack)] /\ OnlyGame'
    /\ sent' \in [{L!Player, L!Backend} -> Nat]
    /\ encrypts' = encrypts /\ got' = got /\ refused' = refused

\* What is left to show then is that the link goes on to its next stage.
LEMMA Answered ==
  ASSUME Linked, NEW e \in L!Ends, NEW x, NEW k, NEW v, Answers(e, x, k, v)
  PROVE  /\ wire'[e] = <<>> /\ wire'[L!Peer(e)] = Append(wire[L!Peer(e)], x)
         /\ wire[L!Peer(e)] = <<>> =>
               Len(wire'[L!Peer(e)]) = 1 /\ wire'[L!Peer(e)][1] = x
         /\ wire'[L!Peer(e)] # <<>>
         /\ batch'[e] = Tail(batch[e]) \/ batch'[e] = <<>>
         /\ batch'[L!Peer(e)] = batch[L!Peer(e)]
         /\ codec'[e] = k /\ codec'[L!Peer(e)] = codec[L!Peer(e)]
         /\ loginPc'[e] = v /\ loginPc'[L!Peer(e)] = loginPc[L!Peer(e)]
         /\ \A d \in Dialers : d \in {e, L!Peer(e)} /\ Link(d)' => Linked'
<1> USE DEF Answers
<1> DEFINE c == L!Peer(e)
<1>0. LoginTyped /\ Agreed /\ Turns
  BY DEF Linked
<1>1. c \in L!Ends \ {e}
  BY PeerFacts
<1>2. /\ wire' \in [L!Ends -> Seq(Bundle)]
      /\ wire'[c] = Append(wire[c], x)
      /\ \A j \in L!Ends \ {c} : wire'[j] = wire[j]
  BY <1>0, <1>1, WriteFacts
<1>3. /\ batch' \in [L!Ends -> Seq(Pack)]
      /\ batch'[e] = Tail(batch[e]) \/ batch'[e] = <<>>
      /\ \A j \in L!Ends \ {e} : batch'[j] = batch[j]
  BY <1>0, TakeFacts
<1>4. /\ codec' \in [L!Ends -> L!Codecs] /\ codec'[e] = k
      /\ \A j \in L!Ends \ {e} : codec'[j] = codec[j]
      /\ loginPc' \in [L!Ends -> LoginPcs] /\ loginPc'[e] = v
      /\ \A j \in L!Ends \ {e} : loginPc'[j] = loginPc[j]
  BY <1>0 DEF LoginTyped
<1>5. LoginTyped'
  BY <1>0, <1>2, <1>3, <1>4 DEF LoginTyped
<1>6. Agreed'
  BY <1>0, <1>4, AgreedWrite
<1>7. Turns'
  BY <1>0, TurnsKept
<1>8. wire[c] = <<>> => Len(wire'[c]) = 1 /\ wire'[c][1] = x
  BY <1>2, AppendOne
<1>9. wire'[c] # <<>>
  <2>1. wire[c] \in Seq(Bundle)
    BY <1>0, <1>1 DEF LoginTyped
  <2>2. Len(wire'[c]) = Len(wire[c]) + 1 /\ wire'[c] \in Seq(Bundle)
    BY <1>1, <1>2, <2>1, AppendFacts
  <2>3. wire'[c] = <<>> <=> Len(wire'[c]) = 0
    BY <2>2, EmptySeq
  <2>4. Len(wire[c]) \in Nat
    BY <2>1
  <2> QED BY <2>2, <2>3, <2>4
<1>10. ASSUME NEW d \in Dialers, d \in {e, c}, Link(d)' PROVE Linked'
  <2>1. \A j \in L!Ends \ {e, c} : /\ wire'[j] = wire[j] /\ batch'[j] = batch[j]
                                    /\ codec'[j] = codec[j] /\ loginPc'[j] = loginPc[j]
    BY <1>2, <1>3, <1>4
  <2>2. \A j \in Dialers : Link(j)'
    BY <1>10, <2>1, LinkElse
  <2> QED BY <1>5, <1>6, <1>7, <2>2 DEF Linked
<1>11. /\ wire'[e] = <<>> /\ batch'[c] = batch[c]
       /\ codec'[c] = codec[c] /\ loginPc'[c] = loginPc[c]
  BY <1>1, <1>2, <1>3, <1>4
<1> QED BY <1>2, <1>3, <1>4, <1>5, <1>6, <1>7, <1>8, <1>9, <1>10, <1>11

\* A handler takes packets from the head of the batch of e and answers nothing.
Takes(e, v) ==
    /\ loginPc[e] = "reading" /\ batch[e] # <<>> /\ v \in LoginPcs \ {"idle", "closed"}
    /\ batch' = [batch EXCEPT ![e] = Tail(@)] \/ batch' = [batch EXCEPT ![e] = <<>>]
    /\ loginPc' = [loginPc EXCEPT ![e] = v]
    /\ deferred' \in [L!Ends -> Seq(Pack)] /\ OnlyGame'
    /\ encrypts' = encrypts /\ wire' = wire /\ codec' = codec
    /\ sent' = sent /\ got' = got /\ refused' = refused

\* What is left to show of such a handler.
LEMMA Taken ==
  ASSUME Linked, NEW e \in L!Ends, NEW v, Takes(e, v)
  PROVE  /\ batch'[e] = Tail(batch[e]) \/ batch'[e] = <<>>
         /\ batch'[L!Peer(e)] = batch[L!Peer(e)]
         /\ loginPc'[e] = v /\ loginPc'[L!Peer(e)] = loginPc[L!Peer(e)]
         /\ \A d \in Dialers : d \in {e, L!Peer(e)} /\ Link(d)' => Linked'
<1> USE DEF Takes
<1> DEFINE c == L!Peer(e)
<1>0. LoginTyped /\ Agreed /\ Turns
  BY DEF Linked
<1>1. c \in L!Ends \ {e}
  BY PeerFacts
<1>2. /\ batch' \in [L!Ends -> Seq(Pack)]
      /\ batch'[e] = Tail(batch[e]) \/ batch'[e] = <<>>
      /\ \A j \in L!Ends \ {e} : batch'[j] = batch[j]
  BY <1>0, TakeFacts
<1>3. /\ loginPc' \in [L!Ends -> LoginPcs] /\ loginPc'[e] = v
      /\ \A j \in L!Ends \ {e} : loginPc'[j] = loginPc[j]
  BY <1>0 DEF LoginTyped
<1>4. LoginTyped'
  BY <1>0, <1>2, <1>3 DEF LoginTyped
<1>5. Agreed' /\ Turns'
  BY <1>0, TurnsKept DEF Agreed
<1>6. ASSUME NEW d \in Dialers, d \in {e, c}, Link(d)' PROVE Linked'
  <2>1. \A j \in L!Ends \ {e, c} : /\ wire'[j] = wire[j] /\ batch'[j] = batch[j]
                                    /\ codec'[j] = codec[j] /\ loginPc'[j] = loginPc[j]
    BY <1>2, <1>3
  <2>2. \A j \in Dialers : Link(j)'
    BY <1>6, <2>1, LinkElse
  <2> QED BY <1>4, <1>5, <2>2 DEF Linked
<1>7. batch'[c] = batch[c] /\ loginPc'[c] = loginPc[c]
  BY <1>1, <1>2, <1>3
<1> QED BY <1>2, <1>3, <1>6, <1>7

-----------------------------------------------------------------------------
(* ReadLoop: every handler takes its link to the next stage, or leaves it  *)
(* at its own.                                                             *)

\* handleRequestNetworkSettings: from Asking to Replied.
LEMMA SettingsAsked ==
  ASSUME Linked, NEW e \in L!Ends, L!HandleRequestNetworkSettings(e)
  PROVE  Linked'
<1> DEFINE c == L!Peer(e)
<1>k. PICK k : k = On(TRUE, FALSE)
  OBVIOUS
<1>x. PICK x : x = L!SettingsReply(e)
  OBVIOUS
<1>0. LoginTyped /\ OnlyGame /\ \A j \in Dialers : Link(j)
  BY DEF Linked
<1>1. /\ Asking(c) /\ wire[e] = <<>> /\ Tail(batch[e]) = <<>>
      /\ loginPc[e] = "reading" /\ batch[e] # <<>> /\ e \in L!Servers
  BY <1>0, AtHead DEF L!HandleRequestNetworkSettings, L!Pending
<1>2. c \in Dialers /\ c \in L!Ends \ {e} /\ L!Peer(c) = e
  BY <1>1, PeerFacts
<1>3. /\ wire' = [wire EXCEPT ![c] = Append(@, x)]
      /\ batch' = [batch EXCEPT ![e] = Tail(@)]
      /\ codec' = [codec EXCEPT ![e] = L!Compressed(e)]
      /\ UNCHANGED <<encrypts, deferred, loginPc, sent, got, refused>>
  BY <1>x DEF L!HandleRequestNetworkSettings, L!Consumed
<1>4. codec[e] = On(FALSE, FALSE) /\ codec[c] = On(FALSE, FALSE) /\ codec[e] \in L!Codecs
  BY <1>0, <1>1, <1>2 DEF Asking, Set, L!Plain, On, LoginTyped
<1>5. L!Compressed(e) = On(TRUE, FALSE) /\ On(TRUE, FALSE) \in L!Codecs
  BY <1>0, <1>4, Switches
<1>6. /\ x \in Bundle /\ x.codec = codec[c] /\ x.pks = <<L!Pk("NetworkSettings")>>
      /\ Leads("NetworkSettings", c, x.pks)
  <2>1. "NetworkSettings" \in PkTypes
    BY DEF PkTypes, LoginTypes
  <2>2. x = L!Encoded(<<L!Pk("NetworkSettings")>>, codec[e]) /\ codec[e] = codec[c]
    BY <1>x, <1>4 DEF L!SettingsReply
  <2> QED BY <1>4, <2>1, <2>2, SentAlone
<1>7. loginPc' = [loginPc EXCEPT ![e] = "reading"] /\ "reading" \in LoginPcs
  BY <1>0, <1>1, <1>3 DEF LoginTyped, LoginPcs
<1>8. /\ deferred' \in [L!Ends -> Seq(Pack)] /\ OnlyGame'
      /\ sent' \in [{L!Player, L!Backend} -> Nat]
  BY <1>0, <1>3 DEF LoginTyped, OnlyGame
<1>9. /\ wire'[e] = <<>>
      /\ wire[c] = <<>> => Len(wire'[c]) = 1 /\ wire'[c][1] = x
      /\ batch'[e] = Tail(batch[e]) \/ batch'[e] = <<>>
      /\ batch'[c] = batch[c]
      /\ codec'[e] = k /\ codec'[c] = codec[c]
      /\ loginPc'[e] = "reading" /\ loginPc'[c] = loginPc[c]
      /\ c \in {e, c} /\ Link(c)' => Linked'
  <2>1. codec' = [codec EXCEPT ![e] = k] /\ k \in L!Codecs
    BY <1>k, <1>3, <1>5
  <2>2. encrypts' = encrypts /\ got' = got /\ refused' = refused
    BY <1>3
  <2>3. Answers(e, x, k, "reading")
    BY <1>1, <1>3, <1>5, <1>6, <1>7, <1>8, <2>1, <2>2 DEF Answers
  <2> HIDE DEF c
  <2> QED BY <1>2, <2>3, Answered DEF c
<1>10. Replied(c)'
  <2>1. wire[c] = <<>> /\ batch[c] = <<>>
    BY <1>1 DEF Asking, Silent
  <2> QED BY <1>k, <1>1, <1>2, <1>3, <1>4, <1>6, <1>9, <2>1
          DEF Asking, Replied, Reading, Set, Alone, Silent, L!Plain, On
<1> QED BY <1>9, <1>10 DEF Link

\* The counts of what has been sent stay counts.
LEMMA CountTyped ==
  ASSUME LoginTyped, NEW e \in Dialers, NEW more \in Seq(Pack), L!CountSent(e, more)
  PROVE  sent' \in [{L!Player, L!Backend} -> Nat]
<1>1. CASE e = L!Player
  <2>1. sent[e] \in Nat /\ Len(more) \in Nat
    BY <1>1 DEF LoginTyped
  <2> QED BY <1>1, <2>1 DEF L!CountSent, LoginTyped
<1>2. CASE e # L!Player
  BY <1>2 DEF L!CountSent, LoginTyped
<1> QED BY <1>1, <1>2

\* handleNetworkSettings: from Replied to LoggingIn.
LEMMA SettingsTaken ==
  ASSUME Linked, NEW e \in L!Ends, L!HandleNetworkSettings(e)
  PROVE  Linked'
<1> DEFINE p == L!Peer(e)
<1>0. LoginTyped /\ OnlyGame /\ \A k \in Dialers : Link(k)
  BY DEF Linked
<1>1. /\ Replied(e) /\ wire[e] = <<>> /\ Tail(batch[e]) = <<>>
      /\ loginPc[e] = "reading" /\ batch[e] # <<>> /\ e \in Dialers
  BY <1>0, AtHead DEF L!HandleNetworkSettings, L!Pending
<1>2. p \in L!Ends \ {e} /\ L!Peer(p) = e
  BY PeerFacts
<1>3. PICK more \in L!Behind(e) :
         /\ wire' = [wire EXCEPT ![p] =
                        Append(@, L!Encoded(L!LoginPk \o more, L!Compressed(e)))]
         /\ L!CountSent(e, more)
  BY DEF L!HandleNetworkSettings
<1>k. PICK k : k = On(TRUE, FALSE)
  OBVIOUS
<1>x. PICK x : x = L!Encoded(L!LoginPk \o more, L!Compressed(e))
  OBVIOUS
<1>4. /\ batch' = [batch EXCEPT ![e] = Tail(@)]
      /\ codec' = [codec EXCEPT ![e] = L!Compressed(e)]
      /\ UNCHANGED <<encrypts, deferred, loginPc, got, refused>>
  BY DEF L!HandleNetworkSettings, L!Consumed
<1>5. codec[e] = On(FALSE, FALSE) /\ codec[p] = On(TRUE, FALSE) /\ codec[e] \in L!Codecs
  BY <1>0, <1>1 DEF Replied, Set, L!Plain, On, LoginTyped
<1>6. L!Compressed(e) = On(TRUE, FALSE) /\ On(TRUE, FALSE) \in L!Codecs
  BY <1>0, <1>5, Switches
<1>7. /\ more \in Seq(Pack) /\ x \in Bundle /\ x.codec = codec[p]
      /\ Leads("Login", p, x.pks)
  <2>1. x = L!Encoded(<<L!Pk("Login")>> \o more, k) /\ k \in L!Codecs /\ k = codec[p]
    BY <1>k, <1>x, <1>5, <1>6 DEF L!LoginPk
  <2>2. "Login" \in PkTypes
    BY DEF PkTypes, LoginTypes
  <2>3. LoginTyped /\ e \in Dialers
    BY <1>0, <1>1
  <2> QED BY <2>1, <2>2, <2>3, Carried
<1>8. loginPc' = [loginPc EXCEPT ![e] = "reading"] /\ "reading" \in LoginPcs
  BY <1>0, <1>1, <1>4 DEF LoginTyped, LoginPcs
<1>9. /\ deferred' \in [L!Ends -> Seq(Pack)] /\ OnlyGame'
      /\ sent' \in [{L!Player, L!Backend} -> Nat]
  BY <1>0, <1>1, <1>3, <1>4, <1>7, CountTyped DEF LoginTyped, OnlyGame
<1>10. /\ wire'[e] = <<>>
       /\ wire[p] = <<>> => Len(wire'[p]) = 1 /\ wire'[p][1] = x
       /\ batch'[e] = Tail(batch[e]) \/ batch'[e] = <<>>
       /\ batch'[p] = batch[p]
       /\ codec'[e] = k /\ codec'[p] = codec[p]
       /\ loginPc'[e] = "reading" /\ loginPc'[p] = loginPc[p]
       /\ e \in {e, p} /\ Link(e)' => Linked'
  <2>1. wire' = [wire EXCEPT ![p] = Append(@, x)]
    BY <1>x, <1>3
  <2>2. codec' = [codec EXCEPT ![e] = k] /\ k \in L!Codecs
    BY <1>k, <1>4, <1>6
  <2>3. encrypts' = encrypts /\ got' = got /\ refused' = refused
    BY <1>4
  <2>4. Answers(e, x, k, "reading")
    BY <1>1, <1>4, <1>6, <1>7, <1>8, <1>9, <2>1, <2>2, <2>3 DEF Answers
  <2>5. e \in Dialers
    BY <1>1
  <2> QED BY <2>4, <2>5, Answered
<1>11. LoggingIn(e)'
  <2>1. wire[p] = <<>> /\ batch[p] = <<>>
    BY <1>1 DEF Replied, Silent
  <2> QED BY <1>k, <1>1, <1>4, <1>5, <1>7, <1>10, <2>1
          DEF Replied, LoggingIn, On, Reading, Set, Alone, Silent
<1> QED BY <1>10, <1>11 DEF Link

\* What is deferred when a login ends.
LEMMA DeferredKept ==
  ASSUME LoginTyped, OnlyGame, NEW e \in L!Ends, batch[e] # <<>>, NEW f \in Seq(Pack),
         OfGame(e, f), OfGame(e, Tail(batch[e])), L!DeferRemaining(e, f)
  PROVE  deferred' \in [L!Ends -> Seq(Pack)] /\ OnlyGame'
<1>1. deferred[e] \in Seq(Pack) /\ Tail(batch[e]) \in Seq(Pack) /\ OfGame(e, deferred[e])
  BY EmptySeq DEF LoginTyped, OnlyGame
<1>2. deferred[e] \o f \in Seq(Pack) /\ OfGame(e, deferred[e] \o f)
  BY <1>1, CatFacts, CatGame
<1>3. /\ (deferred[e] \o f) \o Tail(batch[e]) \in Seq(Pack)
      /\ OfGame(e, (deferred[e] \o f) \o Tail(batch[e]))
  BY <1>1, <1>2, CatFacts, CatGame
<1>4. deferred' = [deferred EXCEPT ![e] = (deferred[e] \o f) \o Tail(batch[e])]
  BY DEF L!DeferRemaining
<1>5. /\ deferred' \in [L!Ends -> Seq(Pack)]
      /\ deferred'[e] = (deferred[e] \o f) \o Tail(batch[e])
      /\ \A k \in L!Ends \ {e} : deferred'[k] = deferred[k]
  BY <1>3, <1>4 DEF LoginTyped
<1> QED BY <1>3, <1>5 DEF OnlyGame

\* An empty batch is of the game.
LEMMA NoGame ==
  ASSUME NEW e
  PROVE  OfGame(e, <<>>) /\ <<>> \in Seq(Pack)
BY DEF OfGame

\* handleLogin: from LoggingIn to Challenged, or, without encryption, to Settled.
LEMMA LoginTaken ==
  ASSUME Linked, NEW e \in L!Ends, L!HandleLogin(e)
  PROVE  Linked'
<1> DEFINE c == L!Peer(e)
<1>0. LoginTyped /\ OnlyGame /\ \A j \in Dialers : Link(j)
  BY DEF Linked
<1>1. /\ LoggingIn(c) /\ wire[e] = <<>> /\ OfGame(e, Tail(batch[e]))
      /\ loginPc[e] = "reading" /\ batch[e] # <<>> /\ e \in L!Servers
  BY <1>0, AtHead DEF L!HandleLogin, L!Pending
<1>2. c \in Dialers /\ c \in L!Ends \ {e} /\ L!Peer(c) = e
  BY <1>1, PeerFacts
<1>3. codec[e] = On(TRUE, FALSE) /\ codec[c] = On(TRUE, FALSE)
  BY <1>1, <1>2 DEF LoggingIn, Set
<1>4. wire[c] = <<>> /\ batch[c] = <<>> /\ loginPc[c] = "reading"
  BY <1>1 DEF LoggingIn, Silent, Reading
<1>5. encrypts' = encrypts /\ sent' = sent /\ got' = got /\ refused' = refused
  BY DEF L!HandleLogin
<1>6. CASE encrypts[e]
  <2>k. PICK k : k = On(TRUE, TRUE)
    OBVIOUS
  <2>x. PICK x : x = L!Encoded(<<L!Pk("ServerToClientHandshake")>>, codec[e])
    OBVIOUS
  <2>1. /\ wire' = [wire EXCEPT ![c] = Append(@, x)]
        /\ batch' = [batch EXCEPT ![e] = Tail(@)]
        /\ codec' = [codec EXCEPT ![e] = L!Encrypted(e)]
        /\ UNCHANGED <<deferred, loginPc>>
    BY <1>6, <2>x DEF L!HandleLogin, L!WritePackets, L!EndsLogin, L!Consumed
  <2>2. L!Encrypted(e) = k /\ k \in L!Codecs
    BY <1>0, <1>3, <2>k, Switches
  <2>3. /\ x \in Bundle /\ x.codec = codec[c]
        /\ Leads("ServerToClientHandshake", c, x.pks)
    <3>1. codec[e] \in L!Codecs /\ codec[e] = codec[c]
      BY <1>0, <1>3 DEF LoginTyped
    <3>2. "ServerToClientHandshake" \in PkTypes
      BY DEF PkTypes, LoginTypes
    <3> QED BY <2>x, <3>1, <3>2, SentAlone
  <2>4. loginPc' = [loginPc EXCEPT ![e] = "reading"] /\ "reading" \in LoginPcs
    BY <1>0, <1>1, <2>1 DEF LoginTyped, LoginPcs
  <2>5. Answers(e, x, k, "reading")
    BY <1>0, <1>1, <1>5, <2>1, <2>2, <2>3, <2>4 DEF Answers, LoginTyped, OnlyGame
  <2>6. /\ wire'[e] = <<>>
        /\ wire[c] = <<>> => Len(wire'[c]) = 1 /\ wire'[c][1] = x
        /\ batch'[c] = batch[c]
        /\ codec'[e] = k /\ codec'[c] = codec[c]
        /\ loginPc'[e] = "reading" /\ loginPc'[c] = loginPc[c]
        /\ Link(c)' => Linked'
    <3> HIDE DEF c
    <3> QED BY <1>2, <2>5, Answered DEF c
  <2>7. batch'[e] = Tail(batch[e])
    BY <1>0, <2>1 DEF LoginTyped
  <2>8. Challenged(c)'
    BY <1>1, <1>2, <1>3, <1>4, <1>5, <1>6, <2>k, <2>3, <2>6, <2>7
       DEF Challenged, Reading, Set, Alone
  <2> QED BY <2>6, <2>8 DEF Link
<1>7. CASE ~encrypts[e]
  <2>1. /\ wire' = wire /\ codec' = codec
        /\ loginPc' = [loginPc EXCEPT ![e] = "done"]
        /\ L!DeferRemaining(e, <<>>)
        /\ batch' = [batch EXCEPT ![e] = <<>>]
    BY <1>7 DEF L!HandleLogin, L!EndsLogin, L!LoginDone
  <2>2. deferred' \in [L!Ends -> Seq(Pack)] /\ OnlyGame'
    BY <1>0, <1>1, <2>1, NoGame, DeferredKept
  <2>3. Takes(e, "done")
    BY <1>1, <1>5, <2>1, <2>2 DEF Takes, LoginPcs
  <2>4. /\ batch'[c] = batch[c]
        /\ loginPc'[e] = "done" /\ loginPc'[c] = loginPc[c]
        /\ Link(c)' => Linked'
    <3> HIDE DEF c
    <3> QED BY <1>2, <2>3, Taken DEF c
  <2>5. batch'[e] = <<>>
    BY <1>0, <2>1 DEF LoginTyped
  <2>6. encrypts[e] = FALSE
    BY <1>0, <1>1, <1>7 DEF LoginTyped
  <2>7. /\ GameFrom(c, 1)' /\ GameFrom(e, 1)'
    BY <1>1, <1>4, <2>1 DEF GameFrom
  <2>8. Settled(c)'
    BY <1>2, <1>3, <1>4, <1>5, <2>1, <2>4, <2>5, <2>6, <2>7, NoGame DEF Settled, Set
  <2> QED BY <2>4, <2>8 DEF Link
<1> QED BY <1>6, <1>7

\* handleServerToClientHandshake: from Challenged to Answering.
LEMMA HandshakeAnswered ==
  ASSUME Linked, NEW e \in L!Ends, L!HandleServerToClientHandshake(e)
  PROVE  Linked'
<1> DEFINE p == L!Peer(e)
<1>0. LoginTyped /\ OnlyGame /\ \A j \in Dialers : Link(j)
  BY DEF Linked
<1>1. /\ Challenged(e) /\ wire[e] = <<>> /\ Tail(batch[e]) = <<>>
      /\ loginPc[e] = "reading" /\ batch[e] # <<>> /\ e \in Dialers
  BY <1>0, AtHead DEF L!HandleServerToClientHandshake, L!Pending
<1>2. p \in L!Ends \ {e} /\ L!Peer(p) = e
  BY PeerFacts
<1>3. PICK more \in L!Behind(e) :
         /\ wire' = [wire EXCEPT ![p] =
               Append(@, L!Encoded(<<L!Pk("ClientToServerHandshake")>> \o more, L!Encrypted(e)))]
         /\ L!CountSent(e, more)
  BY DEF L!HandleServerToClientHandshake
<1>4. /\ codec' = [codec EXCEPT ![e] = L!Encrypted(e)]
      /\ loginPc' = [loginPc EXCEPT ![e] = "done"]
      /\ L!DeferRemaining(e, <<>>)
      /\ batch' = [batch EXCEPT ![e] = <<>>]
      /\ encrypts' = encrypts /\ got' = got /\ refused' = refused
  BY DEF L!HandleServerToClientHandshake, L!LoginDone
<1>5. codec[e] = On(TRUE, FALSE) /\ codec[p] = On(TRUE, TRUE)
  BY <1>1 DEF Challenged, Set
<1>k. PICK k : k = On(TRUE, TRUE)
  OBVIOUS
<1>x. PICK x : x = L!Encoded(<<L!Pk("ClientToServerHandshake")>> \o more, k)
  OBVIOUS
<1>6. L!Encrypted(e) = k /\ k \in L!Codecs /\ k = codec[p]
  BY <1>0, <1>5, <1>k, Switches
<1>7. /\ more \in Seq(Pack) /\ x \in Bundle /\ x.codec = k
      /\ Leads("ClientToServerHandshake", p, x.pks)
  <2>1. "ClientToServerHandshake" \in PkTypes
    BY DEF PkTypes, LoginTypes
  <2>2. LoginTyped /\ e \in Dialers
    BY <1>0, <1>1
  <2> QED BY <1>x, <1>6, <2>1, <2>2, Carried
<1>8. /\ deferred' \in [L!Ends -> Seq(Pack)] /\ OnlyGame'
      /\ sent' \in [{L!Player, L!Backend} -> Nat]
  BY <1>0, <1>1, <1>3, <1>4, <1>7, NoGame, DeferredKept, CountTyped
<1>9. Answers(e, x, k, "done")
  <2>1. wire' = [wire EXCEPT ![p] = Append(@, x)] /\ codec' = [codec EXCEPT ![e] = k]
    BY <1>x, <1>3, <1>4, <1>6
  <2>2. "done" \in LoginPcs \ {"idle", "closed"} /\ x.codec = codec[p]
    BY <1>6, <1>7 DEF LoginPcs
  <2> QED BY <1>1, <1>4, <1>6, <1>7, <1>8, <2>1, <2>2 DEF Answers
<1>10. /\ wire'[e] = <<>>
       /\ wire[p] = <<>> => Len(wire'[p]) = 1 /\ wire'[p][1] = x
       /\ wire'[p] # <<>>
       /\ batch'[p] = batch[p]
       /\ codec'[e] = k /\ codec'[p] = codec[p]
       /\ loginPc'[e] = "done" /\ loginPc'[p] = loginPc[p]
       /\ Link(e)' => Linked'
  <2>1. e \in Dialers
    BY <1>1
  <2> QED BY <1>9, <2>1, Answered
<1>11. batch'[e] = <<>>
  BY <1>0, <1>4 DEF LoginTyped
<1>12. /\ wire[p] = <<>> /\ OfGame(p, batch[p]) /\ encrypts[p] /\ loginPc[p] = "reading"
  BY <1>1 DEF Challenged, Reading
<1>13. Foremost("ClientToServerHandshake", p)'
  <2>1. GameFrom(p, 2)'
    BY <1>10, <1>12 DEF GameFrom
  <2> QED BY <1>7, <1>10, <1>12, <2>1 DEF Foremost
<1>14. Answering(e)'
  BY <1>k, <1>4, <1>5, <1>6, <1>10, <1>11, <1>12, <1>13 DEF Answering, Set, Silent
<1> QED BY <1>10, <1>14 DEF Link

\* handleClientToServerHandshake: from Answering to Settled.
LEMMA HandshakeDone ==
  ASSUME Linked, NEW e \in L!Ends, L!HandleClientToServerHandshake(e)
  PROVE  Linked'
<1> DEFINE c == L!Peer(e)
<1>0. LoginTyped /\ OnlyGame /\ \A j \in Dialers : Link(j)
  BY DEF Linked
<1>1. /\ Answering(c) /\ GameFrom(e, 1) /\ OfGame(e, Tail(batch[e]))
      /\ loginPc[e] = "reading" /\ batch[e] # <<>> /\ e \in L!Servers
  BY <1>0, AtHead DEF L!HandleClientToServerHandshake, L!Pending
<1>2. c \in Dialers /\ c \in L!Ends \ {e} /\ L!Peer(c) = e
  BY <1>1, PeerFacts
<1>3. /\ wire' = wire /\ codec' = codec
      /\ loginPc' = [loginPc EXCEPT ![e] = "done"]
      /\ L!DeferRemaining(e, <<>>)
      /\ batch' = [batch EXCEPT ![e] = <<>>]
      /\ encrypts' = encrypts /\ sent' = sent /\ got' = got /\ refused' = refused
  BY DEF L!HandleClientToServerHandshake, L!LoginDone
<1>4. deferred' \in [L!Ends -> Seq(Pack)] /\ OnlyGame'
  BY <1>0, <1>1, <1>3, NoGame, DeferredKept
<1>5. Takes(e, "done")
  BY <1>1, <1>3, <1>4 DEF Takes, LoginPcs
<1>6. /\ batch'[c] = batch[c]
      /\ loginPc'[e] = "done" /\ loginPc'[c] = loginPc[c]
      /\ Link(c)' => Linked'
  <2> HIDE DEF c
  <2> QED BY <1>2, <1>5, Taken DEF c
<1>7. batch'[e] = <<>>
  BY <1>0, <1>3 DEF LoginTyped
<1>8. /\ loginPc[c] = "done" /\ encrypts[e] = TRUE
      /\ codec[c] = On(TRUE, TRUE) /\ codec[e] = On(TRUE, TRUE)
      /\ wire[c] = <<>> /\ batch[c] = <<>>
  BY <1>0, <1>1, <1>2 DEF Answering, Set, Silent, LoginTyped
<1>9. GameFrom(c, 1)' /\ GameFrom(e, 1)'
  BY <1>1, <1>3, <1>8 DEF GameFrom
<1>10. Settled(c)'
  BY <1>2, <1>3, <1>6, <1>7, <1>8, <1>9, NoGame DEF Settled, Set
<1> QED BY <1>6, <1>10 DEF Link

\* Packets of the game, met while a login is going on.
LEMMA StatusKept ==
  ASSUME Linked, NEW e \in L!Ends, L!HandlePlayStatus(e)
  PROVE  Linked'
<1> DEFINE p == L!Peer(e)
<1>0. LoginTyped /\ OnlyGame /\ \A j \in Dialers : Link(j)
  BY DEF Linked
<1>1. /\ loginPc[e] = "reading" /\ batch[e] # <<>> /\ Head(batch[e]).type = "PlayStatus"
  BY DEF L!HandlePlayStatus, L!Pending
<1>2. /\ "PlayStatus" \in GameTypes(e)
      /\ OfGame(e, batch[e]) /\ OfGame(e, Tail(batch[e]))
      /\ e \in Dialers => Settled(e)
  BY <1>0, <1>1, AtHead DEF LoginTypes
<1>3. /\ e \in Dialers
      /\ Settled(e) /\ p \in L!Ends \ {e}
  <2>1. e \in Dialers
    BY <1>2 DEF GameTypes
  <2> QED BY <1>2, <2>1, PeerFacts
<1>f. PICK f : f = <<Head(batch[e])>>
  OBVIOUS
<1>4. f \in Seq(Pack) /\ OfGame(e, f)
  <2>1. Head(batch[e]) \in Pack
    BY <1>0, <1>1, EmptySeq DEF LoginTyped
  <2>2. f \in Seq(Pack) /\ Len(f) = 1 /\ f[1] = Head(batch[e])
    BY <1>f, <2>1
  <2> QED BY <1>1, <1>2, <2>2 DEF OfGame
<1>5. /\ wire' = wire /\ codec' = codec
      /\ loginPc' = [loginPc EXCEPT ![e] = "done"]
      /\ L!DeferRemaining(e, f)
      /\ batch' = [batch EXCEPT ![e] = <<>>]
      /\ encrypts' = encrypts /\ sent' = sent /\ got' = got /\ refused' = refused
  BY <1>f DEF L!HandlePlayStatus, L!LoginDone
<1>6. deferred' \in [L!Ends -> Seq(Pack)] /\ OnlyGame'
  BY <1>0, <1>1, <1>2, <1>4, <1>5, DeferredKept
<1>7. Takes(e, "done")
  BY <1>1, <1>5, <1>6 DEF Takes, LoginPcs
<1>8. /\ batch'[p] = batch[p]
      /\ loginPc'[e] = "done" /\ loginPc'[p] = loginPc[p]
      /\ Link(e)' => Linked'
  <2>1. e \in Dialers
    BY <1>3
  <2> QED BY <1>7, <2>1, Taken
<1>9. batch'[e] = <<>>
  BY <1>0, <1>5 DEF LoginTyped
<1>10. Settled(e)'
  BY <1>3, <1>5, <1>8, <1>9, NoGame DEF Settled, Set, GameFrom
<1> QED BY <1>8, <1>10 DEF Link

\* Disconnect: the link stays settled.
LEMMA Told ==
  ASSUME Linked, NEW e \in L!Ends, L!HandleDisconnect(e)
  PROVE  Linked'
<1> DEFINE p == L!Peer(e)
<1>0. LoginTyped /\ OnlyGame /\ Agreed /\ Turns /\ \A j \in Dialers : Link(j)
  BY DEF Linked
<1>1. /\ loginPc[e] = "reading" /\ batch[e] # <<>> /\ Head(batch[e]).type = "Disconnect"
  BY DEF L!HandleDisconnect, L!Pending
<1>2. /\ "Disconnect" \in GameTypes(e)
      /\ e \in Dialers => Settled(e)
  BY <1>0, <1>1, AtHead DEF LoginTypes
<1>3. /\ e \in Dialers
      /\ Settled(e) /\ p \in L!Ends \ {e}
  <2>1. e \in Dialers
    BY <1>2 DEF GameTypes
  <2> QED BY <1>2, <2>1, PeerFacts
<1>4. /\ loginPc' = [loginPc EXCEPT ![e] = "refused"] /\ "refused" \in LoginPcs
      /\ UNCHANGED <<encrypts, wire, codec, batch, deferred, sent, got, refused>>
  BY DEF L!HandleDisconnect, LoginPcs
<1>5. /\ loginPc'[e] = "refused" /\ \A k \in L!Ends \ {e} : loginPc'[k] = loginPc[k]
      /\ loginPc' \in [L!Ends -> LoginPcs]
  BY <1>0, <1>4 DEF LoginTyped
<1>6. LoginTyped' /\ Agreed' /\ OnlyGame'
  BY <1>0, <1>4, <1>5 DEF LoginTyped, Agreed, OnlyGame
<1>7. Turns'
  BY <1>0, <1>1, <1>4, TurnsKept
<1>8. Settled(e)'
  BY <1>1, <1>3, <1>4, <1>5 DEF Settled, Set, GameFrom
<1>9. \A j \in Dialers : Link(j)'
  <2>1. \A k \in L!Ends \ {e, p} : /\ wire'[k] = wire[k] /\ batch'[k] = batch[k]
                                   /\ codec'[k] = codec[k] /\ loginPc'[k] = loginPc[k]
    BY <1>4, <1>5
  <2>2. encrypts' = encrypts
    BY <1>4
  <2> QED BY <1>3, <1>8, <2>1, <2>2, LinkElse DEF Link
<1> QED BY <1>6, <1>7, <1>9 DEF Linked

\* A packet that is deferred: the link stays at its stage.
LEMMA OtherKept ==
  ASSUME Linked, NEW e \in L!Ends, L!HandleOther(e)
  PROVE  Linked'
<1> DEFINE p == L!Peer(e)
<1>0. LoginTyped /\ OnlyGame /\ \A j \in Dialers : Link(j)
  BY DEF Linked
<1>1. /\ loginPc[e] = "reading" /\ batch[e] # <<>> /\ Head(batch[e]).type = "data"
  BY DEF L!HandleOther, L!Pending
<1>2. /\ OfGame(e, batch[e]) /\ OfGame(e, Tail(batch[e])) /\ "data" \in GameTypes(e)
      /\ e \in Dialers => Settled(e)
      /\ e \in L!Servers => Challenged(p) \/ Answering(p)
  BY <1>0, <1>1, AtHead DEF LoginTypes
<1>3. /\ batch' = [batch EXCEPT ![e] = Tail(@)]
      /\ deferred' = [deferred EXCEPT ![e] = Append(@, Head(batch[e]))]
      /\ UNCHANGED <<encrypts, wire, codec, loginPc, sent, got, refused>>
  BY DEF L!HandleOther, L!Consumed
<1>4. deferred' \in [L!Ends -> Seq(Pack)] /\ OnlyGame'
  <2>1. Head(batch[e]) \in Pack /\ deferred[e] \in Seq(Pack) /\ OfGame(e, deferred[e])
    BY <1>0, <1>1, EmptySeq DEF LoginTyped, OnlyGame
  <2> DEFINE d == Append(deferred[e], Head(batch[e]))
  <2>2. /\ d \in Seq(Pack) /\ Len(d) = Len(deferred[e]) + 1
        /\ d[Len(deferred[e]) + 1] = Head(batch[e])
        /\ \A i \in 1..Len(deferred[e]) : d[i] = deferred[e][i]
    BY <2>1, AppendFacts
  <2> HIDE DEF d
  <2>3. OfGame(e, d)
    BY <1>1, <1>2, <2>1, <2>2 DEF OfGame
  <2>4. /\ deferred' \in [L!Ends -> Seq(Pack)] /\ deferred'[e] = d
        /\ \A k \in L!Ends \ {e} : deferred'[k] = deferred[k]
    BY <1>0, <1>3, <2>2 DEF LoginTyped, d
  <2> QED BY <1>0, <2>3, <2>4 DEF OnlyGame
<1>5. Takes(e, "reading")
  BY <1>0, <1>1, <1>3, <1>4 DEF Takes, LoginPcs, LoginTyped
<1>6. /\ batch'[p] = batch[p] /\ loginPc' = loginPc
      /\ \A d \in Dialers : d \in {e, p} /\ Link(d)' => Linked'
  BY <1>3, <1>5, Taken
<1>7. batch'[e] = Tail(batch[e])
  BY <1>0, <1>3 DEF LoginTyped
<1>8. CASE e \in Dialers
  <2>1. Settled(e)'
    BY <1>1, <1>2, <1>3, <1>6, <1>7, <1>8 DEF Settled, Set, GameFrom
  <2> QED BY <1>6, <1>8, <2>1 DEF Link
<1>9. CASE e \in L!Servers
  <2>1. p \in Dialers /\ L!Peer(p) = e
    BY <1>9, PeerFacts
  <2>2. CASE Challenged(p)
    <3>1. Challenged(p)'
      BY <1>2, <1>3, <1>6, <1>7, <2>1, <2>2 DEF Challenged, Set, Reading, Alone
    <3> QED BY <1>6, <2>1, <3>1 DEF Link
  <2>3. CASE Answering(p)
    <3>1. ~Leads("ClientToServerHandshake", e, batch[e])
      BY <1>1 DEF Leads
    <3>2. Foremost("ClientToServerHandshake", e)'
      BY <1>2, <1>3, <1>7, <2>1, <2>3, <3>1 DEF Answering, Foremost, GameFrom
    <3>3. Answering(p)'
      BY <1>3, <1>6, <2>1, <2>3, <3>2 DEF Answering, Set, Silent
    <3> QED BY <1>6, <2>1, <3>3 DEF Link
  <2> QED BY <1>2, <1>9, <2>2, <2>3
<1> QED BY <1>8, <1>9, PeerFacts

\* No packet of an honest login is turned away.
LEMMA NoneRejected ==
  ASSUME Linked, NEW e \in L!Ends, loginPc[e] = "reading", batch[e] # <<>>
  PROVE  L!Accepts(e)
<1> DEFINE p == L!Peer(e)
           t == Head(batch[e]).type
<1>0. LoginTyped /\ \A j \in Dialers : Link(j)
  BY DEF Linked
<1> SUFFICES ASSUME e = L!Door
             PROVE  /\ t \notin {"ServerToClientHandshake", "NetworkSettings", "PlayStatus"}
                    /\ t = "ClientToServerHandshake" => codec[e].enc
  BY DEF L!Accepts
<1>1. e \notin Dialers /\ p \in Dialers /\ L!Peer(p) = e
  BY PeerFacts
<1>2. t \notin {"ServerToClientHandshake", "NetworkSettings"}
  BY <1>0, <1>1, AtHead
<1>3. t # "PlayStatus"
  <2>1. t \notin LoginTypes => t \in GameTypes(e)
    BY <1>0, AtHead
  <2>2. "PlayStatus" \notin LoginTypes /\ "PlayStatus" \notin GameTypes(e)
    BY <1>1 DEF LoginTypes, GameTypes
  <2> QED BY <2>1, <2>2
<1>4. ASSUME t = "ClientToServerHandshake" PROVE codec[e].enc
  <2>1. Answering(p)
    BY <1>0, <1>4, AtHead
  <2>2. codec[e] = On(TRUE, TRUE)
    BY <1>1, <2>1 DEF Answering, Set
  <2> QED BY <2>2, OnFacts
<1> QED BY <1>2, <1>3, <1>4

\* Every step of ReadLoop.
LEMMA ReadLoopLink ==
  ASSUME Linked, NEW e \in L!Ends, L!ReadLoop(e)
  PROVE  Linked'
BY NoneRejected, ReadBatchLink, SettingsAsked, SettingsTaken, LoginTaken, HandshakeAnswered,
   HandshakeDone, StatusKept, Told, OtherKept DEF L!ReadLoop

-----------------------------------------------------------------------------
(* The game, and the rest of HandleConn.                                   *)

\* A step in which the codecs, the batches and encrypts stay as they are.
Calm == encrypts' = encrypts /\ codec' = codec /\ batch' = batch

\* An end of a link whose login is over writes a batch of the game.
LEMMA GameWritten ==
  ASSUME LoginTyped, NEW c \in Dialers, Link(c), NEW e \in {c, L!Peer(c)}, loginPc[e] = "done",
         NEW x \in Bundle, OfGame(L!Peer(e), x.pks), Calm,
         wire'[L!Peer(e)] = Append(wire[L!Peer(e)], x), wire'[e] = wire[e],
         loginPc'[L!Peer(e)] = loginPc[L!Peer(e)],
         loginPc'[e] = "done" \/ (e = L!Peer(c) /\ loginPc'[e] = "closed")
  PROVE  Link(c)' /\ codec[e] = codec[L!Peer(e)]
<1> DEFINE p == L!Peer(c)
<1>1. p \in L!Ends \ {c} /\ c \in L!Ends /\ L!Peer(p) = c
  BY PeerFacts DEF Dialers
<1>2. e = c \/ e = p
  OBVIOUS
<1>3. CASE Settled(c)
  <2>1. GameFrom(L!Peer(e), 1)' /\ GameFrom(e, 1)'
    <3>1. GameFrom(L!Peer(e), 1) /\ GameFrom(e, 1) /\ L!Peer(e) \in L!Ends
      BY <1>1, <1>2, <1>3 DEF Settled
    <3>2. GameFrom(L!Peer(e), 1)'
      BY <3>1, GamePut
    <3> QED BY <3>1, <3>2 DEF GameFrom
  <2>2. GameFrom(c, 1)' /\ GameFrom(p, 1)'
    BY <1>1, <1>2, <2>1
  <2>3. /\ loginPc'[c] = loginPc[c]
        /\ loginPc'[p] \in {"done", "closed"}
    BY <1>1, <1>2, <1>3 DEF Settled
  <2>4. Settled(c)'
    BY <1>3, <2>2, <2>3 DEF Settled, Set, Calm
  <2>5. codec[e] = codec[L!Peer(e)]
    BY <1>1, <1>2, <1>3 DEF Settled, Set
  <2> QED BY <2>4, <2>5 DEF Link
<1>4. CASE Answering(c)
  <2>1. e = c /\ L!Peer(e) = p
    BY <1>2, <1>4 DEF Answering
  <2>2. loginPc'[c] = "done" /\ loginPc'[p] = loginPc[p] /\ wire'[c] = wire[c]
    BY <1>1, <2>1
  <2>3. Foremost("ClientToServerHandshake", p)'
    <3>1. wire[p] \in Seq(Bundle) /\ wire'[p] = Append(wire[p], x)
      BY <1>1, <2>1 DEF LoginTyped
    <3>2. \A n \in {1, 2} : GameFrom(p, n) => GameFrom(p, n)'
      BY <1>1, <2>1, <3>1, GamePut
    <3>3. Foremost("ClientToServerHandshake", p)
      BY <1>4 DEF Answering
    <3>4. wire[p] # <<>> => wire'[p] # <<>> /\ wire'[p][1] = wire[p][1]
      <4>1. /\ Append(wire[p], x) \in Seq(Bundle)
            /\ Len(Append(wire[p], x)) = Len(wire[p]) + 1
            /\ \A i \in 1..Len(wire[p]) : Append(wire[p], x)[i] = wire[p][i]
        BY <3>1, AppendFacts
      <4>2. wire[p] # <<>> => 1 \in 1..Len(wire[p])
        BY <3>1, EmptySeq
      <4>3. Append(wire[p], x) # <<>>
        BY <3>1
      <4> QED BY <3>1, <4>1, <4>2, <4>3
    <3> QED BY <3>2, <3>3, <3>4 DEF Foremost, Calm
  <2>4. Answering(c)'
    BY <1>4, <2>2, <2>3 DEF Answering, Set, Silent, Calm
  <2>5. codec[e] = codec[L!Peer(e)]
    BY <1>4, <2>1 DEF Answering, Set
  <2> QED BY <2>4, <2>5 DEF Link
<1> QED BY <1>2, <1>3, <1>4
        DEF Link, Apart, Asking, Replied, LoggingIn, Challenged, Reading

\* ReadPackets of an end whose login is over.
Reads(e) ==
    /\ L!CanRead(e)
    /\ wire'[e] = IF deferred[e] # <<>> THEN wire[e] ELSE Tail(wire[e])

\* What such an end reads is of the game, and the link stays at its stage.
LEMMA GameRead ==
  ASSUME LoginTyped, OnlyGame, NEW c \in Dialers, Link(c), NEW e \in {c, L!Peer(c)},
         loginPc[e] = "done", Calm, Reads(e), wire'[L!Peer(e)] = wire[L!Peer(e)],
         loginPc' = loginPc
  PROVE  /\ Link(c)'
         /\ L!ReadPackets(e) \in Seq(Pack) /\ OfGame(e, L!ReadPackets(e))
         /\ deferred[e] = <<>> => wire[e] # <<>>
<1> DEFINE p == L!Peer(c)
<1>1. p \in L!Ends \ {c} /\ c \in L!Ends /\ L!Peer(p) = c
  BY PeerFacts DEF Dialers
<1>2. (e = c \/ e = p) /\ e \in L!Ends
  BY <1>1
<1>3. CASE deferred[e] # <<>>
  <2>1. wire'[c] = wire[c] /\ wire'[p] = wire[p]
    BY <1>1, <1>2, <1>3 DEF Reads
  <2>2. Link(c)'
    BY <2>1, LinkSame DEF Calm
  <2>3. L!ReadPackets(e) = deferred[e]
    BY <1>3 DEF L!ReadPackets
  <2>4. deferred[e] \in Seq(Pack) /\ OfGame(e, deferred[e])
    BY <1>2 DEF LoginTyped, OnlyGame
  <2> QED BY <1>3, <2>2, <2>3, <2>4
<1>4. CASE deferred[e] = <<>>
  <2>1. wire[e] # <<>> /\ wire'[e] = Tail(wire[e])
    BY <1>4 DEF Reads, L!CanRead, L!HasBatch
  <2>2. Settled(c)
    BY <1>1, <1>2, <2>1
       DEF Link, Apart, Asking, Replied, LoggingIn, Challenged, Answering, Reading, Silent
  <2>3. GameFrom(e, 1) /\ GameFrom(L!Peer(e), 1)
    BY <1>1, <1>2, <2>2 DEF Settled
  <2>4. GameFrom(e, 1)' /\ OfGame(e, Head(wire[e]).pks)
    BY <1>2, <2>1, <2>3, GameTake
  <2>5. GameFrom(L!Peer(e), 1)'
    BY <2>3 DEF GameFrom
  <2>6. GameFrom(c, 1)' /\ GameFrom(p, 1)'
    BY <1>1, <1>2, <2>4, <2>5
  <2>7. Settled(c)'
    BY <2>2, <2>6 DEF Settled, Set, Calm
  <2>8. L!ReadPackets(e) = Head(wire[e]).pks /\ Head(wire[e]).pks \in Seq(Pack)
    <3>1. Head(wire[e]) \in Bundle
      BY <1>2, <2>1, EmptySeq DEF LoginTyped
    <3> QED BY <1>4, <3>1 DEF L!ReadPackets, Bundle
  <2> QED BY <2>1, <2>4, <2>7, <2>8 DEF Link
<1> QED BY <1>3, <1>4

\* The batches of one wire, before and after a step.
LEMMA PutAgreed ==
  ASSUME LoginTyped, Agreed, NEW p \in L!Ends, NEW x \in Bundle, x.codec = codec[p],
         codec' = codec, wire'[p] = Append(wire[p], x)
  PROVE  \A i \in 1..Len(wire'[p]) : wire'[p][i].codec = codec'[p]
<1>1. wire[p] \in Seq(Bundle)
  BY DEF LoginTyped
<1>2. /\ Len(wire'[p]) = Len(wire[p]) + 1 /\ wire'[p][Len(wire[p]) + 1] = x
      /\ \A i \in 1..Len(wire[p]) : wire'[p][i] = wire[p][i]
  BY <1>1, AppendFacts
<1> QED BY <1>1, <1>2 DEF Agreed

\* The batches of a wire from which one may have been taken.
LEMMA TookAgreed ==
  ASSUME LoginTyped, Agreed, NEW e \in L!Ends, codec' = codec,
         wire'[e] = wire[e] \/ (wire[e] # <<>> /\ wire'[e] = Tail(wire[e]))
  PROVE  \A i \in 1..Len(wire'[e]) : wire'[e][i].codec = codec'[e]
<1>1. CASE wire'[e] = wire[e]
  BY <1>1 DEF Agreed
<1>2. CASE wire[e] # <<>> /\ wire'[e] = Tail(wire[e])
  <2>1. /\ Len(Tail(wire[e])) = Len(wire[e]) - 1
        /\ \A i \in 1..Len(Tail(wire[e])) : Tail(wire[e])[i] = wire[e][i + 1]
    BY <1>2, EmptySeq DEF LoginTyped
  <2>2. \A i \in 1..Len(wire'[e]) : i + 1 \in 1..Len(wire[e])
    <3>1. Len(wire[e]) \in Nat /\ Len(wire'[e]) = Len(wire[e]) - 1
      <4>1. wire[e] \in Seq(Bundle)
        BY DEF LoginTyped
      <4>2. Len(wire[e]) \in Nat
        BY <4>1
      <4> QED BY <1>2, <2>1, <4>2
    <3> QED BY <3>1
  <2> QED BY <1>2, <2>1, <2>2 DEF Agreed
<1> QED BY <1>1, <1>2

\* A packet that a game may send, alone.
LEMMA OfGameOne ==
  ASSUME NEW e, NEW t \in PkTypes, t \in GameTypes(e)
  PROVE  OfGame(e, <<L!Pk(t)>>)
<1>1. <<L!Pk(t)>> \in Seq(Pack) /\ Len(<<L!Pk(t)>>) = 1 /\ <<L!Pk(t)>>[1] = L!Pk(t)
  BY DEF L!Pk, Pack
<1>2. L!Pk(t).type = t
  BY DEF L!Pk
<1> QED BY <1>1, <1>2 DEF OfGame

\* Both streams are of the game.
LEMMA StreamGame ==
  /\ L!Up \in Streamed /\ Len(L!Up) = UpLen
  /\ L!Down \in Streamed /\ Len(L!Down) = DownLen
  /\ \A i \in 1..UpLen : L!Up[i].type = "data"
  /\ \A i \in 1..DownLen : L!Down[i].type \in {"data", "PlayStatus"}
<1> USE LoginAssumption
<1>1. \A i \in 1..UpLen : L!Up[i] \in Pack /\ L!Up[i].type = "data"
  BY DEF L!Up, Pack, PkTypes
<1>2. \A i \in 1..DownLen : L!Down[i] \in Pack /\ L!Down[i].type \in {"data", "PlayStatus"}
  <2> SUFFICES ASSUME NEW i \in 1..DownLen
               PROVE  L!Down[i] \in Pack /\ L!Down[i].type \in {"data", "PlayStatus"}
    OBVIOUS
  <2>1. CASE i = StatusAt
    BY <2>1 DEF L!Down, L!Pk, Pack, PkTypes
  <2>2. CASE i # StatusAt
    BY <2>2 DEF L!Down, Pack, PkTypes
  <2> QED BY <2>1, <2>2
<1>3. L!Up \in Seq(Pack) /\ Len(L!Up) = UpLen
  <2>1. L!Up \in [1..UpLen -> Pack]
    BY <1>1 DEF L!Up
  <2> QED BY <2>1
<1>4. L!Down \in Seq(Pack) /\ Len(L!Down) = DownLen
  <2>1. L!Down \in [1..DownLen -> Pack]
    BY <1>2 DEF L!Down
  <2> QED BY <2>1
<1>5. "data" \notin LoginTypes /\ "PlayStatus" \notin LoginTypes
  BY DEF LoginTypes
<1> QED BY <1>1, <1>2, <1>3, <1>4, <1>5 DEF Streamed

\* The player, or the relay, starts to log in.
LEMMA Asked ==
  ASSUME Linked, NEW e \in Dialers, loginPc[e] = "idle",
         e = L!Back => loginPc[L!Door] = "done",
         L!WritePackets(e, <<L!Pk("RequestNetworkSettings")>>),
         loginPc' = [loginPc EXCEPT ![e] = "reading"],
         UNCHANGED <<encrypts, codec, batch, deferred, sent, got, refused>>
  PROVE  Linked'
<1> DEFINE p == L!Peer(e)
<1>0. LoginTyped /\ OnlyGame /\ Agreed /\ Turns /\ \A j \in Dialers : Link(j)
  BY DEF Linked
<1>1. p \in L!Ends \ {e} /\ e \in L!Ends /\ e \in {L!Player, L!Back}
  BY PeerFacts DEF Dialers
<1>2. Apart(e)
  BY <1>0, <1>1
     DEF Link, Asking, Replied, LoggingIn, Challenged, Answering, Settled, Reading
<1>x. PICK x : x = L!Encoded(<<L!Pk("RequestNetworkSettings")>>, codec[e])
  OBVIOUS
<1>3. /\ wire' = [wire EXCEPT ![p] = Append(@, x)]
      /\ loginPc' = [loginPc EXCEPT ![e] = "reading"]
      /\ UNCHANGED <<encrypts, codec, batch, deferred, sent, got, refused>>
  BY <1>x DEF L!WritePackets
<1>4. /\ codec[e] = L!Plain /\ codec[p] = L!Plain /\ loginPc[p] = "reading"
      /\ wire[e] = <<>> /\ batch[e] = <<>> /\ wire[p] = <<>> /\ batch[p] = <<>>
  BY <1>1, <1>2 DEF Apart, Set, Silent
<1>5. /\ x \in Bundle /\ x.codec = codec[p]
      /\ Leads("RequestNetworkSettings", p, x.pks)
  <2>1. codec[e] \in L!Codecs /\ codec[e] = codec[p]
    BY <1>0, <1>1, <1>4 DEF LoginTyped
  <2>2. "RequestNetworkSettings" \in PkTypes
    BY DEF PkTypes, LoginTypes
  <2> QED BY <1>x, <2>1, <2>2, SentAlone
<1>6. /\ wire' \in [L!Ends -> Seq(Bundle)] /\ wire'[p] = Append(wire[p], x)
      /\ \A k \in L!Ends \ {p} : wire'[k] = wire[k]
  BY <1>0, <1>1, <1>3, <1>5, WriteFacts
<1>7. /\ loginPc'[e] = "reading" /\ \A k \in L!Ends \ {e} : loginPc'[k] = loginPc[k]
      /\ loginPc' \in [L!Ends -> LoginPcs]
  BY <1>0, <1>1, <1>3 DEF LoginTyped, LoginPcs
<1>8. LoginTyped' /\ OnlyGame'
  BY <1>0, <1>3, <1>6, <1>7 DEF LoginTyped, OnlyGame
<1>9. Agreed'
  <2>1. \A k \in L!Ends \ {e} : codec'[k] = codec[k]
    BY <1>3
  <2>2. codec'[e] = codec[e]
    BY <1>3
  <2> QED BY <1>0, <1>1, <1>3, <1>5, <2>1, <2>2, AgreedWrite
<1>10. Turns'
  BY <1>0, <1>1, <1>3, <1>7, PeerFacts DEF Turns
<1>11. Len(wire'[p]) = 1 /\ wire'[p][1] = x
  BY <1>4, <1>5, <1>6, AppendOne
<1>12. Asking(e)'
  BY <1>1, <1>3, <1>4, <1>5, <1>6, <1>7, <1>11
     DEF Asking, Reading, Set, Alone, Silent
<1>13. \A j \in Dialers : Link(j)'
  <2>1. \A k \in L!Ends \ {e, p} : /\ wire'[k] = wire[k] /\ batch'[k] = batch[k]
                                   /\ codec'[k] = codec[k] /\ loginPc'[k] = loginPc[k]
    BY <1>3, <1>6, <1>7
  <2> QED BY <1>1, <1>3, <1>12, <2>1, LinkElse DEF Link
<1> QED BY <1>8, <1>9, <1>10, <1>13 DEF Linked

\* The player joins.
LEMMA JoinLink ==
  ASSUME Linked, L!Join
  PROVE  Linked'
BY Asked, PeerFacts DEF L!Join, Dialers

\* ForwardIdentity.
LEMMA ForwardLink ==
  ASSUME Linked, L!ForwardIdentity
  PROVE  Linked'
BY Asked, PeerFacts DEF L!ForwardIdentity, Dialers

\* The player or the backend writes a batch of the game, once logged in.
LEMMA Wrote ==
  ASSUME Linked, NEW e \in {L!Player, L!Backend}, loginPc[e] = "done",
         NEW x \in Bundle, x.codec = codec[e], OfGame(L!Peer(e), x.pks),
         wire' = [wire EXCEPT ![L!Peer(e)] = Append(@, x)],
         Calm, deferred' = deferred, got' = got, refused' = refused,
         sent' \in [{L!Player, L!Backend} -> Nat],
         \/ loginPc' = loginPc
         \/ e = L!Backend /\ loginPc' = [loginPc EXCEPT ![e] = "closed"]
  PROVE  Linked'
<1> DEFINE p == L!Peer(e)
<1>0. LoginTyped /\ OnlyGame /\ Agreed /\ Turns /\ \A j \in Dialers : Link(j)
  BY DEF Linked
<1>1. PICK c \in Dialers : e \in {c, L!Peer(c)} /\ (e = L!Backend => e = L!Peer(c))
  BY PeerFacts DEF Dialers
<1>2. e \in L!Ends /\ p \in L!Ends \ {e} /\ c \in {e, p}
  <2>1. e \in L!Ends /\ c \in L!Ends
    BY PeerFacts DEF Dialers
  <2>2. p \in L!Ends \ {e} /\ L!Peer(L!Peer(c)) = c
    BY <2>1, PeerFacts
  <2> QED BY <1>1, <2>1, <2>2
<1>3. /\ wire' \in [L!Ends -> Seq(Bundle)] /\ wire'[p] = Append(wire[p], x)
      /\ \A k \in L!Ends \ {p} : wire'[k] = wire[k]
  BY <1>0, <1>2, WriteFacts
<1>4. /\ loginPc' \in [L!Ends -> LoginPcs]
      /\ \A k \in L!Ends \ {e} : loginPc'[k] = loginPc[k]
      /\ loginPc'[e] = "done" \/ (e = L!Backend /\ loginPc'[e] = "closed")
  <2>1. loginPc \in [L!Ends -> LoginPcs] /\ "closed" \in LoginPcs
    BY <1>0 DEF LoginTyped, LoginPcs
  <2>2. CASE loginPc' = loginPc
    BY <2>1, <2>2
  <2>3. CASE e = L!Backend /\ loginPc' = [loginPc EXCEPT ![e] = "closed"]
    BY <1>2, <2>1, <2>3
  <2> QED BY <2>2, <2>3
<1>5. Link(c)' /\ codec[e] = codec[p]
  BY <1>0, <1>1, <1>2, <1>3, <1>4, GameWritten
<1>6. LoginTyped' /\ OnlyGame'
  BY <1>0, <1>3, <1>4 DEF LoginTyped, OnlyGame, Calm
<1>7. Agreed'
  <2>1. \A k \in L!Ends \ {e} : codec'[k] = codec[k]
    BY DEF Calm
  <2>2. codec'[e] = codec[e] /\ x.codec = codec[p]
    BY <1>5 DEF Calm
  <2> QED BY <1>0, <1>2, <2>1, <2>2, AgreedWrite
<1>8. Turns'
  BY <1>0, <1>2, <1>4, PeerFacts DEF Turns
<1>9. \A j \in Dialers : Link(j)'
  <2>1. \A k \in L!Ends \ {e, p} : /\ wire'[k] = wire[k] /\ batch'[k] = batch[k]
                                   /\ codec'[k] = codec[k] /\ loginPc'[k] = loginPc[k]
    BY <1>3, <1>4 DEF Calm
  <2>2. encrypts' = encrypts
    BY DEF Calm
  <2> QED BY <1>1, <1>2, <1>5, <2>1, <2>2, LinkElse
<1> QED BY <1>6, <1>7, <1>8, <1>9 DEF Linked

\* A stretch of a stream.
LEMMA StretchGame ==
  ASSUME NEW e \in {L!Player, L!Backend}, NEW a \in Nat, NEW k \in Nat,
         a + k <= Len(L!Stream(e))
  PROVE  /\ L!Stream(e) \in Streamed
         /\ SubSeq(L!Stream(e), a + 1, a + k) = Part(L!Stream(e), a, a + k)
         /\ SubSeq(L!Stream(e), a + 1, a + k) \in Seq(Pack)
         /\ OfGame(L!Peer(e), SubSeq(L!Stream(e), a + 1, a + k))
<1> DEFINE t == L!Stream(e)
           s == SubSeq(t, a + 1, a + k)
<1>1. t \in Streamed /\ \A i \in 1..Len(t) : t[i].type \in GameTypes(L!Peer(e))
  BY StreamGame, PeerFacts DEF L!Stream, GameTypes, Dialers
<1> HIDE DEF t
<1>2. s = Part(t, a, a + k)
  BY <1>1, PartSub DEF t
<1>3. /\ Part(t, a, a + k) \in Seq(Pack) /\ Len(Part(t, a, a + k)) = (a + k) - a
      /\ \A i \in 1..((a + k) - a) : Part(t, a, a + k)[i] = t[a + i]
  <2>1. a + k \in Nat /\ a <= a + k /\ a + k <= Len(t)
    BY DEF t
  <2> QED BY <1>1, <2>1, PartSeq
<1>4. \A i \in 1..((a + k) - a) : a + i \in 1..Len(t)
  <2>1. Len(t) \in Nat /\ a + k <= Len(t)
    BY <1>1 DEF Streamed, t
  <2> QED BY <2>1
<1>5. OfGame(L!Peer(e), Part(t, a, a + k))
  BY <1>1, <1>3, <1>4 DEF OfGame
<1>6. s \in Seq(Pack) /\ OfGame(L!Peer(e), s)
  BY <1>2, <1>3, <1>5
<1> QED BY <1>1, <1>2, <1>6 DEF t

\* The player or the backend sends a stretch of its stream.
LEMMA SendLink ==
  ASSUME Linked, NEW e \in {L!Player, L!Backend}, NEW k \in 1..Len(L!Stream(e)), L!Send(e, k)
  PROVE  Linked'
<1> DEFINE t == L!Stream(e)
<1>0. LoginTyped
  BY DEF Linked
<1>1. k \in Nat /\ sent[e] \in Nat /\ sent[e] + k <= Len(t) /\ loginPc[e] = "done"
  <2>1. t \in Streamed
    BY StreamGame DEF L!Stream
  <2>2. Len(t) \in Nat
    BY <2>1 DEF Streamed
  <2>3. k \in Nat
    BY <2>2
  <2> QED BY <1>0, <2>3 DEF L!Send, LoginTyped
<1>s. PICK s : s = SubSeq(t, sent[e] + 1, sent[e] + k)
  OBVIOUS
<1>x. PICK x : x = L!Encoded(s, codec[e])
  OBVIOUS
<1>2. s \in Seq(Pack) /\ OfGame(L!Peer(e), s)
  BY <1>s, <1>1, StretchGame
<1>3. e \in L!Ends /\ codec[e] \in L!Codecs
  BY <1>0, PeerFacts DEF LoginTyped
<1>4. x \in Bundle /\ x.codec = codec[e] /\ x.pks = s
  BY <1>x, <1>2, <1>3 DEF L!Encoded, Bundle
<1>5. /\ wire' = [wire EXCEPT ![L!Peer(e)] = Append(@, x)]
      /\ sent' = [sent EXCEPT ![e] = @ + k]
      /\ Calm /\ deferred' = deferred /\ got' = got /\ refused' = refused /\ loginPc' = loginPc
  BY <1>s, <1>x DEF L!Send, L!WritePackets, Calm
<1>6. sent' \in [{L!Player, L!Backend} -> Nat]
  BY <1>0, <1>1, <1>5 DEF LoginTyped
<1> QED BY <1>1, <1>2, <1>4, <1>5, <1>6, Wrote

\* A Disconnect is a packet a game may send to whoever logged in.
LEMMA DisconnectFacts ==
  ASSUME NEW e \in Dialers, NEW k \in L!Codecs,
         NEW x, x = L!Encoded(<<L!Pk("Disconnect")>>, k)
  PROVE  /\ x \in Bundle /\ x.codec = k /\ x.pks = <<L!Pk("Disconnect")>>
         /\ OfGame(e, x.pks)
<1>1. "Disconnect" \in PkTypes /\ "Disconnect" \in GameTypes(e)
  BY DEF PkTypes, GameTypes
<1> QED BY <1>1, PkFacts, OfGameOne

\* The backend refuses the player.
LEMMA RefuseLink ==
  ASSUME Linked, L!Refuse
  PROVE  Linked'
<1> DEFINE e == L!Backend
<1>0. LoginTyped
  BY DEF Linked
<1>1. /\ loginPc[e] = "done" /\ e \in {L!Player, L!Backend} /\ e \in L!Ends
      /\ L!Peer(e) = L!Back /\ L!Back \in Dialers /\ codec[e] \in L!Codecs
  BY <1>0, PeerFacts DEF L!Refuse, Dialers, LoginTyped
<1>x. PICK x : x = L!Encoded(<<L!Pk("Disconnect")>>, codec[e])
  OBVIOUS
<1>2. x \in Bundle /\ x.codec = codec[e] /\ OfGame(L!Peer(e), x.pks)
  BY <1>x, <1>1, DisconnectFacts
<1>3. /\ wire' = [wire EXCEPT ![L!Peer(e)] = Append(@, x)]
      /\ loginPc' = [loginPc EXCEPT ![e] = "closed"]
      /\ Calm /\ deferred' = deferred /\ got' = got /\ refused' = refused /\ sent' = sent
  BY <1>x DEF L!Refuse, L!WritePackets, Calm
<1>4. sent' \in [{L!Player, L!Backend} -> Nat]
  BY <1>0, <1>3 DEF LoginTyped
<1> QED BY <1>1, <1>2, <1>3, <1>4, Wrote

\* The relay tells the player that it is not let in, and closes both links.
LEMMA TellLink ==
  ASSUME Linked, L!TellPlayer
  PROVE  Linked'
<1> DEFINE e == L!Door
           b == L!Back
           p == L!Player
<1>0. LoginTyped /\ OnlyGame /\ Agreed /\ Turns /\ \A j \in Dialers : Link(j)
  BY DEF Linked
<1>1. /\ e \in L!Ends /\ b \in L!Ends /\ p \in L!Ends /\ e # b /\ p # b /\ e # p
      /\ L!Peer(e) = p /\ L!Peer(p) = e /\ p \in Dialers /\ b \in Dialers
      /\ L!Peer(b) = L!Backend /\ L!Backend \in L!Ends \ {e, b, p}
      /\ \A j \in Dialers : j = p \/ j = b
  BY PeerFacts DEF Dialers
<1>2. /\ loginPc[e] = "done"
      /\ loginPc[b] \in {"idle", "garbled", "rejected", "refused"}
  <2>1. loginPc[e] = "done" /\ loginPc[b] \in {"idle"} \cup L!Failures
    BY DEF L!TellPlayer
  <2> QED BY <2>1 DEF L!Failures
<1>x. PICK x : x = L!Encoded(<<L!Pk("Disconnect")>>, codec[e])
  OBVIOUS
<1>3. x \in Bundle /\ x.codec = codec[e] /\ OfGame(p, x.pks)
  <2>1. codec[e] \in L!Codecs
    BY <1>0, <1>1 DEF LoginTyped
  <2> QED BY <1>x, <1>1, <2>1, DisconnectFacts
<1>4. /\ wire' = [wire EXCEPT ![p] = Append(@, x)]
      /\ loginPc' = [loginPc EXCEPT ![e] = "closed", ![b] = "closed"]
      /\ Calm /\ deferred' = deferred /\ got' = got /\ refused' = refused /\ sent' = sent
  BY <1>x, <1>1 DEF L!TellPlayer, L!WritePackets, Calm
<1>5. /\ wire' \in [L!Ends -> Seq(Bundle)] /\ wire'[p] = Append(wire[p], x)
      /\ \A k \in L!Ends \ {p} : wire'[k] = wire[k]
  BY <1>0, <1>1, <1>3, <1>4, WriteFacts
<1>6. /\ loginPc' \in [L!Ends -> LoginPcs]
      /\ loginPc'[e] = "closed" /\ loginPc'[b] = "closed"
      /\ \A k \in L!Ends \ {e, b} : loginPc'[k] = loginPc[k]
  BY <1>0, <1>1, <1>4 DEF LoginTyped, LoginPcs
<1>7. Link(p)' /\ codec[e] = codec[p]
  <2>1. e \in {p, L!Peer(p)} /\ Link(p) /\ p \in Dialers /\ Calm
    BY <1>0, <1>1, <1>4
  <2>2. /\ OfGame(L!Peer(e), x.pks) /\ wire'[L!Peer(e)] = Append(wire[L!Peer(e)], x)
        /\ wire'[e] = wire[e] /\ loginPc'[L!Peer(e)] = loginPc[L!Peer(e)]
        /\ e = L!Peer(p) /\ loginPc'[e] = "closed"
    BY <1>1, <1>3, <1>5, <1>6
  <2>3. Link(p)' /\ codec[e] = codec[L!Peer(e)]
    BY <1>0, <1>2, <1>3, <2>1, <2>2, GameWritten
  <2> QED BY <1>1, <2>3
<1>8. Link(b)'
  <2>1. CASE Apart(b)
    BY <1>1, <1>4, <1>5, <1>6, <2>1 DEF Apart, Set, Silent, Calm, Link
  <2>2. CASE Settled(b)
    <3>1. Settled(b)'
      BY <1>1, <1>2, <1>4, <1>5, <1>6, <2>2 DEF Settled, Set, GameFrom, Calm
    <3> QED BY <3>1 DEF Link
  <2> QED BY <1>0, <1>1, <1>2, <2>1, <2>2
          DEF Link, Asking, Replied, LoggingIn, Challenged, Answering, Reading
<1>9. LoginTyped' /\ OnlyGame'
  BY <1>0, <1>4, <1>5, <1>6 DEF LoginTyped, OnlyGame, Calm
<1>10. Agreed'
  <2>1. \A k \in L!Ends \ {e} : codec'[k] = codec[k]
    BY <1>4 DEF Calm
  <2>2. codec'[e] = codec[e] /\ x.codec = codec[p]
    BY <1>3, <1>4, <1>7 DEF Calm
  <2> QED BY <1>0, <1>1, <1>3, <1>4, <2>1, <2>2, AgreedWrite
<1>11. Turns'
  BY <1>0, <1>1, <1>6 DEF Turns
<1> QED BY <1>1, <1>7, <1>8, <1>9, <1>10, <1>11 DEF Linked

\* What reading leaves: deferredPackets is empty.
LEMMA DeferredRead ==
  ASSUME LoginTyped, OnlyGame, NEW e \in L!Ends, deferred' = [deferred EXCEPT ![e] = <<>>]
  PROVE  /\ deferred' \in [L!Ends -> Seq(Pack)] /\ OnlyGame'
         /\ deferred'[e] = <<>> /\ \A k \in L!Ends \ {e} : deferred'[k] = deferred[k]
<1>1. /\ deferred' \in [L!Ends -> Seq(Pack)] /\ deferred'[e] = <<>>
      /\ \A k \in L!Ends \ {e} : deferred'[k] = deferred[k]
  BY NoGame DEF LoginTyped
<1>2. OnlyGame'
  BY <1>1, NoGame DEF OnlyGame
<1> QED BY <1>1, <1>2

\* What receiving changes.
LEMMA ReceiveFacts ==
  ASSUME LoginTyped, OnlyGame, NEW e \in {L!Player, L!Backend}, L!Receive(e)
  PROVE  /\ loginPc[e] = "done" /\ Reads(e)
         /\ wire' = wire \/ (deferred[e] = <<>> /\ wire[e] # <<>>
                             /\ wire' = [wire EXCEPT ![e] = Tail(@)])
         /\ \A k \in L!Ends \ {e} : wire'[k] = wire[k]
         /\ Calm /\ loginPc' = loginPc /\ sent' = sent /\ refused' = refused
         /\ deferred' = [deferred EXCEPT ![e] = <<>>]
         /\ got' = [got EXCEPT ![e] = @ \o L!ReadPackets(e)]
<1>1. /\ loginPc[e] = "done" /\ L!CanRead(e)
      /\ deferred' = [deferred EXCEPT ![e] = <<>>]
      /\ got' = [got EXCEPT ![e] = @ \o L!ReadPackets(e)]
      /\ \/ deferred[e] # <<>> /\ wire' = wire
         \/ deferred[e] = <<>> /\ wire' = [wire EXCEPT ![e] = Tail(@)]
      /\ Calm /\ loginPc' = loginPc /\ sent' = sent /\ refused' = refused
  BY DEF L!Receive, L!AfterRead, Calm
<1>2. e \in L!Ends
  BY PeerFacts
<1>3. CASE deferred[e] # <<>>
  BY <1>1, <1>2, <1>3 DEF Reads
<1>4. CASE deferred[e] = <<>>
  <2>1. wire[e] # <<>> /\ wire' = [wire EXCEPT ![e] = Tail(@)]
    BY <1>1, <1>4 DEF L!CanRead, L!HasBatch
  <2>2. wire'[e] = Tail(wire[e]) /\ \A k \in L!Ends \ {e} : wire'[k] = wire[k]
    BY <1>2, <2>1 DEF LoginTyped
  <2> QED BY <1>1, <1>4, <2>1, <2>2 DEF Reads
<1> QED BY <1>3, <1>4

\* What is left on a wire.
LEMMA TailTyped ==
  ASSUME LoginTyped, NEW e \in L!Ends, wire[e] # <<>>
  PROVE  Tail(wire[e]) \in Seq(Bundle)
BY EmptySeq DEF LoginTyped

\* The game takes what arrives.
LEMMA ReceiveLink ==
  ASSUME Linked, NEW e \in {L!Player, L!Backend}, L!Receive(e)
  PROVE  Linked'
<1> DEFINE p == L!Peer(e)
<1>0. LoginTyped /\ OnlyGame /\ Agreed /\ Turns /\ \A j \in Dialers : Link(j)
  BY DEF Linked
<1>1. PICK c \in Dialers : e \in {c, L!Peer(c)}
  BY PeerFacts DEF Dialers
<1>2. e \in L!Ends /\ p \in L!Ends \ {e} /\ c \in {e, p}
  <2>1. e \in L!Ends /\ c \in L!Ends
    BY PeerFacts DEF Dialers
  <2>2. p \in L!Ends \ {e} /\ L!Peer(L!Peer(c)) = c
    BY <2>1, PeerFacts
  <2> QED BY <1>1, <2>1, <2>2
<1>3. /\ loginPc[e] = "done" /\ Reads(e)
      /\ wire' = wire \/ (deferred[e] = <<>> /\ wire[e] # <<>>
                          /\ wire' = [wire EXCEPT ![e] = Tail(@)])
      /\ \A k \in L!Ends \ {e} : wire'[k] = wire[k]
      /\ Calm /\ loginPc' = loginPc /\ sent' = sent /\ refused' = refused
      /\ deferred' = [deferred EXCEPT ![e] = <<>>]
      /\ got' = [got EXCEPT ![e] = @ \o L!ReadPackets(e)]
  BY <1>0, ReceiveFacts
<1>4. /\ Link(c)'
      /\ L!ReadPackets(e) \in Seq(Pack)
  BY <1>0, <1>1, <1>2, <1>3, GameRead
<1>5. got' \in [L!Ends -> Seq(Pack)]
  <2>1. got[e] \o L!ReadPackets(e) \in Seq(Pack)
    BY <1>0, <1>2, <1>4, CatFacts DEF LoginTyped
  <2> QED BY <1>0, <1>3, <2>1 DEF LoginTyped
<1>6. wire' \in [L!Ends -> Seq(Bundle)]
  BY <1>0, <1>2, <1>3, TailTyped DEF LoginTyped
<1>7. LoginTyped' /\ OnlyGame'
  BY <1>0, <1>2, <1>3, <1>5, <1>6, DeferredRead DEF LoginTyped, Calm
<1>8. Agreed'
  BY <1>0, <1>2, <1>3, AgreedTake DEF Agreed, Calm
<1>9. Turns'
  BY <1>0, <1>3 DEF Turns
<1>10. \A j \in Dialers : Link(j)'
  <2>1. \A k \in L!Ends \ {e, p} : /\ wire'[k] = wire[k] /\ batch'[k] = batch[k]
                                   /\ codec'[k] = codec[k] /\ loginPc'[k] = loginPc[k]
    BY <1>3 DEF Calm
  <2>2. encrypts' = encrypts
    BY <1>3 DEF Calm
  <2> QED BY <1>2, <1>4, <2>1, <2>2, LinkElse
<1> QED BY <1>7, <1>8, <1>9, <1>10 DEF Linked

\* pump reads at e and writes from the relay's other end.
LEMMA PumpFacts ==
  ASSUME LoginTyped, OnlyGame, NEW e \in L!Relay, NEW f \in L!Relay, f # e, L!Pump(e)
  PROVE  /\ loginPc[e] = "done" /\ loginPc[f] = "done" /\ Reads(e)
         /\ wire'[L!Peer(f)] =
               Append(wire[L!Peer(f)], L!Encoded(L!ReadPackets(e), codec[f]))
         /\ \A k \in L!Ends \ {e, L!Peer(f)} : wire'[k] = wire[k]
         /\ Calm /\ loginPc' = loginPc /\ sent' = sent /\ got' = got /\ refused' = refused
         /\ deferred' = [deferred EXCEPT ![e] = <<>>]
         /\ DOMAIN wire' = L!Ends /\ wire' = [k \in L!Ends |-> wire'[k]]
<1> DEFINE p == L!Peer(f)
           x == L!Encoded(L!ReadPackets(e), codec[f])
           out == [wire EXCEPT ![p] = Append(@, x)]
<1>1. f = IF e = L!Door THEN L!Back ELSE L!Door
  BY PeerFacts
<1>2. /\ L!Pumping /\ L!CanRead(e)
      /\ wire' = IF deferred[e] # <<>> THEN out ELSE [out EXCEPT ![e] = Tail(@)]
      /\ deferred' = [deferred EXCEPT ![e] = <<>>]
      /\ Calm /\ loginPc' = loginPc /\ sent' = sent /\ got' = got /\ refused' = refused
  BY <1>1 DEF L!Pump, Calm
<1>3. e \in L!Ends /\ f \in L!Ends /\ p \in L!Ends \ {e, f}
  BY PeerFacts
<1>4. loginPc[e] = "done" /\ loginPc[f] = "done"
  BY <1>1, <1>2, PeerFacts DEF L!Pumping
<1> HIDE DEF x, p
<1>5. /\ out[p] = Append(wire[p], x) /\ \A k \in L!Ends \ {p} : out[k] = wire[k]
      /\ out = [k \in L!Ends |-> out[k]]
  BY <1>3 DEF LoginTyped
<1>6. /\ wire'[p] = Append(wire[p], x) /\ \A k \in L!Ends \ {e, p} : wire'[k] = wire[k]
      /\ wire'[e] = IF deferred[e] # <<>> THEN wire[e] ELSE Tail(wire[e])
      /\ wire' = [k \in L!Ends |-> wire'[k]]
  <2> HIDE DEF out
  <2>1. CASE deferred[e] # <<>>
    BY <1>2, <1>3, <1>5, <2>1
  <2>2. CASE deferred[e] = <<>>
    <3>1. wire' = [out EXCEPT ![e] = Tail(@)]
      BY <1>2, <2>2
    <3> QED BY <1>3, <1>5, <2>2, <3>1
  <2> QED BY <2>1, <2>2
<1>7. DOMAIN wire' = L!Ends
  BY <1>6
<1> QED BY <1>2, <1>4, <1>6, <1>7 DEF x, p, Reads

\* pump: both links stay at their stages.
LEMMA PumpLink ==
  ASSUME Linked, NEW e \in L!Relay, L!Pump(e)
  PROVE  Linked'
<1>0. LoginTyped /\ OnlyGame /\ Agreed /\ Turns /\ \A j \in Dialers : Link(j)
  BY DEF Linked
<1>1. PICK f \in L!Relay : f # e
  BY PeerFacts
<1> DEFINE p == L!Peer(f)
           d == L!Peer(e)
<1>2. /\ e \in L!Ends /\ f \in L!Ends /\ p \in L!Ends /\ d \in L!Ends
      /\ e # f /\ e # p /\ e # d /\ f # p /\ f # d /\ p # d
      /\ L!Ends = {e, f, p, d}
      /\ L!Peer(p) = f /\ L!Peer(d) = e
  BY <1>1, PeerFacts
<1>x. PICK x : x = L!Encoded(L!ReadPackets(e), codec[f])
  OBVIOUS
<1>3. /\ loginPc[e] = "done" /\ loginPc[f] = "done" /\ Reads(e)
      /\ wire'[p] = Append(wire[p], x)
      /\ \A k \in L!Ends \ {e, p} : wire'[k] = wire[k]
      /\ Calm /\ loginPc' = loginPc /\ sent' = sent /\ got' = got /\ refused' = refused
      /\ deferred' = [deferred EXCEPT ![e] = <<>>]
      /\ wire' = [k \in L!Ends |-> wire'[k]]
  BY <1>0, <1>1, <1>x, PumpFacts
<1>4. PICK c \in Dialers, b \in Dialers :
         c # b /\ e \in {c, L!Peer(c)} /\ f \in {b, L!Peer(b)}
  BY <1>1, PeerFacts DEF Dialers
<1>5. /\ Link(c)' /\ L!ReadPackets(e) \in Seq(Pack) /\ OfGame(e, L!ReadPackets(e))
      /\ deferred[e] = <<>> => wire[e] # <<>>
  <2>1. wire'[d] = wire[d]
    BY <1>2, <1>3
  <2> QED BY <1>0, <1>3, <1>4, <2>1, GameRead
<1>6. x \in Bundle /\ x.codec = codec[f] /\ x.pks = L!ReadPackets(e)
  <2>1. codec[f] \in L!Codecs
    BY <1>0, <1>2 DEF LoginTyped
  <2> QED BY <1>x, <1>5, <2>1 DEF L!Encoded, Bundle
<1>7. OfGame(p, x.pks)
  <2>1. GameTypes(e) = GameTypes(p)
    BY <1>1, PeerFacts DEF GameTypes, Dialers
  <2> QED BY <1>5, <1>6, <2>1 DEF OfGame
<1>8. Link(b)' /\ codec[f] = codec[p]
  <2>1. wire'[f] = wire[f] /\ loginPc'[p] = loginPc[p] /\ loginPc'[f] = "done"
    BY <1>2, <1>3
  <2> QED BY <1>0, <1>3, <1>4, <1>6, <1>7, <2>1, GameWritten
<1>9. \A j \in Dialers : Link(j)'
  BY <1>4, <1>5, <1>8 DEF Dialers
<1>10. wire' \in [L!Ends -> Seq(Bundle)]
  <2>1. Append(wire[p], x) \in Seq(Bundle)
    <3>1. wire[p] \in Seq(Bundle)
      BY <1>0, <1>2 DEF LoginTyped
    <3> QED BY <1>6, <3>1, AppendFacts
  <2>2. wire'[e] \in Seq(Bundle)
    BY <1>0, <1>2, <1>3, <1>5, TailTyped DEF LoginTyped, Reads
  <2>3. \A k \in L!Ends : wire'[k] \in Seq(Bundle)
    BY <1>0, <1>2, <1>3, <2>1, <2>2 DEF LoginTyped
  <2> QED BY <1>3, <2>3
<1>11. LoginTyped' /\ OnlyGame'
  BY <1>0, <1>2, <1>3, <1>10, DeferredRead DEF LoginTyped, Calm
<1>12. Agreed'
  <2>1. \A i \in 1..Len(wire'[p]) : wire'[p][i].codec = codec'[p]
    BY <1>0, <1>2, <1>3, <1>6, <1>8, PutAgreed DEF Calm
  <2>2. \A i \in 1..Len(wire'[e]) : wire'[e][i].codec = codec'[e]
    BY <1>0, <1>2, <1>3, <1>5, TookAgreed DEF Calm, Reads
  <2>3. \A k \in L!Ends \ {e, p} : \A i \in 1..Len(wire'[k]) : wire'[k][i].codec = codec'[k]
    BY <1>0, <1>3 DEF Agreed, Calm
  <2> QED BY <2>1, <2>2, <2>3 DEF Agreed
<1>13. Turns'
  BY <1>0, <1>3 DEF Turns
<1> QED BY <1>9, <1>11, <1>12, <1>13 DEF Linked

\* Every step keeps both links at a stage.
LEMMA LoginNext == Linked /\ L!Next => Linked'
<1> SUFFICES ASSUME Linked, L!Next PROVE Linked'
  OBVIOUS
<1>1. ASSUME NEW e \in L!Ends, L!ReadLoop(e) PROVE Linked'
  BY <1>1, ReadLoopLink
<1>2. ASSUME NEW e \in L!Relay, L!Pump(e) PROVE Linked'
  BY <1>2, PumpLink
<1>3. ASSUME NEW e \in {L!Player, L!Backend}, L!Streams(e) PROVE Linked'
  BY <1>3, SendLink DEF L!Streams
<1>4. ASSUME NEW e \in {L!Player, L!Backend}, L!Receive(e) PROVE Linked'
  BY <1>4, ReceiveLink
<1> QED BY <1>1, <1>2, <1>3, <1>4, JoinLink, RefuseLink, ForwardLink, TellLink DEF L!Next

-----------------------------------------------------------------------------
(* ReadLoop keeps what is under way.                                       *)

\* What is under way to e, and what e has put by, is t from a to b.
OnWay(e, t, a, b) == Ahead(deferred[e], batch[e], wire[e], t, a, b)

\* Nothing behind a sequence.
LEMMA CatEmpty ==
  ASSUME NEW s \in Seq(Pack)
  PROVE  s \o <<>> = s
OBVIOUS

\* An end that does not take part.
LEMMA WaySame ==
  ASSUME NEW e, NEW t, NEW a, NEW b, OnWay(e, t, a, b),
         deferred'[e] = deferred[e], batch'[e] = batch[e], wire'[e] = wire[e]
  PROVE  OnWay(e, t, a, b)'
BY DEF OnWay

\* An end to which something is written.
LEMMA WayGive ==
  ASSUME LoginTyped, NEW e \in L!Ends, NEW t \in Streamed, NEW a \in Nat, NEW b \in Nat,
         NEW c \in Nat, b <= c, c <= Len(t), NEW x \in Bundle, Game(x.pks) = Part(t, b, c),
         OnWay(e, t, a, b), deferred'[e] = deferred[e], batch'[e] = batch[e],
         wire'[e] = Append(wire[e], x)
  PROVE  OnWay(e, t, a, c)'
<1>1. wire[e] \in Seq(Bundle)
  BY DEF LoginTyped
<1>2. Ahead(deferred[e], batch[e], Append(wire[e], x), t, a, c)
  BY <1>1, AheadGive DEF OnWay
<1> QED BY <1>2 DEF OnWay

\* An end to which a login packet is written, with nothing behind it.
LEMMA WayLogin ==
  ASSUME LoginTyped, NEW e \in L!Ends, NEW t \in Streamed, NEW a \in Nat, NEW b \in Nat,
         NEW x \in Bundle, Game(x.pks) = <<>>,
         OnWay(e, t, a, b), deferred'[e] = deferred[e], batch'[e] = batch[e],
         wire'[e] = Append(wire[e], x)
  PROVE  OnWay(e, t, a, b)'
<1>1. b <= Len(t) /\ b <= b
  BY DEF OnWay, Ahead
<1>2. Part(t, b, b) = <<>>
  BY <1>1, PartGame
<1> QED BY <1>1, <1>2, WayGive

\* ReadLoop at e: nothing is lost of what is under way to e.
LEMMA WaySkip ==
  ASSUME LoginTyped, NEW e \in L!Ends, NEW t \in Streamed, NEW a \in Nat, NEW b \in Nat,
         OnWay(e, t, a, b), batch[e] # <<>>, Head(batch[e]).type \in LoginTypes,
         wire'[e] = wire[e],
         \/ deferred'[e] = deferred[e] /\ batch'[e] = Tail(batch[e])
         \/ deferred'[e] = (deferred[e] \o <<>>) \o Tail(batch[e]) /\ batch'[e] = <<>>
  PROVE  OnWay(e, t, a, b)'
<1>1. deferred[e] \in Seq(Pack) /\ batch[e] \in Seq(Pack)
  BY DEF LoginTyped
<1>2. deferred[e] \o <<>> = deferred[e]
  BY <1>1, CatEmpty
<1>3. /\ Ahead(deferred[e], Tail(batch[e]), wire[e], t, a, b)
      /\ Ahead(deferred[e] \o Tail(batch[e]), <<>>, wire[e], t, a, b)
  BY <1>1, AheadSkip DEF OnWay
<1> QED BY <1>2, <1>3 DEF OnWay

\* A packet of the game that is met there is put by, with what is behind it.
LEMMA WayKeep ==
  ASSUME LoginTyped, NEW e \in L!Ends, NEW t \in Streamed, NEW a \in Nat, NEW b \in Nat,
         OnWay(e, t, a, b), batch[e] # <<>>, Head(batch[e]).type \notin LoginTypes,
         wire'[e] = wire[e],
         \/ deferred'[e] = Append(deferred[e], Head(batch[e])) /\ batch'[e] = Tail(batch[e])
         \/ /\ deferred'[e] = (deferred[e] \o <<Head(batch[e])>>) \o Tail(batch[e])
            /\ batch'[e] = <<>>
  PROVE  OnWay(e, t, a, b)'
<1>1. deferred[e] \in Seq(Pack) /\ batch[e] \in Seq(Pack)
  BY DEF LoginTyped
<1>2. /\ Ahead(Append(deferred[e], Head(batch[e])), Tail(batch[e]), wire[e], t, a, b)
      /\ Ahead((deferred[e] \o <<Head(batch[e])>>) \o Tail(batch[e]), <<>>, wire[e], t, a, b)
  BY <1>1, AheadKeep DEF OnWay
<1> QED BY <1>2 DEF OnWay

\* What the end of a login changes.
LEMMA DoneFacts ==
  ASSUME LoginTyped, NEW e \in L!Ends, NEW f, L!LoginDone(e, f)
  PROVE  /\ deferred'[e] = (deferred[e] \o f) \o Tail(batch[e]) /\ batch'[e] = <<>>
         /\ \A k \in L!Ends \ {e} : deferred'[k] = deferred[k] /\ batch'[k] = batch[k]
         /\ loginPc'[e] = "done" /\ \A k \in L!Ends \ {e} : loginPc'[k] = loginPc[k]
BY DEF L!LoginDone, L!DeferRemaining, LoginTyped

\* What taking one packet changes.
LEMMA ConsumedFacts ==
  ASSUME LoginTyped, NEW e \in L!Ends, L!Consumed(e)
  PROVE  batch'[e] = Tail(batch[e]) /\ \A k \in L!Ends \ {e} : batch'[k] = batch[k]
BY DEF L!Consumed, LoginTyped

\* A write leaves the other wires alone.
LEMMA WriteElse ==
  ASSUME LoginTyped, NEW e \in L!Ends, NEW x, wire' = [wire EXCEPT ![L!Peer(e)] = Append(@, x)]
  PROVE  /\ wire'[L!Peer(e)] = Append(wire[L!Peer(e)], x)
         /\ \A k \in L!Ends \ {L!Peer(e)} : wire'[k] = wire[k]
<1>1. L!Peer(e) \in L!Ends
  BY PeerFacts
<1> QED BY <1>1 DEF LoginTyped

\* The packet at the head of the batch, and what becomes of it.
LEMMA HandledWay ==
  ASSUME Linked, NEW e \in L!Ends, L!ReadLoop(e),
         NEW t \in Streamed, NEW a \in Nat, NEW b \in Nat, OnWay(e, t, a, b)
  PROVE  OnWay(e, t, a, b)'
<1>0. LoginTyped /\ e \in L!Ends \ {L!Peer(e)} /\ L!Peer(e) \in L!Ends
  BY PeerFacts DEF Linked
<1>1. CASE L!ReadBatch(e)
  <2>1. /\ wire[e] \in Seq(Bundle) /\ wire[e] # <<>> /\ batch[e] = <<>>
    BY <1>0, <1>1 DEF L!ReadBatch, L!HasBatch, LoginTyped
  <2>2. /\ wire'[e] = Tail(wire[e]) /\ deferred' = deferred
        /\ batch'[e] = Head(wire[e]).pks
    <3>1. batch' = [batch EXCEPT ![e] = Head(wire[e]).pks]
      BY <1>1, ReadBatchLink
    <3> QED BY <1>0, <1>1, <3>1 DEF L!ReadBatch, LoginTyped
  <2>3. Ahead(deferred[e], Head(wire[e]).pks, Tail(wire[e]), t, a, b)
    BY <2>1, AheadRead DEF OnWay
  <2> QED BY <2>2, <2>3 DEF OnWay
<1>2. CASE L!HandleRequestNetworkSettings(e)
  <2>1. /\ batch[e] # <<>> /\ Head(batch[e]).type = "RequestNetworkSettings"
        /\ L!Consumed(e) /\ deferred' = deferred
        /\ wire' = [wire EXCEPT ![L!Peer(e)] = Append(@, L!SettingsReply(e))]
    BY <1>2 DEF L!HandleRequestNetworkSettings, L!Pending
  <2>2. wire'[e] = wire[e] /\ batch'[e] = Tail(batch[e])
    BY <1>0, <2>1, ConsumedFacts DEF LoginTyped
  <2> QED BY <1>0, <2>1, <2>2, WaySkip DEF LoginTypes
<1>3. CASE L!HandleNetworkSettings(e)
  <2>1. PICK more \in L!Behind(e) :
           wire' = [wire EXCEPT ![L!Peer(e)] =
                      Append(@, L!Encoded(L!LoginPk \o more, L!Compressed(e)))]
    BY <1>3 DEF L!HandleNetworkSettings
  <2>2. /\ batch[e] # <<>> /\ Head(batch[e]).type = "NetworkSettings"
        /\ L!Consumed(e) /\ deferred' = deferred
    BY <1>3 DEF L!HandleNetworkSettings, L!Pending
  <2>3. wire'[e] = wire[e] /\ batch'[e] = Tail(batch[e])
    BY <1>0, <2>1, <2>2, ConsumedFacts DEF LoginTyped
  <2> QED BY <1>0, <2>2, <2>3, WaySkip DEF LoginTypes
<1>4. CASE L!HandleLogin(e)
  <2>1. batch[e] # <<>> /\ Head(batch[e]).type = "Login"
    BY <1>4 DEF L!HandleLogin, L!Pending
  <2>2. wire'[e] = wire[e]
    BY <1>0, <1>4 DEF L!HandleLogin, L!WritePackets, LoginTyped
  <2>3. CASE L!EndsLogin(e)
    <3>1. L!LoginDone(e, <<>>)
      BY <1>4, <2>3 DEF L!HandleLogin
    <3> QED BY <1>0, <2>1, <2>2, <3>1, DoneFacts, WaySkip DEF LoginTypes
  <2>4. CASE ~L!EndsLogin(e)
    <3>1. L!Consumed(e) /\ deferred' = deferred
      BY <1>4, <2>4 DEF L!HandleLogin
    <3> QED BY <1>0, <2>1, <2>2, <3>1, ConsumedFacts, WaySkip DEF LoginTypes
  <2> QED BY <2>3, <2>4
<1>5. CASE L!HandleServerToClientHandshake(e)
  <2>1. PICK more \in L!Behind(e) :
           wire' = [wire EXCEPT ![L!Peer(e)] =
                      Append(@, L!Encoded(<<L!Pk("ClientToServerHandshake")>> \o more, L!Encrypted(e)))]
    BY <1>5 DEF L!HandleServerToClientHandshake
  <2>2. /\ batch[e] # <<>> /\ Head(batch[e]).type = "ServerToClientHandshake"
        /\ L!LoginDone(e, <<>>)
    BY <1>5 DEF L!HandleServerToClientHandshake, L!Pending
  <2>3. wire'[e] = wire[e]
    BY <1>0, <2>1 DEF LoginTyped
  <2> QED BY <1>0, <2>2, <2>3, DoneFacts, WaySkip DEF LoginTypes
<1>6. CASE L!HandleClientToServerHandshake(e)
  <2>1. /\ batch[e] # <<>> /\ Head(batch[e]).type = "ClientToServerHandshake"
        /\ L!LoginDone(e, <<>>) /\ wire' = wire
    BY <1>6 DEF L!HandleClientToServerHandshake, L!Pending
  <2> QED BY <1>0, <2>1, DoneFacts, WaySkip DEF LoginTypes
<1>7. CASE L!HandlePlayStatus(e)
  <2>f. PICK f : f = <<Head(batch[e])>>
    OBVIOUS
  <2>1. /\ batch[e] # <<>> /\ Head(batch[e]).type = "PlayStatus"
        /\ L!LoginDone(e, f) /\ wire' = wire
    BY <1>7, <2>f DEF L!HandlePlayStatus, L!Pending
  <2>2. deferred'[e] = (deferred[e] \o f) \o Tail(batch[e]) /\ batch'[e] = <<>>
    BY <1>0, <2>1, DoneFacts
  <2>3. Head(batch[e]).type \notin LoginTypes
    BY <2>1 DEF LoginTypes
  <2> QED BY <1>0, <2>f, <2>1, <2>2, <2>3, WayKeep
<1>8. CASE L!HandleDisconnect(e)
  BY <1>8 DEF L!HandleDisconnect, OnWay
<1>9. CASE L!HandleOther(e)
  <2>1. /\ batch[e] # <<>> /\ Head(batch[e]).type = "data"
        /\ L!Consumed(e) /\ wire' = wire
        /\ deferred' = [deferred EXCEPT ![e] = Append(@, Head(batch[e]))]
    BY <1>9 DEF L!HandleOther, L!Pending
  <2>2. deferred'[e] = Append(deferred[e], Head(batch[e])) /\ batch'[e] = Tail(batch[e])
    BY <1>0, <2>1, ConsumedFacts DEF LoginTyped
  <2>3. Head(batch[e]).type \notin LoginTypes
    BY <2>1 DEF LoginTypes
  <2> QED BY <1>0, <2>1, <2>2, <2>3, WayKeep
<1> QED BY <1>1, <1>2, <1>3, <1>4, <1>5, <1>6, <1>7, <1>8, <1>9, NoneRejected DEF L!ReadLoop

\* What is behind a login packet is the next of the player's stream, and counted.
LEMMA BehindCounted ==
  ASSUME LoginTyped, NEW e \in Dialers, NEW more \in L!Behind(e), L!CountSent(e, more)
  PROVE  \/ more = <<>> /\ sent' = sent
         \/ /\ e = L!Player /\ sent[e] + 1 <= UpLen
            /\ more = Part(L!Up, sent[e], sent[e] + 1)
            /\ sent' = [sent EXCEPT ![e] = @ + 1]
<1>1. CASE more = <<>>
  <2>1. Len(more) = 0
    BY <1>1
  <2>2. CASE e = L!Player
    <3>1. sent' = [sent EXCEPT ![e] = @ + 0] /\ sent[e] \in Nat
      BY <2>1, <2>2 DEF L!CountSent, LoginTyped
    <3>2. sent' = sent
      BY <2>2, <3>1 DEF LoginTyped
    <3> QED BY <1>1, <3>2
  <2>3. CASE e # L!Player
    BY <1>1, <2>3 DEF L!CountSent
  <2> QED BY <2>2, <2>3
<1>2. CASE more # <<>>
  <2>1. e = L!Player /\ sent[e] < UpLen /\ more = <<L!Up[sent[e] + 1]>>
    BY <1>2 DEF L!Behind
  <2>2. sent[e] \in Nat /\ sent[e] + 1 <= UpLen
    BY <2>1, LoginAssumption DEF LoginTyped
  <2>3. more = Part(L!Up, sent[e], sent[e] + 1)
    <3>1. L!Up \in Streamed /\ Len(L!Up) = UpLen
      BY StreamGame
    <3>2. sent[e] + 1 \in Nat /\ sent[e] < sent[e] + 1
      BY <2>2
    <3> QED BY <2>1, <2>2, <3>1, <3>2, PartHead
  <2>4. sent' = [sent EXCEPT ![e] = @ + 1]
    <3>1. Len(more) = 1
      BY <2>1
    <3> QED BY <2>1, <3>1 DEF L!CountSent
  <2> QED BY <2>1, <2>2, <2>3, <2>4
<1> QED BY <1>1, <1>2

\* What ReadLoop at e does to the rest.
Aside(e) ==
    LET p == L!Peer(e)
    IN  /\ deferred'[p] = deferred[p] /\ batch'[p] = batch[p]
        /\ \A k \in L!Ends \ {e, p} : /\ deferred'[k] = deferred[k] /\ batch'[k] = batch[k]
                                      /\ wire'[k] = wire[k]
        /\ got' = got /\ refused' = refused
        /\ loginPc[e] = "reading" /\ loginPc'[e] # "closed"
        /\ \A k \in L!Ends \ {e} : loginPc'[k] = loginPc[k]
        /\ \/ wire'[p] = wire[p] /\ sent' = sent
           \/ \E x \in Bundle :
                 /\ wire'[p] = Append(wire[p], x)
                 /\ \/ Game(x.pks) = <<>> /\ sent' = sent
                    \/ /\ e = L!Player /\ sent[e] + 1 <= UpLen
                       /\ Game(x.pks) = Part(L!Up, sent[e], sent[e] + 1)
                       /\ sent' = [sent EXCEPT ![e] = @ + 1]

\* A login packet alone has nothing for the game.
LEMMA GameLogin ==
  ASSUME NEW t \in LoginTypes, NEW k \in L!Codecs, NEW x, x = L!Encoded(<<L!Pk(t)>>, k)
  PROVE  x \in Bundle /\ Game(x.pks) = <<>>
<1>1. t \in PkTypes
  BY DEF PkTypes
<1>2. /\ x \in Bundle /\ x.pks = <<L!Pk(t)>> /\ L!Pk(t).type = t
      /\ Head(<<L!Pk(t)>>) = L!Pk(t) /\ Tail(<<L!Pk(t)>>) = <<>>
  BY <1>1, PkFacts
<1> QED BY <1>2 DEF Game

\* ReadLoop keeps to its own end, but for one batch it may write.
LEMMA HandledAside ==
  ASSUME Linked, NEW e \in L!Ends, L!ReadLoop(e)
  PROVE  Aside(e)
<1> DEFINE p == L!Peer(e)
<1>0. /\ LoginTyped /\ e \in L!Ends \ {p} /\ p \in L!Ends /\ \A j \in Dialers : Link(j)
      /\ codec[e] \in L!Codecs
  BY PeerFacts DEF Linked, LoginTyped
<1>1. CASE L!ReadBatch(e)
  <2>1. batch' = [batch EXCEPT ![e] = Head(wire[e]).pks] /\ loginPc' = loginPc
    BY <1>1, ReadBatchLink
  <2>2. /\ wire' = [wire EXCEPT ![e] = Tail(@)] /\ loginPc[e] = "reading"
        /\ deferred' = deferred /\ sent' = sent /\ got' = got /\ refused' = refused
    BY <1>1 DEF L!ReadBatch
  <2> QED BY <1>0, <2>1, <2>2 DEF Aside, LoginTyped
<1>2. CASE L!HandleRequestNetworkSettings(e)
  <2>x. PICK x : x = L!SettingsReply(e)
    OBVIOUS
  <2>1. x \in Bundle /\ Game(x.pks) = <<>>
    <3>1. "NetworkSettings" \in LoginTypes
      BY DEF LoginTypes
    <3> QED BY <1>0, <2>x, <3>1, GameLogin DEF L!SettingsReply
  <2>2. /\ L!Consumed(e) /\ loginPc[e] = "reading"
        /\ wire' = [wire EXCEPT ![p] = Append(@, x)]
        /\ UNCHANGED <<deferred, loginPc, sent, got, refused>>
    BY <1>2, <2>x DEF L!HandleRequestNetworkSettings, L!Pending
  <2>3. wire'[p] = Append(wire[p], x) /\ \A k \in L!Ends \ {p} : wire'[k] = wire[k]
    BY <1>0, <2>2, WriteElse
  <2> QED BY <1>0, <2>1, <2>2, <2>3, ConsumedFacts DEF Aside
<1>3. CASE L!HandleNetworkSettings(e)
  <2>1. PICK more \in L!Behind(e) :
           /\ wire' = [wire EXCEPT ![p] =
                         Append(@, L!Encoded(L!LoginPk \o more, L!Compressed(e)))]
           /\ L!CountSent(e, more)
    BY <1>3 DEF L!HandleNetworkSettings
  <2>2. /\ L!Consumed(e) /\ loginPc[e] = "reading" /\ batch[e] # <<>>
        /\ Head(batch[e]).type = "NetworkSettings"
        /\ UNCHANGED <<deferred, loginPc, got, refused>>
    BY <1>3 DEF L!HandleNetworkSettings, L!Pending
  <2>3. e \in Dialers /\ Replied(e)
    BY <1>0, <2>2, AtHead
  <2>k. PICK k : k = L!Compressed(e)
    OBVIOUS
  <2>x. PICK x : x = L!Encoded(<<L!Pk("Login")>> \o more, k)
    OBVIOUS
  <2>4. k \in L!Codecs
    <3>1. codec[e] = On(FALSE, FALSE)
      BY <2>3 DEF Replied, Set, L!Plain, On
    <3> QED BY <1>0, <2>k, <3>1, Switches
  <2>5. x \in Bundle /\ Game(x.pks) = more
    <3>1. "Login" \in PkTypes
      BY DEF PkTypes, LoginTypes
    <3> QED BY <1>0, <2>x, <2>3, <2>4, <3>1, Carried
  <2>6. wire'[p] = Append(wire[p], x) /\ \A j \in L!Ends \ {p} : wire'[j] = wire[j]
    <3>1. wire' = [wire EXCEPT ![p] = Append(@, x)]
      BY <2>k, <2>x, <2>1 DEF L!LoginPk
    <3> QED BY <1>0, <3>1, WriteElse
  <2>7. \/ Game(x.pks) = <<>> /\ sent' = sent
        \/ /\ e = L!Player /\ sent[e] + 1 <= UpLen
           /\ Game(x.pks) = Part(L!Up, sent[e], sent[e] + 1)
           /\ sent' = [sent EXCEPT ![e] = @ + 1]
    BY <1>0, <2>1, <2>3, <2>5, BehindCounted
  <2> QED BY <1>0, <2>2, <2>5, <2>6, <2>7, ConsumedFacts DEF Aside
<1>4. CASE L!HandleLogin(e)
  <2>1. /\ loginPc[e] = "reading"
        /\ sent' = sent /\ got' = got /\ refused' = refused
    BY <1>4 DEF L!HandleLogin, L!Pending
  <2>2. /\ deferred'[p] = deferred[p] /\ batch'[p] = batch[p]
        /\ \A k \in L!Ends \ {e, p} : deferred'[k] = deferred[k] /\ batch'[k] = batch[k]
        /\ loginPc'[e] # "closed"
        /\ \A k \in L!Ends \ {e} : loginPc'[k] = loginPc[k]
    <3>1. CASE L!EndsLogin(e)
      <4>1. L!LoginDone(e, <<>>)
        BY <1>4, <3>1 DEF L!HandleLogin
      <4> QED BY <1>0, <4>1, DoneFacts
    <3>2. CASE ~L!EndsLogin(e)
      <4>1. L!Consumed(e) /\ deferred' = deferred /\ loginPc' = loginPc
        BY <1>4, <3>2 DEF L!HandleLogin
      <4> QED BY <1>0, <2>1, <4>1, ConsumedFacts
    <3> QED BY <3>1, <3>2
  <2>3. CASE encrypts[e]
    <3>x. PICK x : x = L!Encoded(<<L!Pk("ServerToClientHandshake")>>, codec[e])
      OBVIOUS
    <3>1. x \in Bundle /\ Game(x.pks) = <<>>
      <4>1. "ServerToClientHandshake" \in LoginTypes
        BY DEF LoginTypes
      <4> QED BY <1>0, <3>x, <4>1, GameLogin
    <3>2. wire' = [wire EXCEPT ![p] = Append(@, x)]
      BY <1>4, <2>3, <3>x DEF L!HandleLogin, L!WritePackets
    <3>3. wire'[p] = Append(wire[p], x) /\ \A k \in L!Ends \ {p} : wire'[k] = wire[k]
      BY <1>0, <3>2, WriteElse
    <3> QED BY <1>0, <2>1, <2>2, <3>1, <3>3 DEF Aside
  <2>4. CASE ~encrypts[e]
    <3>1. wire' = wire
      BY <1>4, <2>4 DEF L!HandleLogin
    <3> QED BY <1>0, <2>1, <2>2, <3>1 DEF Aside
  <2> QED BY <2>3, <2>4
<1>5. CASE L!HandleServerToClientHandshake(e)
  <2>1. PICK more \in L!Behind(e) :
           /\ wire' = [wire EXCEPT ![p] =
                 Append(@, L!Encoded(<<L!Pk("ClientToServerHandshake")>> \o more, L!Encrypted(e)))]
           /\ L!CountSent(e, more)
    BY <1>5 DEF L!HandleServerToClientHandshake
  <2>2. /\ L!LoginDone(e, <<>>) /\ loginPc[e] = "reading" /\ batch[e] # <<>>
        /\ Head(batch[e]).type = "ServerToClientHandshake"
        /\ got' = got /\ refused' = refused
    BY <1>5 DEF L!HandleServerToClientHandshake, L!Pending
  <2>3. e \in Dialers /\ Challenged(e)
    BY <1>0, <2>2, AtHead
  <2>k. PICK k : k = L!Encrypted(e)
    OBVIOUS
  <2>x. PICK x : x = L!Encoded(<<L!Pk("ClientToServerHandshake")>> \o more, k)
    OBVIOUS
  <2>4. k \in L!Codecs
    <3>1. codec[e] = On(TRUE, FALSE)
      BY <2>3 DEF Challenged, Set
    <3> QED BY <1>0, <2>k, <3>1, Switches
  <2>5. x \in Bundle /\ Game(x.pks) = more
    <3>1. "ClientToServerHandshake" \in PkTypes
      BY DEF PkTypes, LoginTypes
    <3> QED BY <1>0, <2>x, <2>3, <2>4, <3>1, Carried
  <2>6. wire'[p] = Append(wire[p], x) /\ \A j \in L!Ends \ {p} : wire'[j] = wire[j]
    <3>1. wire' = [wire EXCEPT ![p] = Append(@, x)]
      BY <2>k, <2>x, <2>1
    <3> QED BY <1>0, <3>1, WriteElse
  <2>7. \/ Game(x.pks) = <<>> /\ sent' = sent
        \/ /\ e = L!Player /\ sent[e] + 1 <= UpLen
           /\ Game(x.pks) = Part(L!Up, sent[e], sent[e] + 1)
           /\ sent' = [sent EXCEPT ![e] = @ + 1]
    BY <1>0, <2>1, <2>3, <2>5, BehindCounted
  <2> QED BY <1>0, <2>2, <2>5, <2>6, <2>7, DoneFacts DEF Aside
<1>6. CASE L!HandleClientToServerHandshake(e)
  <2>1. /\ L!LoginDone(e, <<>>) /\ loginPc[e] = "reading"
        /\ UNCHANGED <<wire, sent, got, refused>>
    BY <1>6 DEF L!HandleClientToServerHandshake, L!Pending
  <2> QED BY <1>0, <2>1, DoneFacts DEF Aside
<1>7. CASE L!HandlePlayStatus(e)
  <2>f. PICK f : f = <<Head(batch[e])>>
    OBVIOUS
  <2>1. /\ L!LoginDone(e, f) /\ loginPc[e] = "reading"
        /\ UNCHANGED <<wire, sent, got, refused>>
    BY <1>7, <2>f DEF L!HandlePlayStatus, L!Pending
  <2> QED BY <1>0, <2>1, DoneFacts DEF Aside
<1>8. CASE L!HandleDisconnect(e)
  BY <1>0, <1>8 DEF L!HandleDisconnect, L!Pending, Aside, LoginTyped
<1>9. CASE L!HandleOther(e)
  <2>1. /\ L!Consumed(e) /\ loginPc[e] = "reading"
        /\ deferred' = [deferred EXCEPT ![e] = Append(@, Head(batch[e]))]
        /\ UNCHANGED <<wire, loginPc, sent, got, refused>>
    BY <1>9 DEF L!HandleOther, L!Pending
  <2>2. \A k \in L!Ends \ {e} : deferred'[k] = deferred[k]
    BY <1>0, <2>1 DEF LoginTyped
  <2> QED BY <1>0, <2>1, <2>2, ConsumedFacts DEF Aside
<1> QED BY <1>1, <1>2, <1>3, <1>4, <1>5, <1>6, <1>7, <1>8, <1>9, NoneRejected DEF L!ReadLoop

-----------------------------------------------------------------------------
(* The ways down and up.                                                   *)

\* What is on its way down to the player: what the backend has to say, or, from a relay
\* that has given up, that the player is not let in.
No == <<L!Pk("Disconnect")>>
Flow == IF refused THEN No ELSE L!Down
Given == IF ~refused THEN sent[L!Backend]
         ELSE IF loginPc[L!Backend] = "closed" THEN 1 ELSE 0

\* Between the backend and the player every stretch is in its place: got by the player
\* (g), on its way to it (p), on its way to the relay. The relay pumps nothing before its
\* login is over, so a player turned away by it has nothing else coming.
DownPath ==
    IF loginPc[L!Door] = "closed"
    THEN \E g \in Nat : /\ got[L!Player] = Part(No, 0, g) /\ g <= 1
                        /\ OnWay(L!Player, No, g, 1)
    ELSE \E g, p \in Nat :
            /\ got[L!Player] = Part(Flow, 0, g) /\ g <= p
            /\ OnWay(L!Player, Flow, g, p) /\ OnWay(L!Back, Flow, p, Given)
            /\ loginPc[L!Back] # "done" => p = 0

\* The same of what the player sends.
UpPath ==
    \E g, p \in Nat :
        /\ got[L!Backend] = Part(L!Up, 0, g) /\ g <= p
        /\ OnWay(L!Backend, L!Up, g, p) /\ OnWay(L!Door, L!Up, p, sent[L!Player])

\* The inductive invariant of the two logins.
LoginInv == Linked /\ DownPath /\ UpPath

\* The packet that turns a player away.
LEMMA NoFacts == No \in Streamed /\ Len(No) = 1 /\ No \in Seq(Pack)
<1>1. L!Pk("Disconnect") \in Pack /\ L!Pk("Disconnect").type = "Disconnect"
  BY DEF L!Pk, Pack, PkTypes
<1>2. No \in Seq(Pack) /\ Len(No) = 1 /\ No[1] = L!Pk("Disconnect")
  BY <1>1 DEF No
<1>3. "Disconnect" \notin LoginTypes
  BY DEF LoginTypes
<1>4. \A i \in 1..Len(No) : No[i].type \notin LoginTypes
  <2>1. \A i \in 1..Len(No) : i = 1
    BY <1>2
  <2> QED BY <1>1, <1>2, <1>3, <2>1
<1> QED BY <1>2, <1>4 DEF Streamed

\* Types of what is on its way down.
LEMMA FlowFacts ==
  ASSUME LoginTyped
  PROVE  Flow \in Streamed /\ Given \in Nat
BY NoFacts, StreamGame DEF Flow, Given, LoginTyped

\* What is under way is a part of the stream.
LEMMA WayLen ==
  ASSUME NEW e, NEW t, NEW a \in Nat, NEW b \in Nat, OnWay(e, t, a, b)
  PROVE  a <= b /\ b <= Len(t)
BY DEF OnWay, Ahead

\* A step that touches neither end of the way down.
LEMMA DownSame ==
  ASSUME DownPath,
         \A e \in {L!Player, L!Back} :
            deferred'[e] = deferred[e] /\ batch'[e] = batch[e] /\ wire'[e] = wire[e],
         got'[L!Player] = got[L!Player], refused' = refused, Given' = Given,
         loginPc'[L!Door] = loginPc[L!Door],
         loginPc[L!Back] = "done" => loginPc'[L!Back] = "done"
  PROVE  DownPath'
<1>1. Flow' = Flow
  BY DEF Flow
<1>2. CASE loginPc[L!Door] = "closed"
  <2>1. PICK g \in Nat : /\ got[L!Player] = Part(No, 0, g) /\ g <= 1
                         /\ OnWay(L!Player, No, g, 1)
    BY <1>2 DEF DownPath
  <2>2. OnWay(L!Player, No, g, 1)'
    BY <2>1, WaySame
  <2> QED BY <1>2, <2>1, <2>2 DEF DownPath
<1>3. CASE loginPc[L!Door] # "closed"
  <2>1. PICK g \in Nat, p \in Nat :
           /\ got[L!Player] = Part(Flow, 0, g) /\ g <= p
           /\ OnWay(L!Player, Flow, g, p) /\ OnWay(L!Back, Flow, p, Given)
           /\ loginPc[L!Back] # "done" => p = 0
    BY <1>3 DEF DownPath
  <2>t. PICK t, b : t = Flow /\ b = Given
    OBVIOUS
  <2>2. OnWay(L!Player, t, g, p)' /\ OnWay(L!Back, t, p, b)'
    BY <2>1, <2>t, WaySame
  <2>3. Flow' = t /\ Given' = b
    BY <1>1, <2>t
  <2> QED BY <1>3, <2>1, <2>t, <2>2, <2>3 DEF DownPath
<1> QED BY <1>2, <1>3

\* A step that touches neither end of the way up.
LEMMA UpSame ==
  ASSUME UpPath,
         \A e \in {L!Backend, L!Door} :
            deferred'[e] = deferred[e] /\ batch'[e] = batch[e] /\ wire'[e] = wire[e],
         got'[L!Backend] = got[L!Backend], sent'[L!Player] = sent[L!Player]
  PROVE  UpPath'
<1>1. PICK g \in Nat, p \in Nat :
         /\ got[L!Backend] = Part(L!Up, 0, g) /\ g <= p
         /\ OnWay(L!Backend, L!Up, g, p) /\ OnWay(L!Door, L!Up, p, sent[L!Player])
  BY DEF UpPath
<1>b. PICK b : b = sent[L!Player]
  OBVIOUS
<1>2. OnWay(L!Backend, L!Up, g, p)' /\ OnWay(L!Door, L!Up, p, b)'
  BY <1>1, <1>b, WaySame
<1>3. b = sent'[L!Player] /\ got'[L!Backend] = Part(L!Up, 0, g)
  BY <1>1, <1>b
<1> QED BY <1>1, <1>2, <1>3 DEF UpPath

\* An end whose login is over reads what comes next.
LEMMA TakeWay ==
  ASSUME LoginTyped, NEW e \in L!Ends, batch[e] = <<>>, Reads(e), OfGame(e, L!ReadPackets(e)),
         batch' = batch, deferred'[e] = <<>>,
         NEW t \in Streamed, NEW a \in Nat, NEW b \in Nat, OnWay(e, t, a, b)
  PROVE  \E m \in Nat : /\ a <= m /\ m <= b /\ L!ReadPackets(e) = Part(t, a, m)
                        /\ OnWay(e, t, m, b)'
<1>1. CASE deferred[e] # <<>>
  <2>1. PICK m \in Nat : /\ a <= m /\ m <= b /\ deferred[e] = Part(t, a, m)
                         /\ Ahead(<<>>, <<>>, wire[e], t, m, b)
    BY AheadTake DEF OnWay
  <2>2. L!ReadPackets(e) = deferred[e] /\ wire'[e] = wire[e]
    BY <1>1 DEF L!ReadPackets, Reads
  <2> QED BY <2>1, <2>2 DEF OnWay
<1>2. CASE deferred[e] = <<>>
  <2>1. /\ wire[e] \in Seq(Bundle) /\ wire[e] # <<>> /\ wire'[e] = Tail(wire[e])
        /\ L!ReadPackets(e) = Head(wire[e]).pks
    BY <1>2 DEF LoginTyped, Reads, L!CanRead, L!HasBatch, L!ReadPackets
  <2>2. Game(Head(wire[e]).pks) = Head(wire[e]).pks
    <3>1. Head(wire[e]).pks \in Seq(Pack)
      <4>1. Head(wire[e]) \in Bundle
        BY <2>1, EmptySeq
      <4> QED BY <4>1 DEF Bundle
    <3> QED BY <2>1, <3>1, OfGameHead DEF Game
  <2>3. Ahead(<<>>, <<>>, wire[e], t, a, b)
    BY <1>2 DEF OnWay
  <2>4. PICK m \in Nat : /\ a <= m /\ m <= b /\ Head(wire[e]).pks = Part(t, a, m)
                         /\ Ahead(<<>>, <<>>, Tail(wire[e]), t, m, b)
    BY <2>1, <2>2, <2>3, AheadTakeBatch
  <2> QED BY <2>1, <2>4 DEF OnWay
<1> QED BY <1>1, <1>2

\* ReadLoop has looked at all it has read when the login is over.
LEMMA DoneBatch ==
  ASSUME Linked, NEW e \in L!Ends, loginPc[e] = "done"
  PROVE  batch[e] = <<>>
<1>1. PICK c \in Dialers : e \in {c, L!Peer(c)}
  BY PeerFacts DEF Dialers
<1>2. Link(c) /\ L!Peer(L!Peer(c)) = c
  BY PeerFacts DEF Linked, Dialers
<1> QED BY <1>1, <1>2
        DEF Link, Apart, Asking, Replied, LoggingIn, Challenged, Answering, Settled, Reading, Silent

\* Before the player joins nothing is on its way.
LEMMA PathsInit == L!Init => LoginInv
<1> SUFFICES ASSUME L!Init PROVE LoginInv
  OBVIOUS
<1>1. Linked /\ LoginTyped
  BY LoginInit DEF Linked
<1>2. /\ \A e \in L!Ends : deferred[e] = <<>> /\ batch[e] = <<>> /\ wire[e] = <<>> /\ got[e] = <<>>
      /\ \A e \in L!Ends : loginPc[e] \in {"reading", "idle"}
      /\ sent[L!Player] = 0 /\ sent[L!Backend] = 0
  BY DEF L!Init
<1>3. ASSUME NEW t \in Streamed PROVE <<>> = Part(t, 0, 0) /\ \A e \in L!Ends : OnWay(e, t, 0, 0)
  <2>1. 0 <= Len(t)
    BY DEF Streamed
  <2> QED BY <1>2, <2>1, AheadNone, PartGame DEF OnWay
<1>4. Given = 0 /\ Flow \in Streamed
  BY <1>1, <1>2, FlowFacts, PeerFacts DEF Given
<1>5. DownPath
  <2>1. <<>> = Part(Flow, 0, 0) /\ \A e \in L!Ends : OnWay(e, Flow, 0, 0)
    BY <1>3, <1>4
  <2>2. L!Player \in L!Ends /\ L!Back \in L!Ends /\ L!Door \in L!Ends
    BY PeerFacts
  <2> QED BY <1>2, <1>4, <2>1, <2>2 DEF DownPath
<1>6. UpPath
  <2>1. <<>> = Part(L!Up, 0, 0) /\ \A e \in L!Ends : OnWay(e, L!Up, 0, 0)
    BY <1>3, StreamGame
  <2>2. L!Backend \in L!Ends /\ L!Door \in L!Ends
    BY PeerFacts
  <2> QED BY <1>2, <2>1, <2>2 DEF UpPath
<1> QED BY <1>1, <1>5, <1>6 DEF LoginInv

\* ReadLoop, at any end, loses and reorders nothing.
LEMMA ReadLoopPaths ==
  ASSUME LoginInv, NEW e \in L!Ends, L!ReadLoop(e)
  PROVE  DownPath' /\ UpPath'
<1> DEFINE q == L!Peer(e)
<1>0. LoginTyped /\ Linked /\ DownPath /\ UpPath
  BY DEF LoginInv, Linked
<1>1. Aside(e) /\ q \in L!Ends \ {e}
  BY <1>0, HandledAside, PeerFacts
<1>2. /\ deferred'[q] = deferred[q] /\ batch'[q] = batch[q]
      /\ \A k \in L!Ends \ {e, q} : /\ deferred'[k] = deferred[k] /\ batch'[k] = batch[k]
                                    /\ wire'[k] = wire[k]
      /\ got' = got /\ refused' = refused
      /\ loginPc[e] = "reading" /\ loginPc'[e] # "closed"
      /\ \A k \in L!Ends \ {e} : loginPc'[k] = loginPc[k]
  BY <1>1 DEF Aside
<1>3. \/ wire'[q] = wire[q] /\ sent' = sent
      \/ \E x \in Bundle :
            /\ wire'[q] = Append(wire[q], x)
            /\ \/ Game(x.pks) = <<>> /\ sent' = sent
               \/ /\ e = L!Player /\ sent[e] + 1 <= UpLen
                  /\ Game(x.pks) = Part(L!Up, sent[e], sent[e] + 1)
                  /\ sent' = [sent EXCEPT ![e] = @ + 1]
  BY <1>1 DEF Aside
<1>4. ASSUME NEW t \in Streamed, NEW a \in Nat, NEW b \in Nat, NEW k \in L!Ends,
             OnWay(k, t, a, b), sent' = sent \/ k # L!Door
      PROVE  OnWay(k, t, a, b)'
  <2>1. CASE k = e
    BY <1>0, <1>4, <2>1, HandledWay
  <2>2. CASE k = q
    <3>1. CASE wire'[q] = wire[q]
      BY <1>2, <1>4, <2>2, <3>1, WaySame
    <3>2. CASE wire'[q] # wire[q]
      <4>1. e = L!Player => k = L!Door
        BY <2>2, PeerFacts
      <4>2. PICK x \in Bundle : wire'[q] = Append(wire[q], x) /\ Game(x.pks) = <<>>
        <5>1. PICK x \in Bundle :
                /\ wire'[q] = Append(wire[q], x)
                /\ \/ Game(x.pks) = <<>>
                   \/ e = L!Player /\ sent' = [sent EXCEPT ![e] = @ + 1]
          BY <1>3, <3>2
        <5>2. ~(e = L!Player /\ sent' = [sent EXCEPT ![e] = @ + 1])
          <6> SUFFICES ASSUME e = L!Player, sent' = [sent EXCEPT ![e] = @ + 1] PROVE FALSE
            OBVIOUS
          <6>1. sent[e] \in Nat /\ sent'[e] = sent[e] + 1
            BY <1>0 DEF LoginTyped
          <6> QED BY <1>4, <4>1, <6>1
        <5> QED BY <5>1, <5>2
      <4> QED BY <1>0, <1>1, <1>2, <1>4, <2>2, <4>2, WayLogin
    <3> QED BY <3>1, <3>2
  <2>3. CASE k \notin {e, q}
    BY <1>2, <1>4, <2>3, WaySame
  <2> QED BY <2>1, <2>2, <2>3
<1>5. sent'[L!Backend] = sent[L!Backend] /\ sent'[L!Player] \in Nat
  <2>1. sent' = sent \/ (e = L!Player /\ sent' = [sent EXCEPT ![e] = @ + 1])
    BY <1>3
  <2>2. sent \in [{L!Player, L!Backend} -> Nat] /\ L!Player # L!Backend
    BY <1>0, PeerFacts DEF LoginTyped
  <2> QED BY <2>1, <2>2
<1>6. loginPc'[L!Backend] = "closed" <=> loginPc[L!Backend] = "closed"
  BY <1>2, PeerFacts
<1>7. loginPc'[L!Door] = "closed" <=> loginPc[L!Door] = "closed"
  BY <1>2, PeerFacts
<1>8. loginPc[L!Back] = "done" => loginPc'[L!Back] = "done"
  BY <1>2, PeerFacts
<1>9. Flow' = Flow /\ Given' = Given /\ Flow \in Streamed /\ Given \in Nat
  <2>1. Flow' = Flow
    BY <1>2 DEF Flow
  <2>2. Given' = Given
    BY <1>2, <1>5, <1>6 DEF Given
  <2> QED BY <1>0, <2>1, <2>2, FlowFacts
<1>10. /\ L!Player \in L!Ends /\ L!Back \in L!Ends /\ L!Door \in L!Ends /\ L!Backend \in L!Ends
       /\ L!Player # L!Door /\ L!Back # L!Door /\ L!Backend # L!Door
  BY PeerFacts
<1>11. DownPath'
  <2>1. CASE loginPc[L!Door] = "closed"
    <3>1. PICK g \in Nat : /\ got[L!Player] = Part(No, 0, g) /\ g <= 1
                           /\ OnWay(L!Player, No, g, 1)
      BY <1>0, <2>1 DEF DownPath
    <3>2. OnWay(L!Player, No, g, 1)'
      BY <1>4, <1>10, <3>1, NoFacts
    <3> QED BY <1>2, <1>7, <2>1, <3>1, <3>2 DEF DownPath
  <2>2. CASE loginPc[L!Door] # "closed"
    <3>1. PICK g \in Nat, p \in Nat :
             /\ got[L!Player] = Part(Flow, 0, g) /\ g <= p
             /\ OnWay(L!Player, Flow, g, p) /\ OnWay(L!Back, Flow, p, Given)
             /\ loginPc[L!Back] # "done" => p = 0
      BY <1>0, <2>2 DEF DownPath
    <3>t. PICK t \in Streamed, b \in Nat : t = Flow /\ b = Given
      BY <1>9
    <3>2. OnWay(L!Player, t, g, p)' /\ OnWay(L!Back, t, p, b)'
      BY <1>4, <1>10, <3>1, <3>t
    <3>3. Flow' = t /\ Given' = b
      BY <1>9, <3>t
    <3> QED BY <1>2, <1>7, <1>8, <2>2, <3>1, <3>t, <3>2, <3>3 DEF DownPath
  <2> QED BY <2>1, <2>2
<1>12. UpPath'
  <2>1. PICK g \in Nat, p \in Nat :
           /\ got[L!Backend] = Part(L!Up, 0, g) /\ g <= p
           /\ OnWay(L!Backend, L!Up, g, p) /\ OnWay(L!Door, L!Up, p, sent[L!Player])
    BY <1>0 DEF UpPath
  <2>2. OnWay(L!Backend, L!Up, g, p)'
    BY <1>4, <1>10, <2>1, StreamGame
  <2>b. PICK b \in Nat : b = sent[L!Player]
    BY <1>0 DEF LoginTyped
  <2>3. CASE sent' = sent
    <3>1. OnWay(L!Door, L!Up, p, b)'
      BY <1>4, <1>10, <2>1, <2>b, <2>3, StreamGame
    <3>2. b = sent'[L!Player] /\ got'[L!Backend] = Part(L!Up, 0, g)
      BY <1>2, <2>1, <2>b, <2>3
    <3> QED BY <2>1, <2>2, <3>1, <3>2 DEF UpPath
  <2>4. CASE sent' # sent
    <3>1. PICK x \in Bundle :
             /\ wire'[q] = Append(wire[q], x)
             /\ e = L!Player /\ sent[e] + 1 <= UpLen
             /\ Game(x.pks) = Part(L!Up, sent[e], sent[e] + 1)
             /\ sent' = [sent EXCEPT ![e] = @ + 1]
      BY <1>3, <2>4
    <3>2. q = L!Door /\ b = sent[e]
      BY <2>b, <3>1, PeerFacts
    <3>c. PICK c \in Nat : c = b + 1
      OBVIOUS
    <3>3. c = sent'[L!Player] /\ b <= c /\ c <= UpLen
      BY <1>0, <2>b, <3>1, <3>2, <3>c DEF LoginTyped
    <3>4. OnWay(L!Door, L!Up, p, c)'
      <4>1. /\ Game(x.pks) = Part(L!Up, b, c) /\ c <= Len(L!Up) /\ L!Up \in Streamed
            /\ OnWay(L!Door, L!Up, p, b)
        BY <2>1, <2>b, <3>1, <3>2, <3>c, <3>3, StreamGame
      <4> QED BY <1>0, <1>2, <1>10, <3>1, <3>2, <3>3, <4>1, WayGive
    <3>5. got'[L!Backend] = Part(L!Up, 0, g)
      BY <1>2, <2>1
    <3> QED BY <2>1, <2>2, <3>3, <3>4, <3>5 DEF UpPath
  <2> QED BY <2>3, <2>4
<1> QED BY <1>11, <1>12

\* The four ends by name.
LEMMA EndNames ==
  /\ L!Player \in L!Ends /\ L!Door \in L!Ends /\ L!Back \in L!Ends /\ L!Backend \in L!Ends
  /\ L!Player # L!Door /\ L!Player # L!Back /\ L!Player # L!Backend
  /\ L!Door # L!Back /\ L!Door # L!Backend /\ L!Back # L!Backend
  /\ L!Peer(L!Player) = L!Door /\ L!Peer(L!Door) = L!Player
  /\ L!Peer(L!Back) = L!Backend /\ L!Peer(L!Backend) = L!Back
  /\ L!Player \in Dialers /\ L!Back \in Dialers
BY PeerFacts DEF Dialers

\* The first packet of a login, to the door or to the backend.
LEMMA AskedPaths ==
  ASSUME LoginInv, NEW e \in Dialers, loginPc[e] = "idle",
         L!WritePackets(e, <<L!Pk("RequestNetworkSettings")>>),
         loginPc' = [loginPc EXCEPT ![e] = "reading"],
         UNCHANGED <<encrypts, codec, batch, deferred, sent, got, refused>>
  PROVE  DownPath' /\ UpPath'
<1> DEFINE q == L!Peer(e)
<1>0. LoginTyped /\ DownPath /\ UpPath
  BY DEF LoginInv, Linked
<1>1. /\ e \in L!Ends /\ q \in L!Ends /\ q \in {L!Door, L!Backend} /\ e \in {L!Player, L!Back}
  BY PeerFacts DEF Dialers
<1>x. PICK x : x = L!Encoded(<<L!Pk("RequestNetworkSettings")>>, codec[e])
  OBVIOUS
<1>2. x \in Bundle /\ Game(x.pks) = <<>>
  <2>1. codec[e] \in L!Codecs /\ "RequestNetworkSettings" \in LoginTypes
    BY <1>0, <1>1 DEF LoginTyped, LoginTypes
  <2> QED BY <1>x, <2>1, GameLogin
<1>3. wire'[q] = Append(wire[q], x) /\ \A k \in L!Ends \ {q} : wire'[k] = wire[k]
  <2>1. wire' = [wire EXCEPT ![q] = Append(@, x)]
    BY <1>x DEF L!WritePackets
  <2> QED BY <1>0, <1>1, <2>1, WriteElse
<1>4. /\ loginPc'[e] = "reading" /\ \A k \in L!Ends \ {e} : loginPc'[k] = loginPc[k]
  BY <1>0, <1>1 DEF LoginTyped
<1>5. DownPath'
  <2>1. \A k \in {L!Player, L!Back} :
           deferred'[k] = deferred[k] /\ batch'[k] = batch[k] /\ wire'[k] = wire[k]
    BY <1>1, <1>3, EndNames
  <2>2. loginPc'[L!Door] = loginPc[L!Door] /\ loginPc'[L!Backend] = loginPc[L!Backend]
    BY <1>1, <1>4, EndNames
  <2>3. loginPc[L!Back] = "done" => loginPc'[L!Back] = "done"
    BY <1>4, EndNames
  <2>4. Given' = Given
    BY <2>2 DEF Given
  <2> QED BY <1>0, <2>1, <2>2, <2>3, <2>4, DownSame
<1>6. UpPath'
  <2>1. PICK g \in Nat, p \in Nat :
           /\ got[L!Backend] = Part(L!Up, 0, g) /\ g <= p
           /\ OnWay(L!Backend, L!Up, g, p) /\ OnWay(L!Door, L!Up, p, sent[L!Player])
    BY <1>0 DEF UpPath
  <2>b. PICK b \in Nat : b = sent[L!Player]
    BY <1>0 DEF LoginTyped
  <2>2. ASSUME NEW k \in {L!Door, L!Backend}, NEW m \in Nat, NEW n \in Nat, OnWay(k, L!Up, m, n)
        PROVE  OnWay(k, L!Up, m, n)'
    <3>1. k \in L!Ends
      BY EndNames
    <3>2. CASE k = q
      BY <1>0, <1>2, <1>3, <2>2, <3>1, <3>2, WayLogin, StreamGame
    <3>3. CASE k # q
      BY <1>3, <2>2, <3>1, <3>3, WaySame
    <3> QED BY <3>2, <3>3
  <2>3. OnWay(L!Backend, L!Up, g, p)' /\ OnWay(L!Door, L!Up, p, b)'
    BY <2>1, <2>b, <2>2
  <2>4. b = sent'[L!Player] /\ got'[L!Backend] = Part(L!Up, 0, g)
    BY <2>1, <2>b
  <2> QED BY <2>1, <2>3, <2>4 DEF UpPath
<1> QED BY <1>5, <1>6

\* The packet that turns a player away, as a stretch.
LEMMA NoPart == Part(No, 0, 1) = No /\ Game(No) = Part(No, 0, 1)
<1>1. SubSeq(No, 1, 1) = Part(No, 0, 1)
  <2>1. 0 + 1 = 1 /\ 0 + 1 <= Len(No) /\ 0 \in Nat /\ 1 \in Nat
    BY NoFacts
  <2> QED BY <2>1, NoFacts, PartSub
<1>2. SubSeq(No, 1, 1) = No
  <2>1. /\ SubSeq(No, 1, 1) \in Seq(Pack) /\ Len(SubSeq(No, 1, 1)) = 1
        /\ SubSeq(No, 1, 1)[1] = No[1]
    BY NoFacts
  <2>2. \A i \in 1..Len(No) : SubSeq(No, 1, 1)[i] = No[i]
    BY <2>1, NoFacts
  <2> QED BY <2>1, <2>2, NoFacts, SeqEq
<1>3. Game(Part(No, 0, 1)) = Part(No, 0, 1)
  BY NoFacts, PartGame
<1> QED BY <1>1, <1>2, <1>3

\* The player is told that there is no backend for it, and nothing else is on its way.
LEMMA TellPaths ==
  ASSUME LoginInv, L!TellPlayer
  PROVE  DownPath' /\ UpPath'
<1> DEFINE e == L!Player
<1>0. LoginTyped /\ DownPath /\ UpPath
  BY DEF LoginInv, Linked
<1>1. /\ loginPc[L!Door] = "done" /\ loginPc[L!Back] # "done"
      /\ L!WritePackets(L!Door, <<L!Pk("Disconnect")>>)
      /\ loginPc' = [loginPc EXCEPT ![L!Door] = "closed", ![L!Back] = "closed"]
      /\ UNCHANGED <<encrypts, codec, batch, deferred, sent, got, refused>>
  BY DEF L!TellPlayer, L!Failures
<1>x. PICK x : x = L!Encoded(<<L!Pk("Disconnect")>>, codec[L!Door])
  OBVIOUS
<1>2. x \in Bundle /\ x.pks = No
  <2>1. codec[L!Door] \in L!Codecs
    BY <1>0, EndNames DEF LoginTyped
  <2> QED BY <1>x, <2>1, DisconnectFacts, EndNames DEF No
<1>3. wire'[e] = Append(wire[e], x) /\ \A k \in L!Ends \ {e} : wire'[k] = wire[k]
  <2>1. wire' = [wire EXCEPT ![L!Peer(L!Door)] = Append(@, x)]
    BY <1>x, <1>1 DEF L!WritePackets
  <2> QED BY <1>0, <2>1, WriteElse, EndNames
<1>4. loginPc'[L!Door] = "closed"
  BY <1>0, <1>1, EndNames DEF LoginTyped
<1>5. DownPath'
  <2>1. PICK g \in Nat, p \in Nat :
           /\ got[e] = Part(Flow, 0, g) /\ g <= p
           /\ OnWay(e, Flow, g, p)
           /\ loginPc[L!Back] # "done" => p = 0
    BY <1>0, <1>1, EndNames DEF DownPath
  <2>t. PICK t \in Streamed : t = Flow
    BY <1>0, FlowFacts
  <2>2. p = 0 /\ g = 0 /\ OnWay(e, t, 0, 0)
    BY <1>1, <2>1, <2>t
  <2>3. got[e] = Part(No, 0, 0)
    <3>1. 0 <= Len(t) /\ 0 <= Len(No)
      BY NoFacts DEF Streamed
    <3>2. Part(t, 0, 0) = <<>>
      BY <3>1, PartGame
    <3>3. Part(No, 0, 0) = <<>>
      BY <3>1, PartGame, NoFacts
    <3>4. got[e] = Part(t, 0, 0)
      BY <2>1, <2>t, <2>2, Zenon
    <3> QED BY <3>2, <3>3, <3>4
  <2>4. OnWay(e, No, 0, 0)
    <3>1. wire[e] \in Seq(Bundle)
      BY <1>0, EndNames DEF LoginTyped
    <3>2. Ahead(deferred[e], batch[e], wire[e], t, 0, 0)
      BY <2>2 DEF OnWay
    <3>3. Ahead(deferred[e], batch[e], wire[e], No, 0, 0)
      BY <3>1, <3>2, NoFacts, AheadOther
    <3> QED BY <3>3 DEF OnWay
  <2>5. Game(x.pks) = Part(No, 0, 1)
    BY <1>2, NoPart
  <2>6. OnWay(e, No, 0, 1)'
    <3>1. deferred'[e] = deferred[e] /\ batch'[e] = batch[e] /\ e \in L!Ends
      BY <1>1, EndNames
    <3>n. PICK t2 \in Streamed, a \in Nat, c \in Nat : t2 = No /\ a = 0 /\ c = 1
      BY NoFacts
    <3>2. OnWay(e, t2, a, c)'
      <4>1. /\ a <= c /\ c <= Len(t2) /\ Game(x.pks) = Part(t2, a, c) /\ OnWay(e, t2, a, a)
        BY <3>n, <2>4, <2>5, NoFacts
      <4> QED BY <1>0, <1>2, <1>3, <3>1, <4>1, WayGive
    <3>3. t2 = No /\ a = 0 /\ c = 1
      BY <3>n
    <3> QED BY <3>2, <3>3
  <2>7. got'[e] = Part(No, 0, 0)
    BY <1>1, <2>3
  <2>8. 0 \in Nat /\ 0 <= 1
    OBVIOUS
  <2> QED BY <1>4, <2>6, <2>7, <2>8, Zenon DEF DownPath
<1>6. UpPath'
  <2>1. \A k \in {L!Backend, L!Door} :
           deferred'[k] = deferred[k] /\ batch'[k] = batch[k] /\ wire'[k] = wire[k]
    BY <1>1, <1>3, EndNames
  <2>2. got' = got /\ sent' = sent
    BY <1>1
  <2> QED BY <1>0, <2>1, <2>2, UpSame
<1> QED BY <1>5, <1>6

\* The player joins.
LEMMA JoinPaths ==
  ASSUME LoginInv, L!Join
  PROVE  DownPath' /\ UpPath'
BY AskedPaths, EndNames DEF L!Join

\* ForwardIdentity.
LEMMA ForwardPaths ==
  ASSUME LoginInv, L!ForwardIdentity
  PROVE  DownPath' /\ UpPath'
BY AskedPaths, EndNames DEF L!ForwardIdentity

\* The player sends more of its stream.
LEMMA UpGive ==
  ASSUME LoginTyped, UpPath, NEW x \in Bundle,
         wire'[L!Door] = Append(wire[L!Door], x), wire'[L!Backend] = wire[L!Backend],
         deferred' = deferred, batch' = batch, got' = got,
         sent'[L!Player] \in Nat, sent[L!Player] <= sent'[L!Player], sent'[L!Player] <= UpLen,
         Game(x.pks) = Part(L!Up, sent[L!Player], sent'[L!Player])
  PROVE  UpPath'
<1>1. PICK g \in Nat, p \in Nat :
         /\ got[L!Backend] = Part(L!Up, 0, g) /\ g <= p
         /\ OnWay(L!Backend, L!Up, g, p) /\ OnWay(L!Door, L!Up, p, sent[L!Player])
  BY DEF UpPath
<1>b. PICK b \in Nat, c \in Nat : b = sent[L!Player] /\ c = sent'[L!Player]
  BY DEF LoginTyped
<1>2. OnWay(L!Backend, L!Up, g, p)'
  BY <1>1, WaySame
<1>3. OnWay(L!Door, L!Up, p, c)'
  <2>1. /\ b <= c /\ c <= Len(L!Up) /\ L!Up \in Streamed
        /\ Game(x.pks) = Part(L!Up, b, c) /\ OnWay(L!Door, L!Up, p, b)
    BY <1>1, <1>b, StreamGame
  <2>2. deferred'[L!Door] = deferred[L!Door] /\ batch'[L!Door] = batch[L!Door]
    OBVIOUS
  <2> QED BY <2>1, <2>2, EndNames, WayGive
<1>4. c = sent'[L!Player] /\ got'[L!Backend] = Part(L!Up, 0, g)
  BY <1>1, <1>b
<1> QED BY <1>1, <1>2, <1>3, <1>4 DEF UpPath

\* The backend sends more of what it has for the player.
LEMMA DownGive ==
  ASSUME LoginTyped, DownPath, NEW x \in Bundle,
         wire'[L!Back] = Append(wire[L!Back], x), wire'[L!Player] = wire[L!Player],
         deferred' = deferred, batch' = batch, got' = got, refused' = refused,
         loginPc'[L!Door] = loginPc[L!Door],
         loginPc[L!Back] = "done" => loginPc'[L!Back] = "done",
         Given' \in Nat, Given <= Given', Given' <= Len(Flow),
         Game(x.pks) = Part(Flow, Given, Given')
  PROVE  DownPath'
<1>1. CASE loginPc[L!Door] = "closed"
  <2>1. PICK g \in Nat : /\ got[L!Player] = Part(No, 0, g) /\ g <= 1
                         /\ OnWay(L!Player, No, g, 1)
    BY <1>1 DEF DownPath
  <2>2. OnWay(L!Player, No, g, 1)'
    BY <2>1, WaySame
  <2> QED BY <1>1, <2>1, <2>2 DEF DownPath
<1>2. CASE loginPc[L!Door] # "closed"
  <2>1. PICK g \in Nat, p \in Nat :
           /\ got[L!Player] = Part(Flow, 0, g) /\ g <= p
           /\ OnWay(L!Player, Flow, g, p) /\ OnWay(L!Back, Flow, p, Given)
           /\ loginPc[L!Back] # "done" => p = 0
    BY <1>2 DEF DownPath
  <2>t. PICK t \in Streamed, b \in Nat, c \in Nat : t = Flow /\ b = Given /\ c = Given'
    BY FlowFacts
  <2>2. OnWay(L!Player, t, g, p)'
    BY <2>1, <2>t, WaySame
  <2>3. OnWay(L!Back, t, p, c)'
    <3>1. /\ b <= c /\ c <= Len(t)
          /\ Game(x.pks) = Part(t, b, c) /\ OnWay(L!Back, t, p, b)
      BY <2>1, <2>t
    <3>2. deferred'[L!Back] = deferred[L!Back] /\ batch'[L!Back] = batch[L!Back]
      OBVIOUS
    <3> QED BY <3>1, <3>2, EndNames, WayGive
  <2>4. Flow' = t /\ Given' = c
    BY <2>t DEF Flow
  <2> QED BY <1>2, <2>1, <2>t, <2>2, <2>3, <2>4 DEF DownPath
<1> QED BY <1>1, <1>2

\* A stretch that is sent starts where the last one ended.
LEMMA SendFacts ==
  ASSUME LoginTyped, NEW e \in {L!Player, L!Backend}, NEW k \in 1..Len(L!Stream(e)), L!Send(e, k)
  PROVE  /\ loginPc[e] = "done" /\ ~(e = L!Backend /\ refused)
         /\ sent'[e] \in Nat /\ sent[e] <= sent'[e] /\ sent'[e] <= Len(L!Stream(e))
         /\ \A d \in {L!Player, L!Backend} \ {e} : sent'[d] = sent[d]
         /\ UNCHANGED <<deferred, batch, got, refused, loginPc>>
         /\ \A j \in L!Ends \ {L!Peer(e)} : wire'[j] = wire[j]
         /\ \E x \in Bundle : /\ wire'[L!Peer(e)] = Append(wire[L!Peer(e)], x)
                              /\ Game(x.pks) = Part(L!Stream(e), sent[e], sent'[e])
<1> DEFINE t == L!Stream(e)
<1>1. k \in Nat /\ sent[e] \in Nat /\ sent[e] + k <= Len(t) /\ loginPc[e] = "done" /\ Len(t) \in Nat
  <2>1. t \in Streamed
    BY StreamGame DEF L!Stream
  <2>2. Len(t) \in Nat
    BY <2>1 DEF Streamed
  <2>3. k \in Nat
    BY <2>2
  <2> QED BY <2>2, <2>3 DEF L!Send, LoginTyped
<1>s. PICK s : s = SubSeq(t, sent[e] + 1, sent[e] + k)
  OBVIOUS
<1>x. PICK x : x = L!Encoded(s, codec[e])
  OBVIOUS
<1>2. s \in Seq(Pack) /\ s = Part(t, sent[e], sent[e] + k) /\ t \in Streamed
  BY <1>s, <1>1, StretchGame
<1>3. e \in L!Ends /\ codec[e] \in L!Codecs
  BY PeerFacts DEF LoginTyped
<1>4. x \in Bundle /\ x.pks = s
  BY <1>x, <1>2, <1>3 DEF L!Encoded, Bundle
<1>5. /\ wire' = [wire EXCEPT ![L!Peer(e)] = Append(@, x)]
      /\ sent' = [sent EXCEPT ![e] = @ + k]
      /\ ~(e = L!Backend /\ refused)
      /\ UNCHANGED <<deferred, batch, got, refused, loginPc>>
  BY <1>s, <1>x DEF L!Send, L!WritePackets
<1>6. sent'[e] = sent[e] + k /\ \A d \in {L!Player, L!Backend} \ {e} : sent'[d] = sent[d]
  BY <1>5 DEF LoginTyped
<1>7. Game(s) = s
  <2>c. PICK a \in Nat, c \in Nat : a = sent[e] /\ c = sent[e] + k
    <3>1. sent[e] \in Nat /\ sent[e] + k \in Nat
      BY <1>1
    <3> QED BY <3>1, Zenon
  <2>1. a <= c /\ c <= Len(t)
    BY <1>1, <2>c
  <2>3. s = Part(t, a, c)
    BY <1>2, <2>c, Zenon
  <2>2. Game(Part(t, a, c)) = Part(t, a, c)
    BY <1>2, <2>1, PartGame
  <2> QED BY <2>2, <2>3
<1>8. /\ wire'[L!Peer(e)] = Append(wire[L!Peer(e)], x)
      /\ \A j \in L!Ends \ {L!Peer(e)} : wire'[j] = wire[j]
  BY <1>3, <1>5, WriteElse
<1>9. Game(x.pks) = Part(t, sent[e], sent'[e])
  BY <1>2, <1>4, <1>6, <1>7, Zenon
<1>10. sent'[e] \in Nat /\ sent[e] <= sent'[e] /\ sent'[e] <= Len(t)
  BY <1>1, <1>6
<1> QED BY <1>1, <1>4, <1>5, <1>6, <1>8, <1>9, <1>10

\* The player or the backend sends a stretch of its stream.
LEMMA SendPaths ==
  ASSUME LoginInv, NEW e \in {L!Player, L!Backend}, NEW k \in 1..Len(L!Stream(e)), L!Send(e, k)
  PROVE  DownPath' /\ UpPath'
<1>0. LoginTyped /\ DownPath /\ UpPath
  BY DEF LoginInv, Linked
<1>1. /\ ~(e = L!Backend /\ refused)
      /\ sent'[e] \in Nat /\ sent[e] <= sent'[e] /\ sent'[e] <= Len(L!Stream(e))
      /\ \A d \in {L!Player, L!Backend} \ {e} : sent'[d] = sent[d]
      /\ UNCHANGED <<deferred, batch, got, refused, loginPc>>
      /\ \A j \in L!Ends \ {L!Peer(e)} : wire'[j] = wire[j]
  BY <1>0, SendFacts
<1>2. PICK x \in Bundle : /\ wire'[L!Peer(e)] = Append(wire[L!Peer(e)], x)
                          /\ Game(x.pks) = Part(L!Stream(e), sent[e], sent'[e])
  BY <1>0, SendFacts
<1>3. CASE e = L!Player
  <2>1. L!Stream(e) = L!Up /\ L!Peer(e) = L!Door /\ sent'[L!Backend] = sent[L!Backend]
    BY <1>1, <1>3, EndNames DEF L!Stream
  <2>2. UpPath'
    <3>1. wire'[L!Door] = Append(wire[L!Door], x) /\ wire'[L!Backend] = wire[L!Backend]
      BY <1>1, <1>2, <2>1, EndNames
    <3>2. /\ sent'[L!Player] \in Nat /\ sent[L!Player] <= sent'[L!Player]
          /\ sent'[L!Player] <= UpLen
          /\ Game(x.pks) = Part(L!Up, sent[L!Player], sent'[L!Player])
      BY <1>1, <1>2, <1>3, <2>1, StreamGame
    <3> QED BY <1>0, <1>1, <3>1, <3>2, UpGive
  <2>3. DownPath'
    <3>1. \A j \in {L!Player, L!Back} :
            deferred'[j] = deferred[j] /\ batch'[j] = batch[j] /\ wire'[j] = wire[j]
      BY <1>1, <2>1, EndNames
    <3>2. Given' = Given
      BY <1>1, <2>1 DEF Given
    <3> QED BY <1>0, <1>1, <3>1, <3>2, DownSame
  <2> QED BY <2>2, <2>3
<1>4. CASE e = L!Backend
  <2>1. /\ L!Stream(e) = L!Down /\ L!Peer(e) = L!Back /\ sent'[L!Player] = sent[L!Player]
        /\ ~refused /\ ~refused'
    BY <1>1, <1>4, EndNames DEF L!Stream
  <2>2. UpPath'
    <3>1. \A j \in {L!Backend, L!Door} :
            deferred'[j] = deferred[j] /\ batch'[j] = batch[j] /\ wire'[j] = wire[j]
      BY <1>1, <2>1, EndNames
    <3> QED BY <1>0, <1>1, <2>1, <3>1, UpSame
  <2>3. DownPath'
    <3>1. wire'[L!Back] = Append(wire[L!Back], x) /\ wire'[L!Player] = wire[L!Player]
      BY <1>1, <1>2, <2>1, EndNames
    <3>2. Flow = L!Down /\ Given = sent[e] /\ Given' = sent'[e]
      BY <1>4, <2>1 DEF Flow, Given
    <3>3. /\ Given' \in Nat /\ Given <= Given' /\ Given' <= Len(Flow)
          /\ Game(x.pks) = Part(Flow, Given, Given')
      BY <1>1, <1>2, <2>1, <3>2, Zenon
    <3> QED BY <1>0, <1>1, <3>1, <3>3, DownGive
  <2> QED BY <2>2, <2>3
<1> QED BY <1>3, <1>4

\* The backend refuses the player, and sends nothing else.
LEMMA RefusePaths ==
  ASSUME LoginInv, L!Refuse
  PROVE  DownPath' /\ UpPath'
<1> DEFINE e == L!Backend
<1>0. LoginTyped /\ DownPath /\ UpPath
  BY DEF LoginInv, Linked
<1>1. /\ loginPc[e] = "done" /\ refused
      /\ L!WritePackets(e, <<L!Pk("Disconnect")>>)
      /\ loginPc' = [loginPc EXCEPT ![e] = "closed"]
      /\ UNCHANGED <<deferred, batch, sent, got, refused>>
  BY DEF L!Refuse
<1>x. PICK x : x = L!Encoded(<<L!Pk("Disconnect")>>, codec[e])
  OBVIOUS
<1>2. x \in Bundle /\ x.pks = No
  <2>1. codec[e] \in L!Codecs
    BY <1>0, EndNames DEF LoginTyped
  <2> QED BY <1>x, <2>1, DisconnectFacts, EndNames DEF No
<1>3. wire'[L!Back] = Append(wire[L!Back], x) /\ \A k \in L!Ends \ {L!Back} : wire'[k] = wire[k]
  <2>1. wire' = [wire EXCEPT ![L!Peer(e)] = Append(@, x)]
    BY <1>x, <1>1 DEF L!WritePackets
  <2> QED BY <1>0, <2>1, WriteElse, EndNames
<1>4. /\ loginPc'[e] = "closed" /\ loginPc'[L!Door] = loginPc[L!Door]
      /\ loginPc'[L!Back] = loginPc[L!Back]
  BY <1>0, <1>1, EndNames DEF LoginTyped
<1>5. DownPath'
  <2>1. Flow = No /\ Given = 0 /\ Given' = 1
    BY <1>1, <1>4 DEF Flow, Given
  <2>2. /\ Given' \in Nat /\ Given <= Given' /\ Given' <= Len(Flow)
        /\ Game(x.pks) = Part(Flow, Given, Given')
    BY <1>2, <2>1, NoFacts, NoPart
  <2>3. wire'[L!Player] = wire[L!Player]
    BY <1>3, EndNames
  <2> QED BY <1>0, <1>1, <1>2, <1>3, <1>4, <2>2, <2>3, DownGive
<1>6. UpPath'
  <2>1. \A k \in {L!Backend, L!Door} :
           deferred'[k] = deferred[k] /\ batch'[k] = batch[k] /\ wire'[k] = wire[k]
    BY <1>1, <1>3, EndNames
  <2>2. got' = got /\ sent' = sent
    BY <1>1
  <2> QED BY <1>0, <2>1, <2>2, UpSame
<1> QED BY <1>5, <1>6

\* What has been received grows by the stretch that is read.
LEMMA GotMore ==
  ASSUME LoginTyped, NEW e \in L!Ends, NEW t \in Streamed, NEW g \in Nat, NEW m \in Nat,
         g <= m, m <= Len(t), got[e] = Part(t, 0, g), L!ReadPackets(e) = Part(t, g, m),
         got' = [got EXCEPT ![e] = @ \o L!ReadPackets(e)]
  PROVE  got'[e] = Part(t, 0, m)
<1>1. Part(t, 0, g) \o Part(t, g, m) = Part(t, 0, m)
  BY PartCat
<1>2. got'[e] = got[e] \o L!ReadPackets(e)
  BY DEF LoginTyped
<1> QED BY <1>1, <1>2

\* What receiving changes, once the login is over.
LEMMA ReceivedFacts ==
  ASSUME Linked, NEW e \in {L!Player, L!Backend}, L!Receive(e)
  PROVE  /\ batch[e] = <<>> /\ Reads(e) /\ OfGame(e, L!ReadPackets(e))
         /\ batch' = batch /\ deferred'[e] = <<>>
         /\ \A k \in L!Ends \ {e} : deferred'[k] = deferred[k] /\ wire'[k] = wire[k]
         /\ loginPc' = loginPc /\ sent' = sent /\ refused' = refused
         /\ got' = [got EXCEPT ![e] = @ \o L!ReadPackets(e)]
<1> DEFINE p == L!Peer(e)
<1>0. LoginTyped /\ OnlyGame /\ \A j \in Dialers : Link(j)
  BY DEF Linked
<1>1. PICK c \in Dialers : e \in {c, L!Peer(c)}
  BY PeerFacts DEF Dialers
<1>2. e \in L!Ends /\ p \in L!Ends \ {e}
  BY PeerFacts
<1>3. /\ loginPc[e] = "done" /\ Reads(e)
      /\ \A k \in L!Ends \ {e} : wire'[k] = wire[k]
      /\ Calm /\ loginPc' = loginPc /\ sent' = sent /\ refused' = refused
      /\ deferred' = [deferred EXCEPT ![e] = <<>>]
      /\ got' = [got EXCEPT ![e] = @ \o L!ReadPackets(e)]
  BY <1>0, ReceiveFacts
<1>4. OfGame(e, L!ReadPackets(e))
  BY <1>0, <1>1, <1>2, <1>3, GameRead
<1>5. batch[e] = <<>>
  BY <1>2, <1>3, DoneBatch
<1>6. deferred'[e] = <<>> /\ \A k \in L!Ends \ {e} : deferred'[k] = deferred[k]
  BY <1>0, <1>2, <1>3 DEF LoginTyped
<1> QED BY <1>3, <1>4, <1>5, <1>6 DEF Calm

\* The game takes what arrives.
LEMMA ReceivePaths ==
  ASSUME LoginInv, NEW e \in {L!Player, L!Backend}, L!Receive(e)
  PROVE  DownPath' /\ UpPath'
<1>0. Linked /\ LoginTyped /\ DownPath /\ UpPath
  BY DEF LoginInv, Linked
<1>1. /\ batch[e] = <<>> /\ Reads(e) /\ OfGame(e, L!ReadPackets(e))
      /\ batch' = batch /\ deferred'[e] = <<>>
      /\ \A k \in L!Ends \ {e} : deferred'[k] = deferred[k] /\ wire'[k] = wire[k]
      /\ loginPc' = loginPc /\ sent' = sent /\ refused' = refused
      /\ got' = [got EXCEPT ![e] = @ \o L!ReadPackets(e)]
  BY <1>0, ReceivedFacts
<1>2. e \in L!Ends /\ \A k \in L!Ends \ {e} : got'[k] = got[k]
  BY <1>0, <1>1, EndNames DEF LoginTyped
<1>3. ASSUME NEW t \in Streamed, NEW g \in Nat, NEW b \in Nat,
             got[e] = Part(t, 0, g), OnWay(e, t, g, b)
      PROVE  \E m \in Nat : /\ g <= m /\ m <= b /\ got'[e] = Part(t, 0, m)
                            /\ OnWay(e, t, m, b)'
  <2>1. PICK m \in Nat : /\ g <= m /\ m <= b /\ L!ReadPackets(e) = Part(t, g, m)
                         /\ OnWay(e, t, m, b)'
    BY <1>0, <1>1, <1>2, <1>3, TakeWay
  <2>2. m <= Len(t)
    <3>1. b <= Len(t) /\ Len(t) \in Nat
      BY <1>3, WayLen DEF Streamed
    <3> QED BY <2>1, <3>1
  <2>3. got'[e] = Part(t, 0, m)
    BY <1>0, <1>1, <1>2, <1>3, <2>1, <2>2, GotMore
  <2> QED BY <2>1, <2>3
<1>4. CASE e = L!Player
  <2>1. UpPath'
    <3>1. \A j \in {L!Backend, L!Door} :
            deferred'[j] = deferred[j] /\ batch'[j] = batch[j] /\ wire'[j] = wire[j]
      BY <1>1, <1>4, EndNames
    <3>2. got'[L!Backend] = got[L!Backend]
      BY <1>2, <1>4, EndNames
    <3> QED BY <1>0, <1>1, <3>1, <3>2, UpSame
  <2>2. CASE loginPc[L!Door] = "closed"
    <3>1. PICK g \in Nat : /\ got[L!Player] = Part(No, 0, g) /\ g <= 1
                           /\ OnWay(L!Player, No, g, 1)
      BY <1>0, <2>2 DEF DownPath
    <3>n. PICK t \in Streamed, b \in Nat : t = No /\ b = 1
      BY NoFacts
    <3>2. PICK m \in Nat : /\ m <= b /\ got'[e] = Part(t, 0, m) /\ OnWay(e, t, m, b)'
      BY <1>3, <1>4, <3>1, <3>n
    <3>3. t = No /\ b = 1
      BY <3>n
    <3> QED BY <1>1, <1>4, <2>1, <2>2, <3>2, <3>3 DEF DownPath
  <2>3. CASE loginPc[L!Door] # "closed"
    <3>1. PICK g \in Nat, p \in Nat :
             /\ got[L!Player] = Part(Flow, 0, g) /\ g <= p
             /\ OnWay(L!Player, Flow, g, p) /\ OnWay(L!Back, Flow, p, Given)
             /\ loginPc[L!Back] # "done" => p = 0
      BY <1>0, <2>3 DEF DownPath
    <3>t. PICK t \in Streamed, b \in Nat : t = Flow /\ b = Given
      BY <1>0, FlowFacts
    <3>2. PICK m \in Nat : m <= p /\ got'[e] = Part(t, 0, m) /\ OnWay(e, t, m, p)'
      BY <1>3, <1>4, <3>1, <3>t
    <3>3. OnWay(L!Back, t, p, b)'
      <4>1. /\ deferred'[L!Back] = deferred[L!Back] /\ batch'[L!Back] = batch[L!Back]
            /\ wire'[L!Back] = wire[L!Back] /\ OnWay(L!Back, t, p, b)
        BY <1>1, <1>4, <3>1, <3>t, EndNames
      <4> QED BY <4>1, WaySame
    <3>4. Flow' = t /\ Given' = b
      BY <1>1, <3>t DEF Flow, Given
    <3> QED BY <1>1, <1>4, <2>1, <2>3, <3>1, <3>2, <3>3, <3>4 DEF DownPath
  <2> QED BY <2>1, <2>2, <2>3
<1>5. CASE e = L!Backend
  <2>1. DownPath'
    <3>1. \A j \in {L!Player, L!Back} :
            deferred'[j] = deferred[j] /\ batch'[j] = batch[j] /\ wire'[j] = wire[j]
      BY <1>1, <1>5, EndNames
    <3>2. got'[L!Player] = got[L!Player]
      BY <1>2, <1>5, EndNames
    <3>3. Given' = Given
      BY <1>1 DEF Given
    <3> QED BY <1>0, <1>1, <3>1, <3>2, <3>3, DownSame
  <2>2. UpPath'
    <3>1. PICK g \in Nat, p \in Nat :
             /\ got[L!Backend] = Part(L!Up, 0, g) /\ g <= p
             /\ OnWay(L!Backend, L!Up, g, p) /\ OnWay(L!Door, L!Up, p, sent[L!Player])
      BY <1>0 DEF UpPath
    <3>b. PICK b : b = sent[L!Player]
      OBVIOUS
    <3>2. PICK m \in Nat : m <= p /\ got'[e] = Part(L!Up, 0, m) /\ OnWay(e, L!Up, m, p)'
      BY <1>3, <1>5, <3>1, StreamGame
    <3>3. OnWay(L!Door, L!Up, p, b)'
      <4>1. /\ deferred'[L!Door] = deferred[L!Door] /\ batch'[L!Door] = batch[L!Door]
            /\ wire'[L!Door] = wire[L!Door] /\ OnWay(L!Door, L!Up, p, b)
        BY <1>1, <1>5, <3>1, <3>b, EndNames
      <4> QED BY <4>1, WaySame
    <3>4. b = sent'[L!Player]
      BY <1>1, <3>b
    <3> QED BY <1>5, <3>1, <3>2, <3>3, <3>4 DEF UpPath
  <2> QED BY <2>1, <2>2
<1> QED BY <1>4, <1>5

\* What pump changes, once both logins are over.
LEMMA PumpedFacts ==
  ASSUME Linked, NEW e \in L!Relay, NEW f \in L!Relay, f # e, L!Pump(e)
  PROVE  /\ batch[e] = <<>> /\ Reads(e) /\ OfGame(e, L!ReadPackets(e))
         /\ loginPc[L!Door] = "done" /\ loginPc[L!Back] = "done"
         /\ batch' = batch /\ deferred'[e] = <<>>
         /\ \A k \in L!Ends \ {e} : deferred'[k] = deferred[k]
         /\ loginPc' = loginPc /\ sent' = sent /\ refused' = refused /\ got' = got
         /\ \A k \in L!Ends \ {e, L!Peer(f)} : wire'[k] = wire[k]
         /\ \E x \in Bundle : /\ wire'[L!Peer(f)] = Append(wire[L!Peer(f)], x)
                              /\ x.pks = L!ReadPackets(e)
<1>0. LoginTyped /\ OnlyGame /\ \A j \in Dialers : Link(j)
  BY DEF Linked
<1>x. PICK x : x = L!Encoded(L!ReadPackets(e), codec[f])
  OBVIOUS
<1>1. PICK c \in Dialers : e \in {c, L!Peer(c)}
  BY PeerFacts DEF Dialers
<1>2. e \in L!Ends /\ f \in L!Ends /\ L!Peer(e) \notin {e, L!Peer(f)} /\ L!Peer(e) \in L!Ends
  BY PeerFacts
<1>3. /\ loginPc[e] = "done" /\ loginPc[f] = "done" /\ Reads(e)
      /\ wire'[L!Peer(f)] = Append(wire[L!Peer(f)], x)
      /\ \A k \in L!Ends \ {e, L!Peer(f)} : wire'[k] = wire[k]
      /\ Calm /\ loginPc' = loginPc /\ sent' = sent /\ got' = got /\ refused' = refused
      /\ deferred' = [deferred EXCEPT ![e] = <<>>]
  BY <1>0, <1>x, PumpFacts
<1>4. L!ReadPackets(e) \in Seq(Pack) /\ OfGame(e, L!ReadPackets(e))
  BY <1>0, <1>1, <1>2, <1>3, GameRead
<1>5. x \in Bundle /\ x.pks = L!ReadPackets(e)
  <2>1. codec[f] \in L!Codecs
    BY <1>0, <1>2 DEF LoginTyped
  <2> QED BY <1>x, <1>4, <2>1 DEF L!Encoded, Bundle
<1>6. batch[e] = <<>>
  BY <1>2, <1>3, DoneBatch
<1>7. deferred'[e] = <<>> /\ \A k \in L!Ends \ {e} : deferred'[k] = deferred[k]
  BY <1>0, <1>2, <1>3 DEF LoginTyped
<1>8. loginPc[L!Door] = "done" /\ loginPc[L!Back] = "done"
  BY <1>3, PeerFacts
<1> QED BY <1>3, <1>4, <1>5, <1>6, <1>7, <1>8 DEF Calm

\* What is pumped from e to the peer of f is the next stretch of t.
LEMMA PumpedWay ==
  ASSUME Linked, NEW e \in L!Relay, NEW f \in L!Relay, f # e, L!Pump(e),
         NEW t \in Streamed, NEW g \in Nat, NEW p \in Nat, NEW b \in Nat, g <= p,
         OnWay(L!Peer(f), t, g, p), OnWay(e, t, p, b)
  PROVE  \E m \in Nat : g <= m /\ OnWay(L!Peer(f), t, g, m)' /\ OnWay(e, t, m, b)'
<1>0. LoginTyped
  BY DEF Linked
<1>1. /\ batch[e] = <<>> /\ Reads(e) /\ OfGame(e, L!ReadPackets(e))
      /\ batch' = batch /\ deferred'[e] = <<>>
      /\ \A k \in L!Ends \ {e} : deferred'[k] = deferred[k]
  BY PumpedFacts
<1>2. PICK x \in Bundle : /\ wire'[L!Peer(f)] = Append(wire[L!Peer(f)], x)
                          /\ x.pks = L!ReadPackets(e)
  BY PumpedFacts
<1>q. PICK q : q = L!Peer(f)
  OBVIOUS
<1>3. e \in L!Ends /\ q \in L!Ends \ {e}
  BY <1>q, PeerFacts
<1>4. PICK m \in Nat : /\ p <= m /\ m <= b /\ L!ReadPackets(e) = Part(t, p, m)
                       /\ OnWay(e, t, m, b)'
  BY <1>0, <1>1, <1>3, TakeWay
<1>5. m <= Len(t)
  <2>1. b <= Len(t) /\ Len(t) \in Nat
    BY WayLen DEF Streamed
  <2> QED BY <1>4, <2>1
<1>6. Game(x.pks) = Part(t, p, m)
  <2>1. Game(Part(t, p, m)) = Part(t, p, m)
    BY <1>4, <1>5, PartGame
  <2> QED BY <1>2, <1>4, <2>1
<1>7. OnWay(q, t, g, m)'
  <2>1. /\ deferred'[q] = deferred[q] /\ batch'[q] = batch[q]
        /\ wire'[q] = Append(wire[q], x) /\ OnWay(q, t, g, p)
    BY <1>1, <1>2, <1>3, <1>q
  <2> QED BY <1>0, <1>3, <1>4, <1>5, <1>6, <2>1, WayGive
<1>8. g <= m
  BY <1>4
<1> QED BY <1>4, <1>7, <1>8, <1>q

\* pump, in both directions.
LEMMA PumpPaths ==
  ASSUME LoginInv, NEW e \in L!Relay, L!Pump(e)
  PROVE  DownPath' /\ UpPath'
<1>0. Linked /\ LoginTyped /\ DownPath /\ UpPath
  BY DEF LoginInv, Linked
<1>1. PICK f \in L!Relay : f # e
  BY PeerFacts
<1>2. /\ loginPc[L!Door] = "done" /\ loginPc[L!Back] = "done" /\ batch' = batch
      /\ \A k \in L!Ends \ {e} : deferred'[k] = deferred[k]
      /\ loginPc' = loginPc /\ sent' = sent /\ refused' = refused /\ got' = got
      /\ \A k \in L!Ends \ {e, L!Peer(f)} : wire'[k] = wire[k]
  BY <1>0, <1>1, PumpedFacts
<1>3. CASE e = L!Back
  <2>1. f = L!Door /\ L!Peer(f) = L!Player
    BY <1>1, <1>3, PeerFacts
  <2>2. UpPath'
    <3>1. \A j \in {L!Backend, L!Door} :
            deferred'[j] = deferred[j] /\ batch'[j] = batch[j] /\ wire'[j] = wire[j]
      BY <1>2, <1>3, <2>1, EndNames
    <3> QED BY <1>0, <1>2, <3>1, UpSame
  <2>3. DownPath'
    <3>1. PICK g \in Nat, p \in Nat :
             /\ got[L!Player] = Part(Flow, 0, g) /\ g <= p
             /\ OnWay(L!Player, Flow, g, p) /\ OnWay(L!Back, Flow, p, Given)
      BY <1>0, <1>2 DEF DownPath
    <3>t. PICK t \in Streamed, b \in Nat : t = Flow /\ b = Given
      BY <1>0, FlowFacts
    <3>2. PICK m \in Nat : g <= m /\ OnWay(L!Player, t, g, m)' /\ OnWay(L!Back, t, m, b)'
      <4>1. OnWay(L!Peer(f), t, g, p) /\ OnWay(e, t, p, b) /\ g <= p
        BY <1>3, <2>1, <3>1, <3>t
      <4>2. PICK m \in Nat : g <= m /\ OnWay(L!Peer(f), t, g, m)' /\ OnWay(e, t, m, b)'
        BY <1>0, <1>1, <4>1, PumpedWay
      <4> QED BY <1>3, <2>1, <4>2
    <3>3. Flow' = t /\ Given' = b
      BY <1>2, <3>t DEF Flow, Given
    <3>4. /\ loginPc'[L!Door] # "closed" /\ loginPc'[L!Back] = "done"
          /\ got'[L!Player] = Part(t, 0, g)
      BY <1>2, <3>1, <3>t
    <3> QED BY <3>2, <3>3, <3>4 DEF DownPath
  <2> QED BY <2>2, <2>3
<1>4. CASE e = L!Door
  <2>1. f = L!Back /\ L!Peer(f) = L!Backend
    BY <1>1, <1>4, PeerFacts
  <2>2. DownPath'
    <3>1. \A j \in {L!Player, L!Back} :
            deferred'[j] = deferred[j] /\ batch'[j] = batch[j] /\ wire'[j] = wire[j]
      BY <1>2, <1>4, <2>1, EndNames
    <3>2. Given' = Given
      BY <1>2 DEF Given
    <3> QED BY <1>0, <1>2, <3>1, <3>2, DownSame
  <2>3. UpPath'
    <3>1. PICK g \in Nat, p \in Nat :
             /\ got[L!Backend] = Part(L!Up, 0, g) /\ g <= p
             /\ OnWay(L!Backend, L!Up, g, p) /\ OnWay(L!Door, L!Up, p, sent[L!Player])
      BY <1>0 DEF UpPath
    <3>b. PICK b \in Nat : b = sent[L!Player]
      BY <1>0 DEF LoginTyped
    <3>2. PICK m \in Nat : g <= m /\ OnWay(L!Backend, L!Up, g, m)' /\ OnWay(L!Door, L!Up, m, b)'
      <4>1. OnWay(L!Peer(f), L!Up, g, p) /\ OnWay(e, L!Up, p, b) /\ g <= p
        BY <1>4, <2>1, <3>1, <3>b
      <4>2. PICK m \in Nat : g <= m /\ OnWay(L!Peer(f), L!Up, g, m)' /\ OnWay(e, L!Up, m, b)'
        BY <1>0, <1>1, <4>1, StreamGame, PumpedWay
      <4> QED BY <1>4, <2>1, <4>2
    <3>3. b = sent'[L!Player] /\ got'[L!Backend] = Part(L!Up, 0, g)
      BY <1>2, <3>1, <3>b
    <3> QED BY <3>1, <3>2, <3>3 DEF UpPath
  <2> QED BY <2>2, <2>3
<1> QED BY <1>3, <1>4, PeerFacts

-----------------------------------------------------------------------------
(* The two logins are sound.                                               *)

\* Every step keeps the invariant.
LEMMA LoginPathsStep == LoginInv /\ L!Next => LoginInv'
<1> SUFFICES ASSUME LoginInv, L!Next PROVE LoginInv'
  OBVIOUS
<1>1. Linked'
  BY LoginNext DEF LoginInv
<1>2. ASSUME NEW e \in L!Ends, L!ReadLoop(e) PROVE DownPath' /\ UpPath'
  BY <1>2, ReadLoopPaths
<1>3. ASSUME NEW e \in L!Relay, L!Pump(e) PROVE DownPath' /\ UpPath'
  BY <1>3, PumpPaths
<1>4. ASSUME NEW e \in {L!Player, L!Backend}, L!Streams(e) PROVE DownPath' /\ UpPath'
  BY <1>4, SendPaths DEF L!Streams
<1>5. ASSUME NEW e \in {L!Player, L!Backend}, L!Receive(e) PROVE DownPath' /\ UpPath'
  BY <1>5, ReceivePaths
<1>6. DownPath' /\ UpPath'
  BY <1>2, <1>3, <1>4, <1>5, JoinPaths, RefusePaths, ForwardPaths, TellPaths DEF L!Next
<1> QED BY <1>1, <1>6 DEF LoginInv

\* And so does a step of another part.
LEMMA LoginRest == LoginInv /\ UNCHANGED loginVars => LoginInv'
<1> SUFFICES ASSUME LoginInv, UNCHANGED loginVars PROVE LoginInv'
  OBVIOUS
<1>0. LoginTyped /\ Linked /\ DownPath /\ UpPath
  BY DEF LoginInv, Linked
<1>1. /\ encrypts' = encrypts /\ wire' = wire /\ codec' = codec /\ batch' = batch
      /\ deferred' = deferred /\ loginPc' = loginPc /\ sent' = sent /\ got' = got
      /\ refused' = refused
  BY DEF loginVars
<1>2. Linked'
  <2>1. LoginTyped' /\ OnlyGame' /\ Agreed' /\ Turns'
    BY <1>0, <1>1 DEF Linked, LoginTyped, OnlyGame, Agreed, Turns
  <2>2. \A c \in Dialers : Link(c)'
    BY <1>0, <1>1, LinkSame DEF Linked
  <2> QED BY <2>1, <2>2 DEF Linked
<1>3. DownPath'
  BY <1>0, <1>1, DownSame DEF Given
<1>4. UpPath'
  BY <1>0, <1>1, UpSame
<1> QED BY <1>2, <1>3, <1>4 DEF LoginInv

\* The first stretch of a stream is a prefix of it.
LEMMA PartPrefix ==
  ASSUME NEW t \in Streamed, NEW g \in Nat, g <= Len(t)
  PROVE  L!IsPrefix(Part(t, 0, g), t)
<1> DEFINE p == Part(t, 0, g)
<1>1. t \in Seq(Pack) /\ Len(t) \in Nat
  BY DEF Streamed
<1>2. SubSeq(t, 0 + 1, 0 + g) = Part(t, 0, 0 + g)
  BY <1>1, PartSub
<1>3. 0 + 1 = 1 /\ 0 + g = g
  OBVIOUS
<1>4. SubSeq(t, 1, g) = p
  BY <1>2, <1>3
<1>5. p \in Seq(Pack) /\ Len(p) = g
  BY <1>1, PartSeq
<1> HIDE DEF p
<1>6. SubSeq(p, 1, Len(p)) = p
  <2>1. /\ SubSeq(p, 1, Len(p)) \in Seq(Pack) /\ Len(SubSeq(p, 1, Len(p))) = Len(p)
        /\ \A i \in 1..Len(p) : SubSeq(p, 1, Len(p))[i] = p[i]
    BY <1>5
  <2> QED BY <1>5, <2>1, SeqEq
<1> QED BY <1>4, <1>5, <1>6 DEF p, L!IsPrefix

\* The stream of the backend, or the one packet that turns the player away.
LEMMA GotNo ==
  ASSUME NEW g \in Nat, g <= 1
  PROVE  Part(No, 0, g) = <<>> \/ Part(No, 0, g) = No
<1>1. g = 0 \/ g = 1
  OBVIOUS
<1>2. Game(Part(No, 0, 1)) = Part(No, 0, 1)
  BY NoFacts, PartGame
<1>3. Part(No, 0, 1) = No
  BY NoPart
<1>4. Part(No, 0, 0) = <<>>
  BY NoFacts, PartGame
<1> QED BY <1>1, <1>3, <1>4, NoPart

\* The invariant is as strong as the property.
LEMMA LoginKept == LoginInv => LoginSound
<1> SUFFICES ASSUME LoginInv PROVE LoginSound
  OBVIOUS
<1>0. /\ LoginTyped /\ Linked /\ DownPath /\ UpPath /\ Agreed /\ Turns
      /\ \A c \in Dialers : Link(c)
  BY DEF LoginInv, Linked
<1>1. L!HonestNeverFails
  <2>1. ASSUME NEW e \in L!Ends PROVE loginPc[e] \notin {"garbled", "rejected"}
    <3>1. PICK c \in Dialers : e = c \/ e = L!Peer(c)
      BY PeerFacts DEF Dialers
    <3> QED BY <1>0, <3>1
            DEF Link, Apart, Asking, Replied, LoggingIn, Challenged, Answering, Settled, Reading
  <2>2. ASSUME NEW e \in L!Ends, L!HasBatch(e) PROVE L!Decodes(e)
    <3>1. wire[e] \in Seq(Bundle) /\ wire[e] # <<>>
      BY <1>0, <2>2 DEF LoginTyped, L!HasBatch
    <3>2. Head(wire[e]) = wire[e][1] /\ 1 \in 1..Len(wire[e])
      BY <3>1, EmptySeq
    <3> QED BY <1>0, <3>2 DEF Agreed, L!Decodes
  <2> QED BY <2>1, <2>2 DEF L!HonestNeverFails
<1>2. L!SetUpBeforeBackend
  <2> SUFFICES ASSUME loginPc[L!Back] # "idle"
               PROVE  /\ codec[L!Player] = codec[L!Door]
                      /\ codec[L!Door] = [comp |-> TRUE, enc |-> encrypts[L!Door]]
    BY DEF L!SetUpBeforeBackend
  <2>1. loginPc[L!Door] \in {"done", "closed"}
    BY <1>0 DEF Turns
  <2>2. Link(L!Player) /\ L!Peer(L!Player) = L!Door
    BY <1>0, EndNames
  <2>3. Settled(L!Player)
    BY <2>1, <2>2
       DEF Link, Apart, Asking, Replied, LoggingIn, Challenged, Answering, Reading
  <2>4. /\ codec[L!Player] = On(TRUE, encrypts[L!Door])
        /\ codec[L!Door] = On(TRUE, encrypts[L!Door])
    BY <2>2, <2>3 DEF Settled, Set
  <2>5. On(TRUE, encrypts[L!Door]) = [comp |-> TRUE, enc |-> encrypts[L!Door]]
    BY DEF On
  <2> QED BY <2>4, <2>5
<1>3. L!IsPrefix(got[L!Player], L!Down) \/ got[L!Player] = No
  <2>1. ASSUME NEW g \in Nat, g <= 1, got[L!Player] = Part(No, 0, g)
        PROVE  L!IsPrefix(got[L!Player], L!Down) \/ got[L!Player] = No
    <3>1. CASE Part(No, 0, g) = <<>>
      <4>1. Part(L!Down, 0, 0) = <<>> /\ 0 <= Len(L!Down)
        <5>1. 0 <= Len(L!Down)
          BY StreamGame DEF Streamed
        <5> QED BY <5>1, StreamGame, PartGame
      <4>2. L!IsPrefix(Part(L!Down, 0, 0), L!Down)
        BY <4>1, StreamGame, PartPrefix
      <4> QED BY <2>1, <3>1, <4>1, <4>2
    <3>2. CASE Part(No, 0, g) = No
      BY <2>1, <3>2
    <3> QED BY <2>1, <3>1, <3>2, GotNo
  <2>2. CASE loginPc[L!Door] = "closed"
    BY <1>0, <2>1, <2>2 DEF DownPath
  <2>3. CASE loginPc[L!Door] # "closed"
    <3>1. PICK g \in Nat, p \in Nat :
             /\ got[L!Player] = Part(Flow, 0, g) /\ g <= p /\ OnWay(L!Player, Flow, g, p)
      BY <1>0, <2>3 DEF DownPath
    <3>2. g <= Len(Flow)
      <4>1. p <= Len(Flow) /\ Len(Flow) \in Nat
        BY <1>0, <3>1, WayLen, FlowFacts DEF Streamed
      <4> QED BY <3>1, <4>1
    <3>3. CASE refused
      <4>1. Flow = No
        BY <3>3 DEF Flow
      <4> QED BY <2>1, <3>1, <3>2, <4>1, NoFacts
    <3>4. CASE ~refused
      <4>1. Flow = L!Down
        BY <3>4 DEF Flow
      <4>2. L!IsPrefix(Part(L!Down, 0, g), L!Down)
        BY <3>2, <4>1, StreamGame, PartPrefix
      <4> QED BY <3>1, <4>1, <4>2
    <3> QED BY <3>3, <3>4
  <2> QED BY <2>2, <2>3
<1>4. L!IsPrefix(got[L!Backend], L!Up)
  <2>1. PICK g \in Nat, p \in Nat :
           /\ got[L!Backend] = Part(L!Up, 0, g) /\ g <= p /\ OnWay(L!Backend, L!Up, g, p)
    BY <1>0 DEF UpPath
  <2>2. g <= Len(L!Up)
    <3>1. p <= Len(L!Up) /\ Len(L!Up) \in Nat
      BY <2>1, WayLen, StreamGame DEF Streamed
    <3> QED BY <2>1, <3>1
  <2>3. L!IsPrefix(Part(L!Up, 0, g), L!Up)
    BY <2>2, StreamGame, PartPrefix
  <2> QED BY <2>1, <2>3
<1>5. L!InOrder
  BY <1>3, <1>4 DEF L!InOrder, No
<1> QED BY <1>1, <1>2, <1>5 DEF LoginSound

\* A step of the whole is one of the two logins, or leaves them alone.
LEMMA LoginParts ==
  ASSUME [MCNext]_mcVars
  PROVE  [L!Next]_loginVars
<1>1. CASE focus = "login" /\ L!Next
  BY <1>1
<1>2. CASE UNCHANGED loginVars
  BY <1>2
<1> QED BY <1>1, <1>2 DEF MCNext, mcVars

\* Between a player and a backend that follow the protocol, wherever in a batch a login ends
\* and however packets of the game are put into batches: no batch meets a decoder that is
\* set up otherwise and no packet is turned away, what arrives at the player and at the
\* backend is what the other side has sent, in order and from the first, a player who is
\* not let in is told so and nothing else, and the player's link is compressed, and
\* encrypted as the relay is set to, before the relay turns to the backend
\* (proxy_conn.go:189-272, relay.go:291-327), for streams of any length.
THEOREM RelayLoginSound == MCSafe => []LoginSound
<1>1. MCInit => LoginInv
  BY PathsInit DEF MCInit
<1>2. LoginInv /\ [MCNext]_mcVars => LoginInv'
  BY LoginParts, LoginPathsStep, LoginRest
<1> QED BY <1>1, <1>2, LoginKept, PTL DEF MCSafe
=============================================================================
