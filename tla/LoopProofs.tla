----------------------------- MODULE LoopProofs ------------------------------
(***************************************************************************)
(* Proofs about a broadcast: SessionLoop, for any number of RTA drops,     *)
(* token ages and failures before a forced refresh and every backend       *)
(* transport; Broadcasts, for any lists of extra broadcasts; TokenCache,   *)
(* for any number of callers and any lifetimes of the tokens.              *)
(***************************************************************************)
EXTENDS MCLoop, TLAPS

USE SessionLoopAssumption
USE DEF loopVars, idVars, rtaVars, docVars, sessVars, tokenVars

\* The doubled wait stays within the cap (broadcasts.go:277-282).
LEMMA BackoffCapped ==
  ASSUME NEW b \in 1..MaxBackoff
  PROVE  NextBackoff(b) \in 1..MaxBackoff
BY DEF NextBackoff

\* Next by the goroutine that takes the step, for the case analyses below.
LEMMA StepCases ==
  ASSUME [Next]_vars
  PROVE  \/ RtaSubscribed \/ Reconcile \/ RtaHandled \/ ForceReconnect \/ RtaLost
         \/ \E w \in Writers : PutLands(w) \/ UpdateFails(w)
         \/ Tick \/ RefreshNonces \/ LateLands
         \/ Boot \/ ReadConnectionID \/ Listen \/ ListenHangs \/ DialGivesUp
         \/ Construct \/ PresenceOk \/ PresenceFails \/ Settle
         \/ CreatePut \/ CreateHandle \/ CreateFails
         \/ ServeEnds \/ Renew \/ CountFailure \/ BackoffOver \/ Stop
         \/ PresencePropagates \/ PresenceLapses \/ TokenAges \/ RenewalFires
         \/ Shutdown \/ UNCHANGED vars
<1> "create" \in Writers /\ "ticker" \in Writers /\ "rta" \in Writers
  BY DEF Writers
<1> QED
  BY DEF Next, Rta, Broadcast, PutEnds

\* Every step of either goroutine keeps the flags Boolean.
LEMMA FlagsStep == FlagsOK /\ [Next]_vars => FlagsOK'
<1> SUFFICES ASSUME FlagsOK, [Next]_vars PROVE FlagsOK'
  OBVIOUS
<1> USE DEF FlagsOK
<1>1. CASE RtaSubscribed \/ ForceReconnect \/ RtaLost
  BY <1>1 DEF RtaSubscribed, ForceReconnect, RtaLost
<1>2. CASE RtaHandled \/ Reconcile \/ Tick \/ RefreshNonces \/ LateLands
  BY <1>2 DEF RtaHandled, Reconcile, Tick, RefreshNonces, LateLands
<1>2w. ASSUME NEW w \in Writers, PutLands(w) \/ UpdateFails(w) PROVE FlagsOK'
  BY <1>2w DEF PutLands, UpdateFails
<1>3. CASE Boot \/ ReadConnectionID \/ Stop \/ BackoffOver \/ CountFailure
  BY <1>3 DEF Boot, ReadConnectionID, Stop, BackoffOver, CountFailure
<1>4. CASE Listen \/ ListenHangs \/ DialGivesUp
  BY <1>4 DEF Listen, ListenHangs, DialGivesUp, Returns
<1>5. CASE Construct
  BY <1>5 DEF Construct, HasToken
<1>6. CASE PresenceOk \/ CreatePut \/ CreateHandle
  BY <1>6 DEF PresenceOk, CreatePut, CreateHandle, Continue
<1>7. CASE PresenceFails \/ CreateFails
  BY <1>7 DEF PresenceFails, CreateFails, ReturnsEarly, Returns
<1>8. CASE Settle
  BY <1>8 DEF Settle, Continue, ReturnsEarly, Returns
<1>9. CASE Renew
  BY <1>9 DEF Renew
<1>10. CASE ServeEnds
  BY <1>10 DEF ServeEnds, Returns
<1>11. CASE PresencePropagates \/ PresenceLapses
  BY <1>11 DEF PresencePropagates, PresenceLapses
<1>12. CASE TokenAges \/ RenewalFires \/ Shutdown
  BY <1>12 DEF TokenAges, RenewalFires, Shutdown
<1>13. CASE UNCHANGED vars
  BY <1>13 DEF vars
<1> QED
  BY StepCases, <1>1, <1>2, <1>2w, <1>3, <1>4, <1>5, <1>6, <1>7, <1>8, <1>9, <1>10,
     <1>11, <1>12, <1>13

\* Every step keeps the rebuild loop's own bookkeeping in range, the wait and the
\* failure count of broadcasts.go:250-282 included.
LEMMA LoopStep == LoopOK /\ [Next]_vars => LoopOK'
<1> SUFFICES ASSUME LoopOK, [Next]_vars PROVE LoopOK'
  OBVIOUS
<1> USE DEF LoopOK, InSession
<1>1. CASE RtaSubscribed \/ ForceReconnect \/ RtaLost
  BY <1>1 DEF RtaSubscribed, ForceReconnect, RtaLost
<1>2. CASE RtaHandled \/ Reconcile \/ Tick \/ RefreshNonces \/ LateLands
  BY <1>2 DEF RtaHandled, Reconcile, Tick, RefreshNonces, LateLands
<1>2w. ASSUME NEW w \in Writers, PutLands(w) \/ UpdateFails(w) PROVE LoopOK'
  BY <1>2w DEF PutLands, UpdateFails, ReconcileFailed
<1>3. CASE Boot \/ ReadConnectionID \/ Stop
  BY <1>3 DEF Boot, ReadConnectionID, Stop
<1>4. CASE Listen \/ ListenHangs \/ DialGivesUp
  <2>1. CASE Listen
    BY <2>1 DEF Listen, Returns, MCToken, ListenID, Minted
  <2>2. CASE ListenHangs
    BY <2>2 DEF ListenHangs, MCToken
  <2>3. CASE DialGivesUp
    BY <2>3 DEF DialGivesUp, Returns
  <2> QED
    BY <1>4, <2>1, <2>2, <2>3
<1>5. CASE Construct
  BY <1>5 DEF Construct, MCToken
<1>6. CASE PresenceOk \/ CreatePut \/ CreateHandle
  BY <1>6 DEF PresenceOk, CreatePut, CreateHandle, Continue
<1>7. CASE PresenceFails \/ CreateFails
  BY <1>7 DEF PresenceFails, CreateFails, ReturnsEarly, Returns
<1>8. CASE Settle
  BY <1>8 DEF Settle, Continue, ReturnsEarly, Returns
<1>9. CASE Renew
  BY <1>9 DEF Renew, ForceRefreshMCToken
<1>10. CASE CountFailure
  BY <1>10 DEF CountFailure, CountUp, ForceRefreshMCToken
<1>11. CASE BackoffOver
  BY <1>11, BackoffCapped DEF BackoffOver
<1>12. CASE ServeEnds
  BY <1>12 DEF ServeEnds, Returns
<1>13. CASE PresencePropagates \/ PresenceLapses
  BY <1>13 DEF PresencePropagates, PresenceLapses
<1>14. CASE TokenAges \/ RenewalFires \/ Shutdown
  BY <1>14 DEF TokenAges, RenewalFires, Shutdown, Older
<1>15. CASE UNCHANGED vars
  BY <1>15 DEF vars
<1> QED
  BY StepCases, <1>1, <1>2, <1>2w, <1>3, <1>4, <1>5, <1>6, <1>7, <1>8, <1>9, <1>10,
     <1>11, <1>12, <1>13, <1>14, <1>15

\* Connection IDs only ever come from the RTA (xbl/rta.go:201-236, 269-280).
LEMMA ConnectionsStep == ConnectionsOK /\ [Next]_vars => ConnectionsOK'
<1> SUFFICES ASSUME ConnectionsOK, [Next]_vars PROVE ConnectionsOK'
  OBVIOUS
<1> USE DEF ConnectionsOK
<1>a. Sent \subseteq Connections /\ 0 \in Connections
  BY DEF Sent, Connections
<1>b. [w \in Writers |-> 0] \in [Writers -> Connections]
  BY <1>a
<1>c. ASSUME NEW r, Returns(r), UNCHANGED <<rtaVars, conn>> PROVE ConnectionsOK'
  BY <1>a, <1>b, <1>c DEF Returns
<1>d. ASSUME UNCHANGED <<rtaVars, conn, docVars>> PROVE ConnectionsOK'
  BY <1>d
<1>1. CASE RtaSubscribed \/ ForceReconnect \/ RtaLost
  <2>1. rtaConn' \in Connections /\ rta' \in {"down", "handling", "stalled"}
    BY <1>1 DEF RtaSubscribed, ForceReconnect, RtaLost, Connections
  <2>2. rta' # "handling" => rtaConn' <= MaxDrops
    BY <1>1 DEF RtaSubscribed, ForceReconnect, RtaLost
  <2>3. UNCHANGED <<conn, docVars>>
    BY <1>1 DEF RtaSubscribed, ForceReconnect, RtaLost
  <2> QED
    BY <2>1, <2>2, <2>3
<1>2. CASE RtaHandled \/ Reconcile \/ Tick \/ RefreshNonces \/ LateLands
  BY <1>2, <1>a DEF RtaHandled, Reconcile, TakesOver, Tick, RefreshNonces, Sends, LateLands
<1>2w. ASSUME NEW w \in Writers, PutLands(w) \/ UpdateFails(w) PROVE ConnectionsOK'
  BY <1>2w, <1>a DEF PutLands, UpdateFails, CallbackDone
<1>3. CASE ReadConnectionID
  BY <1>3, <1>a DEF ReadConnectionID, TakesOver, CurrentConnection
<1>4. CASE CreatePut
  BY <1>4 DEF CreatePut, Sends, Continue
<1>5. CASE Boot \/ Stop \/ BackoffOver \/ CountFailure \/ Renew
  BY <1>5, <1>d DEF Boot, Stop, BackoffOver, CountFailure, Renew
<1>6. CASE Listen \/ ListenHangs \/ DialGivesUp \/ Construct
  BY <1>6, <1>c, <1>d DEF Listen, ListenHangs, DialGivesUp, Construct
<1>7. CASE PresenceOk \/ CreateHandle \/ PresenceFails \/ CreateFails \/ Settle
  BY <1>7, <1>c, <1>d DEF PresenceOk, CreateHandle, PresenceFails, CreateFails, Settle,
              Continue, ReturnsEarly
<1>8. CASE ServeEnds \/ PresencePropagates \/ PresenceLapses
  BY <1>8, <1>c, <1>d DEF ServeEnds, PresencePropagates, PresenceLapses
<1>9. CASE TokenAges \/ RenewalFires \/ Shutdown \/ UNCHANGED vars
  BY <1>9, <1>d DEF TokenAges, RenewalFires, Shutdown, vars
<1> QED
  BY StepCases, <1>1, <1>2, <1>2w, <1>3, <1>4, <1>5, <1>6, <1>7, <1>8, <1>9

\* The loop's bookkeeping stays in its ranges: the wait never passes maxBackoff
\* (broadcasts.go:277-282), and connection IDs are ones the RTA handed out.
THEOREM LoopType == Spec => []TypeOK
<1>1. Init => TypeOK
  <2>1. Init => FlagsOK
    BY DEF Init, FlagsOK
  <2>2. Init => LoopOK /\ ConnectionsOK
    BY DEF Init, LoopOK, ConnectionsOK, Connections
  <2> QED
    BY <2>1, <2>2 DEF TypeOK
<1>2. TypeOK /\ [Next]_vars => TypeOK'
  BY FlagsStep, LoopStep, ConnectionsStep DEF TypeOK
<1> QED
  BY <1>1, <1>2, PTL DEF Spec

-----------------------------------------------------------------------------
\* No write shows a connection newer than the session's, nor the session one newer
\* than the RTA's; a write on its way shows the session's own unless it was
\* overtaken, and from the request of the handle on so does the document, but
\* while a reconcile is on its way.
Dated ==
    /\ docConn <= conn /\ conn <= rtaConn
    /\ \A c \in Sent \cup late : c <= conn
    /\ Sent \cup late \subseteq {conn} \cup overtaken

Reconciling == rta = "handling" /\ put["rta"] # 0

\* From the construction of a session on, its callback is the one RTA calls.
Reconciled ==
    /\ pc \in InSession /\ cause = "none" => registered
    /\ Reconciling => conn = rtaConn /\ put["rta"] = rtaConn
    /\ pc \in {"handle", "serving"} /\ cause = "none" /\ ~Reconciling =>
          docConn \in {conn} \cup overtaken
    /\ pc = "serving" /\ cause = "none" /\ rta = "up" => conn = rtaConn

\* Writes on their way only get fewer.
LEMMA SentLess ==
  ASSUME put \in [Writers -> Connections], NEW w \in Writers,
         put' = [put EXCEPT ![w] = 0]
  PROVE  Sent' \subseteq Sent
BY DEF Sent

LEMMA SentMore ==
  ASSUME put \in [Writers -> Connections], NEW w \in Writers, NEW c,
         put' = [put EXCEPT ![w] = c]
  PROVE  Sent' \subseteq Sent \cup {c}
BY DEF Sent

LEMMA SentNone ==
  ASSUME put' = [w \in Writers |-> 0]
  PROVE  Sent' = {}
BY DEF Sent

\* Whoever writes, fails or takes a connection over (xbl/session.go:264-297,
\* main.go:291, 400-418), the writes stay in their order.
LEMMA DatedStep ==
  ASSUME TypeOK, Dated, [Next]_vars
  PROVE  Dated'
<1> USE DEF Dated
<1>0. /\ put \in [Writers -> Connections] /\ conn \in Nat /\ rtaConn \in Nat /\ docConn \in Nat
      /\ Sent \subseteq Nat /\ late \subseteq Nat /\ MaxDrops \in Nat
  <2>1. /\ put \in [Writers -> Connections] /\ late \subseteq Connections
        /\ conn \in Connections /\ rtaConn \in Connections /\ docConn \in Connections
    BY DEF TypeOK, ConnectionsOK
  <2>2. Connections \subseteq Nat
    BY DEF Connections
  <2>3. Sent \subseteq Connections
    BY <2>1 DEF Sent
  <2> QED
    BY <2>1, <2>2, <2>3, SessionLoopAssumption
<1>p. "create" \in Writers /\ "ticker" \in Writers /\ "rta" \in Writers
  BY DEF Writers
<1>c. ASSUME NEW r, Returns(r), UNCHANGED <<rtaVars, conn>> PROVE Dated'
  <2>1. Sent' = {} /\ late' = late \cup Sent /\ UNCHANGED <<docConn, overtaken>>
    BY <1>c, SentNone DEF Returns
  <2> QED
    BY <1>c, <2>1
<1>d. ASSUME UNCHANGED <<rtaConn, conn, docVars>> PROVE Dated'
  BY <1>d DEF Sent
<1>s. ASSUME NEW w \in Writers, Sends(w), UNCHANGED <<rtaConn, conn, docConn, late, overtaken>>
      PROVE  Dated'
  <2>1. Sent' \subseteq Sent \cup {conn}
    BY <1>s, <1>0, SentMore DEF Sends
  <2> QED
    BY <1>s, <1>0, <2>1
<1>1. CASE RtaSubscribed
  <2>1. Sent' = Sent /\ rtaConn' = rtaConn + 1 /\ UNCHANGED <<conn, docVars>>
    BY <1>1 DEF RtaSubscribed, Sent
  <2> QED
    BY <1>0, <2>1
<1>2. CASE ForceReconnect \/ RtaLost \/ RtaHandled
  BY <1>2, <1>d DEF ForceReconnect, RtaLost, RtaHandled
<1>3. CASE Reconcile
  <2>1. /\ Sent' \subseteq Sent \cup {rtaConn} /\ conn' = rtaConn
        /\ overtaken' = (Sent \cup late) \ {rtaConn} /\ UNCHANGED <<rtaConn, docConn, late>>
    BY <1>3, <1>0, <1>p, SentMore DEF Reconcile, TakesOver
  <2> QED
    BY <1>0, <2>1
<1>4. ASSUME NEW w \in Writers, PutLands(w) PROVE Dated'
  <2>1. put[w] \in Sent /\ Sent' \subseteq Sent
    BY <1>4, <1>0, SentLess DEF PutLands, Sent
  <2>2. docConn' = put[w] /\ UNCHANGED <<conn, rtaConn, late, overtaken>>
    BY <1>4 DEF PutLands
  <2> QED
    BY <1>0, <2>1, <2>2
<1>5. ASSUME NEW w \in Writers, UpdateFails(w) PROVE Dated'
  <2>1. put[w] \in Sent /\ Sent' \subseteq Sent
    BY <1>5, <1>0, SentLess DEF UpdateFails, Sent
  <2>2. late' = late \cup {put[w]} /\ UNCHANGED <<conn, rtaConn, docConn, overtaken>>
    BY <1>5 DEF UpdateFails
  <2> QED
    BY <1>0, <2>1, <2>2
<1>6. CASE Tick \/ RefreshNonces \/ CreatePut
  BY <1>6, <1>p, <1>s DEF Tick, RefreshNonces, CreatePut, Continue
<1>7. CASE LateLands
  <2>1. Sent' = Sent /\ docConn' \in late /\ UNCHANGED <<conn, rtaConn, late, overtaken>>
    BY <1>7 DEF LateLands, Sent
  <2> QED
    BY <1>0, <2>1
<1>8. CASE ReadConnectionID
  <2>1. /\ Sent' = Sent /\ conn' = rtaConn
        /\ overtaken' = (Sent \cup late) \ {rtaConn} /\ UNCHANGED <<rtaConn, docConn, late>>
    BY <1>8 DEF ReadConnectionID, TakesOver, CurrentConnection, Sent
  <2> QED
    BY <1>0, <2>1
<1>9. CASE Boot \/ Stop \/ BackoffOver \/ CountFailure \/ Renew
  BY <1>9, <1>d DEF Boot, Stop, BackoffOver, CountFailure, Renew
<1>10. CASE Listen \/ ListenHangs \/ DialGivesUp \/ Construct
  BY <1>10, <1>c, <1>d DEF Listen, ListenHangs, DialGivesUp, Construct
<1>11. CASE PresenceOk \/ CreateHandle \/ PresenceFails \/ CreateFails \/ Settle
  BY <1>11, <1>c, <1>d DEF PresenceOk, CreateHandle, PresenceFails, CreateFails, Settle,
              Continue, ReturnsEarly
<1>12. CASE ServeEnds \/ PresencePropagates \/ PresenceLapses
  BY <1>12, <1>c, <1>d DEF ServeEnds, PresencePropagates, PresenceLapses
<1>13. CASE TokenAges \/ RenewalFires \/ Shutdown \/ UNCHANGED vars
  BY <1>13, <1>d DEF TokenAges, RenewalFires, Shutdown, vars
<1> QED
  BY StepCases, <1>1, <1>2, <1>3, <1>4, <1>5, <1>6, <1>7, <1>8, <1>9, <1>10, <1>11,
     <1>12, <1>13

\* A session that is registered and not cancelled follows the RTA's connection,
\* except while the callback for the newest one is still to run (main.go:400-418).
LEMMA ReconciledStep ==
  ASSUME TypeOK, Dated, Reconciled, [Next]_vars
  PROVE  Reconciled'
<1> USE DEF Reconciled, Reconciling, InSession
<1>0. /\ put \in [Writers -> Connections] /\ conn \in Nat /\ rtaConn \in Nat
      /\ docConn \in Nat
  <2>1. Connections \subseteq Nat
    BY DEF Connections
  <2> QED
    BY <2>1 DEF TypeOK, ConnectionsOK
<1>p. "create" \in Writers /\ "ticker" \in Writers /\ "rta" \in Writers
  BY DEF Writers
<1>c. ASSUME NEW r, Returns(r), UNCHANGED <<rtaVars, conn>> PROVE Reconciled'
  BY <1>c, <1>p DEF Returns
<1>d. ASSUME UNCHANGED <<pc, rtaVars, sessVars>> PROVE Reconciled'
  BY <1>d
<1>1. CASE RtaSubscribed \/ ForceReconnect \/ RtaLost
  BY <1>1, <1>0 DEF RtaSubscribed, ForceReconnect, RtaLost
<1>2. CASE Reconcile
  BY <1>2, <1>0, <1>p DEF Reconcile, TakesOver, MustReconcile, Dated
<1>3. CASE RtaHandled
  BY <1>3, <1>0 DEF RtaHandled, MustReconcile
<1>4. ASSUME NEW w \in Writers, PutLands(w) PROVE Reconciled'
  <2>1. put[w] \in Sent /\ put[w] \in {conn} \cup overtaken
    BY <1>4, <1>0 DEF PutLands, Sent, Dated
  <2>2. /\ docConn' = put[w] /\ put' = [put EXCEPT ![w] = 0] /\ cause = "none"
        /\ UNCHANGED <<conn, rtaConn, overtaken, cause, registered>>
    BY <1>4 DEF PutLands, Live
  <2>3. CASE w = "rta"
    BY <1>4, <1>0, <1>p, <2>1, <2>2, <2>3 DEF PutLands, CallbackDone
  <2>4. CASE w # "rta"
    <3>1. put'["rta"] = put["rta"] /\ UNCHANGED rta
      BY <1>4, <1>0, <1>p, <2>2, <2>4 DEF PutLands
    <3>2. pc' \in {pc, "handle"} /\ (pc' = "handle" => pc = "handle" \/ w = "create")
      BY <1>4 DEF PutLands
    <3>3. w = "create" => pc = "putting"
      BY <1>4 DEF PutLands
    <3> QED
      BY <2>1, <2>2, <3>1, <3>2, <3>3
  <2> QED
    BY <2>3, <2>4
<1>5. ASSUME NEW w \in Writers, UpdateFails(w) PROVE Reconciled'
  <2>1. /\ put' = [put EXCEPT ![w] = 0]
        /\ UNCHANGED <<pc, docConn, conn, rtaConn, overtaken, registered>>
    BY <1>5 DEF UpdateFails
  <2>2. CASE w = "rta"
    BY <1>5, <1>0, <1>p, <2>1, <2>2 DEF UpdateFails, CallbackDone, ReconcileFailed
  <2>3. CASE w # "rta"
    BY <1>5, <1>0, <1>p, <2>1, <2>3 DEF UpdateFails
  <2> QED
    BY <2>2, <2>3
<1>6. CASE Tick \/ CreatePut
  <2>1. put'["rta"] = put["rta"]
    BY <1>6, <1>0, <1>p DEF Tick, CreatePut, Sends
  <2> QED
    BY <1>6, <2>1 DEF Tick, CreatePut, Continue
<1>7. CASE RefreshNonces
  BY <1>7 DEF RefreshNonces
<1>8. CASE LateLands
  BY <1>8 DEF LateLands, Dated
<1>9. CASE ReadConnectionID \/ Boot \/ Stop \/ BackoffOver \/ CountFailure \/ Renew
  BY <1>9 DEF ReadConnectionID, TakesOver, CurrentConnection, Boot, Stop, BackoffOver,
              CountFailure, Renew
<1>10. CASE Listen \/ ListenHangs \/ DialGivesUp \/ Construct
  <2>1. CASE pc' = "returned"
    BY <1>10, <2>1, <1>c DEF Listen, ListenHangs, DialGivesUp, Construct
  <2>2. CASE pc' # "returned"
    BY <1>10, <2>2 DEF Listen, ListenHangs, DialGivesUp, Construct, Returns
  <2> QED
    BY <2>1, <2>2
<1>11. CASE PresenceOk \/ CreateHandle
  BY <1>11, <1>0 DEF PresenceOk, CreateHandle, OwnerActive, Continue, Dated
<1>12. CASE PresenceFails \/ CreateFails
  BY <1>12, <1>c DEF PresenceFails, CreateFails, ReturnsEarly
<1>13. CASE Settle
  BY <1>13, <1>c DEF Settle, Continue, ReturnsEarly
<1>14. CASE ServeEnds
  BY <1>14, <1>c DEF ServeEnds
<1>15. CASE PresencePropagates \/ PresenceLapses \/ TokenAges \/ Shutdown \/ UNCHANGED vars
  BY <1>15, <1>d DEF PresencePropagates, PresenceLapses, TokenAges, Shutdown, vars
<1>16. CASE RenewalFires
  BY <1>16 DEF RenewalFires
<1> QED
  BY StepCases, <1>1, <1>2, <1>3, <1>4, <1>5, <1>6, <1>7, <1>8, <1>9, <1>10, <1>11,
     <1>12, <1>13, <1>14, <1>15, <1>16

\* A session that serves sends the live RTA connection with every write, however
\* often the websocket reconnects, and its document shows it but for a write that
\* the new connection has overtaken (main.go:388-418, 524-525, xbl/rta.go:269-280).
THEOREM LoopConnectionLive == Spec => []ServingConnectionLive
<1>1. Init => Dated /\ Reconciled
  <2> SUFFICES ASSUME Init PROVE Dated /\ Reconciled
    OBVIOUS
  <2>1. Sent = {}
    BY DEF Init, Sent
  <2>2. put["create"] = 0 /\ put["rta"] = 0
    BY DEF Init, Writers
  <2> QED
    BY <2>1, <2>2 DEF Init, Dated, Reconciled, Reconciling, InSession
<1>2. TypeOK /\ Dated /\ Reconciled /\ [Next]_vars => Dated' /\ Reconciled'
  BY DatedStep, ReconciledStep
<1>3. Reconciled => ServingConnectionLive
  BY DEF Reconciled, Reconciling, ServingConnectionLive
<1> QED
  BY <1>1, <1>2, <1>3, LoopType, PTL DEF Spec

-----------------------------------------------------------------------------
\* While no Listen has lost its websocket leg, the ID kept between rebuilds is none or
\* the first one, and the first one as soon as it is listened on.
IDKept ==
    ~wsFailed =>
       /\ netherNetID # Later
       /\ pc \in InSession \cup {"construct"} => netherNetID = First

\* The numeric ID handed from one Listen to the next is the one of the
\* first, as long as the websocket leg has never failed (bridge/listener.go:112-140).
LEMMA IDKeptStep ==
  ASSUME TypeOK, IDKept, [Next]_vars
  PROVE  IDKept'
<1> USE DEF IDKept, InSession, First, Later
<1>1. netherNetID \in {0, First, Later}
  BY DEF TypeOK, LoopOK
<1>2. CASE Listen
  <2>1. PICK up \in SUBSET Transports :
           /\ netherNetID' = IF "websocket" \in up THEN ListenID ELSE 0
           /\ wsFailed' = (wsFailed \/ "websocket" \notin up)
    BY <1>2 DEF Listen
  <2>2. ~wsFailed' => ~wsFailed /\ "websocket" \in up
    BY <2>1
  <2> QED
    BY <1>1, <2>1, <2>2 DEF ListenID, Minted
<1>3. CASE CreateHandle
  BY <1>3 DEF CreateHandle, Continue
<1>4. CASE RtaSubscribed \/ Reconcile \/ RtaHandled \/ ForceReconnect \/ RtaLost
  BY <1>4 DEF RtaSubscribed, Reconcile, RtaHandled, ForceReconnect, RtaLost
<1>4w. CASE (\E w \in Writers : PutLands(w) \/ UpdateFails(w)) \/ Tick \/ RefreshNonces
            \/ LateLands
  BY <1>4w DEF PutLands, UpdateFails, Tick, RefreshNonces, LateLands
<1>5. CASE ReadConnectionID \/ Boot \/ Stop \/ BackoffOver \/ CountFailure \/ Renew
  BY <1>5 DEF ReadConnectionID, Boot, Stop, BackoffOver, CountFailure, Renew
<1>6. CASE Construct \/ CreatePut \/ PresenceOk \/ ListenHangs \/ DialGivesUp
  BY <1>6 DEF Construct, CreatePut, PresenceOk, Continue, ListenHangs, DialGivesUp,
              Returns
<1>7. CASE PresenceFails \/ CreateFails \/ Settle \/ ServeEnds
  BY <1>7 DEF PresenceFails, CreateFails, Settle, ServeEnds, Continue,
              ReturnsEarly, Returns
<1>8. CASE PresencePropagates \/ PresenceLapses
  BY <1>8 DEF PresencePropagates, PresenceLapses
<1>9. CASE TokenAges \/ RenewalFires \/ Shutdown \/ UNCHANGED vars
  BY <1>9 DEF TokenAges, RenewalFires, Shutdown, vars
<1> QED
  BY StepCases, <1>2, <1>3, <1>4, <1>4w, <1>5, <1>6, <1>7, <1>8, <1>9

\* The NetherNet ID of the first Listen is advertised by every session, if
\* websocket signaling has always come up (broadcasts.go:217-219).
THEOREM LoopIDStable == Spec => []StableIDWithoutFailure
<1>1. Init => IDKept
  BY DEF Init, IDKept, InSession, Later
<1>2. TypeOK /\ IDKept /\ [Next]_vars => IDKept'
  BY IDKeptStep
<1>3. IDKept => StableIDWithoutFailure
  BY DEF IDKept, StableIDWithoutFailure, InSession
<1> QED
  BY <1>1, <1>2, <1>3, LoopType, PTL DEF Spec

-----------------------------------------------------------------------------
\* A token that was refreshed by force and has not aged is fresh.
RenewedIsFresh == renewed => token = "fresh"

\* No session is renewed on the token its renewal has just obtained
\* (broadcasts.go:229-246).
THEOREM LoopNoRenewalLoop == Spec => NoRenewalLoop
<1>1. Init => RenewedIsFresh
  BY DEF Init, RenewedIsFresh
<1>2. RenewedIsFresh /\ [Next]_vars => RenewedIsFresh'
  <2> SUFFICES ASSUME RenewedIsFresh, [Next]_vars PROVE RenewedIsFresh'
    OBVIOUS
  <2> USE DEF RenewedIsFresh
  <2>1. CASE Listen \/ ListenHangs \/ DialGivesUp \/ Construct
    BY <2>1 DEF Listen, ListenHangs, DialGivesUp, Construct, MCToken
  <2>2. CASE Renew \/ CountFailure
    BY <2>2 DEF Renew, CountFailure, ForceRefreshMCToken
  <2>3. CASE TokenAges
    BY <2>3 DEF TokenAges
  <2>4. CASE RtaSubscribed \/ Reconcile \/ RtaHandled \/ ForceReconnect \/ RtaLost
    BY <2>4 DEF RtaSubscribed, Reconcile, RtaHandled, ForceReconnect, RtaLost
  <2>4w. CASE (\E w \in Writers : PutLands(w) \/ UpdateFails(w)) \/ Tick \/ RefreshNonces
              \/ LateLands
    BY <2>4w DEF PutLands, UpdateFails, Tick, RefreshNonces, LateLands
  <2>5. CASE ReadConnectionID \/ Boot \/ Stop \/ BackoffOver
    BY <2>5 DEF ReadConnectionID, Boot, Stop, BackoffOver
  <2>6. CASE CreatePut \/ CreateHandle \/ PresenceOk
    BY <2>6 DEF CreatePut, CreateHandle, PresenceOk, Continue
  <2>7. CASE PresenceFails \/ CreateFails \/ Settle \/ ServeEnds
    BY <2>7 DEF PresenceFails, CreateFails, Settle, ServeEnds, Continue,
                ReturnsEarly
  <2>8. CASE PresencePropagates \/ PresenceLapses \/ RenewalFires
    BY <2>8 DEF PresencePropagates, PresenceLapses, RenewalFires
  <2>9. CASE Shutdown \/ UNCHANGED vars
    BY <2>9 DEF Shutdown, vars
  <2> QED
    BY StepCases, <2>1, <2>2, <2>3, <2>4, <2>4w, <2>5, <2>6, <2>7, <2>8, <2>9
<1>3. RenewedIsFresh /\ [Next]_vars
        => [cause # "renewal" /\ cause' = "renewal" => ~renewed]_vars
  <2> SUFFICES ASSUME RenewedIsFresh, [Next]_vars, cause # "renewal",
                      cause' = "renewal"
               PROVE  ~renewed
    OBVIOUS
  <2>1. CASE RenewalFires
    BY <2>1 DEF RenewalFires, RenewedIsFresh
  <2>2. CASE RtaHandled \/ Reconcile \/ Tick \/ RefreshNonces \/ LateLands
    BY <2>2 DEF RtaHandled, Reconcile, Tick, RefreshNonces, LateLands
  <2>2w. ASSUME NEW w \in Writers, PutLands(w) \/ UpdateFails(w) PROVE ~renewed
    BY <2>2w DEF PutLands, UpdateFails, ReconcileFailed
  <2>3. CASE RtaSubscribed \/ ForceReconnect \/ RtaLost \/ Listen \/ Construct
    BY <2>3 DEF RtaSubscribed, ForceReconnect, RtaLost, Listen, Construct, Returns
  <2>4. CASE ReadConnectionID \/ Boot \/ Stop \/ BackoffOver \/ Renew \/ CountFailure
    BY <2>4 DEF ReadConnectionID, Boot, Stop, BackoffOver, Renew, CountFailure
  <2>5. CASE CreatePut \/ CreateHandle \/ PresenceOk \/ ListenHangs \/ DialGivesUp
    BY <2>5 DEF CreatePut, CreateHandle, PresenceOk, Continue, ListenHangs,
                DialGivesUp, Returns
  <2>6. CASE PresenceFails \/ CreateFails \/ Settle \/ ServeEnds
    BY <2>6 DEF PresenceFails, CreateFails, Settle, ServeEnds, Continue,
                ReturnsEarly, Returns
  <2>7. CASE PresencePropagates \/ PresenceLapses \/ TokenAges
    BY <2>7 DEF PresencePropagates, PresenceLapses, TokenAges
  <2>8. CASE Shutdown \/ UNCHANGED vars
    BY <2>8 DEF Shutdown, vars
  <2> QED
    BY StepCases, <2>1, <2>2, <2>2w, <2>3, <2>4, <2>5, <2>6, <2>7, <2>8
<1> QED
  BY <1>1, <1>2, <1>3, PTL DEF Spec, NoRenewalLoop

-----------------------------------------------------------------------------
(* Broadcasts: the start of the process.                                   *)

\* What resolveBroadcasts has kept comes from what it has looked at, has a token
\* file, and no two of it share a name.
KeptApart ==
    /\ entries \in Entries /\ account \in [Files -> Accounts]
    /\ next \in Nat /\ next > 0
    /\ kept \subseteq {i \in DOMAIN entries : i < next}
    /\ \A i \in kept : entries[i].file \in Files
    /\ B!NamesApart

\* A broadcast that got past claimXUID owns its account; only one that was
\* started is anywhere else than at rest.
Claimed ==
    /\ DOMAIN startPc = B!Places /\ DOMAIN owners = Accounts
    /\ \A b \in B!Broadcasters :
         startPc[b] \in {"rta", "serving"} => owners[account[B!File(b)]] = b
    /\ process \notin {"up", "exited"} => \A b \in B!Places : startPc[b] = "off"

LEMMA ListShape ==
  /\ MaxExtras \in Nat
  /\ \A e \in Entries : DOMAIN e = 1..Len(e) /\ Len(e) \in Nat /\ Len(e) <= MaxExtras
<1>1. MaxExtras \in Nat
  BY LoopAssumption
<1>2. \A e \in Entries : DOMAIN e = 1..Len(e) /\ Len(e) \in 0..MaxExtras
  BY LoopAssumption
<1> QED
  BY <1>1, <1>2

\* A place in the list is a place of a broadcast, and every broadcast has an
\* account.
LEMMA PlacesKept ==
  ASSUME KeptApart, NEW b \in B!Broadcasters
  PROVE  /\ b \in B!Places /\ b \in Nat /\ b # -1
         /\ account[B!File(b)] \in Accounts
<1>1. \A i \in kept : i \in 1..Len(entries) /\ Len(entries) \in 0..MaxExtras
  BY LoopAssumption DEF KeptApart
<1>2. b = 0 \/ b \in kept
  BY DEF B!Broadcasters
<1>3. B!File(b) \in Files
  BY <1>1, <1>2, LoopAssumption DEF KeptApart, B!File
<1>0. MaxExtras \in Nat
  BY LoopAssumption
<1>4. b \in 0..MaxExtras
  BY <1>0, <1>1, <1>2
<1>5. account[B!File(b)] \in Accounts
  BY <1>3 DEF KeptApart
<1>6. b \in Nat /\ b # -1
  BY <1>0, <1>4
<1> QED
  BY <1>4, <1>5, <1>6 DEF B!Places

LEMMA KeptStep ==
  ASSUME KeptApart, [B!Next]_startVars
  PROVE  KeptApart'
<1>1. CASE B!Resolve
  <2>1. next \in DOMAIN entries /\ next' = next + 1 /\ UNCHANGED <<entries, account>>
    BY <1>1 DEF B!Resolve
  <2>2. next \in 1..Len(entries) /\ entries[next].file \in Files \cup {""}
    BY <2>1, LoopAssumption DEF KeptApart
  <2>3. CASE ~B!Usable(next)
    <3>1. kept' = kept
      BY <1>1, <2>3 DEF B!Resolve
    <3> QED
      BY <2>1, <3>1 DEF KeptApart, B!NamesApart, B!NameOf
  <2>4. CASE B!Usable(next)
    <3>1. kept' = kept \cup {next}
      BY <1>1, <2>4 DEF B!Resolve
    <3>2. entries[next].file \in Files
      BY <2>2, <2>4 DEF B!Usable
    <3>3. \A i : B!NameOf(i)' = B!NameOf(i)
      BY <2>1 DEF B!NameOf
    <3>4. /\ B!NameOf(next) # <<"primary">>
          /\ \A k \in kept : B!NameOf(next) # B!NameOf(k)
      BY <2>4 DEF B!Usable
    <3>5. B!NamesApart'
      BY <3>1, <3>3, <3>4 DEF KeptApart, B!NamesApart
    <3>6. kept' \subseteq {i \in DOMAIN entries' : i < next'} /\ next' \in Nat /\ next' > 0
      <4>1. DOMAIN entries = 1..Len(entries) /\ Len(entries) \in Nat
        BY <2>2, ListShape DEF KeptApart
      <4>2. next \in Nat /\ next > 0 /\ \A i \in kept : i \in DOMAIN entries /\ i < next
        BY DEF KeptApart
      <4>3. \A i \in kept \cup {next} : i \in DOMAIN entries /\ i < next + 1
        BY <2>1, <4>1, <4>2
      <4> QED
        BY <2>1, <3>1, <4>2, <4>3
    <3>7. \A i \in kept' : entries'[i].file \in Files
      BY <2>1, <3>1, <3>2 DEF KeptApart
    <3> QED
      BY <2>1, <3>5, <3>6, <3>7 DEF KeptApart
  <2> QED
    BY <2>3, <2>4
<1>2. CASE UNCHANGED <<entries, account, next, kept>>
  BY <1>2 DEF KeptApart, B!NamesApart, B!NameOf
<1>3. CASE B!SetUp \/ B!StartExtras \/ B!Interrupt \/ UNCHANGED startVars
  BY <1>2, <1>3 DEF B!SetUp, B!StartExtras, B!Interrupt, startVars
<1>4. ASSUME NEW b \in B!Broadcasters, B!Progress(b) \/ B!ClaimXUID(b) \/ B!Ends(b)
      PROVE  KeptApart'
  BY <1>2, <1>4 DEF B!Progress, B!ClaimXUID, B!Ends
<1> QED
  BY <1>1, <1>3, <1>4 DEF B!Next

LEMMA ClaimedStep ==
  ASSUME KeptApart, Claimed, [B!Next]_startVars
  PROVE  Claimed'
<1> DEFINE Owns(b) == startPc[b] \in {"rta", "serving"} => owners[account[B!File(b)]] = b
<1>1. CASE B!SetUp \/ B!Interrupt \/ UNCHANGED startVars
  <2>1. /\ UNCHANGED <<entries, account, kept, startPc, owners>>
        /\ process' \in {"up", "exited"} \/ process \notin {"up", "exited"}
    BY <1>1 DEF B!SetUp, B!Interrupt, startVars
  <2> QED
    BY <2>1 DEF Claimed, B!Broadcasters, B!File
<1>2. CASE B!Resolve
  <2>1. /\ UNCHANGED <<entries, account, process, startPc, owners>>
        /\ process = "extras"
    BY <1>2 DEF B!Resolve
  <2>2. \A b \in B!Places : startPc'[b] = "off"
    BY <2>1 DEF Claimed
  <2>3. next \in B!Places /\ (kept' = kept \/ kept' = kept \cup {next})
    BY <1>2, ListShape DEF B!Resolve, KeptApart, B!Places
  <2>4. \A b \in B!Broadcasters' : b \in B!Places
    BY <2>3, PlacesKept DEF B!Broadcasters
  <2> QED
    BY <2>1, <2>2, <2>4 DEF Claimed
<1>3. CASE B!StartExtras
  <2>1. /\ UNCHANGED <<entries, account, kept, owners>> /\ process' = "up"
        /\ DOMAIN startPc' = B!Places
        /\ \A b \in B!Broadcasters : startPc'[b] \in {"identity", "sign-in"}
    BY <1>3, PlacesKept DEF B!StartExtras, B!Broadcasters
  <2> QED
    BY <2>1 DEF Claimed, B!Broadcasters
<1>4. ASSUME NEW b \in B!Broadcasters, B!Progress(b) \/ B!ClaimXUID(b) \/ B!Ends(b)
      PROVE  Claimed'
  <2>1. b \in B!Places /\ b # -1 /\ account[B!File(b)] \in Accounts
    BY PlacesKept
  <2>2. process = "up" /\ process' \in {"up", "exited"}
    BY <1>4, <2>1 DEF Claimed, B!Progress, B!ClaimXUID, B!Ends, B!Fails, B!Alive
  <2>3. UNCHANGED <<entries, account, kept>>
    BY <1>4 DEF B!Progress, B!ClaimXUID, B!Ends
  <2>4. CASE B!Progress(b) \/ B!Ends(b)
    <3>1. /\ UNCHANGED owners /\ DOMAIN startPc' = B!Places
          /\ \A c \in B!Places \ {b} : startPc'[c] = startPc[c]
          /\ startPc'[b] \in {"rta", "serving"} => startPc[b] \in {"rta", "serving"}
      BY <1>4, <2>1, <2>4 DEF Claimed, B!Progress, B!Ends, B!Fails
    <3>2. \A c \in B!Broadcasters : c \in B!Places
      BY PlacesKept
    <3> QED
      BY <2>1, <2>2, <2>3, <3>1, <3>2 DEF Claimed, B!Broadcasters, B!File
  <2>5. CASE B!ClaimXUID(b)
    <3>1. CASE owners[account[B!File(b)]] = -1
      <4>1. /\ owners' = [owners EXCEPT ![account[B!File(b)]] = b]
            /\ startPc' = [startPc EXCEPT ![b] = "rta"]
        BY <2>5, <3>1 DEF B!ClaimXUID
      <4>2. owners'[account[B!File(b)]] = b
        BY <2>1, <4>1 DEF Claimed
      <4>3. ASSUME NEW c \in B!Broadcasters, c # b, startPc'[c] \in {"rta", "serving"}
            PROVE  owners'[account[B!File(c)]] = c
        <5>1. c \in B!Places /\ c # -1 /\ account[B!File(c)] \in Accounts
          BY PlacesKept
        <5>2. startPc[c] \in {"rta", "serving"}
          BY <4>1, <4>3, <5>1 DEF Claimed
        <5>3. owners[account[B!File(c)]] = c
          BY <5>2 DEF Claimed
        <5> QED
          BY <3>1, <4>1, <5>1, <5>3 DEF Claimed
      <4>4. DOMAIN startPc' = B!Places /\ DOMAIN owners' = Accounts
        BY <4>1 DEF Claimed
      <4> QED
        BY <2>2, <2>3, <4>2, <4>3, <4>4 DEF Claimed, B!Broadcasters, B!File
    <3>2. CASE owners[account[B!File(b)]] # -1
      <4>1. owners' = owners /\ startPc' = [startPc EXCEPT ![b] = "failed"]
        BY <2>5, <3>2 DEF B!ClaimXUID, B!Fails
      <4>2. /\ DOMAIN startPc' = B!Places
            /\ \A c \in B!Places : startPc'[c] \in {"rta", "serving"} =>
                  startPc[c] \in {"rta", "serving"}
        BY <2>1, <4>1 DEF Claimed
      <4>3. \A c \in B!Broadcasters : c \in B!Places
        BY PlacesKept
      <4> QED
        BY <2>2, <2>3, <4>1, <4>2, <4>3 DEF Claimed, B!Broadcasters, B!File
    <3> QED
      BY <3>1, <3>2
  <2> QED
    BY <1>4, <2>4, <2>5
<1> QED
  BY <1>1, <1>2, <1>3, <1>4 DEF B!Next

\* A step of the whole is one of each part, or leaves the part alone.
LEMMA LoopParts ==
  ASSUME [MCNext]_mcVars
  PROVE  [Next]_vars /\ [B!Next]_startVars /\ [T!Next]_cacheVars
<1>1. CASE focus = "loop" /\ Next /\ UNCHANGED <<focus, startVars, cacheVars>>
  BY <1>1
<1>2. CASE focus = "broadcasts" /\ B!Next /\ UNCHANGED <<focus, vars, cacheVars>>
  BY <1>2
<1>3. CASE focus = "tokens" /\ T!Next /\ UNCHANGED <<focus, vars, startVars>>
  BY <1>3
<1>4. CASE UNCHANGED mcVars
  BY <1>4 DEF mcVars
<1> QED
  BY <1>1, <1>2, <1>3, <1>4 DEF MCNext

\* Of the broadcasts in one process, whichever extra_broadcasts are configured
\* and whoever signs in first, no two serve one account and no two go by one
\* name (broadcasts.go:48-83, 103-111).
THEOREM LoopBroadcastsApart == MCSafe => []BroadcastsApart
<1>1. MCInit => KeptApart /\ Claimed
  <2> SUFFICES ASSUME B!Init PROVE KeptApart /\ Claimed
    BY DEF MCInit
  <2>1. KeptApart
    BY DEF B!Init, KeptApart, B!NamesApart
  <2>2. 0 \in B!Places
    BY ListShape DEF B!Places
  <2>3. Claimed
    BY <2>2 DEF B!Init, Claimed, B!Broadcasters
  <2> QED
    BY <2>1, <2>3
<1>2. KeptApart /\ Claimed /\ [MCNext]_mcVars => KeptApart' /\ Claimed'
  BY KeptStep, ClaimedStep, LoopParts
<1>3. KeptApart /\ Claimed => BroadcastsApart
  BY DEF KeptApart, Claimed, BroadcastsApart, B!OneBroadcastPerAccount
<1> QED
  BY <1>1, <1>2, <1>3, PTL DEF MCSafe

-----------------------------------------------------------------------------
(* TokenCache: the tokens of the account.                                  *)

\* Where a caller holds the mutex, and where MCToken has found the token past its
\* time.
UnderMutex == {"mc", "identity", "token", "source", "playfab", "exchange"}
Renewing == UnderMutex \ {"mc"}

\* One caller at a time is in what the mutex guards, so the token that MCToken
\* found past its time stays so until it is exchanged.
OneRenews ==
    /\ DOMAIN cachePc = Callers /\ DOMAIN op = Callers
    /\ clock \in Nat /\ mcToken \in Nat
    /\ \A c \in Callers :
         /\ cachePc[c] \in UnderMutex => mu = c
         /\ op[c] = "mc" /\ cachePc[c] \in Renewing => T!PastExpirationTime(mcToken)

\* A step of caller c that leaves the Minecraft token and the time alone, after
\* which c holds the mutex if it has to, keeps it.
LEMMA OneRenewsStep ==
  ASSUME OneRenews, NEW c \in Callers, NEW l, T!Goto(c, l),
         UNCHANGED <<op, clock, mcToken>>,
         cachePc[c] \in UnderMutex \/ mu = Nobody \/ mu' = mu,
         mu' \in {mu, c, Nobody},
         mu' = Nobody /\ mu # Nobody => cachePc[c] \in UnderMutex,
         l \in UnderMutex => mu' = c,
         op[c] = "mc" /\ l \in Renewing => T!PastExpirationTime(mcToken)
  PROVE  OneRenews'
<1>1. cachePc' = [cachePc EXCEPT ![c] = l]
  BY DEF T!Goto
<1>2. \A d \in Callers \ {c} : cachePc'[d] = cachePc[d]
  BY <1>1
<1>3. cachePc'[c] = l /\ DOMAIN cachePc' = Callers
  BY <1>1 DEF OneRenews
<1>4. ASSUME NEW d \in Callers, cachePc'[d] \in UnderMutex PROVE mu' = d
  BY <1>2, <1>3, <1>4, LoopAssumption DEF OneRenews
<1>5. ASSUME NEW d \in Callers, op'[d] = "mc", cachePc'[d] \in Renewing
      PROVE  T!PastExpirationTime(mcToken)'
  BY <1>2, <1>3, <1>5 DEF OneRenews, T!PastExpirationTime
<1> QED
  BY <1>3, <1>4, <1>5 DEF OneRenews

LEMMA RenewalStep ==
  ASSUME OneRenews, [T!Next]_cacheVars
  PROVE  OneRenews'
<1> USE DEF UnderMutex, Renewing
<1>1. ASSUME NEW c \in Callers, T!Call(c) \/ T!DiscoverOk(c)
      PROVE  OneRenews'
  <2>1. PICK o : /\ op' = [op EXCEPT ![c] = o] /\ cachePc' = [cachePc EXCEPT ![c] = "lock"]
                 /\ UNCHANGED <<mu, mcToken, clock>>
    BY <1>1 DEF T!Call, T!DiscoverOk, T!Goto
  <2> QED
    BY <2>1 DEF OneRenews, T!PastExpirationTime
<1>2. ASSUME NEW c \in Callers, T!Lock(c) PROVE OneRenews'
  <2>1. /\ UNCHANGED <<op, clock, mcToken>> /\ T!Goto(c, T!EntryOf(op[c]))
        /\ mu = Nobody /\ mu' = c
    BY <1>2 DEF T!Lock, T!Enter
  <2>2. op[c] = "mc" => T!EntryOf(op[c]) = "mc"
    BY DEF T!EntryOf
  <2> QED
    BY <2>1, <2>2, OneRenewsStep
<1>3. ASSUME NEW c \in Callers, T!Cache(c) \/ T!DiscoverFails(c) PROVE OneRenews'
  <2>1. UNCHANGED <<op, clock, mcToken, mu>> /\ T!Goto(c, "idle")
    BY <1>3 DEF T!Cache, T!DiscoverFails, T!Fail
  <2> QED
    BY <2>1, OneRenewsStep
<1>4. ASSUME NEW c \in Callers, cachePc[c] \in UnderMutex,
             UNCHANGED <<op, clock, mcToken>>, NEW l,
             T!Leave(c, l) /\ l \notin UnderMutex
      PROVE  OneRenews'
  BY <1>4, OneRenewsStep DEF T!Leave
<1>5. ASSUME NEW c \in Callers, cachePc[c] \in UnderMutex,
             UNCHANGED <<op, clock, mcToken, mu>>, NEW l \in Renewing, T!Goto(c, l),
             op[c] = "mc" => T!PastExpirationTime(mcToken)
      PROVE  OneRenews'
  BY <1>5, OneRenewsStep DEF OneRenews
<1>6. ASSUME NEW c \in Callers, T!CheckMC(c) PROVE OneRenews'
  <2>1. /\ cachePc[c] = "mc" /\ UNCHANGED <<op, clock, mcToken>>
        /\ \/ T!PastExpirationTime(mcToken) /\ T!Goto(c, "identity") /\ UNCHANGED mu
           \/ T!Leave(c, "idle")
    BY <1>6 DEF T!CheckMC, T!PastExpirationTime, OneRenews
  <2> QED
    BY <1>4, <1>5, <2>1
<1>7. ASSUME NEW c \in Callers, T!CheckIdentity(c) PROVE OneRenews'
  <2>1. /\ cachePc[c] = "identity" /\ UNCHANGED <<op, clock, mcToken>>
        /\ \/ UNCHANGED <<mu, cachePc>>
           \/ T!Goto(c, "token") /\ UNCHANGED mu
           \/ T!Goto(c, "exchange") /\ UNCHANGED mu
           \/ T!Leave(c, "idle")
    BY <1>7 DEF T!CheckIdentity
  <2>2. CASE UNCHANGED <<mu, cachePc>>
    BY <2>1, <2>2 DEF OneRenews, T!PastExpirationTime
  <2>3. op[c] = "mc" => T!PastExpirationTime(mcToken)
    BY <2>1 DEF OneRenews
  <2> QED
    BY <1>4, <1>5, <2>1, <2>2, <2>3
<1>8. ASSUME NEW c \in Callers, T!ExchangeOk(c) PROVE OneRenews'
  <2>1. /\ cachePc[c] = "exchange" /\ mcToken' = clock + McLife /\ mu' = Nobody
        /\ UNCHANGED <<op, clock>> /\ cachePc' = [cachePc EXCEPT ![c] = "idle"]
    BY <1>8 DEF T!ExchangeOk, T!Leave, T!Goto
  <2>2. \A d \in Callers : cachePc'[d] \notin UnderMutex
    BY <2>1 DEF OneRenews
  <2>3. McLife \in Nat
    BY LoopAssumption
  <2>4. mcToken' \in Nat
    BY <2>1, <2>3 DEF OneRenews
  <2> QED
    BY <2>1, <2>2, <2>4 DEF OneRenews
<1>9. ASSUME NEW c \in Callers,
             T!ExchangeFails(c) \/ T!SourceFails(c) \/ T!PlayfabFails(c)
      PROVE  OneRenews'
  <2>1. /\ cachePc[c] \in UnderMutex /\ UNCHANGED <<op, clock, mcToken>>
        /\ T!Leave(c, "idle")
    BY <1>9 DEF T!ExchangeFails, T!SourceFails, T!PlayfabFails, T!Fail
  <2> QED
    BY <1>4, <2>1
<1>10. ASSUME NEW c \in Callers, T!TokenLocked(c) \/ T!SourceOk(c) \/ T!PlayfabOk(c)
       PROVE  OneRenews'
  <2>1. /\ cachePc[c] \in Renewing /\ UNCHANGED <<op, clock, mcToken>>
        /\ \/ T!Leave(c, "discover") \/ T!Leave(c, "cache") \/ T!Leave(c, "idle")
           \/ \E l \in Renewing : T!Goto(c, l) /\ UNCHANGED mu
    BY <1>10 DEF T!TokenLocked, T!SourceOk, T!PlayfabOk, T!HasToken
  <2>2. op[c] = "mc" => T!PastExpirationTime(mcToken)
    BY <2>1 DEF OneRenews
  <2> QED
    BY <1>4, <1>5, <2>1, <2>2
<1>11. CASE T!Tick
  BY <1>11 DEF T!Tick, OneRenews, T!PastExpirationTime
<1>12. CASE UNCHANGED cacheVars
  BY <1>12 DEF cacheVars, OneRenews, T!PastExpirationTime
<1> QED
  BY <1>1, <1>2, <1>3, <1>6, <1>7, <1>8, <1>9, <1>10, <1>11, <1>12
     DEF T!Next, T!Work, T!Answer

\* However many goroutines find the Minecraft token past its time, it is exchanged
\* once, and a failed refresh leaves the last one in place
\* (session/session.go: MCToken, obtainMcTokenLocked).
THEOREM LoopTokensSpared == MCSafe => TokensSpared
<1>1. MCInit => OneRenews
  BY DEF MCInit, T!Init, OneRenews, UnderMutex, Renewing
<1>2. OneRenews /\ [MCNext]_mcVars => OneRenews'
  BY RenewalStep, LoopParts
<1>3. ASSUME OneRenews, [T!Next]_cacheVars, mcToken' # mcToken
      PROVE  \E c \in Callers : T!ExchangeOk(c)
  BY <1>3 DEF T!Next, T!Work, T!Answer, T!Call, T!DiscoverOk, T!Lock, T!Enter,
       T!Cache, T!DiscoverFails, T!CheckMC, T!CheckIdentity, T!ExchangeFails,
       T!SourceFails, T!PlayfabFails, T!TokenLocked, T!SourceOk, T!PlayfabOk,
       T!Tick, cacheVars
<1>4. OneRenews /\ [MCNext]_mcVars =>
        [\A c \in Callers : op[c] = "mc" /\ cachePc[c] = "exchange" /\ mcToken' # mcToken
            => T!PastExpirationTime(mcToken)]_T!tokenVars
  BY DEF OneRenews, Renewing, UnderMutex
<1>5. OneRenews /\ [MCNext]_mcVars => [mcToken # 0 => mcToken' # 0]_T!tokenVars
  <2>1. ASSUME OneRenews, [MCNext]_mcVars, mcToken # 0 PROVE mcToken' # 0
    <3>1. CASE mcToken' = mcToken
      BY <2>1, <3>1
    <3>2. CASE mcToken' # mcToken
      <4>1. PICK c \in Callers : T!ExchangeOk(c)
        BY <1>3, <2>1, <3>2, LoopParts
      <4>2. McLife \in Nat \ {0}
        BY LoopAssumption
      <4> QED
        BY <2>1, <4>1, <4>2 DEF T!ExchangeOk, OneRenews
    <3> QED
      BY <3>1, <3>2
  <2> QED
    BY <2>1
<1> QED
  BY <1>1, <1>2, <1>4, <1>5, PTL
     DEF MCSafe, TokensSpared, T!NoNeedlessExchange, T!McTokenKept
=============================================================================
