---------------------------- MODULE SessionProofs ----------------------------
(***************************************************************************)
(* Proofs about a session that is up: SessionDocument, for any players,    *)
(* any number of joins, world-info changes and RTA drops; PlayerCount, for *)
(* any broadcasts and settings; ScrapeVisit, for any worlds and faults.    *)
(***************************************************************************)
EXTENDS MCSession, TLAPS

USE DocumentAssumption
USE DEF localVars, rtaVars, memberVars

\* Refreshing gives every player the nonce of the connection fetched for them,
\* and none to those who are gone (xbl/session.go:428-444).
LEMMA RefreshedIsSnapshot ==
  ASSUME NEW x \in Members
  PROVE  RefreshedNonce(x) = snap[x]
BY DEF RefreshedNonce, NeedsNonce

\* A request built from the local state is a well-formed one.
LEMMA BuiltRequest ==
  ASSUME TypeOK, NEW r \in 0..MaxRev, NEW n \in [Members -> Connection],
         NEW c \in RtaConnection
  PROVE  /\ BuildRequest(r, n) \in Request
         /\ [BuildRequest(r, n) EXCEPT !.conn = c] \in Request
BY DEF TypeOK, BuildRequest, Request

\* The parts of the state keep their shape; in particular a document is only
\* ever replaced by a whole request.
THEOREM DocumentType == Spec => []TypeOK
<1>1. Init => TypeOK
  BY DEF Init, TypeOK, Request, Connection, RtaConnection, Writers
<1>2. TypeOK /\ [Next]_vars => TypeOK'
  <2> SUFFICES ASSUME TypeOK, [Next]_vars PROVE TypeOK'
    OBVIOUS
  <2>1. ASSUME NEW x \in Members, Joins(x) PROVE TypeOK'
    BY <2>1 DEF TypeOK, Joins, MemberChanges, Connection
  <2>2. ASSUME NEW x \in Members, Leaves(x) PROVE TypeOK'
    BY <2>2 DEF TypeOK, Leaves, MemberChanges, Connection
  <2>3. ASSUME NEW w \in Writers, PutEnds(w) PROVE TypeOK'
    BY <2>3 DEF TypeOK, PutEnds, PutLands, PutFails, Answered, Writers
  <2>4. CASE RtaDrops
    BY <2>4 DEF TypeOK, RtaDrops, Unseen, Outdated
  <2>5. CASE Create
    <3>1. BuildRequest(rev, nonces) \in Request
      BY BuiltRequest DEF TypeOK
    <3> QED
      BY <2>5, <3>1 DEF TypeOK, Create, Sends, Writers
  <2>6. CASE CreateHandle
    BY <2>6 DEF TypeOK, CreateHandle
  <2>7. CASE Tick
    <3>1. rev' \in 0..MaxRev
      BY <2>7 DEF Tick
    <3>2. BuildRequest(rev', nonces) \in Request
      BY <3>1, BuiltRequest DEF TypeOK
    <3> QED
      BY <2>7, <3>1, <3>2 DEF TypeOK, Tick, Sends, Writers
  <2>8. CASE SessionChanged \/ GetMembers
    BY <2>8 DEF TypeOK, SessionChanged, GetMembers
  <2>9. CASE GetFails
    BY <2>9 DEF TypeOK, GetFails, Outdated
  <2>10. CASE RefreshNonces
    <3>1. nonces' \in [Members -> Connection]
      BY <2>10, RefreshedIsSnapshot DEF TypeOK, RefreshNonces
    <3>2. BuildRequest(rev, nonces') \in Request
      BY <3>1, BuiltRequest DEF TypeOK
    <3> QED
      BY <2>10, <3>1, <3>2 DEF TypeOK, RefreshNonces, Sends, Writers
  <2>11. CASE RtaReconnects
    <3>1. conn' = rtaConn' /\ rtaConn' \in RtaConnection
      BY <2>11 DEF TypeOK, RtaReconnects, SetConnectionID, RtaConnection
    <3>2. [BuildRequest(rev, nonces) EXCEPT !.conn = conn'] \in Request
      BY <3>1, BuiltRequest DEF TypeOK
    <3> QED
      BY <2>11, <3>1, <3>2 DEF TypeOK, RtaReconnects, Sends, Writers
  <2>12. CASE UNCHANGED vars
    BY <2>12 DEF TypeOK, vars
  <2> QED
    BY <2>1, <2>2, <2>3, <2>4, <2>5, <2>6, <2>7, <2>8, <2>9, <2>10, <2>11, <2>12
       DEF Next, RtaStep
<1> QED
  BY <1>1, <1>2, PTL DEF Spec

-----------------------------------------------------------------------------
\* What the RTA goroutine owes each player: their nonce is right, or a change
\* of theirs is still to be read, or a refresh is under way that will see it;
\* and the goroutine has a request on its way only while it waits for it.
Owed ==
    /\ \A x \in Members :
          \/ work # "apply" /\ nonces[x] = member[x]
          \/ x \in missed
          \/ notify > 0
          \/ work = "get"
          \/ work = "apply" /\ snap[x] = member[x]
    /\ flight["rta"] # NoRequest => work \in {"push", "reconcile"}

\* Every step keeps what a handler of the RTA goroutine still owes the nonces: a
\* difference from the member list has an event, a fetch or a loss behind it
\* (xbl/session.go:382-451).
LEMMA OwedStep ==
  ASSUME TypeOK, Owed, [Next]_vars
  PROVE  Owed'
<1> USE DEF Owed
<1>1. ASSUME NEW x \in Members, Joins(x) \/ Leaves(x) PROVE Owed'
  BY <1>1 DEF TypeOK, Joins, Leaves, MemberChanges
<1>2. ASSUME NEW w \in Writers, PutEnds(w) PROVE Owed'
  BY <1>2 DEF TypeOK, PutEnds, PutLands, PutFails, Answered, Writers
<1>3. CASE RtaDrops
  BY <1>3 DEF TypeOK, RtaDrops, Unseen, Outdated
<1>4. CASE Create \/ Tick \/ CreateHandle
  BY <1>4 DEF TypeOK, Create, Tick, CreateHandle, Sends, Writers
<1>5. CASE SessionChanged \/ GetMembers
  BY <1>5 DEF TypeOK, SessionChanged, GetMembers
<1>6. CASE GetFails
  BY <1>6 DEF TypeOK, GetFails, Outdated
<1>7. CASE RefreshNonces
  <2>1. nonces' = snap
    BY <1>7, RefreshedIsSnapshot DEF TypeOK, RefreshNonces
  <2>2. \A x \in Members : nonces'[x] = member'[x] \/ x \in missed' \/ notify' > 0
    <3> SUFFICES ASSUME NEW x \in Members, x \notin missed', ~(notify' > 0)
                 PROVE  nonces'[x] = member'[x]
      OBVIOUS
    <3>1. UNCHANGED <<member, notify>>
      BY <1>7 DEF RefreshNonces
    <3>2. missed' = {y \in missed : snap[y] # member[y]}
      BY <1>7 DEF RefreshNonces
    <3>3. work = "apply"
      BY <1>7 DEF RefreshNonces
    <3>4. snap[x] = member[x]
      BY <3>1, <3>2, <3>3
    <3> QED
      BY <2>1, <3>1, <3>4
  <2>3. flight["rta"] = NoRequest
    BY <1>7 DEF RefreshNonces
  <2>4. CASE nonces' # nonces
    BY <1>7, <2>2, <2>4 DEF RefreshNonces
  <2>5. CASE nonces' = nonces
    BY <1>7, <2>2, <2>3, <2>5 DEF RefreshNonces
  <2> QED
    BY <2>4, <2>5
<1>8. CASE RtaReconnects
  BY <1>8 DEF TypeOK, RtaReconnects, Sends, Writers
<1>9. CASE UNCHANGED vars
  BY <1>9 DEF vars
<1> QED
  BY <1>1, <1>2, <1>3, <1>4, <1>5, <1>6, <1>7, <1>8, <1>9 DEF Next, RtaStep

\* When every event was read and handled, the nonces are those of the members'
\* current connections, except where an event was lost (xbl/session.go:382-451).
THEOREM DocumentNoncesCurrent == Spec => []NoncesCurrent
<1>1. Init => Owed
  BY DEF Init, Owed, Writers
<1>2. TypeOK /\ Owed /\ [Next]_vars => Owed'
  BY OwedStep
<1>3. TypeOK /\ Owed => NoncesCurrent
  BY DEF Owed, NoncesCurrent, Outdated, TypeOK
<1> QED
  BY <1>1, <1>2, <1>3, DocumentType, PTL DEF Spec

-----------------------------------------------------------------------------
(* The parts of a session.                                                 *)

\* A step of the whole is one of each part, or leaves the part alone.
LEMMA SessionParts ==
  ASSUME [MCNext]_mcVars
  PROVE  [Next]_vars /\ [P!Next]_countVars /\ [V!Next]_visitVars
<1>1. CASE focus = "document" /\ Next /\ UNCHANGED <<focus, countVars, visitVars>>
  BY <1>1
<1>2. CASE focus = "count" /\ P!Next /\ UNCHANGED <<focus, vars, visitVars>>
  BY <1>2
<1>3. CASE focus = "visit" /\ V!Next /\ UNCHANGED <<focus, vars, countVars>>
  BY <1>3
<1>4. CASE UNCHANGED mcVars
  BY <1>4 DEF mcVars
<1> QED
  BY <1>1, <1>2, <1>3, <1>4 DEF MCNext

-----------------------------------------------------------------------------
(* ScrapeVisit.                                                            *)

\* Until a visit has joined, and once it has returned, the account is a member
\* only where it went astray; in between, of the world it visits too.  What is
\* open is what the stage of the visit will close.
VisitInv ==
    /\ pc \in V!Stages => visitMember \ {V!World} \subseteq astray
    /\ pc \notin V!Stages \/ pc \in {"connection", "join"} => visitMember \subseteq astray
    /\ sig => pc \in {"dial", "spawn", "record", "close"}
    /\ visitConn => pc \in {"spawn", "record", "close"}
    /\ visitRta => pc \in V!Stages

LEMMA VisitStep ==
  ASSUME VisitInv, [V!Next]_visitVars
  PROVE  VisitInv'
<1> USE DEF VisitInv, V!Stages, V!World, V!open, V!xbox
<1>1. CASE V!ListWorlds \/ V!NextWorld \/ V!RoundOver \/ V!Pause
  BY <1>1 DEF V!ListWorlds, V!NextWorld, V!RoundOver, V!Pause
<1>2. CASE V!Connection \/ V!JoinSession \/ V!JoinFails
  BY <1>2 DEF V!Connection, V!JoinSession, V!JoinFails, V!Return
<1>3. CASE V!WaitNonce \/ V!Record \/ V!Close
  BY <1>3 DEF V!WaitNonce, V!Record, V!Close
<1>4. CASE V!DialSignaling \/ V!DialGame \/ V!Spawn
  BY <1>4 DEF V!DialSignaling, V!DialGame, V!Spawn, V!Dial
<1>5. CASE V!Leave
  BY <1>5 DEF V!Leave, V!Return
<1>6. CASE V!Interrupt \/ V!Drop \/ UNCHANGED visitVars
  BY <1>6 DEF V!Interrupt, V!Drop, visitVars
<1>7. ASSUME NEW w \in Worlds, V!Issue(w) \/ V!Expire(w) PROVE VisitInv'
  BY <1>7 DEF V!Issue, V!Expire
<1> QED
  BY <1>1, <1>2, <1>3, <1>4, <1>5, <1>6, <1>7 DEF V!Next, V!Step

\* Whatever fails, and wherever a signal meets it, the scraper leaves every
\* session it joined and closes what it opened
\* (cmd/scraper/scraper_friend.go: scrapeWorld).
THEOREM SessionVisitLeaves == MCSafe => []NothingLeftBehind
<1>1. MCInit => VisitInv
  BY DEF MCInit, V!Init, VisitInv, V!Stages
<1>2. VisitInv /\ [MCNext]_mcVars => VisitInv'
  BY VisitStep, SessionParts
<1>3. VisitInv => NothingLeftBehind
  BY DEF VisitInv, NothingLeftBehind, V!NothingLeftBehind, V!Stages
<1> QED
  BY <1>1, <1>2, <1>3, PTL DEF MCSafe

-----------------------------------------------------------------------------
(* PlayerCount.                                                            *)

\* The greater and the lesser of two numbers.
LEMMA MaxOfTwo ==
  ASSUME NEW a \in Int, NEW b \in Int
  PROVE  P!Max({a, b}) = IF a >= b THEN a ELSE b
<1>1. \E x \in {a, b} : \A y \in {a, b} : x >= y
  OBVIOUS
<1>2. P!Max({a, b}) \in {a, b} /\ \A y \in {a, b} : P!Max({a, b}) >= y
  BY <1>1, Zenon DEF P!Max
<1> QED
  BY <1>2

LEMMA MinOfTwo ==
  ASSUME NEW a \in Int, NEW b \in Int
  PROVE  P!Min({a, b}) = IF a <= b THEN a ELSE b
<1>1. \E x \in {a, b} : \A y \in {a, b} : x <= y
  OBVIOUS
<1>2. P!Min({a, b}) \in {a, b} /\ \A y \in {a, b} : P!Min({a, b}) <= y
  BY <1>1, Zenon DEF P!Min
<1> QED
  BY <1>2

\* clamp stays in its range (drift.go:112-126).
LEMMA ClampInRange ==
  ASSUME NEW n \in Int, NEW lo \in Int, NEW hi \in Int, lo <= hi
  PROVE  P!Clamp(n, lo, hi) \in lo..hi
<1>1. P!Max({n, lo}) \in Int /\ P!Max({n, lo}) >= lo
  BY MaxOfTwo
<1> QED
  BY <1>1, MinOfTwo DEF P!Clamp

\* However fake_player_drift and max_players are set, the range of the drift is
\* not empty, begins at 1 or above and leaves room (drift.go:47-58).
LEMMA DriftRange ==
  ASSUME cfg \in Configs, P!Drifts
  PROVE  /\ P!DriftMin \in Int /\ P!DriftMax \in Int
         /\ 1 <= P!DriftMin /\ P!DriftMin <= P!DriftMax
         /\ cfg.maxPlayers > 1 => P!DriftMax < cfg.maxPlayers
<1>1. cfg.driftMin \in Int /\ cfg.driftMax \in Int /\ cfg.maxPlayers \in Int
  BY SessionAssumption
<1>2. /\ P!DriftMax \in Int /\ P!DriftMax >= 1
      /\ cfg.maxPlayers > 1 => P!DriftMax < cfg.maxPlayers
  BY <1>1 DEF P!DriftMax, P!Drifts
<1>3. P!Max({cfg.driftMin, 1}) \in Int /\ P!Max({cfg.driftMin, 1}) >= 1
  BY <1>1, MaxOfTwo
<1>4. P!DriftMin \in Int /\ 1 <= P!DriftMin /\ P!DriftMin <= P!DriftMax
  BY <1>2, <1>3, MinOfTwo DEF P!DriftMin
<1> QED
  BY <1>2, <1>4

\* A count that is being written shows somebody and, if it drifts, leaves room.
Joinable(n) == n \in Int /\ n >= 1 /\ (P!Drifts /\ cfg.maxPlayers > 1 => n < cfg.maxPlayers)

\* The drifting count is in its range, what was read is a number, and there was
\* at most one move per interval up to the last one.
CountInv ==
    /\ cfg \in Configs /\ realPlayers \in Int
    /\ DOMAIN state = Broadcasts /\ DOMAIN put = Broadcasts
    /\ fetched \in [Broadcasts -> Int] /\ backend \in Int
    /\ value \in Int /\ (P!Drifts => value \in P!DriftMin..P!DriftMax)
    /\ time \in Nat /\ last \in Nat /\ moved \in Nat /\ moved <= last /\ last <= time
    /\ \A b \in Broadcasts : state[b] \in {"creating", "updating"} => Joinable(put[b])

\* Current keeps the count in its range and its pace.
LEMMA DriftKeepsRange ==
  ASSUME CountInv, P!Drifts, P!Drift, UNCHANGED <<cfg, time>>
  PROVE  /\ value' \in Int /\ value' \in P!DriftMin..P!DriftMax /\ Joinable(value')
         /\ last' \in Nat /\ moved' \in Nat /\ moved' <= last' /\ last' <= time
<1>1. cfg \in Configs
  BY DEF CountInv
<1>2. PICK v \in Int : value' = P!Clamp(v, P!DriftMin, P!DriftMax)
  BY DEF P!Drift, P!Reachable
<1>3. value' \in P!DriftMin..P!DriftMax
  BY <1>1, <1>2, DriftRange, ClampInRange
<1>4. value' \in Int /\ Joinable(value')
  BY <1>1, <1>3, DriftRange, SessionAssumption DEF Joinable
<1>5. /\ P!MovesDue = IF time - last <= Moves THEN time - last ELSE Moves
      /\ Moves \in Nat
  BY MinOfTwo, SessionAssumption DEF P!MovesDue, CountInv
<1>6. last' \in Nat /\ moved' \in Nat /\ moved' <= last' /\ last' <= time
  BY <1>5 DEF P!Drift, CountInv
<1> QED
  BY <1>3, <1>4, <1>6

\* advertisedPlayers puts a count that may be shown into the update.
LEMMA AdvertiseJoinable ==
  ASSUME CountInv, NEW b \in Broadcasts, P!Advertise(b), UNCHANGED <<cfg, time>>
  PROVE  /\ \E n : put' = [put EXCEPT ![b] = n] /\ Joinable(n)
         /\ value' \in Int /\ (P!Drifts => value' \in P!DriftMin..P!DriftMax)
         /\ last' \in Nat /\ moved' \in Nat /\ moved' <= last' /\ last' <= time
<1>1. CASE P!Drifts
  <2>1. P!Drift /\ put' = [put EXCEPT ![b] = value']
    BY <1>1 DEF P!Advertise
  <2> QED
    BY <1>1, <2>1, DriftKeepsRange
<1>2. CASE ~P!Drifts
  <2>1. cfg.fake \in Int
    BY SessionAssumption DEF CountInv
  <2>2. P!RealCount \in Int /\ P!RealCount >= 1
    BY MaxOfTwo DEF P!RealCount, CountInv
  <2>3. UNCHANGED <<last, value, moved>>
    BY <1>2 DEF P!Advertise, P!driftVars
  <2>4. \E n : put' = [put EXCEPT ![b] = n] /\ Joinable(n)
    BY <1>2, <2>1, <2>2 DEF P!Advertise, Joinable
  <2> QED
    BY <1>2, <2>3, <2>4 DEF CountInv
<1> QED
  BY <1>1, <1>2

LEMMA CountStep ==
  ASSUME CountInv, [P!Next]_countVars
  PROVE  CountInv'
<1>1. ASSUME NEW n \in 0..MaxReal, P!BackendChanges(n) PROVE CountInv'
  BY <1>1 DEF P!BackendChanges, P!driftVars, CountInv, Joinable, P!Drifts,
       P!DriftMin, P!DriftMax
<1>2. CASE P!IntervalPasses
  BY <1>2 DEF P!IntervalPasses, P!driftVars, CountInv, Joinable, P!Drifts,
       P!DriftMin, P!DriftMax
<1>3. ASSUME NEW b \in Broadcasts,
             P!FirstFetch(b) \/ P!Poll(b) \/ P!Swap(b) \/ P!UpdateLands(b)
               \/ P!UpdateFails(b) \/ P!SessionEnds(b)
      PROVE  CountInv'
  <2>1. UNCHANGED <<cfg, backend, time, last, value, moved>>
    BY <1>3 DEF P!FirstFetch, P!Poll, P!Swap, P!UpdateLands, P!UpdateFails,
         P!SessionEnds, P!driftVars
  <2>2. realPlayers' \in Int /\ fetched' \in [Broadcasts -> Int]
    BY <1>3 DEF P!FirstFetch, P!Poll, P!Swap, P!UpdateLands, P!UpdateFails,
         P!SessionEnds, CountInv
  <2>3. \E l \in {"first", "make", "polled", "push", "live", "off"} :
           state' = [state EXCEPT ![b] = l]
    BY <1>3 DEF P!FirstFetch, P!Poll, P!Swap, P!UpdateLands, P!UpdateFails,
         P!SessionEnds, P!Goto
  <2>4. /\ DOMAIN put' = Broadcasts
        /\ \A c \in Broadcasts \ {b} : put'[c] = put[c]
    BY <1>3 DEF P!FirstFetch, P!Poll, P!Swap, P!UpdateLands, P!UpdateFails,
         P!SessionEnds, CountInv
  <2>5. /\ DOMAIN state' = Broadcasts
        /\ \A c \in Broadcasts : state'[c] \in {"creating", "updating"} =>
              c # b /\ state[c] = state'[c]
    BY <2>3 DEF CountInv
  <2>6. \A c \in Broadcasts : state'[c] \in {"creating", "updating"} => Joinable(put[c])'
    BY <2>1, <2>4, <2>5 DEF CountInv, Joinable, P!Drifts
  <2> QED
    BY <2>1, <2>2, <2>4, <2>5, <2>6 DEF CountInv, P!Drifts, P!DriftMin, P!DriftMax
<1>4. ASSUME NEW b \in Broadcasts, P!MakeUpdate(b) \/ P!Tick(b) PROVE CountInv'
  <2>1. UNCHANGED <<cfg, backend, time, realPlayers, fetched>> /\ P!Advertise(b)
    BY <1>4 DEF P!MakeUpdate, P!Tick
  <2>2. \E l : state' = [state EXCEPT ![b] = l]
    BY <1>4 DEF P!MakeUpdate, P!Tick, P!Goto
  <2>3. PICK n : put' = [put EXCEPT ![b] = n] /\ Joinable(n)
    BY <2>1, AdvertiseJoinable
  <2>4. /\ value' \in Int /\ (P!Drifts => value' \in P!DriftMin..P!DriftMax)
        /\ last' \in Nat /\ moved' \in Nat /\ moved' <= last' /\ last' <= time
    BY <2>1, AdvertiseJoinable
  <2>5. DOMAIN state' = Broadcasts /\ DOMAIN put' = Broadcasts
    BY <2>2, <2>3 DEF CountInv
  <2>6. ASSUME NEW c \in Broadcasts, state'[c] \in {"creating", "updating"}
        PROVE  Joinable(put[c])'
    <3>1. CASE c = b
      BY <2>1, <2>3, <3>1 DEF CountInv, Joinable, P!Drifts
    <3>2. CASE c # b
      BY <2>1, <2>2, <2>3, <2>6, <3>2 DEF CountInv, Joinable, P!Drifts
    <3> QED
      BY <3>1, <3>2
  <2> QED
    BY <2>1, <2>4, <2>5, <2>6 DEF CountInv, P!Drifts, P!DriftMin, P!DriftMax
<1>5. CASE UNCHANGED countVars
  BY <1>5 DEF countVars, CountInv, Joinable, P!Drifts, P!DriftMin, P!DriftMax
<1> QED
  BY <1>1, <1>2, <1>3, <1>4, <1>5 DEF P!Next, P!Step

\* Whatever the settings, every document shows at least one player and, with a
\* drifting count, room for more; and however many broadcasts read it, the
\* count moves at most once per interval (drift.go:28-126, main.go:496-529).
THEOREM SessionAdvertisedCount == MCSafe => []AdvertisedCount
<1>1. MCInit => CountInv
  <2> SUFFICES ASSUME P!Init, MaxReal \in Int PROVE CountInv
    BY SessionAssumption DEF MCInit
  <2>1. /\ cfg \in Configs /\ backend \in Int /\ realPlayers \in Int
        /\ DOMAIN state = Broadcasts /\ DOMAIN put = Broadcasts
        /\ fetched \in [Broadcasts -> Int]
        /\ time = 0 /\ last = 0 /\ moved = 0
        /\ \A b \in Broadcasts : state[b] = "off"
    BY DEF P!Init
  <2>2. value \in Int /\ (P!Drifts => value \in P!DriftMin..P!DriftMax)
    <3>1. CASE ~P!Drifts
      BY <3>1 DEF P!Init
    <3>2. CASE P!Drifts
      <4>1. cfg.fake \in Int
        BY <2>1, SessionAssumption
      <4>2. value = P!DriftStart
        BY <3>2 DEF P!Init
      <4>3. CASE cfg.fake > 0
        BY <2>1, <3>2, <4>1, <4>2, <4>3, DriftRange, ClampInRange DEF P!DriftStart
      <4>4. CASE ~(cfg.fake > 0)
        <5>1. value = (P!DriftMin + P!DriftMax) \div 2
          BY <4>2, <4>4 DEF P!DriftStart
        <5> QED
          BY <2>1, <3>2, <5>1, DriftRange
      <4> QED
        BY <4>3, <4>4
    <3> QED
      BY <3>1, <3>2
  <2> QED
    BY <2>1, <2>2 DEF CountInv
<1>2. CountInv /\ [MCNext]_mcVars => CountInv'
  BY CountStep, SessionParts
<1>3. CountInv => AdvertisedCount
  BY DEF CountInv, Joinable, AdvertisedCount, P!CountJoinable, P!DriftPace
<1> QED
  BY <1>1, <1>2, <1>3, PTL DEF MCSafe
=============================================================================
