------------------------- MODULE SignalBrokerProofs -------------------------
(***************************************************************************)
(* SignalBroker's invariants, for any number of offers and keys and any    *)
(* limits.                                                                 *)
(***************************************************************************)
EXTENDS SignalBroker, FiniteSetTheorems, TLAPS

\* Every step keeps the variables in their types: in particular the candidates
\* kept for an offer never exceed maxCandidates (norelay.go:198).
THEOREM BrokerType == Spec => []TypeOK
<1>1. Init => TypeOK
  BY BrokerAssumption DEF Init, TypeOK, Phases, Identities, Outcomes, Off
<1>2. TypeOK /\ [Next]_vars => TypeOK'
  <2> SUFFICES ASSUME TypeOK, [Next]_vars PROVE TypeOK'
    OBVIOUS
  <2> USE BrokerAssumption DEF TypeOK, Phases, Held, Forwarding
  <2>1. CASE Subscribe \/ Unsubscribe \/ SignalingDies
    BY <2>1 DEF Subscribe, Unsubscribe, SignalingDies, offerVars
  <2>2. CASE Tick
    BY <2>2 DEF Tick, Off
  <2>3. ASSUME NEW k \in Keys, Candidate(k) PROVE TypeOK'
    BY <2>3 DEF Candidate, HasRoom, ArmWait
  <2>4. ASSUME NEW k \in Keys, ClientError(k) PROVE TypeOK'
    BY <2>4 DEF ClientError, Off
  <2>5. ASSUME NEW o \in Offers, OfferRefused(o) PROVE TypeOK'
    BY <2>5 DEF OfferRefused
  <2>6. ASSUME NEW o \in Offers, OfferAccepted(o) PROVE TypeOK'
    BY <2>6 DEF OfferAccepted, ArmWait
  <2>7. ASSUME NEW o \in Offers, TimerStep(o) PROVE TypeOK'
    BY <2>7 DEF TimerStep, TimerFires, ForwardStarts, Off
  <2>8. ASSUME NEW o \in Offers, Verify(o) PROVE TypeOK'
    BY <2>8 DEF Verify, Identities
  <2>9. ASSUME NEW o \in Offers, Post(o) PROVE TypeOK'
    BY <2>9 DEF Post
  <2>10. ASSUME NEW o \in Offers, Answer(o) \/ Fail(o) PROVE TypeOK'
    BY <2>10 DEF Answer, Fail, SendSignal, Outcomes
  <2>11. ASSUME NEW o \in Offers, Join(o) \/ ReleaseSlot(o) PROVE TypeOK'
    BY <2>11 DEF Join, ReleaseSlot
  <2>12. CASE UNCHANGED vars
    BY <2>12 DEF vars, offerVars
  <2>13. QED
    BY <2>1, <2>2, <2>3, <2>4, <2>5, <2>6, <2>7, <2>8, <2>9, <2>10, <2>11,
       <2>12 DEF Next, ForwardStep
<1>3. QED
  BY <1>1, <1>2, PTL DEF Spec

-----------------------------------------------------------------------------
\* The wait arm chooses is never negative and never passes the deadline while
\* the deadline is ahead (norelay.go:231-238).
LEMMA ArmWaitBound ==
  ASSUME NEW l \in Int
  PROVE  ArmWait(l) \in Nat /\ (l >= 0 => ArmWait(l) \in 0..l)
BY BrokerAssumption DEF ArmWait

\* A step of forward moves its own offer from one forwarding phase to another,
\* or to the end, and leaves what NotifySignal and the timers keep alone.
LEMMA ForwardStepEffect ==
  ASSUME TypeOK, NEW o \in Offers, ForwardStep(o)
  PROVE  /\ phase[o] \in Forwarding
         /\ phase'[o] \in Forwarding \cup {"finished"}
         /\ \A p \in Offers \ {o} : phase'[p] = phase[p]
         /\ UNCHANGED <<pending, key, left, timer, waiting>>
<1> USE DEF TypeOK, Forwarding
<1>1. CASE Verify(o)
  BY <1>1 DEF Verify
<1>2. CASE Post(o)
  BY <1>2 DEF Post
<1>3. CASE Answer(o) \/ Fail(o)
  BY <1>3 DEF Answer, Fail, SendSignal
<1>4. CASE Join(o) \/ ReleaseSlot(o)
  BY <1>4 DEF Join, ReleaseSlot
<1>5. QED
  BY <1>1, <1>2, <1>3, <1>4 DEF ForwardStep

\* The pending map and the gathering offers stay in step through every race of
\* timers, candidates, client errors and reused keys.
LEMMA CoherentStep ==
  TypeOK /\ PendingCoherent /\ [Next]_vars => PendingCoherent'
<1> SUFFICES ASSUME TypeOK, PendingCoherent, [Next]_vars PROVE PendingCoherent'
  OBVIOUS
<1> USE BrokerAssumption DEF TypeOK, PendingCoherent
<1>1. CASE Subscribe \/ Unsubscribe \/ SignalingDies
  BY <1>1 DEF Subscribe, Unsubscribe, SignalingDies, offerVars
<1>2. CASE Tick
  <2>1. ASSUME NEW o \in Offers, phase[o] = "gathering"
        PROVE  /\ left'[o] = left[o] - 1 /\ timer'[o] = timer[o] - 1
               /\ timer[o] \in 1..left[o]
    BY <1>2, <2>1 DEF Tick
  <2>2. QED
    BY <1>2, <2>1 DEF Tick
<1>3. ASSUME NEW k \in Keys, Candidate(k) PROVE PendingCoherent'
  <2> DEFINE p == pending[k]
  <2>1. p \in Offers /\ left[p] \in Nat
    BY <1>3 DEF Candidate
  <2>2. ArmWait(left[p]) \in 0..left[p]
    BY <2>1, ArmWaitBound
  <2>3. QED
    BY <1>3, <2>1, <2>2 DEF Candidate
<1>4. ASSUME NEW k \in Keys, ClientError(k) PROVE PendingCoherent'
  BY <1>4 DEF ClientError
<1>5. ASSUME NEW o \in Offers, OfferRefused(o) PROVE PendingCoherent'
  BY <1>5 DEF OfferRefused
<1>6. ASSUME NEW o \in Offers, OfferAccepted(o) PROVE PendingCoherent'
  <2>1. ArmWait(0) \in 0..0 /\ ArmWait(MaxGather) \in 0..MaxGather
    BY ArmWaitBound
  <2>2. pending[key[o]] = NoOffer
    BY <1>6 DEF OfferAccepted, RefusedOffer
  <2>3. QED
    BY <1>6, <2>1, <2>2 DEF OfferAccepted
<1>7. ASSUME NEW o \in Offers, TimerFires(o) PROVE PendingCoherent'
  BY <1>7 DEF TimerFires, Off
<1>8. ASSUME NEW o \in Offers, ForwardStarts(o) PROVE PendingCoherent'
  BY <1>8 DEF ForwardStarts
<1>9. ASSUME NEW o \in Offers, ForwardStep(o) PROVE PendingCoherent'
  BY <1>9, ForwardStepEffect DEF Forwarding
<1>10. CASE UNCHANGED vars
  BY <1>10 DEF vars, offerVars
<1>11. QED
  BY <1>1, <1>2, <1>3, <1>4, <1>5, <1>6, <1>7, <1>8, <1>9, <1>10
     DEF Next, TimerStep

\* The pending map holds exactly the gathering offers, each with a forward on
\* its way before its deadline.
THEOREM BrokerCoherent == Spec => []PendingCoherent
<1>1. Init => PendingCoherent
  BY BrokerAssumption DEF Init, PendingCoherent
<1>2. QED
  BY <1>1, CoherentStep, BrokerType, PTL DEF Spec

\* No offer is held past maxGather, however many candidates keep arriving
\* (norelay.go:58-62).
THEOREM BrokerDeadline == Spec => []GatherDeadline
<1>1. PendingCoherent => GatherDeadline
  BY DEF PendingCoherent, GatherDeadline
<1>2. QED
  BY <1>1, BrokerCoherent, PTL

-----------------------------------------------------------------------------
\* The phases of forward, the signal sent and the joins recorded stay in step.
LEMMA ForwardProgressStep ==
  TypeOK /\ PendingCoherent /\ ForwardProgress /\ [Next]_vars => ForwardProgress'
<1> SUFFICES ASSUME TypeOK, PendingCoherent, ForwardProgress, [Next]_vars
             PROVE  ForwardProgress'
  OBVIOUS
<1> USE BrokerAssumption DEF TypeOK, ForwardProgress, MayJoin
<1>1. CASE Subscribe \/ Unsubscribe \/ SignalingDies \/ Tick
  BY <1>1 DEF Subscribe, Unsubscribe, SignalingDies, Tick, offerVars
<1>2. ASSUME NEW k \in Keys, Candidate(k) PROVE ForwardProgress'
  BY <1>2 DEF Candidate
<1>3. ASSUME NEW k \in Keys, ClientError(k) PROVE ForwardProgress'
  BY <1>3 DEF ClientError
<1>4. ASSUME NEW o \in Offers, OfferRefused(o) PROVE ForwardProgress'
  BY <1>4 DEF OfferRefused
<1>5. ASSUME NEW o \in Offers, OfferAccepted(o) PROVE ForwardProgress'
  BY <1>5 DEF OfferAccepted
<1>6. ASSUME NEW o \in Offers, TimerFires(o) PROVE ForwardProgress'
  BY <1>6 DEF TimerFires
<1>7. ASSUME NEW o \in Offers, ForwardStarts(o) PROVE ForwardProgress'
  BY <1>7 DEF ForwardStarts, PendingCoherent
<1>8. ASSUME NEW o \in Offers, Verify(o) PROVE ForwardProgress'
  BY <1>8 DEF Verify
<1>9. ASSUME NEW o \in Offers, Post(o) PROVE ForwardProgress'
  BY <1>9 DEF Post
<1>10. ASSUME NEW o \in Offers, Answer(o) PROVE ForwardProgress'
  BY <1>10 DEF Answer, SendSignal
<1>11. ASSUME NEW o \in Offers, Fail(o) PROVE ForwardProgress'
  BY <1>11 DEF Fail, SendSignal
<1>12. ASSUME NEW o \in Offers, Join(o) PROVE ForwardProgress'
  BY <1>12 DEF Join
<1>13. ASSUME NEW o \in Offers, ReleaseSlot(o) PROVE ForwardProgress'
  BY <1>13 DEF ReleaseSlot
<1>14. CASE UNCHANGED vars
  BY <1>14 DEF vars, offerVars
<1>15. QED
  BY <1>1, <1>2, <1>3, <1>4, <1>5, <1>6, <1>7, <1>8, <1>9, <1>10, <1>11,
     <1>12, <1>13, <1>14 DEF Next, TimerStep, ForwardStep

\* What a recorded join implies is kept: once an offer is in joined, forward
\* only has its slot left to release.
LEMMA JoinsStep ==
  TypeOK /\ PendingCoherent /\ ForwardProgress /\ JoinsAndReplies /\ [Next]_vars
    => JoinsAndReplies'
<1> SUFFICES ASSUME TypeOK, PendingCoherent, ForwardProgress, JoinsAndReplies,
                    [Next]_vars
             PROVE  JoinsAndReplies'
  OBVIOUS
<1> USE BrokerAssumption DEF TypeOK, ForwardProgress, JoinsAndReplies, MayJoin
<1>1. CASE Subscribe \/ Unsubscribe \/ SignalingDies \/ Tick
  BY <1>1 DEF Subscribe, Unsubscribe, SignalingDies, Tick, offerVars
<1>2. ASSUME NEW k \in Keys, Candidate(k) \/ ClientError(k)
      PROVE  JoinsAndReplies'
  BY <1>2 DEF Candidate, ClientError
<1>3. ASSUME NEW o \in Offers, OfferRefused(o) \/ OfferAccepted(o)
      PROVE  JoinsAndReplies'
  BY <1>3 DEF OfferRefused, OfferAccepted
<1>4. ASSUME NEW o \in Offers, TimerFires(o) PROVE JoinsAndReplies'
  BY <1>4 DEF TimerFires
<1>5. ASSUME NEW o \in Offers, ForwardStarts(o) PROVE JoinsAndReplies'
  BY <1>5 DEF ForwardStarts
<1>6. ASSUME NEW o \in Offers, Verify(o) PROVE JoinsAndReplies'
  BY <1>6 DEF Verify
<1>7. ASSUME NEW o \in Offers, Post(o) PROVE JoinsAndReplies'
  BY <1>7 DEF Post
<1>8. ASSUME NEW o \in Offers, Answer(o) PROVE JoinsAndReplies'
  BY <1>8 DEF Answer, SendSignal
<1>9. ASSUME NEW o \in Offers, Fail(o) PROVE JoinsAndReplies'
  BY <1>9 DEF Fail, SendSignal
<1>10. ASSUME NEW o \in Offers, Join(o) PROVE JoinsAndReplies'
  BY <1>10 DEF Join, Identities
<1>11. ASSUME NEW o \in Offers, ReleaseSlot(o) PROVE JoinsAndReplies'
  BY <1>11 DEF ReleaseSlot
<1>12. CASE UNCHANGED vars
  BY <1>12 DEF vars, offerVars
<1>13. QED
  BY <1>1, <1>2, <1>3, <1>4, <1>5, <1>6, <1>7, <1>8, <1>9, <1>10, <1>11, <1>12
     DEF Next, TimerStep, ForwardStep

\* With allowed_xuids only listed players are answered, a join is recorded only
\* for a verified player the backend answered, and no forwarded offer ends
\* without a signal to its client (norelay.go:279-336).
THEOREM BrokerJoins == Spec => []JoinsAndReplies
<1>1. Init => ForwardProgress /\ JoinsAndReplies
  BY DEF Init, ForwardProgress, JoinsAndReplies
<1>2. QED
  BY <1>1, ForwardProgressStep, JoinsStep, BrokerType, BrokerCoherent, PTL
     DEF Spec

-----------------------------------------------------------------------------
(* The slots.                                                              *)

\* An offer goes from one phase to another, and no other offer moves.
Moves(o, from, to) ==
    /\ phase[o] \in from /\ phase'[o] \in to
    /\ \A p \in Offers \ {o} : phase'[p] = phase[p]

\* Everything a step can do to the slots.
SlotEffect ==
    \/ /\ \A p \in Offers : \/ phase'[p] = phase[p]
                            \/ phase[p] \in Held /\ phase'[p] \in Held
       /\ UNCHANGED inFlight
    \/ \E o \in Offers : /\ Moves(o, {"unsent"}, {"refused"})
                         /\ UNCHANGED inFlight
    \/ \E o \in Offers : /\ Moves(o, {"unsent"}, {"gathering"})
                         /\ inFlight < MaxInFlight /\ inFlight' = inFlight + 1
    \/ \E o \in Offers : /\ Moves(o, Held, {"abandoned", "finished"})
                         /\ inFlight' = inFlight - 1

\* Each action does one of these.
LEMMA SlotStep ==
  TypeOK /\ PendingCoherent /\ [Next]_vars => SlotEffect
<1> SUFFICES ASSUME TypeOK, PendingCoherent, [Next]_vars PROVE SlotEffect
  OBVIOUS
<1> USE BrokerAssumption DEF TypeOK, SlotEffect, Moves, Held, Forwarding
<1>1. CASE Subscribe \/ Unsubscribe \/ SignalingDies \/ Tick
  BY <1>1 DEF Subscribe, Unsubscribe, SignalingDies, Tick, offerVars
<1>2. ASSUME NEW k \in Keys, Candidate(k) PROVE SlotEffect
  BY <1>2 DEF Candidate
<1>3. ASSUME NEW k \in Keys, ClientError(k) PROVE SlotEffect
  <2>1. pending[k] \in Offers
    BY <1>3 DEF ClientError
  <2>2. Moves(pending[k], Held, {"abandoned", "finished"})
    BY <1>3, <2>1 DEF ClientError
  <2>3. QED
    BY <1>3, <2>1, <2>2 DEF ClientError
<1>4. ASSUME NEW o \in Offers, OfferRefused(o) PROVE SlotEffect
  BY <1>4 DEF OfferRefused
<1>5. ASSUME NEW o \in Offers, OfferAccepted(o) PROVE SlotEffect
  BY <1>5 DEF OfferAccepted, RefusedOffer
<1>6. ASSUME NEW o \in Offers, TimerStep(o) PROVE SlotEffect
  BY <1>6 DEF TimerStep, TimerFires, ForwardStarts
<1>7. ASSUME NEW o \in Offers, ReleaseSlot(o) PROVE SlotEffect
  BY <1>7 DEF ReleaseSlot
<1>8. ASSUME NEW o \in Offers, Verify(o) PROVE SlotEffect
  BY <1>8 DEF Verify
<1>9. ASSUME NEW o \in Offers, Post(o) PROVE SlotEffect
  BY <1>9 DEF Post
<1>10. ASSUME NEW o \in Offers, Answer(o) \/ Fail(o) PROVE SlotEffect
  BY <1>10 DEF Answer, Fail, SendSignal
<1>11. ASSUME NEW o \in Offers, Join(o) PROVE SlotEffect
  BY <1>11 DEF Join
<1>12. CASE UNCHANGED vars
  BY <1>12 DEF vars, offerVars
<1>13. QED
  BY <1>1, <1>2, <1>3, <1>4, <1>5, <1>6, <1>7, <1>8, <1>9, <1>10, <1>11, <1>12
     DEF Next, ForwardStep

\* The count stays exact: a step that changes inFlight adds or removes exactly
\* one held offer.
LEMMA InFlightStep ==
  TypeOK /\ InFlightExact /\ SlotEffect => InFlightExact'
<1> SUFFICES ASSUME TypeOK, InFlightExact, SlotEffect PROVE InFlightExact'
  OBVIOUS
<1>1. IsFiniteSet(HeldOffers) /\ Cardinality(HeldOffers) \in Nat
  <2>1. HeldOffers \in SUBSET Offers
    BY DEF HeldOffers
  <2>2. QED
    BY <2>1, BrokerAssumption, FS_Subset, FS_CardinalityType
<1> USE BrokerAssumption DEF InFlightExact, TypeOK
<1>2. CASE /\ \A p \in Offers : \/ phase'[p] = phase[p]
                                \/ phase[p] \in Held /\ phase'[p] \in Held
           /\ UNCHANGED inFlight
  <2>1. HeldOffers' = HeldOffers
    BY <1>2 DEF HeldOffers
  <2>2. QED
    BY <1>2, <2>1
<1>3. ASSUME NEW o \in Offers, Moves(o, {"unsent"}, {"refused"}), UNCHANGED inFlight
      PROVE  InFlightExact'
  <2>1. HeldOffers' = HeldOffers
    BY <1>3 DEF HeldOffers, Moves, Held, Forwarding
  <2>2. QED
    BY <1>3, <2>1
<1>4. ASSUME NEW o \in Offers, Moves(o, {"unsent"}, {"gathering"}),
             inFlight < MaxInFlight, inFlight' = inFlight + 1
      PROVE  InFlightExact'
  <2>1. HeldOffers' = HeldOffers \cup {o} /\ o \notin HeldOffers
    BY <1>4 DEF HeldOffers, Moves, Held, Forwarding
  <2>2. Cardinality(HeldOffers') = Cardinality(HeldOffers) + 1
    BY <1>1, <2>1, FS_AddElement
  <2>3. QED
    BY <1>4, <2>2
<1>5. ASSUME NEW o \in Offers, Moves(o, Held, {"abandoned", "finished"}),
             inFlight' = inFlight - 1
      PROVE  InFlightExact'
  <2>1. HeldOffers' = HeldOffers \ {o} /\ o \in HeldOffers
    BY <1>5 DEF HeldOffers, Moves, Held, Forwarding
  <2>2. Cardinality(HeldOffers') = Cardinality(HeldOffers) - 1
    BY <1>1, <2>1, FS_RemoveElement
  <2>3. QED
    BY <1>5, <2>2
<1>6. QED
  BY <1>2, <1>3, <1>4, <1>5 DEF SlotEffect

\* inFlight is exactly the number of offers gathering or being forwarded and
\* never exceeds maxInFlight, whatever the interleaving (norelay.go:99-101).
THEOREM BrokerInFlight == Spec => []InFlightExact
<1>1. Init => InFlightExact
  <2> SUFFICES ASSUME Init PROVE InFlightExact
    OBVIOUS
  <2>1. HeldOffers = {}
    BY DEF Init, HeldOffers, Held, Forwarding
  <2>2. QED
    BY <2>1, FS_EmptySet, BrokerAssumption DEF Init, InFlightExact
<1>2. TypeOK /\ PendingCoherent /\ InFlightExact /\ [Next]_vars => InFlightExact'
  <2>1. TypeOK /\ InFlightExact /\ UNCHANGED vars => InFlightExact'
    BY DEF vars, offerVars, InFlightExact, HeldOffers
  <2>2. QED
    BY <2>1, SlotStep, InFlightStep
<1>3. QED
  BY <1>1, <1>2, BrokerType, BrokerCoherent, PTL DEF Spec

\* The pending map, the timers and the count of slots agree with the offers.
THEOREM BrokerBooks == Spec => []Bookkeeping
BY BrokerCoherent, BrokerInFlight, PTL DEF Bookkeeping

\* The broker implements NegotiationSlots: every offer is refused, or takes one
\* of maxInFlight slots and gives it back once.
THEOREM BrokerRefinesSlots == Spec => ImplementsSlots
<1> USE BrokerAssumption DEF Slots!SlotInit, Slots!SlotNext, Slots!slotVars,
                             Slots!Refuse, Slots!Take, Slots!Release, SlotOf,
                             Held, Forwarding
<1>1. Init => Slots!SlotInit
  BY DEF Init
<1>2. TypeOK /\ PendingCoherent /\ [Next]_vars
        => [Slots!SlotNext]_(Slots!slotVars)
  <2> SUFFICES ASSUME TypeOK, SlotEffect
               PROVE  [Slots!SlotNext]_(Slots!slotVars)
    BY SlotStep
  <2> DEFINE slot == [p \in Offers |-> SlotOf(p)]
  <2>1. CASE /\ \A p \in Offers : \/ phase'[p] = phase[p]
                                  \/ phase[p] \in Held /\ phase'[p] \in Held
             /\ UNCHANGED inFlight
    <3>1. slot' = slot
      BY <2>1
    <3>2. QED
      BY <2>1, <3>1
  <2>2. ASSUME NEW o \in Offers, Moves(o, {"unsent"}, {"refused"}), UNCHANGED inFlight
        PROVE  Slots!Refuse(o)
    <3>1. slot[o] = "unsent" /\ slot' = [slot EXCEPT ![o] = "refused"]
      BY <2>2 DEF Moves
    <3>2. QED
      BY <2>2, <3>1
  <2>3. ASSUME NEW o \in Offers, Moves(o, {"unsent"}, {"gathering"}),
               inFlight < MaxInFlight, inFlight' = inFlight + 1
        PROVE  Slots!Take(o)
    <3>1. slot[o] = "unsent" /\ slot' = [slot EXCEPT ![o] = "held"]
      BY <2>3 DEF Moves
    <3>2. QED
      BY <2>3, <3>1 DEF TypeOK
  <2>4. ASSUME NEW o \in Offers, Moves(o, Held, {"abandoned", "finished"}),
               inFlight' = inFlight - 1
        PROVE  Slots!Release(o)
    <3>1. slot[o] = "held" /\ slot' = [slot EXCEPT ![o] = "released"]
      BY <2>4 DEF Moves
    <3>2. QED
      BY <2>4, <3>1 DEF TypeOK
  <2>5. QED
    BY <2>1, <2>2, <2>3, <2>4 DEF SlotEffect
<1>3. QED
  BY <1>1, <1>2, BrokerType, BrokerCoherent, PTL
     DEF Spec, ImplementsSlots, Slots!SlotSpec
=============================================================================
