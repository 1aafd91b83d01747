---------------------------- MODULE SignalBroker ----------------------------
(***************************************************************************)
(* bridge/norelay.go: the broker of one signaling transport in the         *)
(* "nethernet-norelay" mode.  Clients' offers arrive as signals, are held  *)
(* while ICE candidates trickle in, and are then forwarded as one bundle   *)
(* to the backend, whose answer goes back to the client.                   *)
(*                                                                         *)
(* Every handler runs under b.mu for its bookkeeping and is one action     *)
(* here; forward gives the mutex up while it talks to the network and is   *)
(* one action per network call.  The steps of time.AfterFunc are explicit: *)
(* a timer runs out (TimerFires), its goroutine then waits for b.mu, and   *)
(* takes it (ForwardStarts) - any handler may come in between.             *)
(*                                                                         *)
(* SDP texts and candidates are left out: an offer is a model value, of    *)
(* which the model knows the connection key it was sent under, whether it  *)
(* is oversized or carries its candidates inline, and how many candidates  *)
(* were kept for it.  One tick of time is one candidateQuiet unit.         *)
(***************************************************************************)
EXTENDS Integers, FiniteSets

CONSTANTS
    Offers,         \* the offers clients ever send, each one at most once
    Keys,           \* connection keys: (network ID, connection ID)
    NoOffer,        \* no entry in the pending map
    MaxInFlight,    \* norelay.go:71
    MaxCandidates,  \* norelay.go:75
    Quiet,          \* candidateQuiet, in ticks (norelay.go:55)
    MaxGather,      \* maxGather, in ticks (norelay.go:62)
    Verifier,       \* is a token verifier configured (b.verify # nil)
    AllowList       \* is allowed_xuids configured (b.allow # nil)

ASSUME BrokerAssumption ==
    /\ IsFiniteSet(Offers)
    /\ NoOffer \notin Offers
    /\ MaxInFlight \in Nat \ {0}
    /\ MaxCandidates \in Nat
    /\ Quiet \in Nat \ {0}
    /\ MaxGather \in Nat \ {0}
    /\ Verifier \in BOOLEAN /\ AllowList \in BOOLEAN

VARIABLES
    run,          \* Run: not called yet, subscribed to the transport, returned
    sigAlive,     \* the transport's context is not done
    pending,      \* pending[k]: the offer gathering under key k, or NoOffer
    inFlight,     \* offers accepted and not finished, as the code counts them
    phase,        \* phase[o]: how far offer o has come
    key,          \* key[o]: the key it was sent under
    cands,        \* cands[o]: number of candidates kept for it
    left,         \* left[o]: ticks until its deadline, negative once past
    timer,        \* timer[o]: ticks until its timer fires, or Off
    waiting,      \* waiting[o]: goroutines of its timer waiting for b.mu
    identity,     \* identity[o]: what verification said of the player
    outcome,      \* outcome[o]: the signal the client was sent in the end
    joined        \* offers whose player was recorded by onJoin

offerVars == <<phase, key, cands, left, timer, waiting, identity, outcome, joined>>
vars == <<run, sigAlive, pending, inFlight, offerVars>>

Off == -1

\* Phases of an offer that forward is working on.
Forwarding == {"verifying", "posting", "answering", "joining", "failing",
               "releasing"}
Held == {"gathering"} \cup Forwarding
Phases == {"unsent", "refused", "abandoned", "finished"} \cup Held

Identities == {"unchecked", "unverified", "listed", "unlisted"}
Outcomes == {"none", "answer", "error", "unsent"}

TypeOK ==
    /\ run \in {"idle", "subscribed", "returned"} /\ sigAlive \in BOOLEAN
    /\ pending \in [Keys -> Offers \cup {NoOffer}]
    /\ inFlight \in Int
    /\ phase \in [Offers -> Phases]
    /\ key \in [Offers -> Keys]
    /\ cands \in [Offers -> 0..MaxCandidates]
    /\ left \in [Offers -> Int]
    /\ timer \in [Offers -> Nat \cup {Off}]
    /\ waiting \in [Offers -> Nat]
    /\ identity \in [Offers -> Identities]
    /\ outcome \in [Offers -> Outcomes]
    /\ joined \in SUBSET Offers

Init ==
    /\ run = "idle"
    /\ sigAlive = TRUE
    /\ pending = [k \in Keys |-> NoOffer]
    /\ inFlight = 0
    /\ phase = [o \in Offers |-> "unsent"]
    /\ key \in [Offers -> Keys]
    /\ cands = [o \in Offers |-> 0]
    /\ left = [o \in Offers |-> 0]
    /\ timer = [o \in Offers |-> Off]
    /\ waiting = [o \in Offers |-> 0]
    /\ identity = [o \in Offers |-> "unchecked"]
    /\ outcome = [o \in Offers |-> "none"]
    /\ joined = {}

-----------------------------------------------------------------------------
(* Run: the subscription.                                                  *)

Subscribe ==
    /\ run = "idle" /\ sigAlive
    /\ run' = "subscribed"
    /\ UNCHANGED <<sigAlive, pending, inFlight, offerVars>>

\* Run returns because its ctx is cancelled or the transport has died, and its
\* deferred stop closes the transport.  What is pending stays pending, and its
\* timers keep running.
Unsubscribe ==
    /\ run = "subscribed"
    /\ run' = "returned"
    /\ sigAlive' = FALSE
    /\ UNCHANGED <<pending, inFlight, offerVars>>

SignalingDies ==
    /\ sigAlive
    /\ sigAlive' = FALSE
    /\ UNCHANGED <<run, pending, inFlight, offerVars>>

-----------------------------------------------------------------------------
(* NotifySignal.                                                           *)

\* Mutant of ArmWait: a late candidate extends the wait past the deadline.
ArmWaitUncapped(l) == Quiet

\* arm: the wait before the forward when the deadline is l ticks away.
ArmWait(l) ==
    LET wait == IF l < Quiet THEN l ELSE Quiet
    IN  IF wait < 0 THEN 0 ELSE wait

\* Mutants of RefusedOffer: one offer over the limit is let in; the limit is
\* not looked at.
RefusedOfferLate(o, oversized) ==
    pending[key[o]] # NoOffer \/ oversized \/ inFlight > MaxInFlight

RefusedOfferUnlimited(o, oversized) == pending[key[o]] # NoOffer \/ oversized

\* A second offer for a key that is in the pending map is refused, and so is
\* an oversized one and any offer when every slot is taken.
RefusedOffer(o, oversized) ==
    \/ pending[key[o]] # NoOffer
    \/ oversized
    \/ inFlight >= MaxInFlight

OfferRefused(o) ==
    /\ run = "subscribed" /\ sigAlive
    /\ phase[o] = "unsent"
    /\ \E oversized \in BOOLEAN : RefusedOffer(o, oversized)
    /\ phase' = [phase EXCEPT ![o] = "refused"]
    /\ UNCHANGED <<run, sigAlive, pending, inFlight, key, cands, left,
                   timer, waiting, identity, outcome, joined>>

\* An offer with inline candidates is due at once.
OfferAccepted(o) ==
    /\ run = "subscribed" /\ sigAlive
    /\ phase[o] = "unsent"
    /\ ~RefusedOffer(o, FALSE)
    /\ \E inline \in BOOLEAN :
         LET l == IF inline THEN 0 ELSE MaxGather
         IN  /\ left' = [left EXCEPT ![o] = l]
             /\ timer' = [timer EXCEPT ![o] = ArmWait(l)]
    /\ pending' = [pending EXCEPT ![key[o]] = o]
    /\ inFlight' = inFlight + 1
    /\ phase' = [phase EXCEPT ![o] = "gathering"]
    /\ UNCHANGED <<run, sigAlive, key, cands, waiting, identity, outcome, joined>>

HasRoom(o) == cands[o] < MaxCandidates

\* A candidate that is kept.  One that is too large, a TURN relay's, or over
\* the limit changes nothing, and neither does one for a key not pending.
Candidate(k) ==
    /\ run = "subscribed" /\ sigAlive
    /\ pending[k] # NoOffer
    /\ LET o == pending[k]
       IN  /\ phase[o] = "gathering"
           /\ HasRoom(o)
           /\ cands' = [cands EXCEPT ![o] = @ + 1]
           /\ timer' = [timer EXCEPT ![o] = ArmWait(left[o])]
    /\ UNCHANGED <<run, sigAlive, pending, inFlight, phase, key, left,
                   waiting, identity, outcome, joined>>

\* Mutant of ClientError: the offer stays in the pending map.
ClientErrorKeepsKey(k) ==
    /\ run = "subscribed" /\ sigAlive
    /\ pending[k] # NoOffer
    /\ LET o == pending[k]
       IN  /\ phase[o] = "gathering"
           /\ phase' = [phase EXCEPT ![o] = "abandoned"]
           /\ timer' = [timer EXCEPT ![o] = Off]
    /\ inFlight' = inFlight - 1
    /\ UNCHANGED <<run, sigAlive, pending, key, cands, left, waiting, identity,
                   outcome, joined>>

\* The client gives up.  Stopping the timer does not stop a goroutine of it
\* that is already waiting for the mutex.
ClientError(k) ==
    /\ run = "subscribed" /\ sigAlive
    /\ pending[k] # NoOffer
    /\ LET o == pending[k]
       IN  /\ phase[o] = "gathering"
           /\ phase' = [phase EXCEPT ![o] = "abandoned"]
           /\ timer' = [timer EXCEPT ![o] = Off]
    /\ pending' = [pending EXCEPT ![k] = NoOffer]
    /\ inFlight' = inFlight - 1
    /\ UNCHANGED <<run, sigAlive, key, cands, left, waiting, identity,
                   outcome, joined>>

-----------------------------------------------------------------------------
(* Timers.                                                                 *)

TimerFires(o) ==
    /\ timer[o] = 0
    /\ timer' = [timer EXCEPT ![o] = Off]
    /\ waiting' = [waiting EXCEPT ![o] = @ + 1]
    /\ UNCHANGED <<run, sigAlive, pending, inFlight, phase, key, cands,
                   left, identity, outcome, joined>>

\* Time passes.  A timer that is due fires, and a goroutine waiting for the
\* mutex gets it, within the tick: the mutex is only held for bookkeeping.
Tick ==
    /\ \A o \in Offers : timer[o] # 0 /\ waiting[o] = 0
    /\ \E o \in Offers : timer[o] > 0
    /\ timer' = [o \in Offers |-> IF timer[o] > 0 THEN timer[o] - 1 ELSE timer[o]]
    /\ left' = [o \in Offers |-> IF phase[o] = "gathering" THEN left[o] - 1
                                                           ELSE left[o]]
    /\ UNCHANGED <<run, sigAlive, pending, inFlight, phase, key, cands,
                   waiting, identity, outcome, joined>>

-----------------------------------------------------------------------------
(* forward, run by a goroutine of some offer's timer.                      *)

\* The goroutine of o's timer takes whatever offer is pending under o's key.
ForwardStarts(o) ==
    /\ waiting[o] > 0
    /\ waiting' = [waiting EXCEPT ![o] = @ - 1]
    /\ LET k == key[o]
           p == pending[k]
       IN  IF p # NoOffer /\ phase[p] = "gathering"
           THEN /\ phase' = [phase EXCEPT ![p] = "verifying"]
                /\ pending' = [pending EXCEPT ![k] = NoOffer]
           ELSE UNCHANGED <<phase, pending>>
    /\ UNCHANGED <<run, sigAlive, inFlight, key, cands, left, timer,
                   identity, outcome, joined>>

\* Mutant of MayJoin: allowed_xuids fails open for an unidentified player.
MayJoinFailsOpen(i) == AllowList => i # "unlisted"

\* Without a verifier nobody is identified; with allowed_xuids configured a
\* player who is not identified, or not on the list, is refused.
MayJoin(i) == AllowList => i = "listed"

Verify(o) ==
    /\ phase[o] = "verifying"
    /\ \E i \in IF Verifier THEN {"unverified", "listed", "unlisted"}
                            ELSE {"unverified"} :
         /\ identity' = [identity EXCEPT ![o] = i]
         /\ phase' = [phase EXCEPT ![o] = IF MayJoin(i) THEN "posting"
                                                        ELSE "failing"]
    /\ UNCHANGED <<run, sigAlive, pending, inFlight, key, cands, left,
                   timer, waiting, outcome, joined>>

\* The HTTP round trip to the backend; its context ends with the transport's.
Post(o) ==
    /\ phase[o] = "posting"
    /\ \E ok \in IF sigAlive THEN BOOLEAN ELSE {FALSE} :
         phase' = [phase EXCEPT ![o] = IF ok THEN "answering" ELSE "failing"]
    /\ UNCHANGED <<run, sigAlive, pending, inFlight, key, cands, left,
                   timer, waiting, identity, outcome, joined>>

\* Mutant of SendSignal: tries again until the signal goes through.
SendSignalRetries(o, s, next) ==
    \E ok \in IF sigAlive THEN BOOLEAN ELSE {FALSE} :
       /\ outcome' = [outcome EXCEPT ![o] = IF ok THEN s ELSE "unsent"]
       /\ phase' = [phase EXCEPT ![o] = IF ok THEN next ELSE @]

\* Sending signal s to the client of o; a failure is logged and forgotten.
SendSignal(o, s, next) ==
    \E ok \in IF sigAlive THEN BOOLEAN ELSE {FALSE} :
       /\ outcome' = [outcome EXCEPT ![o] = IF ok THEN s ELSE "unsent"]
       /\ phase' = [phase EXCEPT ![o] = IF ok THEN next ELSE "releasing"]

Answer(o) ==
    /\ phase[o] = "answering"
    /\ SendSignal(o, "answer", "joining")
    /\ UNCHANGED <<run, sigAlive, pending, inFlight, key, cands, left,
                   timer, waiting, identity, joined>>

Fail(o) ==
    /\ phase[o] = "failing"
    /\ SendSignal(o, "error", "releasing")
    /\ UNCHANGED <<run, sigAlive, pending, inFlight, key, cands, left,
                   timer, waiting, identity, joined>>

\* Trickling the backend's candidates, and the onJoin callback.
Join(o) ==
    /\ phase[o] = "joining"
    /\ phase' = [phase EXCEPT ![o] = "releasing"]
    /\ joined' = IF identity[o] # "unverified" THEN joined \cup {o} ELSE joined
    /\ UNCHANGED <<run, sigAlive, pending, inFlight, key, cands, left,
                   timer, waiting, identity, outcome>>

\* The deferred release at the end of forward.
ReleaseSlot(o) ==
    /\ phase[o] = "releasing"
    /\ phase' = [phase EXCEPT ![o] = "finished"]
    /\ inFlight' = inFlight - 1
    /\ UNCHANGED <<run, sigAlive, pending, key, cands, left, timer,
                   waiting, identity, outcome, joined>>

-----------------------------------------------------------------------------
ForwardStep(o) == Verify(o) \/ Post(o) \/ Answer(o) \/ Fail(o) \/ Join(o)
                  \/ ReleaseSlot(o)

TimerStep(o) == TimerFires(o) \/ ForwardStarts(o)

Next ==
    \/ Subscribe \/ Unsubscribe \/ SignalingDies \/ Tick
    \/ \E k \in Keys : Candidate(k) \/ ClientError(k)
    \/ \E o \in Offers : OfferRefused(o) \/ OfferAccepted(o)
                         \/ TimerStep(o) \/ ForwardStep(o)

\* The runtime fires timers and runs goroutines; every network call forward
\* makes is bounded by negotiationTimeout, so each of its steps ends.
Fairness ==
    /\ WF_vars(Tick)
    /\ \A o \in Offers : WF_vars(TimerStep(o)) /\ WF_vars(ForwardStep(o))

Spec == Init /\ [][Next]_vars /\ Fairness

-----------------------------------------------------------------------------
(* Properties.                                                             *)

HeldOffers == {o \in Offers : phase[o] \in Held}

\* inFlight is the number of offers being gathered or forwarded, through every
\* way an offer can end (abandoned, refused by allowed_xuids, failed, answered),
\* and it never passes maxInFlight: "Whoever marks an offer done releases its
\* slot, so it is released once" (norelay.go:99-100).
InFlightExact ==
    /\ inFlight = Cardinality(HeldOffers)
    /\ inFlight <= MaxInFlight

\* "maxGather caps how long any one offer is held, however many candidates keep
\* arriving" (norelay.go:58): no offer still gathers once its deadline is past.
GatherDeadline ==
    \A o \in Offers : phase[o] = "gathering" => left[o] >= 0

\* With allowed_xuids configured only a player on the list is ever sent the
\* backend's answer, and a join is recorded only for an answered player whose
\* identity was verified (norelay.go:279-292, 331-336); a forwarded offer never
\* ends without the client having been sent something (norelay.go:303).
JoinsAndReplies ==
    /\ \A o \in Offers : AllowList /\ outcome[o] = "answer" => identity[o] = "listed"
    /\ \A o \in joined : /\ outcome[o] = "answer"
                        /\ identity[o] \in {"listed", "unlisted"}
    /\ \A o \in Offers : phase[o] = "finished" => outcome[o] # "none"

\* The pending map holds exactly the gathering offers, each under its own key,
\* and each of them will be forwarded: its timer is armed no later than its
\* deadline, or a goroutine of it is already waiting for the mutex.
PendingCoherent ==
    /\ \A k \in Keys : pending[k] # NoOffer =>
           phase[pending[k]] = "gathering" /\ key[pending[k]] = k
    /\ \A o \in Offers : phase[o] = "gathering" =>
           /\ pending[key[o]] = o
           /\ left[o] >= 0
           /\ waiting[o] > 0 \/ timer[o] \in 0..left[o]

\* The broker's books agree with the offers they are about: the map, the timers
\* and the count of slots, whoever ends an offer and however it ends.
Bookkeeping == PendingCoherent /\ InFlightExact

\* What the phases of forward imply, for the proof of JoinsAndReplies.
ForwardProgress ==
    \A o \in Offers :
       /\ phase[o] \in {"posting", "answering", "joining"} =>
             identity[o] # "unchecked" /\ MayJoin(identity[o])
       /\ phase[o] = "joining" => outcome[o] = "answer"
       /\ outcome[o] = "answer" => phase[o] \in {"joining", "releasing", "finished"}
       /\ phase[o] \in {"releasing", "finished"} => outcome[o] # "none"
       /\ o \in joined => phase[o] \in {"releasing", "finished"}

\* Every offer that takes a slot gives it back: it is eventually forwarded to
\* an end or abandoned by its client, even if signaling dies meanwhile.
SlotsReleased ==
    \A o \in Offers : phase[o] \in Held ~> phase[o] \in {"finished", "abandoned"}

\* The broker implements the slot discipline of NegotiationSlots.
SlotOf(o) ==
    CASE phase[o] \in {"unsent", "refused"} -> phase[o]
      [] phase[o] \in Held -> "held"
      [] OTHER -> "released"

Slots == INSTANCE NegotiationSlots
         WITH slot <- [o \in Offers |-> SlotOf(o)],
              free <- MaxInFlight - inFlight

ImplementsSlots == Slots!SlotSpec
=============================================================================
