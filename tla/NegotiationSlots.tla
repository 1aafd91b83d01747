-------------------------- MODULE NegotiationSlots --------------------------
(***************************************************************************)
(* What the no-relay signaling broker promises its backend, without saying *)
(* how: every offer is either refused, or takes one of MaxInFlight slots   *)
(* and gives that slot back exactly once.  SignalBroker implements it.     *)
(***************************************************************************)
EXTENDS Naturals, FiniteSets

CONSTANTS
    Offers,        \* the offers clients ever send
    MaxInFlight    \* how many may be negotiated at once (norelay.go:71)

VARIABLES
    slot,          \* slot[o]: what has become of offer o
    free           \* how many slots are free

slotVars == <<slot, free>>

SlotStatus == {"unsent", "refused", "held", "released"}

SlotInit ==
    /\ slot = [o \in Offers |-> "unsent"]
    /\ free = MaxInFlight

\* An offer may be turned away whether or not a slot is free (it may be
\* oversized, or a duplicate).
Refuse(o) ==
    /\ slot[o] = "unsent"
    /\ slot' = [slot EXCEPT ![o] = "refused"]
    /\ UNCHANGED free

Take(o) ==
    /\ slot[o] = "unsent"
    /\ free > 0
    /\ slot' = [slot EXCEPT ![o] = "held"]
    /\ free' = free - 1

Release(o) ==
    /\ slot[o] = "held"
    /\ slot' = [slot EXCEPT ![o] = "released"]
    /\ free' = free + 1

SlotNext == \E o \in Offers : Refuse(o) \/ Take(o) \/ Release(o)

SlotSpec == SlotInit /\ [][SlotNext]_slotVars
=============================================================================
