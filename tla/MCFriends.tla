------------------------------ MODULE MCFriends ------------------------------
(***************************************************************************)
(* The friends of the account: requests that come in, those the friend adder *)
(* sends, and the loop that invites them.                                  *)
(*                                                                         *)
(* These parts share no state: one of them, focus, runs, and the others stay *)
(* in an initial state.  To interleave them would add no behaviour of any. *)
(***************************************************************************)
EXTENDS FriendRequests, Integers

CONSTANTS
    \* of FriendAdder
    Accounts, Players, Self, Workers, AdderFailures, AdderLimits, MaxRestarts,
    \* of FriendsInviter
    Friends, MaxSessions, MaxStarts, InviterFailures

\* Each account is one of the players; sessions and loops are counted.
ASSUME AdderAssumption == Self \in [Accounts -> Players] /\ Workers # {}
ASSUME InviterAssumption == MaxSessions \in Nat \ {0} /\ MaxStarts \in Nat

\* The only account plays itself.
Selves == [a \in Accounts |-> "me"]

VARIABLES
    focus,
    adderFriends, adderAsked, added, running, stop, run, adderLimits, restarts, twice,
    adderUnsure, told,
    current, inviterRunning, loop, owner, stopped, pc, lap, inviterFriends, connected,
    tried, late, failures

A == INSTANCE FriendAdder WITH
    MaxFailures <- AdderFailures, MaxLimits <- AdderLimits, friends <- adderFriends,
    asked <- adderAsked, limits <- adderLimits, unsure <- adderUnsure

adderVars == <<adderFriends, adderAsked, added, running, stop, run, adderLimits,
               restarts, twice, adderUnsure, told>>

I == INSTANCE FriendsInviter WITH
    MaxFailures <- InviterFailures, running <- inviterRunning,
    friends <- inviterFriends

inviterVars == <<current, inviterRunning, loop, owner, stopped, pc, lap, inviterFriends,
                 connected, tried, late, failures>>

MCInit ==
    /\ focus \in {"requests", "adder", "inviter"}
    /\ Init
    /\ A!Init /\ (focus # "adder" => adderFriends = [a \in Accounts |-> {}])
    /\ I!Init /\ (focus # "inviter" => inviterFriends = {} /\ connected = {})

MCNext ==
    \/ /\ focus = "requests" /\ Next
       /\ UNCHANGED <<focus, adderVars, inviterVars>>
    \/ /\ focus = "adder" /\ A!Next
       /\ UNCHANGED <<focus, vars, inviterVars>>
    \/ /\ focus = "inviter" /\ I!Next
       /\ UNCHANGED <<focus, vars, adderVars>>

mcVars == <<focus, vars, adderVars, inviterVars>>

\* What is answered, or taken, in the end if it is tried again and again: one
\* condition for two parts, of which a behaviour has one.
OftenTried ==
    \/ /\ focus = "requests" /\ GetAnswered("run")
       /\ UNCHANGED <<focus, adderVars, inviterVars>>
    \/ /\ focus = "inviter" /\ \E l \in 1..MaxStarts : I!Ends(l)
       /\ UNCHANGED <<focus, vars, adderVars>>

MCSafe == MCInit /\ [][MCNext]_mcVars

MCSpec ==
    /\ MCSafe
    /\ WF_vars(focus = "requests" /\ RetryAfterPasses)
    /\ WF_vars(focus = "requests" /\ Wakes)
    /\ WF_vars(focus = "requests" /\ WaitBeforeCheck)
    /\ \A c \in Scanners : WF_vars(focus = "requests" /\ Scan(c))
    /\ SF_mcVars(OftenTried)
    /\ WF_vars(focus = "requests" /\ Work)
    /\ SF_vars(focus = "requests" /\ (Accepts \/ Clears))
    /\ \A a \in Accounts, w \in Workers : WF_adderVars(focus = "adder" /\ A!Run(a, w))
    /\ \A l \in 1..MaxStarts : WF_inviterVars(focus = "inviter" /\ I!Run(l))

-----------------------------------------------------------------------------
(* Properties: those of the parts, which hold of a part at rest as well.    *)

\* Nobody is asked twice but for a request whose outcome was lost, and the adder
\* says there is nothing to do only when nobody is left.
AdderExact == A!AskedOnce /\ A!NothingLeft

\* A run of the adder that was started ends, and so does a canceled loop of the
\* friends inviter, which gives every friend their turn.
RunsComplete == A!RunEnds /\ I!LoopsEnd /\ I!FriendsAsked

\* One loop at most goes on inviting friends, and one that was stopped delivers the
\* invite on the wire at most.
OneInviter == I!OneInviter /\ I!StopHonoured

=============================================================================
