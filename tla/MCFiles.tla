------------------------------- MODULE MCFiles -------------------------------
(***************************************************************************)
(* The files that several processes, or goroutines, write: the scraper's   *)
(* player file, the friend activity of the relays, and the invite lists.   *)
(*                                                                         *)
(* These parts share no state: one of them, focus, runs, and the others stay *)
(* in an initial state.  To interleave them would add no behaviour of any. *)
(***************************************************************************)
EXTENDS FriendActivity, Integers, TLC

CONSTANTS
    Scraped,     \* the scraper's players
    Invited,     \* the players the relays invite
    Joins, Expiry, MaxInviteTime, MaxSends

VARIABLES
    focus,
    disk, handle, old, seen, rec, prune, starting, recorded, unlucky,
    inviteNow, sentLoaded, sent, due, unwritten, sentFile, accepted, join, queue,
    invitePrune, invites, onRecord, expected

F == INSTANCE PlayerFile WITH
    Players <- Scraped

playerVars == <<disk, handle, old, seen, rec, prune, starting, recorded, unlucky>>

I == INSTANCE InviteRecords WITH
    Players <- Invited, MaxTime <- MaxInviteTime, now <- inviteNow, prune <- invitePrune

inviteVars == <<inviteNow, sentLoaded, sent, due, unwritten, sentFile, accepted, join,
                queue, invitePrune, invites, onRecord, expected>>

ASSUME PlayerFileAssumption == F!Nobody \notin Scraped

ASSUME InviteAssumption == Expiry \in Nat \ {0} /\ MaxInviteTime \in Nat

MCInit ==
    /\ focus \in {"players", "activity", "invites"}
    /\ Init
    /\ F!Init
    /\ I!Init /\ (focus # "invites" => queue = {})

MCNext ==
    \/ /\ focus = "players" /\ F!Next
       /\ UNCHANGED <<focus, actVars, inviteVars>>
    \/ /\ focus = "activity" /\ Next
       /\ UNCHANGED <<focus, playerVars, inviteVars>>
    \/ /\ focus = "invites" /\ I!Next
       /\ UNCHANGED <<focus, playerVars, actVars>>

mcVars == <<focus, playerVars, actVars, inviteVars>>

MCSpec == MCInit /\ [][MCNext]_mcVars

\* No definition tells one relay, or one invited player, from another.
Alike == Permutations(Relays) \cup Permutations(Invited)

-----------------------------------------------------------------------------
(* Properties: those of the parts, which hold of a part at rest as well.    *)
(* JoinsKept is FriendActivity's own.                                        *)

\* A player recorded clear of a prune stays in the player file until a time
\* of theirs expires, and whoever is in it can expire.
PlayersKept == F!RecordedKept /\ F!CanExpire

\* The join of a player with an invite on record is listed, with the time of the first of
\* them, and nobody is listed who had not been invited.
AcceptedRight == I!JoinsCounted /\ I!FirstInviteTime

\* A friend who joined within the window is not removed, and a prune of the queue
\* drops expired players who had not joined, and nobody else.
DropsJustified == RemovalJustified /\ I!PruneDropsOnly

=============================================================================
