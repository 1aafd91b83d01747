------------------------------ MODULE MCSession ------------------------------
(***************************************************************************)
(* A session that is up: its document and the player count that shows in it; *)
(* and the scraper, which visits the sessions of others.                   *)
(*                                                                         *)
(* These parts share no state: one of them, focus, runs, and the others stay *)
(* in an initial state.  To interleave them would add no behaviour of any. *)
(***************************************************************************)
EXTENDS SessionDocument, Integers

CONSTANTS
    Broadcasts, Configs, Moves, MaxReal, MaxChanges, MaxTime,  \* of PlayerCount
    Watched,                         \* a broadcast whose session goes on
    Worlds, MaxRounds, MaxFaults     \* of ScrapeVisit

VARIABLES
    focus,
    cfg, backend, changes, realPlayers, state, fetched, put, shown, time, last, value,
    moved,
    running, pc, todo, rounds, visitRta, visitMember, visitNonces, sig, visitConn,
    faults, astray

Setting(fake, driftMin, driftMax, maxStep, maxPlayers) ==
    [fake |-> fake, driftMin |-> driftMin, driftMax |-> driftMax, maxStep |-> maxStep,
     maxPlayers |-> maxPlayers]

\* The real count, a fixed fake one, one that drifts, and settings at odds with
\* max_players or with themselves.
Settings ==
    {Setting(0, 0, 0, 0, 20), Setting(3, 0, 0, 0, 20), Setting(0, 2, 4, 1, 20),
     Setting(1, 0, 5, 2, 3), Setting(0, 5, 4, 0, 2), Setting(6, 1, 3, 1, 1)}

\* The settings are integers, whatever their values.
ASSUME SessionAssumption ==
    /\ Moves \in Nat /\ MaxReal \in Nat /\ Watched \in Broadcasts
    /\ \A c \in Configs : {c.fake, c.driftMin, c.driftMax, c.maxStep, c.maxPlayers}
                             \subseteq Int

P == INSTANCE PlayerCount

countVars == <<cfg, backend, changes, realPlayers, state, fetched, put, shown, time,
               last, value, moved>>

V == INSTANCE ScrapeVisit WITH
    rta <- visitRta, member <- visitMember, nonces <- visitNonces, conn <- visitConn

visitVars == <<running, pc, todo, rounds, visitRta, visitMember, visitNonces, sig,
               visitConn, faults, astray>>

MCInit ==
    /\ focus \in {"document", "count", "visit"}
    /\ Init /\ (focus # "document" => missed = {})
    /\ P!Init /\ (focus # "count" => cfg = Setting(0, 0, 0, 0, 20) /\ backend = 0)
    /\ V!Init

MCNext ==
    \/ /\ focus = "document" /\ Next
       /\ UNCHANGED <<focus, countVars, visitVars>>
    \/ /\ focus = "count" /\ P!Next
       /\ UNCHANGED <<focus, vars, visitVars>>
    \/ /\ focus = "visit" /\ V!Next
       /\ UNCHANGED <<focus, vars, countVars>>

mcVars == <<focus, vars, countVars, visitVars>>

MCSafe == MCInit /\ [][MCNext]_mcVars

MCSpec ==
    /\ MCSafe
    /\ WF_vars(focus = "document" /\ RtaStep)
    /\ WF_vars(focus = "document" /\ Create)
    /\ WF_vars(focus = "document" /\ CreateHandle)
    /\ WF_vars(focus = "document" /\ Tick)
    /\ \A w \in Writers : WF_vars(focus = "document" /\ PutEnds(w))
    /\ SF_vars(focus = "document" /\ PutLands("ticker"))
    /\ WF_countVars(focus = "count" /\ P!Step(Watched))
    /\ SF_countVars(focus = "count" /\ P!UpdateLands(Watched))
    /\ SF_countVars(focus = "count" /\ P!Poll(Watched))
    /\ SF_countVars(focus = "count" /\ P!Tick(Watched))
    /\ WF_visitVars(focus = "visit" /\ V!Step)

-----------------------------------------------------------------------------
(* Properties: those of the parts, which hold of a part at rest as well.    *)

\* The document, if it is kept, comes to show the current state.
DocumentSettles == <>[](focus = "document" => Converged)

\* A session that is shown has room, and at least one player in it, and the fake
\* count moves at its pace however many sessions ask for it.
AdvertisedCount == P!CountJoinable /\ P!DriftPace

\* A broadcast comes to show the real count, whatever becomes of the other.
RealCountShown == <>[]P!ShowsReal(Watched)

\* The scraper leaves every session it joined.
NothingLeftBehind == V!NothingLeftBehind

\* Every world of a round has its turn, until a signal ends the scraper, as it
\* always does.
EveryWorldTried == V!EveryWorldTried /\ V!StopEnds

=============================================================================
