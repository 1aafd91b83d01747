----------------------------- MODULE ScrapeVisit -----------------------------
(***************************************************************************)
(* The scraper's rounds over the worlds of the account's friends:          *)
(* cmd/scraper/worlds.go (runFriendWorlds), scraper_friend.go (scrapeWorld)*)
(* and the membership it takes in a host's session, xbl/join.go.           *)
(*                                                                         *)
(* A visit waits for the connection ID of a websocket of its own, joins the *)
(* session, waits for the host's nonce, dials the signaling and the game,  *)
(* spawns and reads the player list for the time it stays.  Every wait has *)
(* its time limit and the process's context; what the visit has opened is  *)
(* given back by the deferred calls, in their order.                       *)
(***************************************************************************)
EXTENDS Integers, SequencesExt

CONSTANTS
    Worlds,      \* worlds that friends host
    MaxRounds,   \* bound: rounds
    MaxFaults    \* bound: requests that fail or whose answer is lost

VARIABLES
    running,    \* the process's context is not canceled
    pc,         \* where runFriendWorlds is
    todo,       \* the worlds of this round still to visit
    rounds,
    rta,        \* the visit's RTA websocket is up
    member,     \* external: the sessions the account is a member of
    nonces,     \* external: the sessions that hold a nonce for the account
    sig, conn,  \* the signaling connection and the game connection are open
    faults,
    astray      \* history: sessions of which the account could not be taken out

visitVars == <<running, pc, todo, rounds, rta, member, nonces, sig, conn, faults,
               astray>>

open == <<sig, conn>>
xbox == <<member, nonces>>

Stages == {"connection", "join", "nonce", "signaling", "dial", "spawn", "record",
           "close", "leave"}

TypeOK ==
    /\ running \in BOOLEAN /\ rta \in BOOLEAN /\ sig \in BOOLEAN /\ conn \in BOOLEAN
    /\ pc \in Stages \cup {"list", "round", "pause", "ended"}
    /\ ToSet(todo) \subseteq Worlds /\ rounds \in 0..MaxRounds
    /\ member \subseteq Worlds /\ nonces \subseteq Worlds /\ astray \subseteq Worlds
    /\ faults \in 0..MaxFaults

Init ==
    /\ running = TRUE /\ pc = "list" /\ todo = <<>> /\ rounds = 0
    /\ rta = FALSE /\ member = {} /\ nonces = {}
    /\ sig = FALSE /\ conn = FALSE /\ faults = 0 /\ astray = {}

World == Head(todo)

Fault == faults < MaxFaults /\ faults' = faults + 1

-----------------------------------------------------------------------------
(* runFriendWorlds.                                                        *)

\* friendWorlds: the worlds that are open, or an error and none of them.
ListWorlds ==
    /\ pc = "list" /\ pc' = "round"
    /\ \/ /\ running
          /\ \E open_ \in SUBSET Worlds: todo' = SetToSeq(open_)
       \/ todo' = <<>>
    /\ UNCHANGED <<running, rounds, rta, xbox, open, faults, astray>>

\* A world that is full is left out.
NextWorld ==
    /\ pc = "round" /\ todo # <<>> /\ running
    /\ \/ pc' = "connection" /\ UNCHANGED todo
       \/ pc' = "round" /\ todo' = Tail(todo)
    /\ UNCHANGED <<running, rounds, rta, xbox, open, faults, astray>>

RoundOver ==
    /\ pc = "round"
    /\ \/ todo # <<>> /\ ~running /\ pc' = "ended"
       \/ todo = <<>> /\ pc' = "pause"
    /\ UNCHANGED <<running, todo, rounds, rta, xbox, open, faults, astray>>

Pause ==
    /\ pc = "pause"
    /\ \/ ~running /\ pc' = "ended" /\ UNCHANGED rounds
       \/ rounds < MaxRounds /\ rounds' = rounds + 1 /\ pc' = "list"
    /\ UNCHANGED <<running, todo, rta, xbox, open, faults, astray>>

-----------------------------------------------------------------------------
(* scrapeWorld.                                                            *)

\* cancelRTA, the last of the deferred calls.
Return ==
    /\ rta' = FALSE /\ todo' = Tail(todo) /\ pc' = "round"

\* ConnectionID, or its time limit.
Connection ==
    /\ pc = "connection"
    /\ \/ running /\ rta' = TRUE /\ pc' = "join" /\ UNCHANGED todo
       \/ Return
    /\ UNCHANGED <<running, rounds, xbox, open, faults, astray>>

JoinSession ==
    /\ pc = "join" /\ running
    /\ member' = member \cup {World} /\ pc' = "nonce"
    /\ UNCHANGED <<running, todo, rounds, rta, nonces, open, faults, astray>>

\* Refused, or canceled: before or after Xbox Live has applied it.  There is no
\* JoinedSession to leave then.
JoinFails ==
    /\ pc = "join"
    /\ (~running /\ UNCHANGED faults) \/ Fault
    /\ \/ UNCHANGED <<member, astray>>
       \/ member' = member \cup {World} /\ astray' = astray \cup {World}
    /\ Return
    /\ UNCHANGED <<running, rounds, nonces, open>>

\* Mutant of WaitNonce: polls until there is a nonce.
WaitNonceUnlimited ==
    /\ pc = "nonce"
    /\ \/ World \in nonces /\ running /\ pc' = "signaling"
       \/ ~running /\ pc' = "close"
    /\ UNCHANGED <<running, todo, rounds, rta, xbox, open, faults, astray>>

\* Polls the session for its nonce for twenty seconds.
WaitNonce ==
    /\ pc = "nonce"
    /\ \/ World \in nonces /\ running /\ pc' = "signaling"
       \/ pc' = "close"
    /\ UNCHANGED <<running, todo, rounds, rta, xbox, open, faults, astray>>

\* MCToken and dialFriendSignaling, DialContextNetwork, DoSpawnContext.
Dial(from, to) ==
    /\ pc = from
    /\ \/ running /\ pc' = to
       \/ pc' = "close"
    /\ UNCHANGED <<running, todo, rounds, rta, xbox, faults, astray>>

DialSignaling ==
    Dial("signaling", "dial") /\ sig' = (pc' = "dial") /\ UNCHANGED conn

DialGame ==
    Dial("dial", "spawn") /\ conn' = (pc' = "spawn") /\ UNCHANGED sig

Spawn == Dial("spawn", "record") /\ UNCHANGED open

\* Mutant of Record: reads until the host closes the connection.
RecordUnwatched ==
    /\ pc = "record" /\ running
    /\ pc' = "close"
    /\ UNCHANGED <<running, todo, rounds, rta, xbox, open, faults, astray>>

\* recordPlayerList: until the stay is over, the connection drops, or the
\* context closes it.
Record ==
    /\ pc = "record"
    /\ pc' = "close"
    /\ UNCHANGED <<running, todo, rounds, rta, xbox, open, faults, astray>>

\* conn.Close and sig.Close.
Close ==
    /\ pc = "close" /\ pc' = "leave"
    /\ sig' = FALSE /\ conn' = FALSE
    /\ UNCHANGED <<running, todo, rounds, rta, xbox, faults, astray>>

\* Mutant of Leave: the request is made with the context of the visit.
LeaveCanceled ==
    /\ pc = "leave"
    /\ \/ /\ running /\ member' = member \ {World} /\ nonces' = nonces \ {World}
          /\ UNCHANGED <<faults, astray>>
       \/ ~running /\ UNCHANGED <<xbox, faults, astray>>
       \/ Fault /\ astray' = astray \cup {World} /\ UNCHANGED xbox
    /\ Return
    /\ UNCHANGED <<running, rounds, open>>

\* Leave has a context of its own.
Leave ==
    /\ pc = "leave"
    /\ \/ /\ member' = member \ {World} /\ nonces' = nonces \ {World}
          /\ astray' = astray \ {World} /\ UNCHANGED faults
       \/ Fault /\ astray' = astray \cup {World} /\ UNCHANGED xbox
    /\ Return
    /\ UNCHANGED <<running, rounds, open>>

Step ==
    \/ ListWorlds \/ NextWorld \/ RoundOver \/ Pause
    \/ Connection \/ JoinSession \/ JoinFails \/ WaitNonce
    \/ DialSignaling \/ DialGame \/ Spawn \/ Record \/ Close \/ Leave

-----------------------------------------------------------------------------
(* What happens around it.                                                 *)

\* A signal.
Interrupt ==
    /\ running /\ running' = FALSE
    /\ UNCHANGED <<pc, todo, rounds, rta, xbox, open, faults, astray>>

\* external: a host gives a member a nonce, and not every host does.
Issue(w) ==
    /\ w \in member /\ w \notin nonces /\ rta
    /\ nonces' = nonces \cup {w}
    /\ UNCHANGED <<running, pc, todo, rounds, rta, member, open, faults, astray>>

\* Connect is called once: a websocket that drops stays down.
Drop ==
    /\ rta /\ pc \in Stages /\ rta' = FALSE
    /\ UNCHANGED <<running, pc, todo, rounds, xbox, open, faults, astray>>

\* external: Xbox Live takes a member out whose connection is gone.
Expire(w) ==
    /\ w \in member /\ ~(rta /\ pc \in Stages /\ World = w)
    /\ member' = member \ {w} /\ nonces' = nonces \ {w} /\ astray' = astray \ {w}
    /\ UNCHANGED <<running, pc, todo, rounds, rta, open, faults>>

Next ==
    \/ Step \/ Interrupt \/ Drop
    \/ \E w \in Worlds: Issue(w) \/ Expire(w)

Spec == Init /\ [][Next]_visitVars

\* Every wait of the visit has its limit.
Fairness == WF_visitVars(Step)

FairSpec == Spec /\ Fairness

-----------------------------------------------------------------------------
(* Properties.                                                             *)

\* Whatever fails and whenever the process is stopped, a visit that has joined
\* a session has left it when it returns: between visits the account is a
\* member only where the request to leave failed or the answer to the join was
\* lost, and its connections are closed.
NothingLeftBehind ==
    pc \notin Stages => member \subseteq astray /\ ~sig /\ ~conn /\ ~rta

\* A host that gives no nonce, or does not answer, costs its own visit: every
\* world of the round gets its turn.
EveryWorldTried ==
    \A w \in Worlds: []<>(w \notin ToSet(todo) \/ ~running)

\* A signal ends the process from wherever it is, the deferred calls done.
StopEnds == []<>(running \/ pc = "ended")
=============================================================================
