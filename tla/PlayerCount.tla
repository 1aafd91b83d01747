----------------------------- MODULE PlayerCount -----------------------------
(***************************************************************************)
(* The player count on the Friends tab: drift.go, and the part of main.go's*)
(* runSession that reads the count and pushes it.  One process runs several*)
(* broadcasts; they share the drifting count and the backend's count as it *)
(* was last read, and each writes a session document of its own.           *)
(*                                                                         *)
(* A read of the backend's count and the store of what it returned are two *)
(* steps, and so are the making of an update and its arrival: another      *)
(* broadcast may do either in between.  Time is counted in whole update    *)
(* intervals.                                                              *)
(***************************************************************************)
EXTENDS Integers, FiniteSetsExt

CONSTANTS
    Broadcasts,  \* the accounts of the process
    Configs,     \* settings: fake_player_count, fake_player_drift, max_players
    Moves,       \* the most moves Current catches up with (8 in drift.go)
    MaxReal,     \* bound: players on the backend
    MaxChanges,  \* bound: changes of their number
    MaxTime      \* bound: update intervals that pass

VARIABLES
    cfg,          \* config.json
    backend,      \* players on the backend
    changes,      \* how often that has changed
    realPlayers,  \* the count as last read, -1 for never
    state,        \* state[b]: where runSession or its ticker goroutine is
    fetched,      \* fetched[b]: the count b has read and not stored yet
    put,          \* put[b]: the count in the update b is sending
    shown,        \* shown[b]: the count in b's session document, 0 for no document
    time,         \* update intervals that have passed
    last,         \* playerCountDrift.last, as an interval
    value,        \* playerCountDrift.value
    moved         \* history: random moves made

driftVars == <<last, value, moved>>
countVars == <<cfg, backend, changes, realPlayers, state, fetched, put, shown,
               time, driftVars>>

Clamp(n, lo, hi) == Min({Max({n, lo}), hi})

-----------------------------------------------------------------------------
(* newPlayerCountDrift.                                                    *)

Drifts == cfg.driftMax > 0

\* Mutant of DriftMax: the range may reach max_players.
DriftMaxFull ==
    IF cfg.maxPlayers > 1 /\ cfg.driftMax > cfg.maxPlayers THEN cfg.maxPlayers
    ELSE cfg.driftMax

DriftMax ==
    IF cfg.maxPlayers > 1 /\ cfg.driftMax > cfg.maxPlayers - 1
    THEN cfg.maxPlayers - 1 ELSE cfg.driftMax

\* advertisesRealPlayers.
Real == ~Drifts /\ cfg.fake <= 0

DriftMin == Min({Max({cfg.driftMin, 1}), DriftMax})

MaxStep == Max({cfg.maxStep, 1})

DriftStart ==
    IF cfg.fake > 0 THEN Clamp(cfg.fake, DriftMin, DriftMax)
    ELSE (DriftMin + DriftMax) \div 2

TypeOK ==
    /\ cfg \in Configs /\ backend \in 0..MaxReal /\ changes \in 0..MaxChanges
    /\ realPlayers \in -1..MaxReal
    /\ state \in [Broadcasts -> {"off", "first", "make", "creating", "live",
                                 "polled", "push", "updating"}]
    /\ fetched \in [Broadcasts -> 0..MaxReal]
    /\ put \in [Broadcasts -> Nat] /\ shown \in [Broadcasts -> Nat]
    /\ time \in 0..MaxTime /\ last \in 0..MaxTime /\ moved \in 0..MaxTime

Init ==
    /\ cfg \in Configs
    /\ backend \in {0, MaxReal} /\ changes = 0 /\ realPlayers = -1
    /\ state = [b \in Broadcasts |-> "off"]
    /\ fetched = [b \in Broadcasts |-> 0]
    /\ put = [b \in Broadcasts |-> 0] /\ shown = [b \in Broadcasts |-> 0]
    /\ time = 0 /\ last = 0 /\ moved = 0
    /\ value = IF Drifts THEN DriftStart ELSE 0

-----------------------------------------------------------------------------
(* The backend and time, each where it matters.                            *)

BackendChanges(n) ==
    /\ Real /\ changes < MaxChanges /\ n # backend
    /\ backend' = n /\ changes' = changes + 1
    /\ UNCHANGED <<cfg, realPlayers, state, fetched, put, shown, time, driftVars>>

IntervalPasses ==
    /\ Drifts /\ time < MaxTime
    /\ time' = time + 1
    /\ UNCHANGED <<cfg, backend, changes, realPlayers, state, fetched, put,
                   shown, driftVars>>

-----------------------------------------------------------------------------
(* Reading the count.                                                      *)

Goto(b, s) == state' = [state EXCEPT ![b] = s]

\* The first read of a session, before it is created; a fake count needs none.
\* A read that fails leaves the last count in place.
FirstFetch(b) ==
    /\ state[b] = "off"
    /\ \/ Real /\ fetched' = [fetched EXCEPT ![b] = backend] /\ Goto(b, "first")
       \/ Goto(b, "make") /\ UNCHANGED fetched
    /\ UNCHANGED <<cfg, backend, changes, realPlayers, put, shown, time, driftVars>>

\* The poll of countTicker; one that fails is only logged.
Poll(b) ==
    /\ state[b] = "live" /\ Real
    /\ fetched' = [fetched EXCEPT ![b] = backend]
    /\ Goto(b, "polled")
    /\ UNCHANGED <<cfg, backend, changes, realPlayers, put, shown, time, driftVars>>

\* realPlayers.Swap: a poll goes on to push the count if this changed it.
Swap(b) ==
    /\ state[b] \in {"first", "polled"}
    /\ realPlayers' = fetched[b]
    /\ Goto(b, CASE state[b] = "first" -> "make"
                 [] fetched[b] # realPlayers -> "push"
                 [] OTHER -> "live")
    /\ fetched' = [fetched EXCEPT ![b] = 0]
    /\ UNCHANGED <<cfg, backend, changes, put, shown, time, driftVars>>

-----------------------------------------------------------------------------
(* advertisedPlayers, and the updates of the session document.             *)

\* Mutant of MovesDue: every call moves the count.
MovesDuePerCall == 1

\* The moves Current makes: one per whole interval since the last one.
MovesDue == Min({time - last, Moves})

\* Where that many random moves may lead: MaxStep is at least 1, so any value of
\* the range within n steps.
Reachable(n) ==
    {Clamp(v, DriftMin, DriftMax) : v \in (value - n * MaxStep)..(value + n * MaxStep)}

\* Current.
Drift ==
    /\ value' \in Reachable(MovesDue)
    /\ moved' = moved + MovesDue
    /\ last' = IF MovesDue > 0 THEN time ELSE last

RealCount == Max({realPlayers, 1})

\* The count is read into put[b] by SetWorldInfo.
Advertise(b) ==
    IF Drifts THEN Drift /\ put' = [put EXCEPT ![b] = value']
    ELSE /\ put' = [put EXCEPT ![b] = IF cfg.fake > 0 THEN cfg.fake ELSE RealCount]
         /\ UNCHANGED driftVars

\* The first document, and the push of a changed count.
MakeUpdate(b) ==
    /\ state[b] \in {"make", "push"}
    /\ Advertise(b)
    /\ Goto(b, IF state[b] = "make" THEN "creating" ELSE "updating")
    /\ UNCHANGED <<cfg, backend, changes, realPlayers, fetched, shown, time>>

\* Mutant of Tick: the regular update sends the world info it has.
TickUnchanged(b) ==
    /\ state[b] = "live"
    /\ put' = [put EXCEPT ![b] = shown[b]]
    /\ Goto(b, "updating")
    /\ UNCHANGED <<cfg, backend, changes, realPlayers, fetched, shown, time, driftVars>>

\* The regular update of the session.
Tick(b) ==
    /\ state[b] = "live"
    /\ Advertise(b)
    /\ Goto(b, "updating")
    /\ UNCHANGED <<cfg, backend, changes, realPlayers, fetched, shown, time>>

UpdateLands(b) ==
    /\ state[b] \in {"creating", "updating"}
    /\ shown' = [shown EXCEPT ![b] = put[b]]
    /\ put' = [put EXCEPT ![b] = 0]
    /\ Goto(b, "live")
    /\ UNCHANGED <<cfg, backend, changes, realPlayers, fetched, time, driftVars>>

\* A failed Create ends the session, any other failed update is only logged.
UpdateFails(b) ==
    /\ state[b] \in {"creating", "updating"}
    /\ put' = [put EXCEPT ![b] = 0]
    /\ Goto(b, IF state[b] = "creating" THEN "off" ELSE "live")
    /\ UNCHANGED <<cfg, backend, changes, realPlayers, fetched, shown, time, driftVars>>

\* The session is over and will be rebuilt.
SessionEnds(b) ==
    /\ state[b] = "live"
    /\ Goto(b, "off")
    /\ UNCHANGED <<cfg, backend, changes, realPlayers, fetched, put, shown, time,
                   driftVars>>

-----------------------------------------------------------------------------
Step(b) == FirstFetch(b) \/ Swap(b) \/ MakeUpdate(b) \/ UpdateLands(b) \/ UpdateFails(b)

Next ==
    \/ \E n \in 0..MaxReal : BackendChanges(n)
    \/ IntervalPasses
    \/ \E b \in Broadcasts : Step(b) \/ Poll(b) \/ Tick(b) \/ SessionEnds(b)

Spec == Init /\ [][Next]_countVars

\* Both tickers of a session that goes on fire again and again, and of the polls
\* and updates that are tried again and again some succeed.
Fairness ==
    \A b \in Broadcasts :
        /\ WF_countVars(Step(b)) /\ SF_countVars(UpdateLands(b))
        /\ SF_countVars(Poll(b)) /\ SF_countVars(Tick(b))

FairSpec == Spec /\ Fairness

-----------------------------------------------------------------------------
(* Properties.                                                             *)

\* Whatever the settings, the Friends tab shows at least the host, and a drifting
\* count never shows the world as full, which would keep players out
\* (drift.go:47-58, 112-126).
CountJoinable ==
    \A b \in Broadcasts :
       state[b] \in {"creating", "updating"} =>
          /\ put[b] >= 1
          /\ Drifts /\ cfg.maxPlayers > 1 => put[b] < cfg.maxPlayers

\* "any number of broadcasts can read it on their own tickers without moving it
\* faster" (drift.go:28-29): there is at most one random move per interval.
DriftPace == moved <= time

ShowsReal(b) ==
    Real /\ state[b] \in {"live", "polled"} => shown[b] = Max({backend, 1})

\* When the number of players no longer changes, every broadcast that has a
\* session comes to show it, though only the first one to read a change is told
\* of it by Swap, a slower read may put an older count back, and sessions are
\* rebuilt on whatever was read last (drift.go:129-158, main.go:496-529).
RealCountShown == \A b \in Broadcasts : <>[]ShowsReal(b)
=============================================================================
