----------------------------- MODULE FriendAdder -----------------------------
(***************************************************************************)
(* friendadder.go: sends a friend request, one per second, to every player *)
(* recorded in some place who is neither a friend nor was asked before.    *)
(* Each broadcast has one adder for the life of the process; they share    *)
(* the file of players already asked.                                      *)
(*                                                                         *)
(* The players to ask are a set: pending skips repetitions, and nothing    *)
(* depends on the order of the file.  A request that is sent may reach     *)
(* Xbox Live without its answer reaching us.                               *)
(***************************************************************************)
EXTENDS Naturals, FiniteSets

CONSTANTS
    Accounts,     \* broadcasts with an adder
    Players,      \* players recorded by the scraper
    Self,         \* Self[a]: the account's own player, recorded like any other
    Workers,      \* identities of the run goroutines of one adder
    MaxFailures,  \* maxAddFailures
    MaxLimits,    \* bound: answers 429
    MaxRestarts   \* bound: times the process is killed

VARIABLES
    friends,    \* friends[a]: friends of account a
    asked,      \* asked[a]: players its requests have reached
    added,      \* the players in the file
    running,    \* running[a]
    stop,       \* stop[a]: the goroutine Stop would cancel
    run,        \* run[a][w]: goroutine w of adder a
    limits,     \* answers 429 so far
    restarts,   \* restarts so far
    twice,      \* history: twice[a]: players reached more than once
    unsure,     \* history: unsure[a]: players reached, without our recording it
    told        \* history: told[a]: the last start was answered nothing to do

xboxVars == <<friends, asked, twice, unsure>>
vars == <<xboxVars, added, running, stop, run, limits, restarts, told>>

Nobody == "nobody"
Off == [step |-> "off", todo |-> {}, who |-> Nobody, failures |-> 0, cancelled |-> FALSE]

Steps == {"off", "waiting", "sending", "recording", "limited"}

TypeOK ==
    /\ friends \in [Accounts -> SUBSET Players] /\ asked \in [Accounts -> SUBSET Players]
    /\ twice \in [Accounts -> SUBSET Players] /\ unsure \in [Accounts -> SUBSET Players]
    /\ added \subseteq Players
    /\ running \in [Accounts -> BOOLEAN] /\ told \in [Accounts -> BOOLEAN]
    /\ stop \in [Accounts -> Workers]
    /\ run \in [Accounts -> [Workers ->
                  [step : Steps, todo : SUBSET Players, who : Players \cup {Nobody},
                   failures : 0..MaxFailures, cancelled : BOOLEAN]]]
    /\ limits \in 0..MaxLimits /\ restarts \in 0..MaxRestarts

Init ==
    /\ friends \in [Accounts -> SUBSET Players] /\ \A a \in Accounts : Self[a] \notin friends[a]
    /\ asked = [a \in Accounts |-> {}] /\ twice = asked /\ unsure = asked
    /\ added = {}
    /\ running = [a \in Accounts |-> FALSE] /\ told = running
    /\ stop \in [Accounts -> {CHOOSE w \in Workers : TRUE}]
    /\ run = [a \in Accounts |-> [w \in Workers |-> Off]]
    /\ limits = 0 /\ restarts = 0

-----------------------------------------------------------------------------
(* The operator.                                                           *)

\* Everyone on the account's people list, followed back or not.
ListFriends(a) == friends[a]

\* pending: neither ourselves, nor in the file, nor a friend.
Pending(a) == Players \ ({Self[a]} \cup added \cup ListFriends(a))

\* Start, when no run is under way; listing the friends may fail.
Start(a) ==
    /\ ~running[a]
    /\ told' = [told EXCEPT ![a] = Pending(a) = {}]
    /\ \/ /\ Pending(a) # {}
          /\ \E w \in Workers :
                /\ run[a][w] = Off
                /\ run' = [run EXCEPT ![a][w] =
                             [Off EXCEPT !.step = "waiting", !.todo = Pending(a)]]
                /\ stop' = [stop EXCEPT ![a] = w]
          /\ running' = [running EXCEPT ![a] = TRUE]
       \/ Pending(a) = {} /\ UNCHANGED <<run, stop, running>>
    /\ UNCHANGED <<xboxVars, added, limits, restarts>>

\* Mutant of Stop: running is cleared at once, as the inviters do.
StopClears(a) ==
    /\ running[a]
    /\ run' = [run EXCEPT ![a][stop[a]].cancelled = TRUE]
    /\ running' = [running EXCEPT ![a] = FALSE]
    /\ UNCHANGED <<xboxVars, added, stop, limits, restarts, told>>

\* Stop cancels the run, which clears running when it has ended.
Stop(a) ==
    /\ running[a]
    /\ run' = [run EXCEPT ![a][stop[a]].cancelled = TRUE]
    /\ UNCHANGED <<xboxVars, added, running, stop, limits, restarts, told>>

-----------------------------------------------------------------------------
(* run.                                                                    *)

\* run returns: the deferred function clears running.
Returns(a, w) ==
    /\ run' = [run EXCEPT ![a][w] = Off]
    /\ running' = [running EXCEPT ![a] = FALSE]

\* The next player's turn; select may choose it over a cancelled context.
Tick(a, w) ==
    /\ run[a][w].step = "waiting" /\ run[a][w].todo # {}
    /\ \E x \in run[a][w].todo :
          run' = [run EXCEPT ![a][w].step = "sending", ![a][w].who = x]
    /\ UNCHANGED <<xboxVars, added, running, stop, limits, restarts, told>>

\* Everyone was tried, or the context is done.
Finishes(a, w) ==
    /\ \/ run[a][w].step = "waiting" /\ run[a][w].todo = {}
       \/ run[a][w].step \in {"waiting", "limited"} /\ run[a][w].cancelled
    /\ Returns(a, w)
    /\ UNCHANGED <<xboxVars, added, stop, limits, restarts, told>>

\* The request reaches Xbox Live.
Reaches(a, x) ==
    /\ asked' = [asked EXCEPT ![a] = @ \cup {x}]
    /\ twice' = [twice EXCEPT ![a] = @ \cup (asked[a] \cap {x})]

\* It is answered 2xx.
Sent(a, w) ==
    /\ run[a][w].step = "sending"
    /\ Reaches(a, run[a][w].who)
    /\ run' = [run EXCEPT ![a][w].step = "recording"]
    /\ UNCHANGED <<friends, unsure, added, running, stop, limits, restarts, told>>

Records(a, w) ==
    /\ run[a][w].step = "recording"
    /\ added' = added \cup {run[a][w].who}
    /\ run' = [run EXCEPT ![a][w].step = "waiting", ![a][w].failures = 0,
                          ![a][w].todo = @ \ {run[a][w].who}]
    /\ UNCHANGED <<xboxVars, running, stop, limits, restarts, told>>

\* Mutant of CountsFailure: the player is tried again.
CountsFailureRetries(a, w) ==
    /\ run' = [run EXCEPT ![a][w].step = "waiting"]
    /\ UNCHANGED running

\* One more failure in a row: the run goes on with the next player, or stops.
CountsFailure(a, w) ==
    IF run[a][w].failures + 1 >= MaxFailures THEN Returns(a, w)
    ELSE /\ run' = [run EXCEPT ![a][w].step = "waiting", ![a][w].failures = @ + 1,
                               ![a][w].todo = @ \ {run[a][w].who}]
         /\ UNCHANGED running

\* Mutant of Fails: a refused player is recorded as well.
FailsRecorded(a, w) ==
    /\ run[a][w].step = "sending"
    /\ CountsFailure(a, w)
    /\ added' = added \cup {run[a][w].who}
    /\ UNCHANGED <<xboxVars, stop, limits, restarts, told>>

\* The request is refused, or there is no answer to it.
Fails(a, w) ==
    /\ run[a][w].step = "sending"
    /\ CountsFailure(a, w)
    /\ \/ UNCHANGED <<asked, twice, unsure>>
       \/ /\ Reaches(a, run[a][w].who)
          /\ unsure' = [unsure EXCEPT ![a] = @ \cup {run[a][w].who}]
    /\ UNCHANGED <<friends, added, stop, limits, restarts, told>>

\* 429: the same player is tried again after a wait.
Limited(a, w) ==
    /\ run[a][w].step = "sending"
    /\ limits < MaxLimits /\ limits' = limits + 1
    /\ run' = [run EXCEPT ![a][w].step = "limited"]
    /\ UNCHANGED <<xboxVars, added, running, stop, restarts, told>>

LimitOver(a, w) ==
    /\ run[a][w].step = "limited"
    /\ run' = [run EXCEPT ![a][w].step = "waiting"]
    /\ UNCHANGED <<xboxVars, added, running, stop, limits, restarts, told>>

-----------------------------------------------------------------------------
(* Players and the process.                                                *)

\* A player who was asked accepts.
Befriends(a, x) ==
    /\ x \in asked[a] \ friends[a]
    /\ friends' = [friends EXCEPT ![a] = @ \cup {x}]
    /\ UNCHANGED <<asked, twice, unsure, added, running, stop, run, limits, restarts,
                   told>>

\* The process is killed: what was sent and not written down is forgotten.
Restart ==
    /\ restarts < MaxRestarts /\ restarts' = restarts + 1
    /\ unsure' = [a \in Accounts |-> unsure[a] \cup
                    {run[a][w].who : w \in {v \in Workers : run[a][v].step = "recording"}}]
    /\ running' = [a \in Accounts |-> FALSE] /\ told' = running'
    /\ run' = [a \in Accounts |-> [w \in Workers |-> Off]]
    /\ UNCHANGED <<friends, asked, twice, added, stop, limits>>

-----------------------------------------------------------------------------
Run(a, w) == Tick(a, w) \/ Finishes(a, w) \/ Sent(a, w) \/ Records(a, w)
             \/ Fails(a, w) \/ Limited(a, w) \/ LimitOver(a, w)

Next ==
    \/ \E a \in Accounts : Start(a) \/ Stop(a)
    \/ \E a \in Accounts, w \in Workers : Run(a, w)
    \/ \E a \in Accounts, x \in Players : Befriends(a, x)
    \/ Restart

\* Goroutines run, and requests are answered or time out.
Fairness == \A a \in Accounts, w \in Workers : WF_vars(Run(a, w))

Spec == Init /\ [][Next]_vars

FairSpec == Spec /\ Fairness

-----------------------------------------------------------------------------
(* Properties.                                                             *)

\* "so a rerun continues where the last one stopped" (friendadder.go:40): through
\* stops, reruns and restarts nobody is asked twice, save where an answer was
\* lost or not yet written down, and the account never asks itself.
AskedOnce ==
    \A a \in Accounts : twice[a] \subseteq unsure[a] /\ Self[a] \notin asked[a]

\* "everyone recorded from there is already a friend or was already sent a
\* request" (friendadder.go:237), by this account or by another that shares the
\* file: nobody is left out for good when a start finds nothing to do.
NothingLeft ==
    \A a \in Accounts :
        told[a] => Players \ {Self[a]}
                     \subseteq friends[a] \cup UNION {asked[b] : b \in Accounts}

\* A run ends by itself, and a stopped one ends (friendadder.go:94-100, 164-220):
\* the adder can be started again.
RunEnds == \A a \in Accounts : []<>(~running[a])
=============================================================================
