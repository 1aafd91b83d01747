---------------------------- MODULE FriendRequests ----------------------------
(***************************************************************************)
(* xbl/friends.go: FriendManager accepts incoming friend requests.  Run    *)
(* scans for pending requests, woken by a timer or by a push; a worker     *)
(* takes the people found off a bounded queue and accepts them one at a    *)
(* time, and clears a request that could not be accepted.  The scraper     *)
(* also calls CheckPending directly, from a goroutine of its own, so scans *)
(* may overlap (cmd/scraper/main.go).                                      *)
(*                                                                         *)
(* The queue and the request for a scan or an accept go by the names of    *)
(* people; tokens and HTTP are outcomes.  Durations are left out: a timer  *)
(* that is set may fire, and a Retry-After that was asked for passes.      *)
(***************************************************************************)
EXTENDS Naturals, Sequences, FiniteSets, SequencesExt

CONSTANTS
    People,       \* who may ask to be friends
    QueueMax,     \* capacity of the queue
    MaxRequests,  \* bound: requests ever made
    MaxLimits,    \* bound: answers 429
    Direct        \* CheckPending is called directly as well

ASSUME FriendAssumption ==
    /\ QueueMax \in Nat \ {0} /\ MaxRequests \in Nat /\ MaxLimits \in Nat
    /\ Direct \in BOOLEAN

Nobody == "nobody"
ASSUME NobodyAssumption == Nobody \notin People

Scanners == IF Direct THEN {"run", "direct"} ELSE {"run"}

VARIABLES
    requests,   \* people whose request is pending at Xbox Live
    friends,    \* people who are friends there
    asked,      \* number of requests made so far
    queue,      \* people waiting to be accepted
    trigger,    \* is there a value in the channel Trigger
    timer,      \* Run's timer: due now, retry, poll, or off
    limited,    \* is retryAfter in the future
    limits,     \* answers 429 so far
    scan,       \* scan[c]: where scanner c is
    found,      \* found[c]: the people it still has to put in the queue
    work,       \* what the worker is doing, and to whom
    notified,   \* history: a push came after Run's last scan began
    accepted,   \* history: people whose accept was answered isFriend
    \* history of people since the worker last took them off the queue:
    removed,    \* those deny removed after an accept was answered isFriend
    unsure      \* those whose accept got no answer, or an error for one

xboxVars == <<requests, friends, asked>>
historyVars == <<accepted, removed, unsure>>
vars == <<xboxVars, queue, trigger, timer, limited, limits, scan, found, work,
          notified, historyVars>>

Resting == [step |-> "idle", who |-> Nobody]

TypeOK ==
    /\ requests \subseteq People /\ friends \subseteq People /\ asked \in 0..MaxRequests
    /\ queue \in Seq(People) /\ Len(queue) <= QueueMax
    /\ trigger \in BOOLEAN /\ limited \in BOOLEAN /\ limits \in 0..MaxLimits
    /\ timer \in {"due", "retry", "poll", "off"}
    /\ scan \in [Scanners -> {"waiting", "woken", "getting", "queueing"}]
    /\ found \in [Scanners -> Seq(People)]
    /\ work \in [step : {"idle", "accepting", "denying"}, who : People \cup {Nobody}]
    /\ notified \in BOOLEAN
    /\ accepted \subseteq People /\ removed \subseteq People /\ unsure \subseteq People

Init ==
    /\ requests = {} /\ friends = {} /\ asked = 0
    /\ queue = <<>> /\ trigger = FALSE /\ timer = "due"
    /\ limited = FALSE /\ limits = 0
    /\ scan = [c \in Scanners |-> "waiting"]
    /\ found = [c \in Scanners |-> <<>>]
    /\ work = Resting
    /\ notified = FALSE /\ accepted = {} /\ removed = {} /\ unsure = {}

-----------------------------------------------------------------------------
(* Xbox Live, the people on it, and time.                                  *)

Asks(x) ==
    /\ asked < MaxRequests /\ x \notin requests \cup friends
    /\ requests' = requests \cup {x} /\ asked' = asked + 1
    /\ UNCHANGED <<friends, queue, trigger, timer, limited, limits, scan, found,
                   work, notified, historyVars>>

\* A person withdraws the request, or stops being a friend.
Leaves(x) ==
    /\ x \in requests \cup friends
    /\ requests' = requests \ {x} /\ friends' = friends \ {x}
    /\ accepted' = accepted \ {x}
    /\ UNCHANGED <<asked, queue, trigger, timer, limited, limits, scan, found,
                   work, notified, removed, unsure>>

RetryAfterPasses ==
    /\ limited
    /\ limited' = FALSE
    /\ UNCHANGED <<xboxVars, queue, trigger, timer, limits, scan, found, work,
                   notified, historyVars>>

\* OnFriendRequest: a push of the RTA websocket; it may never come.
Push ==
    /\ trigger' = TRUE /\ notified' = TRUE
    /\ UNCHANGED <<xboxVars, queue, timer, limited, limits, scan, found, work,
                   historyVars>>

-----------------------------------------------------------------------------
(* Scanning.                                                               *)

SetScan(c, step) == scan' = [scan EXCEPT ![c] = step]

\* Set to fire at once, after a pause or after the poll interval, it does so some time.
TimerFires == timer # "off"

\* Run's select.
Wakes ==
    /\ scan["run"] = "waiting"
    /\ \/ trigger /\ trigger' = FALSE /\ UNCHANGED timer
       \/ TimerFires /\ timer' = "off" /\ UNCHANGED trigger
    /\ SetScan("run", "woken")
    /\ UNCHANGED <<xboxVars, queue, limited, limits, found, work, notified,
                   historyVars>>

\* Mutant of WaitBeforeCheck: the early wake-up is forgotten.
WaitBeforeCheckPolls ==
    /\ scan["run"] = "woken" /\ limited
    /\ timer' = "poll"
    /\ SetScan("run", "waiting")
    /\ UNCHANGED <<xboxVars, queue, trigger, limited, limits, found, work, notified,
                   historyVars>>

\* Rate limited: the scan is put off until retryAfter.
WaitBeforeCheck ==
    /\ scan["run"] = "woken" /\ limited
    /\ timer' = "retry"
    /\ SetScan("run", "waiting")
    /\ UNCHANGED <<xboxVars, queue, trigger, limited, limits, found, work, notified,
                   historyVars>>

\* checkPending begins; the caller of CheckPending does not look at retryAfter.
Begins(c) ==
    /\ IF c = "run" THEN scan[c] = "woken" /\ ~limited ELSE scan[c] = "waiting"
    /\ SetScan(c, "getting")
    /\ notified' = (notified /\ c # "run")
    /\ UNCHANGED <<xboxVars, queue, trigger, timer, limited, limits, found, work,
                   historyVars>>

\* The scan ends, and Run's timer is set again.
Ends(c) ==
    /\ SetScan(c, "waiting")
    /\ timer' = IF c = "run" THEN "poll" ELSE timer

\* Mutant of GetFails: the loop continues without setting the timer.
GetFailsUnarmed(c) ==
    /\ scan[c] = "getting"
    /\ SetScan(c, "waiting")
    /\ \/ UNCHANGED <<limited, limits>>
       \/ limits < MaxLimits /\ limits' = limits + 1 /\ limited' = TRUE
    /\ UNCHANGED <<xboxVars, queue, trigger, timer, found, work, notified,
                   historyVars>>

\* No token, no answer, an answer that makes no sense, or 429.
GetFails(c) ==
    /\ scan[c] = "getting"
    /\ Ends(c)
    /\ \/ UNCHANGED <<limited, limits>>
       \/ limits < MaxLimits /\ limits' = limits + 1 /\ limited' = TRUE
    /\ UNCHANGED <<xboxVars, queue, trigger, found, work, notified, historyVars>>

\* The answer lists everyone whose request is pending now.
GetAnswered(c) ==
    /\ scan[c] = "getting"
    /\ SetScan(c, "queueing")
    /\ \E people \in SetToSeqs(requests) : found' = [found EXCEPT ![c] = people]
    /\ UNCHANGED <<xboxVars, queue, trigger, timer, limited, limits, work, notified,
                   historyVars>>

\* The next person goes into the queue, or is dropped when it is full.
Enqueue(c) ==
    /\ scan[c] = "queueing" /\ found[c] # <<>>
    /\ queue' = IF Len(queue) < QueueMax THEN Append(queue, Head(found[c])) ELSE queue
    /\ found' = [found EXCEPT ![c] = Tail(@)]
    /\ UNCHANGED <<xboxVars, trigger, timer, limited, limits, scan, work, notified,
                   historyVars>>

ScanEnds(c) ==
    /\ scan[c] = "queueing" /\ found[c] = <<>>
    /\ Ends(c)
    /\ UNCHANGED <<xboxVars, queue, trigger, limited, limits, found, work, notified,
                   historyVars>>

-----------------------------------------------------------------------------
(* Accepting: runQueue, process and deny.                                  *)

Takes ==
    /\ work = Resting /\ queue # <<>>
    /\ work' = [step |-> "accepting", who |-> Head(queue)]
    /\ queue' = Tail(queue)
    /\ removed' = removed \ {Head(queue)} /\ unsure' = unsure \ {Head(queue)}
    /\ UNCHANGED <<xboxVars, trigger, timer, limited, limits, scan, found, notified,
                   accepted>>

Denies == work' = [work EXCEPT !.step = "denying"]

\* The PUT is answered isFriend: a pending request has become a friendship, or
\* there was one.
Accepts ==
    /\ work.step = "accepting"
    /\ work.who \in requests \cup friends
    /\ requests' = requests \ {work.who} /\ friends' = friends \cup {work.who}
    /\ accepted' = accepted \cup {work.who}
    /\ work' = Resting
    /\ UNCHANGED <<asked, queue, trigger, timer, limited, limits, scan, found,
                   notified, removed, unsure>>

\* A PUT that is answered with an error, or not at all, may have taken effect.
Unsure ==
    /\ \/ UNCHANGED <<requests, friends>>
       \/ /\ work.who \in requests
          /\ requests' = requests \ {work.who} /\ friends' = friends \cup {work.who}
    /\ unsure' = unsure \cup {work.who}

\* The PUT is answered without isFriend, which also any error is, the status not
\* being looked at: such a one may concern a friend, who was in the queue twice.
NotAccepted ==
    /\ work.step = "accepting"
    /\ Denies
    /\ \/ work.who \notin friends /\ UNCHANGED <<requests, friends, unsure>>
       \/ Unsure
    /\ UNCHANGED <<asked, queue, trigger, timer, limited, limits, scan, found,
                   notified, accepted, removed>>

AcceptUnanswered ==
    /\ work.step = "accepting"
    /\ Denies /\ Unsure
    /\ UNCHANGED <<asked, queue, trigger, timer, limited, limits, scan, found,
                   notified, accepted, removed>>

\* Mutant of AcceptPutOff: a 429 is taken for a refusal.
AcceptPutOffDenies ==
    /\ work.step = "accepting"
    /\ limits < MaxLimits /\ limits' = limits + 1 /\ limited' = TRUE
    /\ Denies
    /\ UNCHANGED <<xboxVars, queue, trigger, timer, scan, found, notified,
                   historyVars>>

\* 429, or no token: the person is left for the next scan.
AcceptPutOff ==
    /\ work.step = "accepting"
    /\ \/ limits < MaxLimits /\ limits' = limits + 1 /\ limited' = TRUE
       \/ UNCHANGED <<limited, limits>>
    /\ work' = Resting
    /\ UNCHANGED <<xboxVars, queue, trigger, timer, scan, found, notified,
                   historyVars>>

\* The DELETE removes a request and a friendship alike.
Clears ==
    /\ work.step = "denying"
    /\ requests' = requests \ {work.who} /\ friends' = friends \ {work.who}
    /\ removed' = removed \cup (accepted \cap {work.who})
    /\ accepted' = accepted \ {work.who}
    /\ work' = Resting
    /\ UNCHANGED <<asked, queue, trigger, timer, limited, limits, scan, found,
                   notified, unsure>>

ClearFails ==
    /\ work.step = "denying"
    /\ work' = Resting
    /\ UNCHANGED <<xboxVars, queue, trigger, timer, limited, limits, scan, found,
                   notified, historyVars>>

-----------------------------------------------------------------------------
Scan(c) == Begins(c) \/ GetFails(c) \/ GetAnswered(c) \/ Enqueue(c) \/ ScanEnds(c)

Work == Takes \/ Accepts \/ NotAccepted \/ AcceptUnanswered \/ AcceptPutOff
        \/ Clears \/ ClearFails

World == \/ \E x \in People : Asks(x) \/ Leaves(x)
         \/ RetryAfterPasses \/ Push

Next == World \/ Wakes \/ WaitBeforeCheck \/ Work \/ \E c \in Scanners : Scan(c)

\* Timers fire and goroutines run; a scan or an accept that is tried again and
\* again is answered in the end.  Nothing is assumed of the pushes.
Fairness ==
    /\ WF_vars(RetryAfterPasses)
    /\ WF_vars(Wakes) /\ WF_vars(WaitBeforeCheck)
    /\ \A c \in Scanners : WF_vars(Scan(c)) /\ SF_vars(GetAnswered(c))
    /\ WF_vars(Work) /\ SF_vars(Accepts \/ Clears)

Spec == Init /\ [][Next]_vars

FairSpec == Spec /\ Fairness

-----------------------------------------------------------------------------
(* Properties.                                                             *)

\* "Buffered by 1 so a signal arriving while Run is mid-scan is not lost"
\* (friends.go:56-57): after a push, a scan of Run is due at once or as soon as
\* Retry-After allows, never only at the next poll.
WakeupKept ==
    notified => trigger \/ timer \in {"due", "retry"} \/ scan["run"] = "woken"

\* "deny removes/clears a friend relationship that failed to establish cleanly"
\* (friends.go:243).  One that was accepted is removed only when the same person,
\* who may be in the queue more than once, was accepted again and this time the
\* answer was an error or none (friends.go:212-238): not for a refusal of anybody,
\* a rate limit, or an error of a time before.
FriendsKept == removed \subseteq unsure

\* "A push going silent leaves nothing to trigger a check ever again under the
\* old design" (friends.go:86-87): whatever is dropped, refused or put off, a
\* pending request is dealt with in the end, pushes or not.
EveryoneAnswered == \A x \in People : []<>(x \notin requests)
=============================================================================
