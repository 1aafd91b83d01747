---------------------------- MODULE FriendsInviter ----------------------------
(***************************************************************************)
(* The loop that invites the account's own friends: friendsinviter.go, and *)
(* the controller that each session of a broadcast makes for it (main.go). *)
(* A lap reads the friends list and invites everyone on it, at a pace, who *)
(* is not connected.                                                       *)
(*                                                                         *)
(* A start or stop may reach the controller of a session that is over: the *)
(* request has its handler by then.  A canceled loop notices it where it   *)
(* waits, and the request it has on the wire may still be answered.        *)
(***************************************************************************)
EXTENDS Integers, SequencesExt

CONSTANTS
    Friends,      \* players who are or become friends of the account
    MaxSessions,  \* bound: sessions of the broadcast
    MaxStarts,    \* bound: loops started
    MaxFailures   \* bound: requests that fail

Sessions == 1..MaxSessions
Loops == 1..MaxStarts

VARIABLES
    current,   \* the session that runs; the contexts of earlier ones are canceled
    running,   \* running[s]: friendsInviteController.running
    loop,      \* loop[s]: the loop that stop cancels, 0 for none
    owner,     \* owner[l]: the session the loop was started in, 0 for not yet
    stopped,   \* stopped[l]: Stop has canceled the loop's context
    pc,        \* pc[l]: where run is
    lap,       \* lap[l]: the friends of this lap still to come
    friends,   \* external: the account's friends list
    connected, \* bridge.ConnectedXUIDs
    tried,     \* history: friends an invite was attempted for or who were skipped
    late,      \* late[l]: history, invites delivered after the loop was canceled
    failures

invVars == <<current, running, loop, owner, stopped, pc, lap, friends, connected,
             tried, late, failures>>

TypeOK ==
    /\ current \in Sessions
    /\ running \in [Sessions -> BOOLEAN] /\ loop \in [Sessions -> Loops \cup {0}]
    /\ owner \in [Loops -> Sessions \cup {0}]
    /\ stopped \in [Loops -> BOOLEAN]
    /\ pc \in [Loops -> {"off", "list", "wait", "invite", "wire", "idle", "done"}]
    /\ \A l \in Loops: ToSet(lap[l]) \subseteq Friends
    /\ friends \subseteq Friends /\ connected \subseteq Friends
    /\ tried \subseteq Friends
    /\ late \in [Loops -> Nat] /\ failures \in 0..MaxFailures

Init ==
    /\ current = 1
    /\ running = [s \in Sessions |-> FALSE] /\ loop = [s \in Sessions |-> 0]
    /\ owner = [l \in Loops |-> 0] /\ stopped = [l \in Loops |-> FALSE]
    /\ pc = [l \in Loops |-> "off"] /\ lap = [l \in Loops |-> <<>>]
    /\ friends \in SUBSET Friends /\ connected \in SUBSET Friends
    /\ tried = {} /\ late = [l \in Loops |-> 0] /\ failures = 0

Canceled(l) == stopped[l] \/ owner[l] < current

-----------------------------------------------------------------------------
(* The controller.                                                         *)

Launch(s) ==
    \E l \in Loops:
        /\ owner[l] = 0 /\ \A k \in 1..(l - 1): owner[k] # 0
        /\ owner' = [owner EXCEPT ![l] = s]
        /\ loop' = [loop EXCEPT ![s] = l]
        /\ running' = [running EXCEPT ![s] = TRUE]
        /\ pc' = [pc EXCEPT ![l] = "list"]
        /\ UNCHANGED <<current, stopped, lap, friends, connected, tried, late,
                       failures>>

\* Mutant of Start: every start launches a loop.
StartAlways(s) == s <= current /\ Launch(s)

Start(s) == s <= current /\ ~running[s] /\ Launch(s)

Stop(s) ==
    /\ s <= current /\ running[s]
    /\ running' = [running EXCEPT ![s] = FALSE]
    /\ stopped' = [stopped EXCEPT ![loop[s]] = TRUE]
    /\ loop' = [loop EXCEPT ![s] = 0]
    /\ UNCHANGED <<current, owner, pc, lap, friends, connected, tried, late,
                   failures>>

\* runSession ends: its context is canceled, the next one has a new controller.
Rebuild ==
    /\ current < MaxSessions
    /\ current' = current + 1
    /\ UNCHANGED <<running, loop, owner, stopped, pc, lap, friends, connected,
                   tried, late, failures>>

-----------------------------------------------------------------------------
(* run.                                                                    *)

Goto(l, label) == pc' = [pc EXCEPT ![l] = label]

\* An error, which a canceled context always is, or an empty list ends in the
\* wait of five seconds.
ListFails(l) ==
    /\ pc[l] = "list"
    /\ \/ Canceled(l) /\ UNCHANGED failures
       \/ failures < MaxFailures /\ failures' = failures + 1
    /\ Goto(l, "idle")
    /\ UNCHANGED <<current, running, loop, owner, stopped, lap, friends, connected,
                   tried, late>>

ListFriends(l) ==
    /\ pc[l] = "list" /\ ~Canceled(l)
    /\ IF friends = {} THEN Goto(l, "idle") /\ UNCHANGED lap
       ELSE /\ Goto(l, "wait")
            /\ lap' = [lap EXCEPT ![l] = SetToSeq(friends)]
    /\ UNCHANGED <<current, running, loop, owner, stopped, friends, connected,
                   tried, late, failures>>

\* The pace of the invites, and the wait between laps: select takes either of
\* the channels that are ready.
Proceed(l) ==
    /\ pc[l] \in {"wait", "idle"}
    /\ Goto(l, IF pc[l] = "wait" THEN "invite" ELSE "list")
    /\ UNCHANGED <<current, running, loop, owner, stopped, lap, friends, connected,
                   tried, late, failures>>

\* Mutant of Ends: ctx.Done is not looked at in the wait between laps.
EndsWithinLap(l) ==
    /\ pc[l] = "wait" /\ Canceled(l)
    /\ Goto(l, "done")
    /\ UNCHANGED <<current, running, loop, owner, stopped, lap, friends, connected,
                   tried, late, failures>>

Ends(l) ==
    /\ pc[l] \in {"wait", "idle"} /\ Canceled(l)
    /\ Goto(l, "done")
    /\ UNCHANGED <<current, running, loop, owner, stopped, lap, friends, connected,
                   tried, late, failures>>

\* Mutant of Advance: a lap that is over starts again with the list it has.
AdvanceSameList(l) ==
    /\ lap' = [lap EXCEPT ![l] = Append(Tail(@), Head(@))]
    /\ Goto(l, "wait")

Advance(l) ==
    /\ lap' = [lap EXCEPT ![l] = Tail(@)]
    /\ Goto(l, IF Len(lap[l]) = 1 THEN "list" ELSE "wait")

\* A connected player is skipped.
Skip(l) ==
    /\ pc[l] = "invite" /\ Head(lap[l]) \in connected
    /\ tried' = tried \cup {Head(lap[l])}
    /\ Advance(l)
    /\ UNCHANGED <<current, running, loop, owner, stopped, friends, connected,
                   late, failures>>

\* Mutant of SendInvite: the request has a context of its own.
SendInviteDetached(l) ==
    /\ pc[l] = "invite" /\ Head(lap[l]) \notin connected
    /\ tried' = tried \cup {Head(lap[l])}
    /\ Goto(l, "wire") /\ UNCHANGED lap
    /\ UNCHANGED <<current, running, loop, owner, stopped, friends, connected,
                   late, failures>>

\* A request of a canceled context is not sent.
SendInvite(l) ==
    /\ pc[l] = "invite" /\ Head(lap[l]) \notin connected
    /\ tried' = tried \cup {Head(lap[l])}
    /\ IF Canceled(l) THEN Advance(l) ELSE Goto(l, "wire") /\ UNCHANGED lap
    /\ UNCHANGED <<current, running, loop, owner, stopped, friends, connected,
                   late, failures>>

\* An error is logged and the loop goes on.
Answered(l) ==
    /\ pc[l] = "wire"
    /\ \/ /\ late' = [late EXCEPT ![l] = @ + IF Canceled(l) THEN 1 ELSE 0]
          /\ UNCHANGED failures
       \/ Canceled(l) /\ UNCHANGED <<late, failures>>
       \/ failures < MaxFailures /\ failures' = failures + 1 /\ UNCHANGED late
    /\ Advance(l)
    /\ UNCHANGED <<current, running, loop, owner, stopped, friends, connected, tried>>

Run(l) ==
    \/ ListFails(l) \/ ListFriends(l) \/ Proceed(l) \/ Ends(l)
    \/ Skip(l) \/ SendInvite(l) \/ Answered(l)

-----------------------------------------------------------------------------
(* external: players become friends, and join.                             *)

Befriend(f) ==
    /\ f \notin friends /\ friends' = friends \cup {f}
    /\ tried' = tried \ {f}
    /\ UNCHANGED <<current, running, loop, owner, stopped, pc, lap, connected, late,
                   failures>>

Join(f) ==
    /\ f \notin connected /\ connected' = connected \cup {f}
    /\ UNCHANGED <<current, running, loop, owner, stopped, pc, lap, friends, tried,
                   late, failures>>

Next ==
    \/ Rebuild
    \/ \E s \in Sessions: Start(s) \/ Stop(s)
    \/ \E l \in Loops: Run(l)
    \/ \E f \in Friends: Befriend(f) \/ Join(f)

Spec == Init /\ [][Next]_invVars

\* Timers fire and requests end.  A canceled loop that reaches a wait has the
\* canceled context ready at once and its timer only later.
Fairness == (\A l \in Loops: WF_invVars(Run(l))) /\ SF_invVars(\E l \in Loops: Ends(l))

FairSpec == Spec /\ Fairness

-----------------------------------------------------------------------------
(* Properties.                                                             *)

\* The loop goes on until it is canceled.
Inviting(l) == pc[l] \notin {"off", "done"} /\ ~Canceled(l)

\* However starts, stops and rebuilds of the session interleave, one loop at
\* most goes on inviting: the pace the invites are limited to is the pace of
\* the account.
OneInviter == \A l, k \in Loops: Inviting(l) /\ Inviting(k) => l = k

\* After a stop or the end of the session a loop delivers the invite it has on
\* the wire at most.
StopHonoured == \A l \in Loops: late[l] <= 1

\* A canceled loop ends: none is left over from a session that is gone.
LoopsEnd == \A l \in Loops: []<>(owner[l] # 0 /\ Canceled(l) => pc[l] = "done")

\* While a loop goes on, everyone on the friends list gets their turn, a friend
\* made during a lap too: the list is read again for each lap.
FriendsAsked ==
    \A f \in Friends:
        []<>(f \in friends /\ (\E l \in Loops: Inviting(l)) => f \in tried)
=============================================================================
