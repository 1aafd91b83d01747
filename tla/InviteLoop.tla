------------------------------ MODULE InviteLoop ------------------------------
(***************************************************************************)
(* invitewatcher.go: the loop that invites every player of a list, lap     *)
(* after lap, and control.go's routes that start and stop it.  A session   *)
(* has a controller of its own, so a rebuild ends the loop and the next    *)
(* session's controller resumes it from the state file.                    *)
(*                                                                         *)
(* Controllers, loops and requests are identified by numbers that are used *)
(* again once nothing refers to them, so that sessions may be rebuilt for  *)
(* ever.  Start, Stop and recordProgress each run under their locks and    *)
(* are single steps.  Players are numbered in the order of the list files, *)
(* 0 is none.  The interval is left out: it only says how long a wait is.  *)
(***************************************************************************)
EXTENDS Naturals, FiniteSets, FiniteSetsExt

CONSTANTS
    Players,    \* XUIDs that may be on a list, numbers above 0
    Lists,      \* the queue and the accepted list
    Gens,       \* identities of sessions and their controllers
    Loops,      \* identities of loop goroutines
    Requests,   \* bound: HTTP requests being served at once
    MaxEdits    \* bound: changes of the list files

ASSUME InviteAssumption ==
    Players \subseteq Nat \ {0} /\ MaxEdits \in Nat

NoGen == 0
NoLoop == 0
NoList == "none"

ASSUME IdentityAssumption == NoGen \notin Gens /\ NoLoop \notin Loops

VARIABLES
    listed,   \* listed[t]: the players in the file of list t
    edits,    \* changes made to the files so far
    file,     \* the state file
    origin,   \* history: the list on which file.last was invited
    sess,     \* the session: none, installed, resuming, up
    gen,      \* its controller
    slot,     \* the controller the control server's routes lead to
    stop,     \* stop[g]: the loop controller g would cancel, if running
    pc,       \* pc[l]: where loop l is
    owner,    \* owner[l]: its controller
    dead,     \* dead[l]: its context was cancelled by Stop
    list,     \* list[l]: the list it runs on
    after,    \* after[l]: the player its first lap resumes after
    lap,      \* lap[l]: the players left in this lap
    turn,     \* history: whose turn it was last in this session, until raced
    req,      \* req[r]: a request being served
    told,     \* history: the operator was last told "stopped", until raced
    raced     \* history: a request met another, or a session's start or end

loopVars == <<pc, owner, dead, list, after, lap>>
sessVars == <<sess, gen, slot>>
listVars == <<listed, edits>>
vars == <<listVars, file, origin, sessVars, stop, loopVars, turn, req, told, raced>>

\* A request: nothing, or start or stop, for the controller it was routed to.
Idle == [kind |-> "none", gen |-> NoGen]
Request == [kind : {"none", "start", "stop"}, gen : Gens \cup {NoGen}]

Steps == {"off", "reading", "idle", "lap", "sending"}

TypeOK ==
    /\ listed \in [Lists -> SUBSET Players] /\ edits \in 0..MaxEdits
    /\ file \in [running : BOOLEAN, last : Players \cup {0}, list : Lists]
    /\ origin \in Lists
    /\ sess \in {"none", "installed", "resuming", "up"}
    /\ gen \in Gens \cup {NoGen} /\ slot \in Gens \cup {NoGen}
    /\ stop \in [Gens -> Loops \cup {NoLoop}]
    /\ pc \in [Loops -> Steps]
    /\ owner \in [Loops -> Gens \cup {NoGen}]
    /\ dead \in [Loops -> BOOLEAN]
    /\ list \in [Loops -> Lists \cup {NoList}]
    /\ after \in [Loops -> Players \cup {0}]
    /\ lap \in [Loops -> SUBSET Players]
    /\ turn \in Players \cup {0}
    /\ req \in [Requests -> Request]
    /\ told \in BOOLEAN /\ raced \in BOOLEAN

Init ==
    /\ listed = [t \in Lists |-> Players] /\ edits = 0
    /\ \E t \in Lists : /\ file = [running |-> FALSE, last |-> 0, list |-> t]
                        /\ origin = t
    /\ sess = "none" /\ gen = NoGen /\ slot = NoGen
    /\ stop = [g \in Gens |-> NoLoop]
    /\ pc = [l \in Loops |-> "off"]
    /\ owner = [l \in Loops |-> NoGen]
    /\ dead = [l \in Loops |-> FALSE] /\ list = [l \in Loops |-> NoList]
    /\ after = [l \in Loops |-> 0]
    /\ lap = [l \in Loops |-> {}]
    /\ turn = 0
    /\ req = [r \in Requests |-> Idle]
    /\ told = FALSE /\ raced = FALSE

-----------------------------------------------------------------------------
(* The files: a scraper appends, Prune removes (cmd/scraper, invitequeue). *)

Edit(t) ==
    /\ edits < MaxEdits
    /\ edits' = edits + 1
    /\ \/ \E x \in Players : /\ \A y \in listed[t] : y < x
                             /\ listed' = [listed EXCEPT ![t] = @ \cup {x}]
       \/ \E x \in listed[t] : listed' = [listed EXCEPT ![t] = @ \ {x}]
    /\ UNCHANGED <<file, origin, sessVars, stop, loopVars, turn, req, told, raced>>

-----------------------------------------------------------------------------
(* Controllers.                                                            *)

SessionAlive(g) == g = gen /\ sess # "none"

\* Mutant of LoopContext: loops are rooted in context.Background().
LoopContextBackground(g) == TRUE

\* Is the context alive that controller g gives its loops?  It is its session's.
LoopContext(g) == SessionAlive(g)

Cancelled(l) == dead[l] \/ ~LoopContext(owner[l])

\* Loops whose context is not cancelled.
Live == {l \in Loops : pc[l] # "off" /\ ~Cancelled(l)}

\* Where a start on list t begins: the saved position belongs to its list.
Position(t, fromTop) == IF ~fromTop /\ file.list = t THEN file.last ELSE 0

\* StartList: nothing while running, else the state is saved and a loop begun.
StartList(g, t, fromTop) ==
    IF stop[g] = NoLoop
    THEN \E l \in Loops :
           /\ pc[l] = "off" /\ \A h \in Gens : stop[h] # l
           /\ file' = [running |-> TRUE, last |-> Position(t, fromTop), list |-> t]
           /\ origin' = IF file'.last = 0 THEN t ELSE origin
           /\ stop' = [stop EXCEPT ![g] = l]
           /\ pc' = [pc EXCEPT ![l] = "reading"]
           /\ owner' = [owner EXCEPT ![l] = g]
           /\ dead' = [dead EXCEPT ![l] = FALSE]
           /\ list' = [list EXCEPT ![l] = t]
           /\ after' = [after EXCEPT ![l] = file'.last]
           /\ UNCHANGED lap
    ELSE UNCHANGED <<file, origin, stop, loopVars>>

\* Stop: cancels the loop and then writes the state; nothing if not running.
StopLoop(g) ==
    IF stop[g] # NoLoop
    THEN /\ dead' = [dead EXCEPT ![stop[g]] = TRUE]
         /\ stop' = [stop EXCEPT ![g] = NoLoop]
         /\ file' = [file EXCEPT !.running = FALSE]
    ELSE UNCHANGED <<dead, stop, file>>

-----------------------------------------------------------------------------
(* Sessions (main.go:468-476) and the process.                             *)

Unused(g) ==
    /\ g # gen /\ g # slot
    /\ \A l \in Loops : pc[l] # "off" => owner[l] # g
    /\ \A r \in Requests : req[r].gen # g

\* A new session's controller is made and its routes put in.
Install(g) ==
    /\ sess = "none" /\ Unused(g)
    /\ sess' = "installed" /\ gen' = g /\ slot' = g
    /\ stop' = [stop EXCEPT ![g] = NoLoop]
    /\ turn' = 0
    /\ UNCHANGED <<listVars, file, origin, loopVars, req, told, raced>>

\* ResumeIfWanted: the state is read, and then the loop started.
ResumeReads ==
    /\ sess = "installed"
    /\ sess' = IF file.running THEN "resuming" ELSE "up"
    /\ UNCHANGED <<listVars, file, origin, gen, slot, stop, loopVars, turn, req,
                   told, raced>>

\* Mutant of ResumeFromTop: every session begins again at the top.
ResumeFromTopAlways == TRUE

ResumeFromTop == FALSE

ResumeStarts ==
    /\ sess = "resuming"
    /\ sess' = "up"
    /\ StartList(gen, file.list, ResumeFromTop)
    /\ UNCHANGED <<listVars, gen, slot, turn, req, told, raced>>

\* The session is up, its loop resumed if wanted, and no request is under way.
Settled == sess = "up" /\ \A r \in Requests : req[r] = Idle

\* The session's context ends; its routes go a moment later.
SessionEnds ==
    /\ sess # "none"
    /\ sess' = "none"
    /\ raced' = (raced \/ ~Settled)
    /\ UNCHANGED <<listVars, file, origin, gen, slot, stop, loopVars, turn, req,
                   told>>

RoutesRemoved ==
    /\ slot # NoGen /\ ~SessionAlive(slot)
    /\ slot' = NoGen
    /\ UNCHANGED <<listVars, file, origin, sess, gen, stop, loopVars, turn, req,
                   told, raced>>

\* The process is killed and started again; only the files are left.
Restart ==
    /\ sess' = "none" /\ gen' = NoGen /\ slot' = NoGen
    /\ stop' = [g \in Gens |-> NoLoop]
    /\ pc' = [l \in Loops |-> "off"]
    /\ owner' = [l \in Loops |-> NoGen] /\ dead' = [l \in Loops |-> FALSE]
    /\ list' = [l \in Loops |-> NoList] /\ after' = [l \in Loops |-> 0]
    /\ lap' = [l \in Loops |-> {}]
    /\ req' = [r \in Requests |-> Idle]
    /\ turn' = 0
    /\ UNCHANGED <<listVars, file, origin, told, raced>>

-----------------------------------------------------------------------------
(* Requests.                                                               *)

\* ServeHTTP finds the controller of the broadcast in its slot.
Routed(r, kind) ==
    /\ req[r] = Idle /\ slot # NoGen
    /\ raced' = (raced \/ ~(Settled /\ slot = gen))
    /\ req' = [req EXCEPT ![r] = [kind |-> kind, gen |-> slot]]
    /\ told' = (told /\ kind # "start" /\ ~raced')
    /\ UNCHANGED <<listVars, file, origin, sessVars, stop, loopVars, turn>>

\* A start names a list or keeps that of the last run.
StartServed(r) ==
    /\ req[r].kind = "start"
    /\ req' = [req EXCEPT ![r] = Idle]
    /\ \E t \in Lists, fromTop \in BOOLEAN : StartList(req[r].gen, t, fromTop)
    /\ UNCHANGED <<listVars, sessVars, turn, told, raced>>

StopServed(r) ==
    /\ req[r].kind = "stop"
    /\ req' = [req EXCEPT ![r] = Idle]
    /\ told' = ~raced
    /\ StopLoop(req[r].gen)
    /\ UNCHANGED <<listVars, origin, sessVars, pc, owner, list, after, lap, turn,
                   raced>>

-----------------------------------------------------------------------------
(* run, one loop goroutine.                                                *)

\* resumeIndex: the players after the last one, or all of them when it is no
\* longer in the file.
From(players, last) ==
    IF last \in players THEN {x \in players : x > last} ELSE players

ReadList(l) ==
    /\ pc[l] = "reading"
    /\ LET players == listed[list[l]]
       IN  IF players = {}
           THEN /\ pc' = [pc EXCEPT ![l] = "idle"]
                /\ UNCHANGED <<after, lap>>
           ELSE /\ pc' = [pc EXCEPT ![l] = "lap"]
                /\ lap' = [lap EXCEPT ![l] = From(players, after[l])]
                /\ after' = [after EXCEPT ![l] = 0]
    /\ UNCHANGED <<listVars, file, origin, sessVars, stop, owner, dead, list, turn,
                   req, told, raced>>

\* A wait ends: the next invite, or the next look at an empty list.  When the
\* context is cancelled too, select may still choose this.
WaitOver(l) ==
    /\ pc[l] = "idle" \/ (pc[l] = "lap" /\ lap[l] # {})
    /\ pc' = [pc EXCEPT ![l] = IF @ = "idle" THEN "reading" ELSE "sending"]
    /\ UNCHANGED <<listVars, file, origin, sessVars, stop, owner, dead, list, after,
                   lap, turn, req, told, raced>>

Exit(l) ==
    /\ pc[l] = "idle" \/ (pc[l] = "lap" /\ lap[l] # {})
    /\ Cancelled(l)
    /\ pc' = [pc EXCEPT ![l] = "off"] /\ owner' = [owner EXCEPT ![l] = NoGen]
    /\ dead' = [dead EXCEPT ![l] = FALSE]
    /\ list' = [list EXCEPT ![l] = NoList] /\ after' = [after EXCEPT ![l] = 0]
    /\ lap' = [lap EXCEPT ![l] = {}]
    /\ UNCHANGED <<listVars, file, origin, sessVars, stop, turn, req, told, raced>>

\* Mutant of RecordProgress: it does not look whether the loop was cancelled.
RecordProgressBlindly(l, last) ==
    /\ file' = [running |-> TRUE, last |-> last, list |-> list[l]]
    /\ origin' = list[l]

\* Writes nothing once the loop's context is done.
RecordProgress(l, last) ==
    IF Cancelled(l) THEN UNCHANGED <<file, origin>>
    ELSE /\ file' = [running |-> TRUE, last |-> last, list |-> list[l]]
         /\ origin' = list[l]

\* The player is invited, unless connected already; a failure is logged, and
\* either way the turn is recorded.  An invite is cancelled with the loop.
Invite(l) ==
    /\ pc[l] = "sending"
    /\ turn' = IF Cancelled(l) \/ raced THEN turn ELSE Min(lap[l])
    /\ RecordProgress(l, Min(lap[l]))
    /\ lap' = [lap EXCEPT ![l] = @ \ {Min(@)}]
    /\ pc' = [pc EXCEPT ![l] = "lap"]
    /\ UNCHANGED <<listVars, sessVars, stop, owner, dead, list, after, req, told,
                   raced>>

LapComplete(l) ==
    /\ pc[l] = "lap" /\ lap[l] = {}
    /\ RecordProgress(l, 0)
    /\ pc' = [pc EXCEPT ![l] = "reading"]
    /\ UNCHANGED <<listVars, sessVars, stop, owner, dead, list, after, lap, turn,
                   req, told, raced>>

-----------------------------------------------------------------------------
Run(l) == ReadList(l) \/ WaitOver(l) \/ Exit(l) \/ Invite(l)
          \/ LapComplete(l)

Serve == \E r \in Requests : StartServed(r) \/ StopServed(r)

Next ==
    \/ \E t \in Lists : Edit(t)
    \/ \E g \in Gens : Install(g)
    \/ ResumeReads \/ ResumeStarts \/ SessionEnds \/ RoutesRemoved \/ Restart
    \/ \E r \in Requests : Routed(r, "start") \/ Routed(r, "stop")
    \/ Serve
    \/ \E l \in Loops : Run(l)

\* Goroutines run, a session is built after each one that ends, and a cancelled
\* loop, at one of its waits, leaves.
Fairness ==
    /\ WF_vars(\E g \in Gens : Install(g))
    /\ WF_vars(ResumeReads \/ ResumeStarts)
    /\ WF_vars(Serve) /\ WF_vars(RoutesRemoved)
    /\ \A l \in Loops : WF_vars(Run(l))
    /\ SF_vars(\E l \in Loops : Exit(l))

Spec == Init /\ [][Next]_vars

FairSpec == Spec /\ Fairness

-----------------------------------------------------------------------------
(* Properties.                                                             *)

\* "there is never more than one live goroutine" (invitewatcher.go:421), in
\* any order of starts, stops, rebuilds and restarts.
OneLoop == \A k, l \in Live : k = l

\* "Switching lists always starts the new one from its top: the saved position
\* belongs to the old list" (invitewatcher.go:276-277): the position in the file
\* is always that of a player invited on the list named beside it.
PositionOnItsList == file.last # 0 => origin = file.list

\* "Stop cancels the loop and persists that it should stay stopped": as long as
\* requests come one at a time to settled sessions, "stopped" stays true: no
\* loop goes on, and no later session resumes one (invitewatcher.go:314-319).
StopHonoured == told /\ ~raced => Live = {} /\ ~file.running

\* The session or the process ends before its loop invited anyone.
EndsTooSoon ==
    /\ file.running /\ listed[file.list] # {} /\ turn = 0
    /\ SessionEnds \/ Restart

\* "With it, each new session picks the loop up where the last one left off"
\* (invitewatcher.go:186-187): while invites are wanted, every player on the
\* list gets their turn again and again, however often the session is rebuilt,
\* if a session lasts long enough for one invite and no request raced.
EveryoneHasTurns ==
    <>[]~raced /\ <>[][~EndsTooSoon]_vars =>
       \A x \in Players :
          <>[](file.running /\ x \in listed[file.list]) => []<>(turn = x)
=============================================================================
