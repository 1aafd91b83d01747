------------------------------ MODULE PlayerFile ------------------------------
(***************************************************************************)
(* cmd/scraper: the scrape loop appends every player it discovers to the   *)
(* player file, and the time to a companion file.  At startup and once a   *)
(* day pruneExpired, in a goroutine of its own, rewrites both without the  *)
(* players that have expired, each through a temporary file and a rename.  *)
(*                                                                         *)
(* A rename leaves the append handles on a file that has no name any more: *)
(* what goes through them is lost.  A file is the set of the players it    *)
(* has a line for; temporary files, which nobody reads, are left out.      *)
(***************************************************************************)
EXTENDS Naturals

CONSTANT Players

Nobody == "nobody"

List == "list"      \* the player file
Times == "times"    \* its companion, with the times of discovery
Files == {List, Times}

VARIABLES
    disk,       \* disk[f]: the players with a line in the file named f
    handle,     \* handle[f]: the append handle of queueWriter for f
    old,        \* players with a time of discovery past Expiry
    seen,       \* the players this process will not record again
    rec,        \* recordPlayerList: the append it is at, and for whom
    prune,      \* pruneExpired: its step, who has expired, the lines it has read
    starting,   \* the process starts: the scrape loop does not run yet
    recorded,   \* history: players whose last append has succeeded
    unlucky     \* history: those whose append met a prune, or was cut off

procVars == <<seen, rec, prune, starting>>
vars == <<disk, handle, old, procVars, recorded, unlucky>>

NoAppend == [step |-> "idle", who |-> Nobody]
NoPrune == [step |-> "idle", expired |-> {}, lines |-> {}]

PruneSteps == {"idle", "readFirst", "writeFirst", "readSecond", "writeSecond", "reopen"}

TypeOK ==
    /\ disk \in [Files -> SUBSET Players]
    /\ handle \in [Files -> {"current", "detached", "closed"}]
    /\ old \subseteq Players /\ seen \subseteq Players
    /\ rec \in [step : {"idle", "line", "time"}, who : Players \cup {Nobody}]
    /\ prune \in [step : PruneSteps, expired : SUBSET Players, lines : SUBSET Players]
    /\ starting \in BOOLEAN
    /\ recorded \subseteq Players /\ unlucky \subseteq Players

Closed == [f \in Files |-> "closed"]

Init ==
    /\ disk = [f \in Files |-> {}] /\ handle = Closed
    /\ old = {} /\ seen = {}
    /\ rec = NoAppend /\ prune = NoPrune /\ starting = TRUE
    /\ recorded = {} /\ unlucky = {}

-----------------------------------------------------------------------------
(* Time, and the process.                                                  *)

Expires(x) ==
    /\ x \in disk[Times] \ old
    /\ old' = old \cup {x}
    /\ UNCHANGED <<disk, handle, procVars, recorded, unlucky>>

\* The process stops, wherever it is, and is started again.
Restart ==
    /\ unlucky' = unlucky \cup ({rec.who} \ {Nobody})
    /\ seen' = {} /\ rec' = NoAppend /\ prune' = NoPrune /\ starting' = TRUE
    /\ handle' = Closed
    /\ UNCHANGED <<disk, old, recorded>>

-----------------------------------------------------------------------------
(* recordPlayerList and queueWriter.append, which holds the mutex.         *)

\* A player who is not known yet is on the player list of the server.
Discover(x) ==
    /\ ~starting /\ rec = NoAppend /\ x \notin seen
    /\ seen' = seen \cup {x}
    /\ rec' = [step |-> "line", who |-> x]
    /\ recorded' = recorded \ {x} /\ unlucky' = unlucky \ {x}
    /\ UNCHANGED <<disk, handle, old, prune, starting>>

\* One line is written to file f, which only shows in the file of that name if
\* the handle is still its own.
Written(f) ==
    /\ handle[f] # "closed"
    /\ disk' = IF handle[f] = "current" THEN [disk EXCEPT ![f] = @ \cup {rec.who}]
               ELSE disk
    /\ unlucky' = IF prune.step = "idle" THEN unlucky ELSE unlucky \cup {rec.who}

AppendLine ==
    /\ rec.step = "line"
    /\ Written(List)
    /\ rec' = [rec EXCEPT !.step = "time"]
    /\ UNCHANGED <<handle, old, seen, prune, starting, recorded>>

\* A time left behind by a prune that was cut off stays in the file, and still
\* makes the player an expired one.
AppendTime ==
    /\ rec.step = "time"
    /\ Written(Times)
    /\ rec' = NoAppend
    /\ old' = old \ ({rec.who} \ disk[Times]) /\ recorded' = recorded \cup {rec.who}
    /\ UNCHANGED <<handle, seen, prune, starting>>

\* The handles could not be opened again: the write fails, and is logged.
AppendFails ==
    /\ rec.step = "line" /\ handle[List] = "closed"
    /\ rec' = NoAppend
    /\ UNCHANGED <<disk, handle, old, seen, prune, starting, recorded, unlucky>>

-----------------------------------------------------------------------------
(* pruneExpired and runPeriodicPrune.  Only reopen takes the mutex.        *)

\* The times are read; nothing is rewritten if nobody has expired.
FindExpired ==
    /\ prune.step = "idle"
    /\ LET expired == disk[Times] \cap old
       IN  prune' = [NoPrune EXCEPT !.expired = expired,
                        !.step = IF expired = {} THEN "reopen" ELSE "readFirst"]
    /\ UNCHANGED <<disk, handle, old, seen, rec, starting, recorded, unlucky>>

\* Mutant of Order: the companion file is rewritten before the player file.
OrderTimesFirst == <<Times, List>>

\* The order of rewriting: a player never loses the time before the line.
Order == <<List, Times>>

ReadLines(f, from, to) ==
    /\ prune.step = from
    /\ prune' = [prune EXCEPT !.lines = disk[f], !.step = to]
    /\ UNCHANGED <<disk, handle, old, seen, rec, starting, recorded, unlucky>>

\* The lines kept replace the file; a handle on the old one is detached.
RewriteLines(f, from, to) ==
    /\ prune.step = from
    /\ disk' = [disk EXCEPT ![f] = prune.lines \ prune.expired]
    /\ handle' = [handle EXCEPT ![f] = IF @ = "current" THEN "detached" ELSE @]
    /\ prune' = [prune EXCEPT !.lines = {}, !.step = to]
    /\ UNCHANGED <<old, seen, rec, starting, recorded, unlucky>>

\* A file cannot be read or replaced: the rest of the prune is given up.
PruneFails ==
    /\ prune.step \notin {"idle", "reopen"}
    /\ prune' = [NoPrune EXCEPT !.step = "reopen"]
    /\ UNCHANGED <<disk, handle, old, seen, rec, starting, recorded, unlucky>>

\* Mutant of Opened: the handles are kept as they are once they are open.
OpenedOnce == IF starting THEN [f \in Files |-> "current"] ELSE handle

Opened == [f \in Files |-> "current"]

\* At startup the files are opened and the player file read back.
Open ==
    /\ prune.step = "reopen" /\ starting
    /\ handle' = Opened
    /\ seen' = disk[List] /\ starting' = FALSE
    /\ prune' = NoPrune
    /\ UNCHANGED <<disk, old, rec, recorded, unlucky>>

\* reopen waits for an append under way.  When it fails, both handles are left
\* closed until the next prune.
Reopen ==
    /\ prune.step = "reopen" /\ ~starting /\ rec = NoAppend
    /\ handle' \in {Opened, Closed}
    /\ prune' = NoPrune
    /\ UNCHANGED <<disk, old, seen, rec, starting, recorded, unlucky>>

-----------------------------------------------------------------------------
Append == AppendLine \/ AppendTime \/ AppendFails

PruneStep ==
    \/ FindExpired
    \/ ReadLines(Order[1], "readFirst", "writeFirst")
    \/ RewriteLines(Order[1], "writeFirst", "readSecond")
    \/ ReadLines(Order[2], "readSecond", "writeSecond")
    \/ RewriteLines(Order[2], "writeSecond", "reopen")
    \/ PruneFails \/ Open \/ Reopen

Next == \/ \E x \in Players : Expires(x) \/ Discover(x)
        \/ Append \/ PruneStep \/ Restart

Spec == Init /\ [][Next]_vars

-----------------------------------------------------------------------------
(* Properties.                                                             *)

\* "reopening qw's write handles after each prune so appends keep landing in the
\* real, current files rather than detached inodes" (main.go:497-499): a player
\* whose append has succeeded, and met no prune on its way, is in the player
\* file until a time of theirs expires, through prunes that fail half-way and
\* restarts.
RecordedKept == recorded \ (unlucky \cup old) \subseteq disk[List]

\* "A player with no line in the companion file never expires" (expiry.go:22):
\* a player the scraper has recorded, and who is in the player file, has one,
\* also after a prune was cut off between its two renames.
CanExpire == recorded \cap disk[List] \subseteq disk[Times] \cup unlucky
=============================================================================
