--------------------------- MODULE FriendActivity ---------------------------
(***************************************************************************)
(* friend_activity.txt: when each friend last joined                       *)
(* (xbl/friendactivity/friendactivity.go).  Every relay process keeps the  *)
(* records in a Store of its own and rewrites the whole file on each join; *)
(* cmd/friends/pruneinactive reads it, removes the friends who have been   *)
(* away longer than its window and has their records forgotten.            *)
(*                                                                         *)
(* A Store's lock makes the updates of one process follow one another, so  *)
(* a process is at most in one update; nothing orders those of different   *)
(* processes, and they share the name of the temporary file too.  The file *)
(* system is modelled as far as that matters: the two names lead to        *)
(* numbered files, and os.Create empties the file behind the name if there *)
(* is one, even while another process is writing to it.  A file is the     *)
(* sequence of its lines; a writer puts its lines one after another at its *)
(* own offset.  Display names are left out.                                *)
(***************************************************************************)
EXTENDS Naturals, Sequences, SequencesExt

CONSTANTS
    Relays,     \* relay processes (one per host account)
    Tool,       \* the pruneinactive process
    Players,    \* friends, by XUID
    Window,     \* -older-than
    MaxTime,    \* bound: the clock
    MaxJoins,   \* bound: joins recorded
    MaxCrashes  \* bound: relay processes that die and are restarted

ASSUME ActivityAssumption ==
    /\ IsFiniteSet(Relays) /\ Tool \notin Relays
    /\ Players \subseteq Nat \ {0} /\ IsFiniteSet(Players)
    /\ Window \in Nat /\ MaxTime \in Nat \ {0}

Procs == Relays \cup {Tool}
Files == 1..(Cardinality(Relays) + 3)  \* enough for both names and every writer
Record == [who : Players \cup {0}, at : 0..MaxTime]

VARIABLES
    now,         \* time.Now
    records,     \* records[p][x]: the last join of x in p's Store, 0 for none
    update,      \* update[p]: where p's RecordJoin or Forget is
    out,         \* out[p]: the file p has open for writing, 0 for none
    line,        \* line[p]: lines p has written to it
    file, tmp,   \* the files the two names lead to, 0 for none
    content,     \* content[f]: the lines of file f
    joins,       \* number of joins recorded
    crashes,     \* number of crashes
    overlapped,  \* history: an update began before another process's was over
    saved,       \* history: saved[x], the join of x last put in place, 0 if forgotten
    since,       \* history: who had a join put in place since the tool read the file
    tool,        \* where pruneinactive is
    listed,      \* the friends it has still to remove, the one at hand included
    target,      \* the friend it is removing
    friends      \* Xbox Live's friends list

diskVars == <<file, tmp, content>>
updateVars == <<update, out, line, overlapped>>
toolVars == <<tool, listed, target, friends>>
actVars == <<now, records, updateVars, diskVars, joins, crashes, saved, since,
             toolVars>>

NoJoins == [x \in Players |-> 0]

TypeOK ==
    /\ now \in 1..MaxTime /\ records \in [Procs -> [Players -> 0..MaxTime]]
    /\ update \in [Procs -> {"none", "merged", "writing", "down"}]
    /\ out \in [Procs -> Files \cup {0}] /\ line \in [Procs -> Nat]
    /\ file \in Files \cup {0} /\ tmp \in Files \cup {0}
    /\ content \in [Files -> Seq(Record)]
    /\ joins \in 0..MaxJoins /\ crashes \in 0..MaxCrashes /\ overlapped \in BOOLEAN
    /\ saved \in [Players -> 0..MaxTime] /\ since \subseteq Players
    /\ tool \in {"idle", "removing", "removed", "forgetting", "done"}
    /\ target \in Players \cup {0}
    /\ listed \subseteq Players /\ friends \subseteq Players

Init ==
    /\ now = 1 /\ records = [p \in Procs |-> NoJoins]
    /\ update = [p \in Procs |-> "none"]
    /\ out = [p \in Procs |-> 0] /\ line = [p \in Procs |-> 0]
    /\ file = 0 /\ tmp = 0 /\ content = [f \in Files |-> <<>>]
    /\ joins = 0 /\ crashes = 0 /\ overlapped = FALSE
    /\ saved = NoJoins /\ since = {}
    /\ tool = "idle" /\ listed = {} /\ target = 0 /\ friends = Players

-----------------------------------------------------------------------------
(* Reading and writing the file.                                           *)

\* What a reader makes of the file: lines that do not parse are skipped.
Parsed(f) ==
    [x \in Players |->
       IF f = 0 THEN 0
       ELSE Max({0} \cup {l.at : l \in {m \in ToSet(content[f]) : m.who = x}})]

\* Mutant of Merge: the records of the Store are written as they are.
MergeNothing(p) == records[p]

\* mergeFromFileLocked: whichever join is newer.
Merge(p) ==
    [x \in Players |-> Max({records[p][x], Parsed(file)[x]})]

\* The place of x among the players of S sorted by XUID.
Place(x, S) == Cardinality({y \in S : y <= x})

\* The lines of the records r, sorted by XUID, as writeLocked writes them.
LinesOf(r) ==
    LET known == {x \in Players : r[x] # 0}
        At(i) == CHOOSE x \in known : Place(x, known) = i
    IN  [i \in 1..Cardinality(known) |-> [who |-> At(i), at |-> r[At(i)]]]

Lines(p) == LinesOf(records[p])

Begin(p) ==
    /\ overlapped' = (overlapped \/ \E q \in Procs \ {p} :
                                       update[q] \in {"merged", "writing"})
    /\ update' = [update EXCEPT ![p] = "merged"]
    /\ UNCHANGED <<out, line>>

End(p) ==
    /\ update' = [update EXCEPT ![p] = "none"]
    /\ out' = [out EXCEPT ![p] = 0] /\ line' = [line EXCEPT ![p] = 0]
    /\ UNCHANGED overlapped

\* The file os.Create finds behind the temporary name, if any.
CreateIn == tmp

\* A file that neither a name nor a writer leads to.
Unused == CHOOSE f \in Files : f \notin {file, tmp} /\ \A p \in Procs : out[p] # f

Create(p) ==
    /\ update[p] = "merged"
    /\ LET f == IF CreateIn # 0 THEN CreateIn ELSE Unused IN
         /\ content' = [content EXCEPT ![f] = <<>>]
         /\ tmp' = f /\ out' = [out EXCEPT ![p] = f]
    /\ update' = [update EXCEPT ![p] = "writing"]
    /\ UNCHANGED <<now, records, line, overlapped, file, joins, crashes, saved,
                   since, toolVars>>

\* One line at p's offset; a file emptied meanwhile is filled up with zero bytes.
WriteLine(p) ==
    /\ update[p] = "writing" /\ line[p] < Len(Lines(p))
    /\ LET n == line[p] + 1
           old == content[out[p]]
           Junk == [who |-> 0, at |-> 0]
       IN  content' = [content EXCEPT ![out[p]] =
              [i \in 1..Max({n, Len(old)}) |->
                 IF i = n THEN Lines(p)[n] ELSE IF i <= Len(old) THEN old[i] ELSE Junk]]
    /\ line' = [line EXCEPT ![p] = @ + 1]
    /\ UNCHANGED <<now, records, update, out, overlapped, file, tmp, joins,
                   crashes, saved, since, toolVars>>

\* Close and Rename: whatever is behind the temporary name is put in place, and
\* the file it replaces is gone, unless someone is still writing to it.
Rename(p) ==
    /\ update[p] = "writing" /\ line[p] = Len(Lines(p)) /\ tmp # 0
    /\ file' = tmp /\ tmp' = 0
    /\ content' = IF file \in {0, tmp} \/ \E q \in Procs : out[q] = file THEN content
                  ELSE [content EXCEPT ![file] = <<>>]
    /\ saved' = [x \in Players |-> IF p = Tool /\ x = target THEN 0
                                   ELSE Max({saved[x], records[p][x]})]
    /\ since' = since \cup {x \in Players : saved'[x] > saved[x]}
    /\ End(p)
    /\ UNCHANGED <<now, records, joins, crashes, toolVars>>

\* Create, a write or Rename fails, the last one surely if another process has
\* renamed the file away.  The error is logged; the record stays in the Store.
WriteFails(p) ==
    /\ update[p] \in {"merged", "writing"}
    /\ End(p)
    /\ UNCHANGED <<now, records, diskVars, joins, crashes, saved, since, toolVars>>

-----------------------------------------------------------------------------
(* The relay processes.                                                    *)

RecordJoin(p, x) ==
    /\ p \in Relays /\ update[p] = "none" /\ joins < MaxJoins
    /\ records' = [records EXCEPT ![p] = [Merge(p) EXCEPT ![x] = now]]
    /\ Begin(p)
    /\ joins' = joins + 1
    /\ UNCHANGED <<now, diskVars, crashes, saved, since, toolVars>>

Crash(p) ==
    /\ p \in Relays /\ update[p] # "down" /\ crashes < MaxCrashes
    /\ update' = [update EXCEPT ![p] = "down"]
    /\ out' = [out EXCEPT ![p] = 0] /\ line' = [line EXCEPT ![p] = 0]
    /\ crashes' = crashes + 1
    /\ UNCHANGED <<now, records, overlapped, diskVars, joins, saved, since, toolVars>>

\* Open, after a restart.
Open(p) ==
    /\ update[p] = "down"
    /\ records' = [records EXCEPT ![p] = Parsed(file)]
    /\ update' = [update EXCEPT ![p] = "none"]
    /\ UNCHANGED <<now, out, line, overlapped, diskVars, joins, crashes, saved,
                   since, toolVars>>

Tick ==
    /\ now < MaxTime
    /\ now' = now + 1
    /\ UNCHANGED <<records, updateVars, diskVars, joins, crashes, saved, since,
                   toolVars>>

-----------------------------------------------------------------------------
(* pruneinactive.                                                          *)

\* Mutant of Stale: a friend no join was ever recorded of counts as stale.
StaleUnrecorded(r) == {x \in Players : r[x] + Window < now}

\* The friends whose last recorded join is longer ago than the window.
Stale(r) == {x \in Players : r[x] # 0 /\ r[x] + Window < now}

\* The file is read once, when the tool starts; without -delete, or with nobody
\* on the list, it stops there.
ToolLists ==
    /\ tool = "idle"
    /\ records' = [records EXCEPT ![Tool] = Parsed(file)]
    /\ listed' = Stale(Parsed(file)) /\ since' = {}
    /\ tool' \in IF listed' = {} THEN {"done"} ELSE {"removing", "done"}
    /\ UNCHANGED <<now, updateVars, diskVars, joins, crashes, saved, target, friends>>

\* The next friend is removed from Xbox Live, or that fails and he is left.
RemoveFriend ==
    /\ tool = "removing"
    /\ \E x \in listed :
         \/ /\ friends' = friends \ {x} /\ target' = x
            /\ tool' = "removed" /\ UNCHANGED listed
         \/ listed' = listed \ {x} /\ UNCHANGED <<tool, target, friends>>
    /\ UNCHANGED <<now, records, updateVars, diskVars, joins, crashes, saved, since>>

\* Forget: nothing is written for someone whose record is gone already.
Forget ==
    /\ tool = "removed"
    /\ records' = [records EXCEPT ![Tool] = [Merge(Tool) EXCEPT ![target] = 0]]
    /\ IF Merge(Tool)[target] = 0 THEN UNCHANGED updateVars ELSE Begin(Tool)
    /\ tool' = "forgetting"
    /\ UNCHANGED <<now, diskVars, joins, crashes, saved, since, listed, target,
                   friends>>

Forgotten ==
    /\ tool = "forgetting" /\ update[Tool] = "none"
    /\ tool' = "removing" /\ listed' = listed \ {target} /\ target' = 0
    /\ UNCHANGED <<now, records, updateVars, diskVars, joins, crashes, saved,
                   since, friends>>

ToolDone ==
    /\ tool = "removing" /\ listed = {}
    /\ tool' = "done"
    /\ UNCHANGED <<now, records, updateVars, diskVars, joins, crashes, saved,
                   since, listed, target, friends>>

-----------------------------------------------------------------------------
Next ==
    \/ \E p \in Procs : Create(p) \/ WriteLine(p) \/ Rename(p) \/ WriteFails(p)
    \/ \E p \in Relays : Crash(p) \/ Open(p) \/ \E x \in Players : RecordJoin(p, x)
    \/ Tick \/ ToolLists \/ RemoveFriend \/ Forget \/ Forgotten \/ ToolDone

Spec == Init /\ [][Next]_actVars

-----------------------------------------------------------------------------
(* Properties.                                                             *)

\* The file shows every join that was put in place and not forgotten since, or a
\* later one, through any crash and failed write and whichever process wrote
\* last, as long as the updates of two processes have not overlapped: this is
\* what mergeFromFileLocked is there for (friendactivity.go:142-147).
JoinsKept ==
    ~overlapped => \A x \in Players : Parsed(file)[x] >= saved[x]

\* Who is removed has not joined within the window, unless a join of his was
\* put in place since the tool read the file, again as long as updates have
\* not overlapped; a friend without any recorded join is never removed
\* (friendactivity.go:108-124).
RemovalJustified ==
    [][\A x \in friends \ friends' :
          overlapped \/ x \in since \/ (saved[x] # 0 /\ saved[x] + Window < now)]_actVars

\* "so a crash or a concurrent reader mid-write never sees a truncated file"
\* (friendactivity.go:167-168): no process is writing to the file readers open.
\* Violated: the temporary file has the same name in every process, so one
\* process renames into place what another has emptied and not yet rewritten.
NeverTruncated == \A p \in Procs : file # 0 => out[p] # file
=============================================================================
