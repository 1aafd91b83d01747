---------------------------- MODULE InviteRecords ----------------------------
(***************************************************************************)
(* The invite lists on disk: invitequeue/accepted.go (who was invited, and *)
(* who joined after it) and invitequeue/invitequeue.go (Prune).  Several   *)
(* relay processes share the directory.  Each has its own memory of whom it *)
(* has recorded; a player may join through any of them.  Any of them may   *)
(* die between two steps and be started again.                             *)
(*                                                                         *)
(* The invite, the line that records it, and every read of a file and every *)
(* append of a join are steps of their own.  One broadcast has its invites *)
(* on, so one Prune runs at a time.                                        *)
(***************************************************************************)
EXTENDS Integers, FiniteSetsExt, SequencesExt

CONSTANTS
    Relays,    \* relay processes
    Players,
    Joins,     \* the joins of players, one goroutine each
    Expiry,    \* time after which an entry of the queue expires
    MaxTime,   \* bound: time
    MaxSends   \* bound: invites (those of a player within one tick are one)

VARIABLES
    now,
    sentLoaded, \* sentLoaded[r]: the map below has been filled from the file
    sent,       \* sent[r]: whom relay r takes to be recorded
    due,        \* due[r]: whom relay r has invited and is about to record
    sentFile,   \* the lines <<player, time>> of SentFile
    accepted,   \* the lines <<player, first invite, join>> of AcceptedFile
    join,       \* join[j]: the player who joins, where, and how far its recording is
    queue,      \* the lines <<player, discovered>> of invite_queue.txt
    prune,      \* Prune: where it is, what it has read of AcceptedFile, what it keeps,
                \* and (history) who had accepted when it began, who was queued since
    invites,    \* history: the invites that reached a player, <<player, time>>
    onRecord,   \* history: the calls of RecordSent that are over, <<player, time>> ...
    unwritten,  \* ... but not those of a relay that could not write the player's line
    expected    \* history: players with an invite on record whose join was over

memory == <<sentLoaded, sent, due, unwritten>>
sends == <<memory, sentFile, invites, onRecord>>

recVars == <<now, sends, accepted, join, queue, prune, expected>>

Idle == [at |-> "idle", now |-> 0, joined |-> {}, kept |-> {}, start |-> {},
         arrivals |-> {}]
NoJoin == [at |-> "none", relay |-> "none", player |-> "none", invited |-> 0,
           before |-> FALSE]
Over == [NoJoin EXCEPT !.at = "done"]

TypeOK ==
    /\ now \in 0..MaxTime
    /\ sentLoaded \in [Relays -> BOOLEAN] /\ sent \in [Relays -> SUBSET Players]
    /\ due \in [Relays -> SUBSET Players] /\ unwritten \subseteq Relays \X Players
    /\ \A l \in ToSet(sentFile): l \in Players \X (0..MaxTime)
    /\ \A l \in ToSet(accepted): l \in Players \X (0..MaxTime) \X (0..MaxTime)
    /\ \A j \in Joins: join[j].at \in {"none", "listed", "invited", "append", "done"}
    /\ queue \subseteq Players \X (0..MaxTime)
    /\ prune.at \in {"idle", "opened", "read", "rename"}
    /\ expected \subseteq Players

Init ==
    /\ now = Expiry - 1
    /\ sentLoaded = [r \in Relays |-> FALSE] /\ sent = [r \in Relays |-> {}]
    /\ due = sent /\ unwritten = {}
    /\ sentFile = <<>> /\ accepted = <<>>
    /\ join = [j \in Joins |-> NoJoin]
    /\ queue \in SUBSET (Players \X {0}) /\ prune = Idle
    /\ invites = {} /\ onRecord = {} /\ expected = {}

FirstFields(file) == {l[1]: l \in ToSet(file)}

-----------------------------------------------------------------------------
(* An invite and its record.                                               *)

Invite(p) ==
    /\ Cardinality(invites) < MaxSends
    /\ invites' = invites \cup {<<p, now>>}
    /\ UNCHANGED <<now, sentLoaded, sent, unwritten, sentFile, onRecord, accepted, join,
                   queue, prune, expected>>

\* The invite loop's SendInvite succeeds, and the loop goes on to record it.
SendInvite(r, p) ==
    /\ due[r] = {} /\ due' = [due EXCEPT ![r] = {p}]
    /\ Invite(p)

\* The answer to an invite that reached the player is lost, or it is the friends
\* inviter's, which records none (friendsinviter.go:112).
SendInviteUnrecorded(p) == Invite(p) /\ UNCHANGED due

\* RecordSent, the first of this process: the file is read.
LoadSent(r) ==
    /\ due[r] # {} /\ ~sentLoaded[r]
    /\ sent' = [sent EXCEPT ![r] = FirstFields(sentFile)]
    /\ sentLoaded' = [sentLoaded EXCEPT ![r] = TRUE]
    /\ UNCHANGED <<now, due, unwritten, sentFile, invites, onRecord, accepted, join, queue,
                   prune, expected>>

\* Under sentMu.  A player is remembered before the line is written.
Remember(r, p) ==
    /\ sentLoaded[r] /\ p \in due[r]
    /\ due' = [due EXCEPT ![r] = {}]
    /\ sent' = [sent EXCEPT ![r] = @ \cup {p}]
    /\ UNCHANGED <<now, sentLoaded, invites, accepted, join, queue, prune, expected>>

\* Another relay may write between this one's invite, its look at the file and its line,
\* but not between its look at the clock, which counts seconds, and the line.
RecordSent(r, p) ==
    /\ Remember(r, p)
    /\ sentFile' = IF p \in sent[r] THEN sentFile ELSE Append(sentFile, <<p, now>>)
    /\ onRecord' = IF <<r, p>> \in unwritten THEN onRecord ELSE onRecord \cup {<<p, now>>}
    /\ UNCHANGED unwritten

\* appendLine cannot write, and says nothing: this process does not try again.
RecordSentFails(r, p) ==
    /\ Remember(r, p) /\ p \notin sent[r]
    /\ unwritten' = unwritten \cup {<<r, p>>}
    /\ UNCHANGED <<sentFile, onRecord>>

\* The process dies and is started again: its memory is empty, an invite it was about to
\* record is not recorded, joins it was looking up are forgotten, and the prune, if it was
\* this one's, is cut off.  The files stay.
Restart(r) ==
    /\ sentLoaded' = [sentLoaded EXCEPT ![r] = FALSE]
    /\ sent' = [sent EXCEPT ![r] = {}] /\ due' = [due EXCEPT ![r] = {}]
    /\ unwritten' = {u \in unwritten: u[1] # r}
    /\ join' = [j \in Joins |-> IF join[j].relay = r THEN Over ELSE join[j]]
    /\ prune' \in {prune, Idle}
    /\ UNCHANGED <<now, sentFile, invites, onRecord, accepted, queue, expected>>

-----------------------------------------------------------------------------
(* RecordAcceptIfInvited.                                                  *)

OnJoin(j, r, p) ==
    /\ join[j] = NoJoin
    /\ join' = [join EXCEPT ![j] = [at |-> "listed", relay |-> r, player |-> p,
                                    invited |-> 0,
                                    before |-> \E i \in onRecord: i[1] = p]]
    /\ UNCHANGED <<now, sends, accepted, queue, prune, expected>>

Finish(j) ==
    /\ join' = [join EXCEPT ![j] = Over]
    /\ expected' = IF join[j].before THEN expected \cup {join[j].player} ELSE expected

CheckListed(j) ==
    /\ join[j].at = "listed"
    /\ IF join[j].player \in FirstFields(accepted) THEN Finish(j)
       ELSE join' = [join EXCEPT ![j].at = "invited"] /\ UNCHANGED expected
    /\ UNCHANGED <<now, sends, accepted, queue, prune>>

SentTimes(p) == {l[2]: l \in {l \in ToSet(sentFile): l[1] = p}}

\* Mutant of FirstSentTime: the last line counts.
FirstSentTimeLast(p) == Max(SentTimes(p))

FirstSentTime(p) == Min(SentTimes(p))

\* Mutant of KnownSent: what this process has in memory.
KnownSentHere(r, p) == p \in sent[r] /\ SentTimes(p) # {}

\* The file is read afresh: the process that sent may be another.
KnownSent(r, p) == SentTimes(p) # {}

CheckInvited(j) ==
    /\ join[j].at = "invited"
    /\ IF KnownSent(join[j].relay, join[j].player)
       THEN /\ join' = [join EXCEPT ![j].at = "append",
                                    ![j].invited = FirstSentTime(join[j].player)]
            /\ UNCHANGED expected
       ELSE Finish(j)
    /\ UNCHANGED <<now, sends, accepted, queue, prune>>

\* Nothing keeps two joins of one player from both getting here.
AppendAccepted(j) ==
    /\ join[j].at = "append"
    /\ accepted' = Append(accepted, <<join[j].player, join[j].invited, now>>)
    /\ Finish(j)
    /\ UNCHANGED <<now, sends, queue, prune>>

\* appendLine cannot write: the join is over, and the player is not listed.
AppendFails(j) ==
    /\ join[j].at = "append"
    /\ join' = [join EXCEPT ![j] = Over]
    /\ UNCHANGED <<now, sends, accepted, queue, prune, expected>>

-----------------------------------------------------------------------------
(* Prune.                                                                  *)

PruneStart ==
    /\ prune = Idle
    /\ prune' = [Idle EXCEPT !.at = "opened", !.now = now,
                             !.start = FirstFields(accepted)]
    /\ UNCHANGED <<now, sends, accepted, join, queue, expected>>

AcceptedXUIDs ==
    /\ prune.at = "opened"
    /\ prune' = [prune EXCEPT !.at = "read", !.joined = FirstFields(accepted)]
    /\ UNCHANGED <<now, sends, accepted, join, queue, expected>>

\* The time is taken once, before the file is read.
Expired(l) == prune.now - l[2] >= Expiry

\* Mutant of Kept: who has accepted is dropped like the others.
KeptUnexpired(l) == ~Expired(l)

Kept(l) == ~Expired(l) \/ l[1] \in prune.joined

\* A queue with nothing to drop is not written.
ReadQueue ==
    /\ prune.at = "read"
    /\ LET kept == {l \in queue: Kept(l)} IN
       prune' = IF kept = queue THEN Idle
                ELSE [prune EXCEPT !.at = "rename", !.kept = kept]
    /\ UNCHANGED <<now, sends, accepted, join, queue, expected>>

\* The new file takes the place of the old one and of what it has got meanwhile.
Rename ==
    /\ prune.at = "rename"
    /\ queue' = prune.kept /\ prune' = Idle
    /\ UNCHANGED <<now, sends, accepted, join, expected>>

\* The queue stays as it is.
RewriteFails ==
    /\ prune.at = "rename" /\ prune' = Idle
    /\ UNCHANGED <<now, sends, accepted, join, queue, expected>>

-----------------------------------------------------------------------------

\* external: a player is added to the list.
Discover(p) ==
    /\ p \notin {l[1]: l \in queue}
    /\ queue' = queue \cup {<<p, now>>}
    /\ prune' = IF prune = Idle THEN prune ELSE [prune EXCEPT !.arrivals = @ \cup {p}]
    /\ UNCHANGED <<now, sends, accepted, join, expected>>

Tick ==
    /\ now < MaxTime /\ now' = now + 1
    /\ UNCHANGED <<sends, accepted, join, queue, prune, expected>>

Next ==
    \/ \E r \in Relays: \/ Restart(r) \/ LoadSent(r)
                        \/ \E p \in Players: \/ SendInvite(r, p) \/ RecordSent(r, p)
                                              \/ RecordSentFails(r, p)
    \/ \E j \in Joins: \/ \E r \in Relays, p \in Players: OnJoin(j, r, p)
                       \/ CheckListed(j) \/ CheckInvited(j)
                       \/ AppendAccepted(j) \/ AppendFails(j)
    \/ PruneStart \/ AcceptedXUIDs \/ ReadQueue \/ Rename \/ RewriteFails
    \/ Tick \/ \E p \in Players: SendInviteUnrecorded(p) \/ Discover(p)

Spec == Init /\ [][Next]_recVars

-----------------------------------------------------------------------------
(* Properties.                                                             *)

\* A player whose invite was on record when the join began, RecordSent having been through
\* in any relay of the directory, before a restart or after it, and whose join ran to its
\* end, is listed as having accepted.  An invite is not on record when the relay dies
\* before the line, the answer is lost, the line cannot be written, or it is one of the
\* friends inviter.
JoinsCounted == expected \subseteq FirstFields(accepted)

\* The time a line gives is that of the first invite on record, with several relays inviting
\* the player and each recording its own first; the player had been sent an invite by then,
\* and the join is not before it.
FirstInviteTime ==
    \A l \in ToSet(accepted):
       /\ l[2] = Min({i[2]: i \in {i \in onRecord: i[1] = l[1]}})
       /\ \E i \in invites: i[1] = l[1] /\ i[2] <= l[2]
       /\ l[2] <= l[3]

\* A Prune drops an expired player who had not accepted an invite when it began,
\* or one who was added while it ran; nobody else.
PruneDropsOnly ==
    [][\A l \in queue \ queue': \/ Expired(l) /\ l[1] \notin prune.start
                                \/ l[1] \in prune.arrivals]_recVars
=============================================================================
