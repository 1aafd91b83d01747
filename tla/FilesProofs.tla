----------------------------- MODULE FilesProofs -----------------------------
(***************************************************************************)
(* Proofs about the files that several processes write, composed in        *)
(* MCFiles: for any sets of relays, players and joins, and any bounds.     *)
(***************************************************************************)
EXTENDS MCFiles, FiniteSetTheorems, TLAPS

-----------------------------------------------------------------------------
(* The player file.  A player whose append has met a prune is in unlucky,    *)
(* and stays there as long as the process knows the player: that covers      *)
(* whatever the prune overwrites.                                            *)

Missed == unlucky \cap seen

PlayersTyped ==
    /\ disk \in [F!Files -> SUBSET Scraped]
    /\ handle \in [F!Files -> {"current", "detached", "closed"}]
    /\ old \subseteq Scraped /\ seen \subseteq Scraped
    /\ rec \in [step : {"idle", "line", "time"}, who : Scraped \cup {F!Nobody}]
    /\ prune \in [step : F!PruneSteps, expired : SUBSET Scraped, lines : SUBSET Scraped]
    /\ starting \in BOOLEAN
    /\ recorded \subseteq Scraped /\ unlucky \subseteq Scraped

\* The append under way is of a player who is not recorded, and its first line
\* is in the file if no prune has begun since.
AppendInv ==
    /\ starting => rec = F!NoAppend
    /\ rec.step = "idle" => rec = F!NoAppend
    /\ rec.step # "idle" => rec.who \in (Scraped \cap seen) \ recorded
    /\ rec.step = "time" /\ prune.step = "idle" => rec.who \in unlucky \cup disk["list"]

\* A prune overwrites no line but those it has read, of players who have expired
\* or had bad luck; between its two renames none of the others has a line.
PruneInv ==
    /\ \A f \in F!Files : prune.step = "idle" => handle[f] # "detached"
    /\ prune.step = "writeFirst" => /\ disk["list"] \ prune.lines \subseteq Missed
                                    /\ prune.lines \subseteq disk["list"]
    /\ prune.step = "writeSecond" => disk["times"] \ prune.lines \subseteq Missed
    /\ prune.step \notin {"idle", "reopen"} => prune.expired \subseteq old \cup Missed
    /\ prune.step \in {"readSecond", "writeSecond"} =>
         prune.expired \cap disk["list"] \subseteq Missed

PlayersInv == PlayersTyped /\ AppendInv /\ PruneInv /\ PlayersKept

LEMMA PlayersInit == F!Init => PlayersInv
  BY PlayerFileAssumption DEF F!Init, PlayersInv, PlayersTyped, AppendInv, PruneInv,
                              PlayersKept, F!RecordedKept, F!CanExpire, F!Files, F!List,
                              F!Times, F!Closed, F!NoAppend, F!NoPrune, F!PruneSteps

USE DEF F!Files, F!List, F!Times

LEMMA PlayersAppend == PlayersInv /\ F!Append => PlayersInv'
  <1> SUFFICES ASSUME PlayersInv, F!Append PROVE PlayersInv'
    OBVIOUS
  <1> USE PlayerFileAssumption
  <1>1. CASE F!AppendLine
    <2> USE <1>1 DEF F!AppendLine, F!Written
    <2>1. PlayersTyped'
      BY DEF PlayersInv, PlayersTyped, AppendInv
    <2>2. AppendInv' /\ PruneInv'
      BY DEF PlayersInv, PlayersTyped, AppendInv, PruneInv, Missed, F!NoAppend,
             F!PruneSteps
    <2>3. PlayersKept'
      BY DEF PlayersInv, PlayersTyped, AppendInv, PruneInv, PlayersKept, F!RecordedKept,
             F!CanExpire
    <2> QED BY <2>1, <2>2, <2>3 DEF PlayersInv
  <1>2. CASE F!AppendTime
    <2> USE <1>2 DEF F!AppendTime, F!Written
    <2>1. PlayersTyped'
      BY DEF PlayersInv, PlayersTyped, F!NoAppend, AppendInv
    <2>2. AppendInv' /\ PruneInv'
      BY DEF PlayersInv, PlayersTyped, AppendInv, PruneInv, Missed, F!NoAppend,
             F!PruneSteps
    <2>3. PlayersKept'
      BY DEF PlayersInv, PlayersTyped, AppendInv, PruneInv, PlayersKept, F!RecordedKept,
             F!CanExpire
    <2> QED BY <2>1, <2>2, <2>3 DEF PlayersInv
  <1>3. CASE F!AppendFails
    BY <1>3 DEF F!AppendFails, PlayersInv, PlayersTyped, AppendInv, PruneInv, Missed,
       PlayersKept, F!RecordedKept, F!CanExpire, F!NoAppend
  <1> QED BY <1>1, <1>2, <1>3 DEF F!Append

LEMMA PlayersPrune == PlayersInv /\ F!PruneStep => PlayersInv'
  <1> SUFFICES ASSUME PlayersInv, F!PruneStep PROVE PlayersInv'
    OBVIOUS
  <1> USE DEF PlayersInv, PlayersTyped, AppendInv, PruneInv, Missed, PlayersKept,
              F!RecordedKept, F!CanExpire, F!PruneSteps, F!NoPrune
  <1>1. CASE F!FindExpired
    BY <1>1 DEF F!FindExpired
  <1>2. CASE F!ReadLines(F!Order[1], "readFirst", "writeFirst")
    BY <1>2 DEF F!ReadLines, F!Order
  <1>3. CASE F!RewriteLines(F!Order[1], "writeFirst", "readSecond")
    <2>1. /\ prune.step = "writeFirst"
          /\ disk' = [disk EXCEPT !["list"] = prune.lines \ prune.expired]
          /\ handle' = [handle EXCEPT !["list"] = IF @ = "current" THEN "detached" ELSE @]
          /\ prune' = [prune EXCEPT !.lines = {}, !.step = "readSecond"]
          /\ UNCHANGED <<old, seen, rec, starting, recorded, unlucky>>
      BY <1>3 DEF F!RewriteLines, F!Order
    <2>2. PlayersTyped'
      BY <2>1
    <2>3. AppendInv' /\ PruneInv'
      BY <2>1
    <2>4. /\ disk'["list"] = prune.lines \ prune.expired
          /\ disk'["times"] = disk["times"]
      BY <2>1
    <2>5. PlayersKept'
      BY <2>1, <2>4
    <2> QED BY <2>2, <2>3, <2>5
  <1>4. CASE F!ReadLines(F!Order[2], "readSecond", "writeSecond")
    BY <1>4 DEF F!ReadLines, F!Order
  <1>5. CASE F!RewriteLines(F!Order[2], "writeSecond", "reopen")
    BY <1>5 DEF F!RewriteLines, F!Order
  <1>6. CASE F!PruneFails
    BY <1>6 DEF F!PruneFails
  <1>7. CASE F!Open
    <2> USE <1>7 DEF F!Open, F!Opened
    <2>1. PlayersTyped' /\ PlayersKept'
      OBVIOUS
    <2>2. AppendInv' /\ PruneInv'
      BY DEF F!NoAppend
    <2> QED BY <2>1, <2>2
  <1>8. CASE F!Reopen
    BY <1>8 DEF F!Reopen, F!Opened, F!Closed, F!NoAppend
  <1> QED BY <1>1, <1>2, <1>3, <1>4, <1>5, <1>6, <1>7, <1>8 DEF F!PruneStep

LEMMA PlayersOther ==
  ASSUME PlayersInv, F!Restart \/ \E x \in Scraped : F!Expires(x) \/ F!Discover(x)
  PROVE  PlayersInv'
  <1> USE DEF PlayersInv, PlayersTyped, AppendInv, PruneInv, Missed, PlayersKept,
              F!RecordedKept, F!CanExpire, F!PruneSteps, F!procVars
  <1>1. CASE F!Restart
    BY <1>1 DEF F!Restart, F!NoPrune, F!NoAppend, F!Closed
  <1>2. ASSUME NEW x \in Scraped, F!Expires(x) PROVE PlayersInv'
    BY <1>2 DEF F!Expires, F!NoAppend
  <1>3. ASSUME NEW x \in Scraped, F!Discover(x) PROVE PlayersInv'
    BY <1>3 DEF F!Discover, F!NoAppend
  <1> QED BY <1>1, <1>2, <1>3

-----------------------------------------------------------------------------
(* The invite lists.  The least time SentFile has for a player is that of    *)
(* the first invite on record: a relay that takes a player to be recorded    *)
(* has seen a line, or could not write its own, and then its calls are not   *)
(* on record.                                                                *)

\* The players with a line in the files.
SentTo == I!FirstFields(sentFile)
HasAccepted == I!FirstFields(accepted)

\* t is the time of the first invite of p on record.
IsFirst(p, t) == <<p, t>> \in onRecord /\ \A i \in onRecord : i[1] = p => t <= i[2]

\* An invite had reached p by t.
HadInvite(p, t) == \E i \in invites : i[1] = p /\ i[2] <= t

JoinRecord ==
    [at : {"none", "listed", "invited", "append", "done"}, relay : Relays \cup {"none"},
     player : Invited \cup {"none"}, invited : Nat, before : BOOLEAN]

InvitesTyped ==
    /\ inviteNow \in Nat
    /\ sent \in [Relays -> SUBSET Invited] /\ sentLoaded \in [Relays -> BOOLEAN]
    /\ due \in [Relays -> SUBSET Invited] /\ unwritten \subseteq Relays \X Invited
    /\ sentFile \in Seq(Invited \X Nat)
    /\ accepted \in Seq(Invited \X Nat \X Nat)
    /\ join \in [Joins -> JoinRecord]
    /\ invites \subseteq Invited \X (0..inviteNow)
    /\ onRecord \subseteq Invited \X (0..inviteNow)

\* SentFile has the first invite of every player with one on record.
SentInv ==
    /\ I!ToSet(sentFile) \subseteq onRecord
    /\ \A i \in onRecord : \E t \in Nat : <<i[1], t>> \in I!ToSet(sentFile) /\ IsFirst(i[1], t)

\* What the relays remember, and whom they have invited.
MemoryInv ==
    /\ \A r \in Relays : \A p \in sent[r] : p \in SentTo \/ <<r, p>> \in unwritten
    /\ \A r \in Relays, p \in Invited : <<r, p>> \in unwritten => sentLoaded[r] /\ p \in sent[r]
    /\ \A r \in Relays : \A p \in due[r] : HadInvite(p, inviteNow)
    /\ \A i \in onRecord : HadInvite(i[1], i[2])

\* Of every line of AcceptedFile, and of every join about to write one.
AcceptedInv ==
    /\ \A l \in I!ToSet(accepted) : IsFirst(l[1], l[2]) /\ l[2] <= l[3]
    /\ \A j \in Joins : join[j].at = "append" => IsFirst(join[j].player, join[j].invited)
    /\ \A j \in Joins : join[j].before => join[j].player \in SentTo
    /\ expected \subseteq HasAccepted

InvitesInv == InvitesTyped /\ SentInv /\ MemoryInv /\ AcceptedInv

LEMMA AcceptedRightHolds == InvitesInv => AcceptedRight
  <1> SUFFICES ASSUME InvitesInv PROVE AcceptedRight
    OBVIOUS
  <1>1. I!JoinsCounted
    BY DEF InvitesInv, AcceptedInv, HasAccepted, I!JoinsCounted
  <1>2. ASSUME NEW l \in I!ToSet(accepted)
        PROVE  /\ l[2] = I!Min({i[2] : i \in {i \in onRecord : i[1] = l[1]}})
               /\ \E i \in invites : i[1] = l[1] /\ i[2] <= l[2]
               /\ l[2] <= l[3]
    <2> DEFINE S == {i[2] : i \in {i \in onRecord : i[1] = l[1]}}
    <2>1. IsFirst(l[1], l[2]) /\ l[2] <= l[3]
      BY <1>2 DEF InvitesInv, AcceptedInv
    <2>2. l[2] \in S /\ \A t \in S : l[2] <= t
      BY <2>1 DEF IsFirst
    <2>3. S \subseteq Nat
      BY DEF InvitesInv, InvitesTyped
    <2>4. \A x \in S : (\A t \in S : x <= t) => x = l[2]
      BY <2>2, <2>3
    <2>5. \E i \in invites : i[1] = l[1] /\ i[2] <= l[2]
      <3>1. PICK i \in onRecord : i = <<l[1], l[2]>>
        BY <2>1 DEF IsFirst
      <3>2. HadInvite(i[1], i[2])
        BY DEF InvitesInv, MemoryInv
      <3> QED BY <3>1, <3>2 DEF HadInvite
    <2> HIDE DEF S
    <2>6. l[2] = I!Min(S)
      BY <2>2, <2>4 DEF I!Min
    <2> QED BY <2>1, <2>5, <2>6 DEF S
  <1> QED BY <1>1, <1>2 DEF AcceptedRight, I!FirstInviteTime

LEMMA InvitesInit == I!Init => InvitesInv
  BY InviteAssumption DEF I!Init, InvitesInv, InvitesTyped, SentInv, MemoryInv, AcceptedInv,
                          I!ToSet, I!NoJoin, JoinRecord, HasAccepted, I!FirstFields

LEMMA AppendSet ==
  ASSUME NEW S, NEW s \in Seq(S), NEW e \in S
  PROVE  /\ I!ToSet(Append(s, e)) = I!ToSet(s) \cup {e}
         /\ I!FirstFields(Append(s, e)) = I!FirstFields(s) \cup {e[1]}
  <1>1. I!ToSet(Append(s, e)) = I!ToSet(s) \cup {e}
    <2>1. /\ DOMAIN Append(s, e) = 1..(Len(s) + 1) /\ DOMAIN s = 1..Len(s)
          /\ Len(s) \in Nat
          /\ \A i \in 1..Len(s) : Append(s, e)[i] = s[i]
          /\ Append(s, e)[Len(s) + 1] = e
      OBVIOUS
    <2>2. \A i \in 1..(Len(s) + 1) : i \in 1..Len(s) \/ i = Len(s) + 1
      BY <2>1
    <2>3. 1..Len(s) \subseteq 1..(Len(s) + 1) /\ Len(s) + 1 \in 1..(Len(s) + 1)
      BY <2>1
    <2> QED BY <2>1, <2>2, <2>3 DEF I!ToSet
  <1> QED BY <1>1 DEF I!FirstFields

\* Of a player invited before now, the first invite stays the first.
LEMMA FirstStays ==
  ASSUME InvitesTyped, NEW p, NEW t, IsFirst(p, t),
         \/ onRecord' = onRecord
         \/ \E q \in Invited : onRecord' = onRecord \cup {<<q, inviteNow>>}
  PROVE  IsFirst(p, t)'
  <1>1. t \in 0..inviteNow
    BY DEF IsFirst, InvitesTyped
  <1> QED BY <1>1 DEF IsFirst, InvitesTyped

\* A step that changes neither the files nor what is on record.
LEMMA MemoryStep ==
  ASSUME InvitesInv, UNCHANGED <<inviteNow, sentFile, onRecord, accepted, join, expected>>,
         InvitesTyped', MemoryInv'
  PROVE  InvitesInv'
  <1>1. SentTo' = SentTo /\ HasAccepted' = HasAccepted /\ \A p, t : IsFirst(p, t) <=> IsFirst(p, t)'
    BY DEF SentTo, HasAccepted, IsFirst
  <1> QED BY <1>1 DEF InvitesInv, SentInv, AcceptedInv

LEMMA InvitesInvited ==
  ASSUME InvitesInv, NEW p \in Invited,
         I!SendInviteUnrecorded(p) \/ \E r \in Relays : I!SendInvite(r, p)
  PROVE  InvitesInv'
  <1> DEFINE l == <<p, inviteNow>>
  <1>1. /\ invites' = invites \cup {l}
        /\ UNCHANGED <<inviteNow, sentFile, onRecord, accepted, join, expected,
                       sent, sentLoaded, unwritten>>
    BY DEF I!SendInvite, I!SendInviteUnrecorded, I!Invite
  <1>2. due' = due \/ \E r \in Relays : due' = [due EXCEPT ![r] = {p}]
    BY DEF I!SendInvite, I!SendInviteUnrecorded
  <1>3. l \in Invited \X (0..inviteNow) /\ l[1] = p /\ l[2] <= inviteNow
    BY DEF InvitesInv, InvitesTyped
  <1> HIDE DEF l
  <1>4. InvitesTyped'
    <2>1. due' \in [Relays -> SUBSET Invited]
      BY <1>2 DEF InvitesInv, InvitesTyped
    <2>2. invites' \subseteq Invited \X (0..inviteNow)
      BY <1>1, <1>3 DEF InvitesInv, InvitesTyped
    <2> QED BY <1>1, <2>1, <2>2 DEF InvitesInv, InvitesTyped
  <1>5. SentTo' = SentTo /\ \A q, t : HadInvite(q, t) => HadInvite(q, t)'
    BY <1>1 DEF SentTo, HadInvite
  <1>6. HadInvite(p, inviteNow)'
    BY <1>1, <1>3 DEF HadInvite
  <1>7. \A r \in Relays : due'[r] \in {due[r], {p}}
    BY <1>2 DEF InvitesInv, InvitesTyped
  <1>8. \A r \in Relays : \A q \in due'[r] : HadInvite(q, inviteNow)'
    BY <1>1, <1>5, <1>6, <1>7 DEF InvitesInv, MemoryInv
  <1>9. MemoryInv'
    BY <1>1, <1>5, <1>8 DEF InvitesInv, MemoryInv
  <1> QED BY <1>1, <1>4, <1>9, MemoryStep

\* RecordSent reads the file, or cannot write it.
LEMMA InvitesUnwritten ==
  ASSUME InvitesInv, NEW r \in Relays,
         I!LoadSent(r) \/ \E p \in Invited : I!RecordSentFails(r, p)
  PROVE  InvitesInv'
  <1>1. UNCHANGED <<inviteNow, sentFile, onRecord, accepted, join, expected, invites>>
    BY DEF I!LoadSent, I!RecordSentFails, I!Remember
  <1>2. SentTo' = SentTo /\ SentTo \subseteq Invited /\ \A q, t : HadInvite(q, t) <=> HadInvite(q, t)'
    BY <1>1 DEF SentTo, HadInvite, InvitesInv, InvitesTyped, I!FirstFields, I!ToSet
  <1>3. CASE I!LoadSent(r)
    <2>1. /\ ~sentLoaded[r] /\ sentLoaded' = [sentLoaded EXCEPT ![r] = TRUE]
          /\ sent' = [sent EXCEPT ![r] = SentTo] /\ due' = due /\ unwritten' = unwritten
      BY <1>3 DEF I!LoadSent, SentTo
    <2>2. InvitesTyped'
      BY <1>1, <1>2, <2>1 DEF InvitesInv, InvitesTyped
    <2>3. MemoryInv'
      BY <1>1, <1>2, <2>1 DEF InvitesInv, InvitesTyped, MemoryInv
    <2> QED BY <1>1, <2>2, <2>3, MemoryStep
  <1>4. ASSUME NEW p \in Invited, I!RecordSentFails(r, p) PROVE InvitesInv'
    <2>1. /\ sentLoaded[r] /\ sentLoaded' = sentLoaded /\ due' = [due EXCEPT ![r] = {}]
          /\ sent' = [sent EXCEPT ![r] = @ \cup {p}] /\ unwritten' = unwritten \cup {<<r, p>>}
      BY <1>4 DEF I!RecordSentFails, I!Remember
    <2>2. InvitesTyped'
      BY <1>1, <2>1 DEF InvitesInv, InvitesTyped
    <2>3. \A x \in Relays : /\ sent'[x] = IF x = r THEN sent[r] \cup {p} ELSE sent[x]
                            /\ due'[x] \subseteq due[x]
      BY <2>1 DEF InvitesInv, InvitesTyped
    <2>4. MemoryInv'
      BY <1>1, <1>2, <2>1, <2>3 DEF InvitesInv, MemoryInv
    <2> QED BY <1>1, <2>2, <2>4, MemoryStep
  <1> QED BY <1>3, <1>4

LEMMA InvitesSent ==
  ASSUME InvitesInv, NEW r \in Relays, NEW p \in Invited, I!RecordSent(r, p)
  PROVE  InvitesInv'
  <1> DEFINE l == <<p, inviteNow>>
  <1> USE DEF InvitesInv
  <1>1. /\ p \in due[r] /\ due' = [due EXCEPT ![r] = {}]
        /\ sent' = [sent EXCEPT ![r] = @ \cup {p}]
        /\ sentFile' = IF p \in sent[r] THEN sentFile ELSE Append(sentFile, l)
        /\ onRecord' = IF <<r, p>> \in unwritten THEN onRecord ELSE onRecord \cup {l}
        /\ UNCHANGED <<inviteNow, accepted, join, expected, invites, sentLoaded, unwritten>>
    BY DEF I!RecordSent, I!Remember
  <1>2. SentTo \subseteq Invited
    BY DEF InvitesTyped, SentTo, I!FirstFields, I!ToSet
  <1>3. l \in Invited \X Nat /\ l \in Invited \X (0..inviteNow) /\ l[1] = p /\ l[2] = inviteNow
    BY DEF InvitesTyped
  <1>4. \/ /\ I!ToSet(sentFile') = I!ToSet(sentFile) /\ SentTo' = SentTo
           /\ sentFile' = sentFile
           /\ (p \in SentTo /\ onRecord' = onRecord \cup {l}) \/ (onRecord' = onRecord /\ <<r, p>> \in unwritten)
        \/ /\ I!ToSet(sentFile') = I!ToSet(sentFile) \cup {l} /\ SentTo' = SentTo \cup {p}
           /\ sentFile' \in Seq(Invited \X Nat) /\ onRecord' = onRecord \cup {l}
    <2> HIDE DEF l
    <2>1. sentFile \in Seq(Invited \X Nat)
      BY DEF InvitesTyped
    <2>2. CASE p \in sent[r]
      <3>1. p \in SentTo \/ <<r, p>> \in unwritten
        BY <2>2 DEF MemoryInv
      <3>2. sentFile' = sentFile
        BY <1>1, <2>2
      <3> QED BY <1>1, <3>1, <3>2 DEF SentTo
    <2>3. CASE p \notin sent[r]
      <3>1. sentFile' = Append(sentFile, l)
        BY <1>1, <2>3
      <3>2. /\ I!ToSet(Append(sentFile, l)) = I!ToSet(sentFile) \cup {l}
            /\ I!FirstFields(Append(sentFile, l)) = I!FirstFields(sentFile) \cup {p}
        BY <2>1, <1>3, AppendSet
      <3>3. SentTo' = SentTo \cup {p}
        BY <3>1, <3>2 DEF SentTo
      <3>4. onRecord' = onRecord \cup {l}
        BY <1>1, <2>3 DEF MemoryInv
      <3> QED BY <3>1, <3>2, <3>3, <3>4, <2>1, <1>3
    <2> QED BY <2>2, <2>3
  <1>5. InvitesTyped'
    <2> HIDE DEF l
    <2> QED BY <1>1, <1>3, <1>4 DEF InvitesTyped
  <1>6. ASSUME NEW q, NEW t, IsFirst(q, t) PROVE IsFirst(q, t)'
    BY <1>1, <1>6, FirstStays
  <1>7. SentInv'
    <2>1. I!ToSet(sentFile') \subseteq onRecord'
      <3> HIDE DEF l
      <3> QED BY <1>4 DEF SentInv
    <2>3. ASSUME NEW i \in onRecord
          PROVE  \E t \in Nat : <<i[1], t>> \in I!ToSet(sentFile') /\ IsFirst(i[1], t)'
      <3>1. PICK t \in Nat : <<i[1], t>> \in I!ToSet(sentFile) /\ IsFirst(i[1], t)
        BY DEF SentInv
      <3> QED BY <3>1, <1>6, <1>4
    <2>4. ASSUME onRecord' = onRecord \cup {l}
          PROVE  \E t \in Nat : <<p, t>> \in I!ToSet(sentFile') /\ IsFirst(p, t)'
      <3>1. CASE \E i \in onRecord : i[1] = p
        <4>1. PICK i \in onRecord : i[1] = p
          BY <3>1
        <4>2. \E t \in Nat : <<i[1], t>> \in I!ToSet(sentFile') /\ IsFirst(i[1], t)'
          BY <2>3
        <4> QED BY <4>1, <4>2
      <3>2. CASE \A i \in onRecord : i[1] # p
        <4>1. PICK t \in Nat : t = inviteNow
          BY DEF InvitesTyped
        <4>2. IsFirst(p, t)'
          BY <2>4, <3>2, <4>1, <1>1, <1>3 DEF IsFirst
        <4>3. \A x \in I!ToSet(sentFile) : x[1] # p
          BY <3>2 DEF SentInv
        <4>4. p \notin SentTo
          BY <4>3 DEF SentTo, I!FirstFields
        <4>5. onRecord' # onRecord
          BY <2>4, <3>2, <1>3
        <4>6. l \in I!ToSet(sentFile')
          <5> HIDE DEF l
          <5> QED BY <4>4, <4>5, <1>4
        <4> QED BY <4>1, <4>2, <4>6
      <3> QED BY <3>1, <3>2
    <2>5. \A i \in onRecord' :
            \E t \in Nat : <<i[1], t>> \in I!ToSet(sentFile') /\ IsFirst(i[1], t)'
      <3> SUFFICES ASSUME NEW i \in onRecord'
                   PROVE  \E t \in Nat : /\ <<i[1], t>> \in I!ToSet(sentFile')
                                         /\ IsFirst(i[1], t)'
        OBVIOUS
      <3>1. i \in onRecord \/ (i[1] = p /\ onRecord' = onRecord \cup {l})
        BY <1>1
      <3> QED BY <3>1, <2>3, <2>4
    <2> QED BY <2>1, <2>5 DEF SentInv
  <1>8. MemoryInv'
    <2>1. \A q, t : HadInvite(q, t) <=> HadInvite(q, t)'
      BY <1>1 DEF HadInvite
    <2>2. HadInvite(l[1], l[2])
      BY <1>1, <1>3 DEF MemoryInv
    <2> HIDE DEF l
    <2>3. \A x \in Relays : /\ sent'[x] = IF x = r THEN sent[r] \cup {p} ELSE sent[x]
                            /\ due'[x] \subseteq due[x]
      BY <1>1 DEF InvitesTyped
    <2>4. SentTo \subseteq SentTo' /\ (p \in SentTo' \/ <<r, p>> \in unwritten')
      BY <1>1, <1>4
    <2>5. \A i \in onRecord' : HadInvite(i[1], i[2])'
      BY <1>1, <2>1, <2>2 DEF MemoryInv
    <2>6. \A x \in Relays : \A q \in sent'[x] : q \in SentTo' \/ <<x, q>> \in unwritten'
      <3>1. \A q \in sent[r] : q \in SentTo' \/ <<r, q>> \in unwritten'
        BY <1>1, <2>4 DEF MemoryInv
      <3>2. \A x \in Relays : \A q \in sent[x] : q \in SentTo' \/ <<x, q>> \in unwritten'
        BY <1>1, <2>4 DEF MemoryInv
      <3> QED BY <2>3, <2>4, <3>1, <3>2
    <2>7. \A x \in Relays, q \in Invited :
            <<x, q>> \in unwritten' => sentLoaded'[x] /\ q \in sent'[x]
      BY <1>1, <2>3 DEF MemoryInv
    <2>8. \A x \in Relays : \A q \in due'[x] : HadInvite(q, inviteNow)'
      BY <1>1, <2>1, <2>3 DEF MemoryInv
    <2> QED BY <2>5, <2>6, <2>7, <2>8 DEF MemoryInv
  <1>9. AcceptedInv'
    <2>1. SentTo \subseteq SentTo'
      BY <1>4
    <2>2. \A x \in I!ToSet(accepted') : IsFirst(x[1], x[2])' /\ x[2] <= x[3]
      BY <1>1, <1>6 DEF AcceptedInv
    <2>3. \A j \in Joins : join'[j].at = "append" => IsFirst(join[j].player, join[j].invited)'
      BY <1>1, <1>6 DEF AcceptedInv
    <2>4. HasAccepted' = HasAccepted
      BY <1>1 DEF HasAccepted
    <2> QED BY <1>1, <2>1, <2>2, <2>3, <2>4 DEF AcceptedInv, IsFirst
  <1> QED BY <1>5, <1>7, <1>8, <1>9

\* The least of the times SentFile has for p is that of the first invite.
LEMMA SentTimesFirst ==
  ASSUME InvitesTyped, SentInv, NEW p
  PROVE  /\ p \in SentTo <=> I!SentTimes(p) # {}
         /\ p \in SentTo => /\ I!FirstSentTime(p) \in Nat
                            /\ IsFirst(p, I!FirstSentTime(p))
  <1>1. p \in SentTo <=> I!SentTimes(p) # {}
    BY DEF SentTo, I!FirstFields, I!SentTimes
  <1>2. ASSUME p \in SentTo
        PROVE  I!FirstSentTime(p) \in Nat /\ IsFirst(p, I!FirstSentTime(p))
    <2>1. PICK l \in I!ToSet(sentFile) : l[1] = p
      BY <1>2 DEF SentTo, I!FirstFields
    <2>2. PICK t \in Nat : <<p, t>> \in I!ToSet(sentFile) /\ IsFirst(p, t)
      BY <2>1 DEF SentInv
    <2>3. t \in I!SentTimes(p)
      BY <2>2 DEF I!SentTimes
    <2>4. \A u \in I!SentTimes(p) : u \in Nat /\ t <= u
      BY <2>2 DEF I!SentTimes, SentInv, IsFirst, InvitesTyped
    <2>5. \A u \in I!SentTimes(p) : (\A v \in I!SentTimes(p) : u <= v) => u = t
      BY <2>3, <2>4
    <2>6. I!Min(I!SentTimes(p)) = t
      BY <2>3, <2>4, <2>5 DEF I!Min
    <2> QED BY <2>2, <2>6 DEF I!FirstSentTime
  <1> QED BY <1>1, <1>2


\* A step of the join j, which becomes the record R.
LEMMA JoinStep ==
  ASSUME InvitesInv, NEW j \in Joins, NEW R \in JoinRecord,
         join' = [join EXCEPT ![j] = R],
         R.before => R.player \in SentTo,
         R.at = "append" => IsFirst(R.player, R.invited),
         UNCHANGED <<inviteNow, I!sends>>,
         accepted' \in Seq(Invited \X Nat \X Nat),
         \A l \in I!ToSet(accepted') : IsFirst(l[1], l[2]) /\ l[2] <= l[3],
         expected' \subseteq HasAccepted'
  PROVE  InvitesInv'
  <1> USE DEF I!sends, I!memory
  <1>1. InvitesTyped'
    BY DEF InvitesInv, InvitesTyped
  <1>2. /\ SentTo' = SentTo
        /\ \A p, t : IsFirst(p, t) <=> IsFirst(p, t)'
        /\ \A p, t : HadInvite(p, t) <=> HadInvite(p, t)'
    BY DEF SentTo, IsFirst, HadInvite
  <1>3. SentInv' /\ MemoryInv'
    <2>1. SentInv'
      BY <1>2 DEF InvitesInv, SentInv
    <2>2. MemoryInv'
      BY <1>2 DEF InvitesInv, MemoryInv
    <2> QED BY <2>1, <2>2
  <1>4. \A x \in Joins : join'[x] = IF x = j THEN R ELSE join[x]
    BY DEF InvitesInv, InvitesTyped
  <1>5. ASSUME NEW x \in Joins
        PROVE  /\ join'[x].at = "append" => IsFirst(join'[x].player, join'[x].invited)
               /\ join'[x].before => join'[x].player \in SentTo
    BY <1>4 DEF InvitesInv, AcceptedInv
  <1>6. AcceptedInv'
    BY <1>2, <1>5 DEF AcceptedInv
  <1> QED BY <1>1, <1>3, <1>6 DEF InvitesInv

LEMMA InvitesJoin ==
  ASSUME InvitesInv, NEW j \in Joins,
         \/ \E r \in Relays, p \in Invited : I!OnJoin(j, r, p)
         \/ I!CheckListed(j) \/ I!CheckInvited(j)
         \/ I!AppendAccepted(j) \/ I!AppendFails(j)
  PROVE  InvitesInv'
  <1> DEFINE p == join[j].player
  <1>1. /\ join \in [Joins -> JoinRecord] /\ accepted \in Seq(Invited \X Nat \X Nat)
        /\ \A l \in I!ToSet(accepted) : IsFirst(l[1], l[2]) /\ l[2] <= l[3]
        /\ expected \subseteq HasAccepted
        /\ join[j].at = "append" => IsFirst(p, join[j].invited)
        /\ join[j].before => p \in SentTo
    BY DEF InvitesInv, InvitesTyped, AcceptedInv
  <1>2. join[j] \in JoinRecord
    BY <1>1
  <1>3. ASSUME NEW R \in JoinRecord, join' = [join EXCEPT ![j] = R],
               R.before => R.player \in SentTo,
               R.at = "append" => IsFirst(R.player, R.invited),
               expected' \subseteq HasAccepted,
               UNCHANGED <<inviteNow, I!sends, accepted>>
        PROVE  InvitesInv'
    <2>1. HasAccepted' = HasAccepted
      BY <1>3 DEF HasAccepted
    <2> QED BY <1>1, <1>3, <2>1, JoinStep
  <1>4. CASE \E r \in Relays, q \in Invited : I!OnJoin(j, r, q)
    <2>1. PICK r \in Relays, q \in Invited : I!OnJoin(j, r, q)
      BY <1>4
    <2> DEFINE R == [at |-> "listed", relay |-> r, player |-> q, invited |-> 0,
                     before |-> \E i \in onRecord : i[1] = q]
    <2>2. (\E i \in onRecord : i[1] = q) => q \in SentTo
      <3> SUFFICES ASSUME NEW i \in onRecord, i[1] = q PROVE q \in SentTo
        OBVIOUS
      <3>1. PICK t \in Nat : <<q, t>> \in I!ToSet(sentFile)
        BY DEF InvitesInv, SentInv
      <3> QED BY <3>1 DEF SentTo, I!FirstFields
    <2>3. (\E i \in onRecord : i[1] = q) \in BOOLEAN
      OBVIOUS
    <2>4. R \in JoinRecord
      BY <2>3 DEF JoinRecord
    <2>5. join' = [join EXCEPT ![j] = R]
      BY <2>1 DEF I!OnJoin
    <2>6. UNCHANGED <<inviteNow, I!sends, accepted, expected>>
      BY <2>1 DEF I!OnJoin
    <2>7. (R.before => R.player \in SentTo) /\ R.at # "append"
      BY <2>2
    <2> HIDE DEF R
    <2> QED BY <1>1, <1>3, <2>4, <2>5, <2>6, <2>7
  <1>5. ASSUME join' = [join EXCEPT ![j] = I!Over], expected' \subseteq HasAccepted,
               UNCHANGED <<inviteNow, I!sends, accepted>>
        PROVE  InvitesInv'
    <2>1. I!Over \in JoinRecord /\ ~I!Over.before /\ I!Over.at # "append"
      BY DEF I!Over, I!NoJoin, JoinRecord
    <2> QED BY <1>3, <1>5, <2>1
  <1>6. CASE I!CheckListed(j)
    <2>1. UNCHANGED <<inviteNow, I!sends, accepted>>
      BY <1>6 DEF I!CheckListed
    <2>2. CASE p \in HasAccepted
      BY <1>1, <1>5, <1>6, <2>1, <2>2 DEF I!CheckListed, I!Finish, HasAccepted
    <2>3. CASE p \notin HasAccepted
      <3> DEFINE R == [join[j] EXCEPT !.at = "invited"]
      <3>1. R \in JoinRecord /\ R.at = "invited" /\ R.player = p /\ R.before = join[j].before
        BY <1>2 DEF JoinRecord
      <3>2. join' = [join EXCEPT ![j] = R] /\ expected' = expected
        BY <1>6, <2>3 DEF I!CheckListed, HasAccepted
      <3> HIDE DEF R
      <3> QED BY <1>1, <1>3, <2>1, <3>1, <3>2
    <2> QED BY <2>2, <2>3
  <1>7. CASE I!CheckInvited(j)
    <2>1. /\ p \in SentTo <=> I!SentTimes(p) # {}
          /\ p \in SentTo => I!FirstSentTime(p) \in Nat /\ IsFirst(p, I!FirstSentTime(p))
      BY SentTimesFirst DEF InvitesInv
    <2>2. CASE p \notin SentTo
      <3>1. UNCHANGED <<inviteNow, I!sends, accepted>>
        BY <1>7 DEF I!CheckInvited
      <3> QED BY <1>1, <1>5, <1>7, <2>1, <2>2, <3>1 DEF I!CheckInvited, I!Finish, I!KnownSent
    <2>3. CASE p \in SentTo
      <3> DEFINE t == I!FirstSentTime(p)
                 R == [join[j] EXCEPT !.at = "append", !.invited = t]
      <3>1. /\ R \in JoinRecord /\ R.player = p /\ R.invited = t
            /\ R.before = join[j].before
        BY <1>2, <2>1, <2>3 DEF JoinRecord
      <3>2. join' = [join EXCEPT ![j] = R] /\ expected' = expected
        BY <1>7, <2>1, <2>3 DEF I!CheckInvited, I!KnownSent
      <3>3. UNCHANGED <<inviteNow, I!sends, accepted>>
        BY <1>7 DEF I!CheckInvited
      <3> HIDE DEF R
      <3> QED BY <1>1, <1>3, <2>1, <2>3, <3>1, <3>2, <3>3
    <2> QED BY <2>2, <2>3
  <1>8. CASE I!AppendAccepted(j)
    <2> DEFINE l == <<p, join[j].invited, inviteNow>>
    <2>1. /\ join[j].at = "append"
          /\ accepted' = Append(accepted, l)
          /\ join' = [join EXCEPT ![j] = I!Over]
          /\ expected' \subseteq expected \cup {p}
          /\ UNCHANGED <<inviteNow, I!sends>>
      BY <1>8 DEF I!AppendAccepted, I!Finish
    <2>2. IsFirst(p, join[j].invited)
      BY <1>1, <2>1
    <2>3. p \in Invited
      BY <2>2 DEF IsFirst, InvitesInv, InvitesTyped
    <2>4. /\ l \in Invited \X Nat \X Nat /\ l[1] = p /\ l[2] = join[j].invited
          /\ l[2] <= l[3]
      BY <1>2, <2>2, <2>3 DEF InvitesInv, InvitesTyped, JoinRecord, IsFirst
    <2>5. I!Over \in JoinRecord /\ ~I!Over.before /\ I!Over.at # "append"
      BY DEF I!Over, I!NoJoin, JoinRecord
    <2> HIDE DEF l
    <2>6. /\ I!ToSet(accepted') = I!ToSet(accepted) \cup {l}
          /\ HasAccepted' = HasAccepted \cup {p}
          /\ accepted' \in Seq(Invited \X Nat \X Nat)
      <3>1. /\ I!ToSet(Append(accepted, l)) = I!ToSet(accepted) \cup {l}
            /\ I!FirstFields(Append(accepted, l)) = I!FirstFields(accepted) \cup {p}
        BY <1>1, <2>4, AppendSet
      <3>2. Append(accepted, l) \in Seq(Invited \X Nat \X Nat)
        BY <1>1, <2>4
      <3> QED BY <3>1, <3>2, <2>1 DEF HasAccepted
    <2>7. \A x \in I!ToSet(accepted') : IsFirst(x[1], x[2]) /\ x[2] <= x[3]
      BY <1>1, <2>2, <2>4, <2>6
    <2>8. expected' \subseteq HasAccepted'
      BY <1>1, <2>1, <2>6
    <2> QED BY <1>1, <2>1, <2>5, <2>6, <2>7, <2>8, JoinStep
  <1>9. CASE I!AppendFails(j)
    BY <1>1, <1>5, <1>9 DEF I!AppendFails, HasAccepted
  <1> QED BY <1>4, <1>6, <1>7, <1>8, <1>9

\* A relay dies: what it knew is gone, and so are the joins it was looking up.
LEMMA InvitesRestart ==
  ASSUME InvitesInv, NEW r \in Relays, I!Restart(r)
  PROVE  InvitesInv'
  <1> USE DEF InvitesInv
  <1>1. /\ sent' = [sent EXCEPT ![r] = {}] /\ due' = [due EXCEPT ![r] = {}]
        /\ sentLoaded' = [sentLoaded EXCEPT ![r] = FALSE]
        /\ unwritten' = {u \in unwritten : u[1] # r}
        /\ join' = [j \in Joins |-> IF join[j].relay = r THEN I!Over ELSE join[j]]
        /\ UNCHANGED <<inviteNow, sentFile, invites, onRecord, accepted, expected>>
    BY DEF I!Restart
  <1>2. /\ SentTo' = SentTo /\ HasAccepted' = HasAccepted
        /\ \A p, t : IsFirst(p, t) <=> IsFirst(p, t)'
        /\ \A p, t : HadInvite(p, t) <=> HadInvite(p, t)'
    BY <1>1 DEF SentTo, HasAccepted, IsFirst, HadInvite
  <1>3. I!Over \in JoinRecord /\ ~I!Over.before /\ I!Over.at # "append"
    BY DEF I!Over, I!NoJoin, JoinRecord
  <1>4. InvitesTyped'
    BY <1>1, <1>3 DEF InvitesTyped
  <1>5. SentInv'
    BY <1>1, <1>2 DEF SentInv
  <1>6. \A x \in Relays : /\ sent'[x] = IF x = r THEN {} ELSE sent[x]
                          /\ due'[x] \subseteq due[x]
                          /\ sentLoaded'[x] = (x # r /\ sentLoaded[x])
    BY <1>1 DEF InvitesTyped
  <1>7. \A x \in Relays, p \in Invited : <<x, p>> \in unwritten' <=> <<x, p>> \in unwritten /\ x # r
    BY <1>1
  <1>8. MemoryInv'
    <2>1. \A x \in Relays : \A p \in sent'[x] : p \in SentTo' \/ <<x, p>> \in unwritten'
      BY <1>2, <1>4, <1>6, <1>7 DEF MemoryInv, InvitesTyped
    <2>2. \A x \in Relays, p \in Invited :
            <<x, p>> \in unwritten' => sentLoaded'[x] /\ p \in sent'[x]
      BY <1>6, <1>7 DEF MemoryInv
    <2> QED BY <1>1, <1>2, <1>6, <2>1, <2>2 DEF MemoryInv
  <1>9. AcceptedInv'
    BY <1>1, <1>2, <1>3 DEF AcceptedInv, InvitesTyped
  <1> QED BY <1>4, <1>5, <1>8, <1>9

\* The steps that leave the files of invites and joins alone.
LEMMA InvitesOther ==
  ASSUME InvitesInv,
         \/ I!PruneStart \/ I!AcceptedXUIDs \/ I!ReadQueue \/ I!Rename \/ I!RewriteFails
         \/ I!Tick \/ \E p \in Invited : I!Discover(p)
         \/ UNCHANGED inviteVars
  PROVE  InvitesInv'
  <1> USE DEF InvitesInv
  <1>1. /\ UNCHANGED <<I!sends, accepted, join, expected>>
        /\ inviteNow' = inviteNow \/ inviteNow' = inviteNow + 1
    BY DEF I!PruneStart, I!AcceptedXUIDs, I!ReadQueue, I!Rename, I!RewriteFails, I!Tick,
           I!Discover, inviteVars, I!sends, I!memory
  <1>2. UNCHANGED <<sentLoaded, sent, due, unwritten, sentFile, invites, onRecord>>
    BY <1>1 DEF I!sends, I!memory
  <1>3. /\ SentTo' = SentTo /\ HasAccepted' = HasAccepted
        /\ \A p, t : IsFirst(p, t) <=> IsFirst(p, t)'
        /\ \A p, t : HadInvite(p, t) <=> HadInvite(p, t)'
    BY <1>1, <1>2 DEF SentTo, HasAccepted, IsFirst, HadInvite
  <1>4. inviteNow' \in Nat /\ inviteNow <= inviteNow'
    BY <1>1 DEF InvitesTyped
  <1>5. InvitesTyped'
    BY <1>1, <1>2, <1>4 DEF InvitesTyped
  <1>6. SentInv'
    BY <1>2, <1>3 DEF SentInv
  <1>7. \A p : HadInvite(p, inviteNow) => HadInvite(p, inviteNow)'
    BY <1>2, <1>4 DEF InvitesTyped, HadInvite
  <1>8. MemoryInv'
    BY <1>2, <1>3, <1>7 DEF MemoryInv
  <1>9. AcceptedInv'
    BY <1>1, <1>3 DEF AcceptedInv
  <1> QED BY <1>5, <1>6, <1>8, <1>9

-----------------------------------------------------------------------------
(* The prune of the queue.                                                 *)

\* Whom the prune may drop: who has expired and had not joined when it began,
\* and who was added while it ran.
Droppable(l) == (I!Expired(l) /\ l[1] \notin invitePrune.start) \/ l[1] \in invitePrune.arrivals

\* Who had joined when the prune began has joined when it reads AcceptedFile,
\* and is among those it knows of when it decides what to keep.
QueueInv ==
    /\ invitePrune.at # "idle" => invitePrune.start \subseteq HasAccepted
    /\ invitePrune.at \in {"read", "rename"} => invitePrune.start \subseteq invitePrune.joined
    /\ invitePrune.at = "rename" => \A l \in queue \ invitePrune.kept : Droppable(l)
    /\ invitePrune \in [at : {"idle", "opened", "read", "rename"}, now : Nat,
                        joined : SUBSET Invited, kept : SUBSET (Invited \X Nat),
                        start : SUBSET Invited, arrivals : SUBSET Invited]
    /\ queue \subseteq Invited \X Nat

LEMMA QueueInit == I!Init => QueueInv
  BY DEF I!Init, QueueInv, I!Idle

\* An invite and its record leave the joins and the queue alone.
LEMMA SendSteps ==
  ASSUME \/ \E r \in Relays : \/ I!LoadSent(r)
                              \/ \E p \in Invited : \/ I!SendInvite(r, p) \/ I!RecordSent(r, p)
                                                    \/ I!RecordSentFails(r, p)
         \/ \E p \in Invited : I!SendInviteUnrecorded(p)
  PROVE  UNCHANGED <<inviteNow, accepted, queue, invitePrune>>
  BY DEF I!LoadSent, I!SendInvite, I!RecordSent, I!RecordSentFails, I!SendInviteUnrecorded,
         I!Invite, I!Remember

\* HasAccepted only grows.
LEMMA AcceptedGrows ==
  ASSUME InvitesTyped, I!Next \/ UNCHANGED inviteVars
  PROVE  HasAccepted \subseteq HasAccepted'
  <1>1. CASE \E j \in Joins : I!AppendAccepted(j)
    <2>1. PICK j \in Joins : I!AppendAccepted(j)
      BY <1>1
    <2>2. PICK l : accepted' = Append(accepted, l)
      BY <2>1 DEF I!AppendAccepted
    <2>3. \A i \in 1..Len(accepted) :
            i \in DOMAIN accepted' /\ accepted'[i] = accepted[i]
      BY <2>2 DEF InvitesTyped
    <2>4. DOMAIN accepted = 1..Len(accepted)
      BY DEF InvitesTyped
    <2> QED BY <2>3, <2>4 DEF HasAccepted, I!FirstFields, I!ToSet
  <1>2. CASE UNCHANGED accepted
    BY <1>2 DEF HasAccepted
  <1>3. (\E j \in Joins : I!AppendAccepted(j)) \/ UNCHANGED accepted
    BY SendSteps DEF I!Next, inviteVars, I!OnJoin, I!CheckListed, I!CheckInvited, I!AppendFails,
       I!Restart, I!PruneStart, I!AcceptedXUIDs, I!ReadQueue, I!Rename, I!RewriteFails,
       I!Tick, I!Discover
  <1> QED BY <1>1, <1>2, <1>3

LEMMA QueueStep ==
  ASSUME InvitesTyped, QueueInv, I!Next \/ UNCHANGED inviteVars
  PROVE  QueueInv'
  <1> USE AcceptedGrows DEF QueueInv, Droppable, I!Expired
  <1>1. CASE I!PruneStart
    <2>1. HasAccepted \subseteq Invited
      BY DEF HasAccepted, I!FirstFields, I!ToSet, InvitesTyped
    <2> QED BY <1>1, <2>1 DEF I!PruneStart, I!Idle, HasAccepted, InvitesTyped
  <1>2. CASE I!AcceptedXUIDs
    <2>1. HasAccepted \subseteq Invited
      BY DEF HasAccepted, I!FirstFields, I!ToSet, InvitesTyped
    <2> QED BY <1>2, <2>1 DEF I!AcceptedXUIDs, HasAccepted
  <1>3. CASE I!ReadQueue
    BY <1>3 DEF I!ReadQueue, I!Kept, I!Idle
  <1>4. CASE I!Rename
    BY <1>4 DEF I!Rename, I!Idle
  <1>5. CASE I!RewriteFails
    BY <1>5 DEF I!RewriteFails, I!Idle
  <1>6. ASSUME NEW p \in Invited, I!Discover(p) PROVE QueueInv'
    <2>1. /\ queue' = queue \cup {<<p, inviteNow>>} /\ queue' \subseteq Invited \X Nat
          /\ HasAccepted' = HasAccepted
      BY <1>6 DEF I!Discover, InvitesTyped, HasAccepted
    <2>2. CASE invitePrune = I!Idle
      BY <1>6, <2>1, <2>2 DEF I!Discover, I!Idle
    <2>3. CASE invitePrune # I!Idle
      <3>1. invitePrune' = [invitePrune EXCEPT !.arrivals = @ \cup {p}]
        BY <1>6, <2>3 DEF I!Discover
      <3>2. /\ invitePrune'.at = invitePrune.at /\ invitePrune'.now = invitePrune.now
            /\ invitePrune'.joined = invitePrune.joined
            /\ invitePrune'.kept = invitePrune.kept /\ invitePrune'.start = invitePrune.start
            /\ invitePrune'.arrivals = invitePrune.arrivals \cup {p}
        BY <3>1
      <3>3. \A l : Droppable(l) => Droppable(l)'
        BY <3>2
      <3>4. \A l : l = <<p, inviteNow>> => Droppable(l)'
        BY <3>2
      <3>5. invitePrune' \in [at : {"idle", "opened", "read", "rename"}, now : Nat,
                              joined : SUBSET Invited, kept : SUBSET (Invited \X Nat),
                              start : SUBSET Invited, arrivals : SUBSET Invited]
        BY <3>1
      <3>6. invitePrune'.at = "rename" => \A l \in queue' \ invitePrune'.kept : Droppable(l)'
        <4> SUFFICES ASSUME invitePrune'.at = "rename", NEW l \in queue' \ invitePrune'.kept
                     PROVE  Droppable(l)'
          OBVIOUS
        <4>1. invitePrune.at = "rename" /\ l \notin invitePrune.kept /\ l \in queue'
          BY <3>2
        <4>2. CASE l \in queue
          BY <3>3, <4>1, <4>2
        <4>3. CASE l \notin queue
          BY <2>1, <3>4, <4>1, <4>3
        <4> QED BY <4>2, <4>3
      <3>7. /\ invitePrune'.at # "idle" => invitePrune'.start \subseteq HasAccepted'
            /\ invitePrune'.at \in {"read", "rename"} =>
                 invitePrune'.start \subseteq invitePrune'.joined
        BY <2>1, <3>2
      <3> HIDE DEF Droppable
      <3> QED BY <2>1, <3>5, <3>6, <3>7
    <2> QED BY <2>2, <2>3
  <1>7. CASE UNCHANGED <<queue, invitePrune>>
    BY <1>7
  <1>8. CASE queue' = queue /\ invitePrune' = I!Idle
    BY <1>8 DEF I!Idle
  <1>9. \/ I!PruneStart \/ I!AcceptedXUIDs \/ I!ReadQueue \/ I!Rename \/ I!RewriteFails
        \/ \E p \in Invited : I!Discover(p)
        \/ queue' = queue /\ invitePrune' = I!Idle
        \/ UNCHANGED <<queue, invitePrune>>
    BY SendSteps DEF I!Next, inviteVars, I!OnJoin, I!CheckListed, I!CheckInvited,
       I!AppendAccepted, I!AppendFails, I!Restart, I!Tick
  <1> QED BY <1>1, <1>2, <1>3, <1>4, <1>5, <1>6, <1>7, <1>8, <1>9

LEMMA QueueDrops ==
  ASSUME QueueInv, I!Next \/ UNCHANGED inviteVars
  PROVE  \A l \in queue \ queue' : Droppable(l)
  <1>1. queue \subseteq queue' \/ I!Rename
    BY SendSteps DEF I!Next, inviteVars, I!OnJoin, I!CheckListed, I!CheckInvited,
       I!AppendAccepted, I!AppendFails, I!Restart, I!PruneStart, I!AcceptedXUIDs,
       I!ReadQueue, I!RewriteFails, I!Tick, I!Discover
  <1> QED BY <1>1 DEF I!Rename, QueueInv

-----------------------------------------------------------------------------
(* The friend activity file: what a Store writes is what a reader parses.    *)

\* Players sorted by XUID have one place each, and every place has a player.
LEMMA PlaceOne ==
  ASSUME NEW S \in SUBSET Nat, IsFiniteSet(S), NEW x \in S, NEW y \in S,
         Place(x, S) = Place(y, S)
  PROVE  x = y
  <1>1. ASSUME NEW a \in S, NEW b \in S, a < b PROVE Place(a, S) # Place(b, S)
    <2> DEFINE A == {z \in S : z <= a}
               B == {z \in S : z <= b}
    <2>1. a \in Nat /\ b \in Nat /\ a < b /\ \A z \in S : z \in Nat
      BY <1>1
    <2>5. \A z \in S : z <= a => z <= b
      BY <2>1
    <2>6. b <= b /\ ~(b <= a)
      BY <2>1
    <2>4. A \in SUBSET B /\ b \in B /\ b \notin A
      BY <2>5, <2>6, Zenon
    <2>2. IsFiniteSet(B)
      BY FS_Subset
    <2> HIDE DEF A, B
    <2>3. Cardinality(A) # Cardinality(B)
      BY <2>4, <2>2, FS_Subset
    <2> QED BY <2>3 DEF A, B, Place
  <1>2. x < y \/ y < x \/ x = y
    OBVIOUS
  <1> QED BY <1>1, <1>2

LEMMA PlaceAll ==
  ASSUME NEW S \in SUBSET Nat, IsFiniteSet(S)
  PROVE  /\ \A x \in S : Place(x, S) \in 1..Cardinality(S)
         /\ \A i \in 1..Cardinality(S) : \E x \in S : Place(x, S) = i
         /\ Cardinality(S) \in Nat
  <1> DEFINE n == Cardinality(S)
             f == [x \in S |-> Place(x, S)]
  <1>1. n \in Nat
    BY FS_CardinalityType
  <1>2. ASSUME NEW x \in S PROVE Place(x, S) \in 1..n
    <2> DEFINE A == {z \in S : z <= x}
    <2>1. A \in SUBSET S /\ x \in A
      OBVIOUS
    <2> HIDE DEF A
    <2>2. IsFiniteSet(A) /\ Cardinality(A) <= n
      BY <2>1, FS_Subset
    <2>3. Cardinality(A) \in Nat /\ Cardinality(A) # 0
      BY <2>1, <2>2, FS_CardinalityType, FS_EmptySet
    <2> QED BY <1>1, <2>2, <2>3 DEF A, Place
  <1>3. f \in Injection(S, 1..n)
    BY <1>2, PlaceOne DEF Injection, IsInjective
  <1>4. IsFiniteSet(1..n) /\ Cardinality(1..n) = n
    <2> HIDE DEF n
    <2> QED BY <1>1, FS_Interval
  <1>5. f \in Surjection(S, 1..n)
    <2> HIDE DEF f
    <2> QED BY <1>3, <1>4, FS_Injection
  <1>6. \A i \in 1..n : \E x \in S : f[x] = i
    BY <1>5 DEF Surjection
  <1> QED BY <1>1, <1>2, <1>6

Known(r) == {x \in Players : r[x] # 0}

LEMMA LinesFacts ==
  ASSUME NEW r \in [Players -> Nat]
  PROVE  /\ LinesOf(r) \in Seq([who : Players, at : Nat])
         /\ ToSet(LinesOf(r)) = {[who |-> x, at |-> r[x]] : x \in Known(r)}
  <1> DEFINE S == Known(r)
             At(i) == CHOOSE x \in S : Place(x, S) = i
  <1>1. S \in SUBSET Nat /\ IsFiniteSet(S) /\ S \subseteq Players
    BY ActivityAssumption, FS_Subset DEF Known
  <1>2. LinesOf(r) = [i \in 1..Cardinality(S) |-> [who |-> At(i), at |-> r[At(i)]]]
    BY DEF LinesOf, Known
  <1> HIDE DEF S
  <1>3. /\ \A x \in S : Place(x, S) \in 1..Cardinality(S)
        /\ \A i \in 1..Cardinality(S) : \E x \in S : Place(x, S) = i
        /\ Cardinality(S) \in Nat
    BY <1>1, PlaceAll
  <1>4. \A i \in 1..Cardinality(S) : At(i) \in S
    BY <1>3
  <1>5. \A x \in S : At(Place(x, S)) = x
    <2> TAKE x \in S
    <2>1. At(Place(x, S)) \in S /\ Place(At(Place(x, S)), S) = Place(x, S)
      OBVIOUS
    <2> QED BY <1>1, <2>1, PlaceOne
  <1> HIDE DEF At
  <1>6. LinesOf(r) \in Seq([who : Players, at : Nat])
    <2>1. \A i \in 1..Cardinality(S) :
            [who |-> At(i), at |-> r[At(i)]] \in [who : Players, at : Nat]
      BY <1>1, <1>4
    <2>2. LinesOf(r) \in [1..Cardinality(S) -> [who : Players, at : Nat]]
      BY <1>2, <2>1, Zenon
    <2>3. \A n \in Nat : \A T : [1..n -> T] \subseteq Seq(T)
      OBVIOUS
    <2> QED BY <1>3, <2>2, <2>3
  <1>7. ToSet(LinesOf(r)) = {[who |-> At(i), at |-> r[At(i)]] : i \in 1..Cardinality(S)}
    BY <1>2 DEF ToSet
  <1>8. ToSet(LinesOf(r)) = {[who |-> x, at |-> r[x]] : x \in S}
    BY <1>3, <1>4, <1>5, <1>7
  <1> QED BY <1>6, <1>8 DEF S

LEMMA ParsedLines ==
  ASSUME NEW r \in [Players -> Nat], NEW f, f # 0, content[f] = LinesOf(r)
  PROVE  \A x \in Players : Parsed(f)[x] = r[x]
  <1> TAKE x \in Players
  <1> DEFINE L == {l.at : l \in {m \in ToSet(content[f]) : m.who = x}}
  <1>1. ToSet(content[f]) = {[who |-> y, at |-> r[y]] : y \in Known(r)}
    BY LinesFacts
  <1>2. Parsed(f)[x] = Max({0} \cup L)
    BY DEF Parsed
  <1>3. r[x] \in Nat
    OBVIOUS
  <1>4. L = IF r[x] = 0 THEN {} ELSE {r[x]}
    <2>1. \A l \in ToSet(content[f]) : l.who = x => l.at = r[x] /\ r[x] # 0
      BY <1>1 DEF Known
    <2>2. r[x] # 0 => \E l \in ToSet(content[f]) : l.who = x /\ l.at = r[x]
      <3>1. r[x] # 0 => [who |-> x, at |-> r[x]] \in ToSet(content[f])
        BY <1>1 DEF Known
      <3> QED BY <3>1
    <2> QED BY <2>1, <2>2
  <1> HIDE DEF L
  <1>5. /\ r[x] \in {0} \cup L
        /\ \A a \in {0} \cup L : r[x] >= a /\ a \in Nat
    BY <1>3, <1>4
  <1>6. \A a \in {0} \cup L : (\A b \in {0} \cup L : a >= b) => a = r[x]
    BY <1>5
  <1> QED BY <1>2, <1>5, <1>6 DEF Max

LEMMA MaxOfTwo ==
  ASSUME NEW a \in Nat, NEW b \in Nat
  PROVE  Max({a, b}) = IF a >= b THEN a ELSE b
  <1>1. \A c \in {a, b} : (\A d \in {a, b} : c >= d) => c = IF a >= b THEN a ELSE b
    OBVIOUS
  <1>2. (IF a >= b THEN a ELSE b) \in {a, b}
    OBVIOUS
  <1>3. \A d \in {a, b} : (IF a >= b THEN a ELSE b) >= d
    OBVIOUS
  <1> QED BY <1>1, <1>2, <1>3 DEF Max

-----------------------------------------------------------------------------
(* As long as no two updates have overlapped, the file holds what was last   *)
(* put in place, one process at most is updating it, and what that one is    *)
(* about to put in place is no older.                                        *)

Updating(p) == update[p] \in {"merged", "writing"}

ActivityTyped ==
    /\ now \in Nat
    /\ records \in [Procs -> [Players -> 0..now]]
    /\ update \in [Procs -> {"none", "merged", "writing", "down"}]
    /\ out \in [Procs -> Files \cup {0}] /\ line \in [Procs -> Nat]
    /\ file \in Files \cup {0} /\ tmp \in Files \cup {0}
    /\ content = [f \in Files |-> content[f]]
    /\ saved \in [Players -> 0..now]
    /\ target \in Players \cup {0} /\ listed \subseteq Players

\* What the Store of p has is what the file has, or newer; the tool's lacks whom
\* it is forgetting.
Newer(p) ==
    \A x \in Players : IF p = Tool /\ x = target THEN records[p][x] = 0
                       ELSE records[p][x] >= saved[x]

\* The lines p has written are all the temporary file has.
Written(p) ==
    /\ tmp # 0 /\ out[p] = tmp /\ line[p] <= Len(Lines(p))
    /\ content[tmp] = [i \in 1..line[p] |-> Lines(p)[i]]

FileInv ==
    /\ IF file = 0 THEN saved = NoJoins ELSE content[file] = LinesOf(saved)
    /\ file # 0 => file # tmp
    /\ \A p, q \in Procs : Updating(p) /\ Updating(q) => p = q
    /\ \A p \in Procs : update[p] # "writing" => out[p] = 0 /\ line[p] = 0
    /\ \A p \in Procs : Updating(p) => Newer(p)
    /\ \A p \in Procs : update[p] = "writing" => Written(p)

\* Whom the tool is about to remove has been away, or has just come back.
Away(x) == x \in since \/ (saved[x] # 0 /\ saved[x] + Window < now)

ToolInv ==
    /\ Updating(Tool) => tool = "forgetting"
    /\ tool \in {"removed", "forgetting"} \/ target = 0
    /\ \A x \in listed : x = target \/ Away(x)

Apart == ActivityTyped /\ FileInv /\ ToolInv

ActivityInv == overlapped \in BOOLEAN /\ (~overlapped => Apart)

LEMMA ActivityInit == Init => ActivityInv
  <1> SUFFICES ASSUME Init PROVE ActivityInv
    OBVIOUS
  <1>1. Tool \in Procs
    BY DEF Procs
  <1>2. ActivityTyped
    BY DEF Init, ActivityTyped, NoJoins
  <1>3. FileInv
    BY DEF Init, FileInv, Updating, NoJoins
  <1>4. ToolInv
    BY <1>1 DEF Init, ToolInv, Updating
  <1> QED BY <1>2, <1>3, <1>4 DEF Init, ActivityInv, Apart

LEMMA ParsedFile ==
  ASSUME ActivityTyped, FileInv
  PROVE  /\ \A x \in Players : Parsed(file)[x] = saved[x]
         /\ Parsed(file) = saved
  <1>1. saved \in [Players -> Nat]
    BY DEF ActivityTyped
  <1>2. \A x \in Players : Parsed(file)[x] = saved[x]
    <2>1. CASE file = 0
      BY <2>1 DEF Parsed, FileInv, NoJoins
    <2>2. CASE file # 0
      BY <2>2, <1>1, ParsedLines DEF FileInv
    <2> QED BY <2>1, <2>2
  <1>3. Parsed(file) = [x \in Players |-> Parsed(file)[x]]
    BY DEF Parsed
  <1>4. Parsed(file) = saved
    BY <1>1, <1>2, <1>3
  <1> QED BY <1>2, <1>4

\* A merge has the newer of the file's and the Store's.
LEMMA MergeNewer ==
  ASSUME ActivityTyped, FileInv, NEW p \in Procs
  PROVE  /\ Merge(p) \in [Players -> 0..now]
         /\ \A x \in Players : Merge(p)[x] >= saved[x]
  <1>1. \A x \in Players : /\ records[p][x] \in 0..now /\ saved[x] \in 0..now
                           /\ Merge(p)[x] = Max({records[p][x], saved[x]})
    BY ParsedFile DEF Merge, ActivityTyped
  <1>2. \A x \in Players : Merge(p)[x] \in 0..now /\ Merge(p)[x] >= saved[x]
    <2> TAKE x \in Players
    <2>1. now \in Nat /\ records[p][x] \in Nat /\ saved[x] \in Nat
          /\ records[p][x] <= now /\ saved[x] <= now
      BY <1>1 DEF ActivityTyped
    <2>2. Max({records[p][x], saved[x]})
            = IF records[p][x] >= saved[x] THEN records[p][x] ELSE saved[x]
      BY <2>1, MaxOfTwo
    <2> QED BY <1>1, <2>1, <2>2
  <1> QED BY <1>2 DEF Merge

LEMMA LinesLen ==
  ASSUME ActivityTyped, NEW p \in Procs
  PROVE  /\ Len(Lines(p)) \in Nat
         /\ Lines(p) = [i \in 1..Len(Lines(p)) |-> Lines(p)[i]]
  <1>1. records[p] \in [Players -> Nat]
    BY DEF ActivityTyped
  <1>2. Lines(p) \in Seq([who : Players, at : Nat])
    BY <1>1, LinesFacts DEF Lines
  <1> QED BY <1>2

\* p begins an update, with records r that are no older than the file's.
LEMMA BeginStep ==
  ASSUME Apart, NEW p \in Procs, NEW r \in [Players -> 0..now], Begin(p), ~overlapped',
         records' = [records EXCEPT ![p] = r],
         ~Updating(p),
         \A x \in Players : IF p = Tool /\ x = target THEN r[x] = 0 ELSE r[x] >= saved[x],
         UNCHANGED <<now, file, tmp, content, saved, target, listed>>
  PROVE  ActivityTyped' /\ FileInv'
  <1> USE DEF Apart
  <1>1. /\ update' = [update EXCEPT ![p] = "merged"] /\ UNCHANGED <<out, line>>
        /\ \A q \in Procs \ {p} : ~Updating(q)
    BY DEF Begin, Updating
  <1>2. ActivityTyped'
    <2>1. records' \in [Procs -> [Players -> 0..now]]
      BY DEF ActivityTyped
    <2>2. update' \in [Procs -> {"none", "merged", "writing", "down"}]
      BY <1>1 DEF ActivityTyped
    <2>3. listed' \subseteq Players
      BY DEF ActivityTyped
    <2> QED BY <1>1, <2>1, <2>2, <2>3 DEF ActivityTyped
  <1>3. \A q \in Procs : /\ update'[q] = IF q = p THEN "merged" ELSE update[q]
                         /\ Updating(q)' => q = p
    BY <1>1 DEF ActivityTyped, Updating
  <1>4. records'[p] = r
    BY DEF ActivityTyped
  <1>5. Newer(p)'
    BY <1>4 DEF Newer
  <1>6. \A q \in Procs : Updating(q)' => Newer(q)'
    BY <1>3, <1>5
  <1>7. \A q \in Procs : update'[q] = "writing" => Updating(q)' /\ q # p
    BY <1>3 DEF Updating
  <1>8. \A q \in Procs : update'[q] # "writing" => out'[q] = 0 /\ line'[q] = 0
    BY <1>1, <1>3 DEF FileInv, Updating
  <1>9. /\ IF file' = 0 THEN saved' = NoJoins ELSE content'[file'] = LinesOf(saved')
        /\ file' # 0 => file' # tmp'
    BY DEF FileInv
  <1> QED BY <1>2, <1>3, <1>6, <1>7, <1>8, <1>9 DEF FileInv

\* p ends its update, or is cut off: the file is what it was.
LEMMA EndStep ==
  ASSUME Apart, NEW p \in Procs, NEW u \in {"none", "down"},
         update' = [update EXCEPT ![p] = u],
         out' = [out EXCEPT ![p] = 0], line' = [line EXCEPT ![p] = 0],
         UNCHANGED <<now, records, diskVars, saved, toolVars, since>>
  PROVE  Apart'
  <1> USE DEF Apart
  <1>1. ActivityTyped'
    BY DEF ActivityTyped, diskVars, toolVars
  <1>2. \A q \in Procs : /\ update'[q] = IF q = p THEN u ELSE update[q]
                         /\ out'[q] = IF q = p THEN 0 ELSE out[q]
                         /\ line'[q] = IF q = p THEN 0 ELSE line[q]
    BY DEF ActivityTyped
  <1>3. \A q \in Procs : /\ Updating(q)' => Updating(q) /\ q # p
                         /\ Newer(q) => Newer(q)'
                         /\ Written(q) /\ q # p => Written(q)'
    <2>1. \A q \in Procs : Updating(q)' => Updating(q) /\ q # p
      BY <1>2 DEF Updating
    <2>2. \A q \in Procs : Newer(q) => Newer(q)'
      BY DEF Newer, toolVars
    <2>3. \A q \in Procs : Lines(q)' = Lines(q)
      BY DEF Lines
    <2>4. \A q \in Procs : Written(q) /\ q # p => Written(q)'
      BY <1>2, <2>3 DEF Written, diskVars
    <2> QED BY <2>1, <2>2, <2>4
  <1>4. FileInv'
    <2>1. \A q \in Procs : update'[q] # "writing" => out'[q] = 0 /\ line'[q] = 0
      BY <1>2 DEF FileInv
    <2>2. \A q \in Procs : update'[q] = "writing" => Written(q)'
      BY <1>2, <1>3 DEF FileInv
    <2>3. \A q \in Procs : Updating(q)' => Newer(q)'
      BY <1>3 DEF FileInv
    <2>4. /\ IF file' = 0 THEN saved' = NoJoins ELSE content'[file'] = LinesOf(saved')
          /\ file' # 0 => file' # tmp'
      BY DEF FileInv, diskVars
    <2> QED BY <1>3, <2>1, <2>2, <2>3, <2>4 DEF FileInv
  <1>5. ToolInv'
    BY <1>3 DEF ToolInv, Away, toolVars, Procs
  <1> QED BY <1>1, <1>4, <1>5

LEMMA CreateKeeps ==
  ASSUME Apart, NEW p \in Procs, Create(p)
  PROVE  Apart'
  <1> USE DEF Apart
  <1> DEFINE f == IF CreateIn # 0 THEN CreateIn ELSE Unused
  <1>1. update[p] = "merged" /\ \A q \in Procs : Updating(q) => q = p
    BY DEF Create, FileInv, Updating
  <1>2. \A q \in Procs : out[q] = 0
    BY <1>1 DEF FileInv, Updating
  <1>3. f \in Files /\ f # 0 /\ f # file
    <2>1. Cardinality(Relays) \in Nat
      BY ActivityAssumption, FS_CardinalityType
    <2>2. {1, 2, 3} \subseteq Files /\ 0 \notin Files
      BY <2>1 DEF Files
    <2>3. CASE tmp = 0
      <3>1. \E g \in Files : g \notin {file, tmp} /\ \A q \in Procs : out[q] # g
        <4>1. \E g \in {1, 2, 3} : g # file /\ g # tmp
          BY <2>3
        <4> QED BY <4>1, <2>2, <1>2
      <3>2. Unused \in Files /\ Unused \notin {file, tmp}
        BY <3>1, Zenon DEF Unused
      <3> QED BY <2>2, <2>3, <3>2 DEF CreateIn
    <2>4. CASE tmp # 0
      BY <2>2, <2>4 DEF CreateIn, ActivityTyped, FileInv
    <2> QED BY <2>3, <2>4
  <1> HIDE DEF f
  <1>4. /\ content' = [content EXCEPT ![f] = <<>>] /\ tmp' = f
        /\ out' = [out EXCEPT ![p] = f] /\ update' = [update EXCEPT ![p] = "writing"]
        /\ UNCHANGED <<now, records, line, file, saved, since, tool, listed, target>>
    BY DEF Create, f, toolVars
  <1>5. \A q \in Procs : /\ update'[q] = IF q = p THEN "writing" ELSE update[q]
                         /\ out'[q] = IF q = p THEN f ELSE 0
                         /\ line'[q] = 0
    BY <1>1, <1>2, <1>4 DEF ActivityTyped, FileInv, Updating
  <1>6. /\ content'[f] = <<>> /\ \A g \in Files \ {f} : content'[g] = content[g]
        /\ content' = [g \in Files |-> content'[g]]
    BY <1>3, <1>4 DEF ActivityTyped
  <1>7. ActivityTyped'
    BY <1>3, <1>4, <1>6 DEF ActivityTyped
  <1>8. \A q \in Procs : Updating(q)' <=> Updating(q)
    BY <1>1, <1>5 DEF Updating
  <1>9. \A q \in Procs : Newer(q)' <=> Newer(q)
    BY <1>4 DEF Newer
  <1>10. Written(p)'
    <2>1. Len(Lines(p)) \in Nat /\ Lines(p)' = Lines(p)
      BY <1>4, LinesLen DEF Lines
    <2>2. content'[f] = [i \in 1..0 |-> Lines(p)[i]]
      BY <1>6
    <2> QED BY <1>3, <1>4, <1>5, <2>1, <2>2 DEF Written
  <1>11. FileInv'
    <2>1. IF file' = 0 THEN saved' = NoJoins ELSE content'[file'] = LinesOf(saved')
      BY <1>3, <1>4, <1>6 DEF FileInv, ActivityTyped
    <2>2. file' # tmp'
      BY <1>3, <1>4
    <2>3. \A q \in Procs : Updating(q)' => Newer(q)'
      BY <1>8, <1>9 DEF FileInv
    <2>4. \A q \in Procs : update'[q] = "writing" => q = p
      BY <1>1, <1>5 DEF Updating
    <2>5. \A q \in Procs : update'[q] # "writing" => out'[q] = 0 /\ line'[q] = 0
      BY <1>5
    <2> QED BY <1>1, <1>8, <1>10, <2>1, <2>2, <2>3, <2>4, <2>5 DEF FileInv
  <1>12. ToolInv'
    BY <1>4, <1>8 DEF ToolInv, Away, Procs
  <1> QED BY <1>7, <1>11, <1>12

LEMMA WriteLineKeeps ==
  ASSUME Apart, NEW p \in Procs, WriteLine(p)
  PROVE  Apart'
  <1> USE DEF Apart
  <1> DEFINE n == line[p] + 1
             old1 == content[out[p]]
  <1>1. update[p] = "writing" /\ \A q \in Procs : update[q] = "writing" => q = p
    BY DEF WriteLine, FileInv, Updating
  <1>2. /\ Written(p) /\ tmp \in Files /\ tmp # file
    BY <1>1 DEF FileInv, ActivityTyped, Written
  <1>3. /\ n \in 1..Len(Lines(p)) /\ n \in Nat /\ line[p] = n - 1
        /\ Len(Lines(p)) \in Nat
    BY LinesLen DEF WriteLine, ActivityTyped
  <1>4. /\ old1 = [i \in 1..(n - 1) |-> Lines(p)[i]] /\ Len(old1) = n - 1
    BY <1>2, <1>3 DEF Written
  <1>5. Max({n, Len(old1)}) = n
    <2> DEFINE m == Len(old1)
    <2>1. n \in Nat /\ m \in Nat /\ n >= m
      BY <1>3, <1>4
    <2> HIDE DEF n, m
    <2>2. Max({n, m}) = n
      BY <2>1, MaxOfTwo
    <2> QED BY <2>2 DEF m
  <1>6. /\ content' = [content EXCEPT ![tmp] = [i \in 1..n |-> Lines(p)[i]]]
        /\ line' = [line EXCEPT ![p] = n]
        /\ UNCHANGED <<now, records, update, out, file, tmp, saved, since, tool, listed,
                       target>>
    <2>1. content' = [content EXCEPT ![out[p]] =
            [i \in 1..Max({n, Len(old1)}) |->
               IF i = n THEN Lines(p)[n]
               ELSE IF i <= Len(old1) THEN old1[i] ELSE [who |-> 0, at |-> 0]]]
      BY DEF WriteLine
    <2>2. \A i \in 1..n : (IF i = n THEN Lines(p)[n]
                           ELSE IF i <= Len(old1) THEN old1[i] ELSE [who |-> 0, at |-> 0])
                          = Lines(p)[i]
      BY <1>3, <1>4
    <2>3. out[p] = tmp
      BY <1>2 DEF Written
    <2> HIDE DEF n, old1
    <2>4. content' = [content EXCEPT ![tmp] = [i \in 1..n |-> Lines(p)[i]]]
      BY <1>5, <2>1, <2>2, <2>3
    <2> QED BY <2>4 DEF WriteLine, toolVars, n
  <1> HIDE DEF n, old1
  <1>7. ActivityTyped'
    BY <1>3, <1>6 DEF ActivityTyped
  <1>8. \A q \in Procs : Updating(q)' = Updating(q) /\ Newer(q)' = Newer(q)
    BY <1>6 DEF Updating, Newer
  <1>9. Written(p)'
    <2>1. Lines(p)' = Lines(p) /\ line'[p] = n
      BY <1>6 DEF Lines, ActivityTyped
    <2>2. content'[tmp] = [i \in 1..n |-> Lines(p)[i]]
      BY <1>2, <1>6 DEF ActivityTyped
    <2> QED BY <1>2, <1>3, <1>6, <2>1, <2>2 DEF Written
  <1>10. FileInv'
    <2>1. IF file' = 0 THEN saved' = NoJoins ELSE content'[file'] = LinesOf(saved')
      BY <1>2, <1>6 DEF FileInv, ActivityTyped
    <2>2. \A q \in Procs : update'[q] # "writing" => out'[q] = 0 /\ line'[q] = 0
      BY <1>1, <1>6 DEF FileInv, ActivityTyped
    <2> QED BY <1>1, <1>6, <1>8, <1>9, <2>1, <2>2 DEF FileInv
  <1>11. ToolInv'
    BY <1>6, <1>8 DEF ToolInv, Away, Procs
  <1> QED BY <1>7, <1>10, <1>11

LEMMA RenameKeeps ==
  ASSUME Apart, NEW p \in Procs, Rename(p)
  PROVE  Apart'
  <1> USE DEF Apart
  <1>1. /\ update[p] = "writing" /\ Updating(p)
        /\ \A q \in Procs : Updating(q) => q = p
    BY DEF Rename, FileInv, Updating
  <1>2. Written(p) /\ Newer(p) /\ line[p] = Len(Lines(p)) /\ tmp \in Files /\ tmp # file
    BY <1>1 DEF FileInv, Rename, Written, ActivityTyped
  <1>3. content[tmp] = LinesOf(records[p])
    BY <1>2, LinesLen DEF Written, Lines
  <1>4. records[p] \in [Players -> 0..now] /\ now \in Nat
    BY DEF ActivityTyped
  <1>5. saved' = records[p]
    <2>1. saved' = [x \in Players |-> IF p = Tool /\ x = target THEN 0
                                      ELSE Max({saved[x], records[p][x]})]
      BY DEF Rename
    <2>2. ASSUME NEW x \in Players, ~(p = Tool /\ x = target)
          PROVE  Max({saved[x], records[p][x]}) = records[p][x]
      <3>1. saved[x] \in Nat /\ records[p][x] \in Nat /\ records[p][x] >= saved[x]
        BY <1>2, <1>4, <2>2 DEF Newer, ActivityTyped
      <3> QED BY <3>1, MaxOfTwo
    <2>3. \A x \in Players : saved'[x] = records[p][x]
      BY <1>2, <2>1, <2>2 DEF Newer
    <2> QED BY <1>4, <2>1, <2>3
  <1>6. /\ file' = tmp /\ tmp' = 0 /\ content'[tmp] = content[tmp]
        /\ content' = [f \in Files |-> content'[f]]
        /\ UNCHANGED <<now, records, tool, listed, target>>
        /\ update' = [update EXCEPT ![p] = "none"]
        /\ out' = [out EXCEPT ![p] = 0] /\ line' = [line EXCEPT ![p] = 0]
    <2>1. content' = content \/ content' = [content EXCEPT ![file] = <<>>]
      BY DEF Rename
    <2>2. content'[tmp] = content[tmp] /\ content' = [f \in Files |-> content'[f]]
      BY <1>2, <2>1 DEF ActivityTyped
    <2> QED BY <2>2 DEF Rename, End, toolVars
  <1>7. \A q \in Procs : /\ update'[q] = IF q = p THEN "none" ELSE update[q]
                         /\ ~Updating(q)'
    BY <1>1, <1>6 DEF ActivityTyped, Updating
  <1>8. ActivityTyped'
    BY <1>4, <1>5, <1>6 DEF ActivityTyped
  <1>9. FileInv'
    <2>1. file' # 0 /\ file' # tmp' /\ content'[file'] = LinesOf(saved')
      BY <1>2, <1>3, <1>5, <1>6 DEF Written
    <2>2. \A q \in Procs : out'[q] = 0 /\ line'[q] = 0
      BY <1>1, <1>6 DEF FileInv, Updating, ActivityTyped
    <2> QED BY <1>7, <2>1, <2>2 DEF FileInv, Updating
  <1>10. ToolInv'
    <2>1. ASSUME NEW x \in listed', x # target' PROVE Away(x)'
      <3>1. x \in Players /\ x # target /\ Away(x)
        BY <1>6, <2>1 DEF ToolInv, ActivityTyped
      <3>2. saved'[x] >= saved[x] /\ saved'[x] \in Nat /\ saved[x] \in Nat
        BY <1>2, <1>4, <1>5, <3>1 DEF Newer, ActivityTyped
      <3>3. since' = since \cup {y \in Players : saved'[y] > saved[y]}
        BY DEF Rename
      <3>4. CASE saved'[x] > saved[x]
        BY <3>1, <3>3, <3>4 DEF Away
      <3>5. CASE saved'[x] = saved[x]
        BY <1>6, <3>1, <3>3, <3>5 DEF Away
      <3> QED BY <3>2, <3>4, <3>5
    <2>2. /\ Updating(Tool)' => tool' = "forgetting"
          /\ tool' \in {"removed", "forgetting"} \/ target' = 0
      BY <1>6, <1>7 DEF ToolInv, Procs
    <2> QED BY <2>1, <2>2 DEF ToolInv
  <1> QED BY <1>8, <1>9, <1>10

LEMMA RecordJoinKeeps ==
  ASSUME Apart, NEW p \in Relays, NEW x \in Players, RecordJoin(p, x), ~overlapped'
  PROVE  Apart'
  <1> USE DEF Apart
  <1> DEFINE r == [Merge(p) EXCEPT ![x] = now]
  <1>1. p \in Procs /\ p # Tool /\ now \in Nat
    BY ActivityAssumption DEF Procs, ActivityTyped
  <1>2. r \in [Players -> 0..now]
    BY <1>1, MergeNewer
  <1>3. \A y \in Players : r[y] >= saved[y]
    <2>1. saved[x] \in 0..now
      BY DEF ActivityTyped
    <2> QED BY <1>1, <2>1, MergeNewer
  <1>4. /\ records' = [records EXCEPT ![p] = r] /\ Begin(p) /\ update[p] = "none"
        /\ UNCHANGED <<now, file, tmp, content, saved, target, listed, tool, since>>
    BY DEF RecordJoin, diskVars, toolVars
  <1> HIDE DEF r
  <1>5. ActivityTyped' /\ FileInv'
    BY <1>1, <1>2, <1>3, <1>4, BeginStep DEF Updating
  <1>6. Updating(Tool)' => Updating(Tool)
    BY <1>1, <1>4 DEF Begin, Updating, ActivityTyped, Procs
  <1>7. ToolInv'
    BY <1>4, <1>6 DEF ToolInv, Away
  <1> QED BY <1>5, <1>7

\* The file, and whoever updates it, stay as they are.
LEMMA FileUnread ==
  ASSUME Apart, UNCHANGED <<updateVars, diskVars, saved>>,
         \A p \in Procs : Updating(p) => Newer(p)' /\ records'[p] = records[p]
  PROVE  FileInv'
  <1> USE DEF Apart, updateVars, diskVars
  <1>1. \A p \in Procs : Updating(p)' <=> Updating(p)
    BY DEF Updating
  <1>2. \A p \in Procs : update[p] = "writing" => Written(p)'
    BY DEF FileInv, Updating, Written, Lines
  <1> QED BY <1>1, <1>2 DEF FileInv

LEMMA OpenKeeps ==
  ASSUME Apart, NEW p \in Procs, Open(p)
  PROVE  Apart'
  <1> USE DEF Apart
  <1>1. /\ update[p] = "down" /\ records' = [records EXCEPT ![p] = saved]
        /\ update' = [update EXCEPT ![p] = "none"]
        /\ UNCHANGED <<now, out, line, file, tmp, content, saved, since, tool, listed, target>>
    BY ParsedFile DEF Open, diskVars, toolVars
  <1>2. ActivityTyped'
    <2>1. saved \in [Players -> 0..now]
      BY DEF ActivityTyped
    <2>2. records' \in [Procs -> [Players -> 0..now]]
      BY <1>1, <2>1 DEF ActivityTyped
    <2> QED BY <1>1, <2>2 DEF ActivityTyped
  <1>3. \A q \in Procs : /\ update'[q] = IF q = p THEN "none" ELSE update[q]
                         /\ Updating(q)' <=> Updating(q)
                         /\ Updating(q) => records'[q] = records[q]
    BY <1>1 DEF ActivityTyped, Updating
  <1>4. \A q \in Procs : Updating(q) => (Newer(q) => Newer(q)') /\ (Written(q) => Written(q)')
    <2> SUFFICES ASSUME NEW q \in Procs, Updating(q)
                 PROVE  (Newer(q) => Newer(q)') /\ (Written(q) => Written(q)')
      OBVIOUS
    <2>1. records'[q] = records[q] /\ Lines(q)' = Lines(q)
      BY <1>3 DEF Lines
    <2>2. Newer(q) => Newer(q)'
      BY <1>1, <2>1 DEF Newer
    <2>3. Written(q) => Written(q)'
      BY <1>1, <2>1 DEF Written
    <2> QED BY <2>2, <2>3
  <1>5. FileInv'
    <2>1. /\ IF file' = 0 THEN saved' = NoJoins ELSE content'[file'] = LinesOf(saved')
          /\ file' # 0 => file' # tmp'
      BY <1>1 DEF FileInv
    <2>2. \A q \in Procs : update'[q] # "writing" => out'[q] = 0 /\ line'[q] = 0
      BY <1>1, <1>3 DEF FileInv
    <2>3. \A q \in Procs : update'[q] = "writing" => Updating(q) /\ update[q] = "writing"
      BY <1>1, <1>3 DEF Updating
    <2> QED BY <1>3, <1>4, <2>1, <2>2, <2>3 DEF FileInv
  <1>6. ToolInv'
    BY <1>1, <1>3 DEF ToolInv, Away, Procs
  <1> QED BY <1>2, <1>5, <1>6

LEMMA TickKeeps ==
  ASSUME Apart, Tick
  PROVE  Apart'
  <1> USE DEF Apart
  <1>1. /\ now' = now + 1 /\ now \in Nat
        /\ UNCHANGED <<records, updateVars, diskVars, saved, since, tool, listed, target>>
    BY DEF Tick, toolVars, ActivityTyped
  <1>2. ActivityTyped'
    <2>1. 0..now \subseteq 0..now' /\ now' \in Nat
      BY <1>1
    <2> QED BY <1>1, <2>1 DEF ActivityTyped, updateVars, diskVars
  <1>3. FileInv'
    <2>1. \A p \in Procs : Newer(p)' <=> Newer(p)
      BY <1>1 DEF Newer
    <2> QED BY <1>1, <2>1, FileUnread DEF FileInv
  <1>4. ToolInv'
    <2>1. \A x \in Players : Away(x) => Away(x)'
      <3> TAKE x \in Players
      <3>1. saved[x] \in Nat /\ Window \in Nat
        BY ActivityAssumption DEF ActivityTyped
      <3> QED BY <1>1, <3>1 DEF Away
    <2> QED BY <1>1, <2>1 DEF ToolInv, Updating, updateVars, ActivityTyped
  <1> QED BY <1>2, <1>3, <1>4

LEMMA ToolListsKeeps ==
  ASSUME Apart, ToolLists
  PROVE  Apart'
  <1> USE DEF Apart
  <1>1. /\ tool = "idle" /\ records' = [records EXCEPT ![Tool] = saved]
        /\ listed' = Stale(saved) /\ since' = {} /\ tool' \in {"done", "removing"}
        /\ UNCHANGED <<now, updateVars, diskVars, saved, target>>
    BY ParsedFile DEF ToolLists
  <1>2. ~Updating(Tool) /\ Tool \in Procs /\ target = 0
    BY <1>1 DEF ToolInv, Procs
  <1>3. ActivityTyped'
    <2>1. saved \in [Players -> 0..now]
      BY DEF ActivityTyped
    <2>2. records' \in [Procs -> [Players -> 0..now]]
      BY <1>1, <2>1 DEF ActivityTyped
    <2> QED BY <1>1, <2>2 DEF ActivityTyped, updateVars, diskVars, Stale
  <1>4. FileInv'
    <2>1. \A p \in Procs : p # Tool => records'[p] = records[p]
      BY <1>1 DEF ActivityTyped
    <2>2. \A p \in Procs : Updating(p) => p # Tool
      BY <1>2
    <2>3. \A p \in Procs : Updating(p) => Newer(p)' /\ records'[p] = records[p]
      BY <1>1, <2>1, <2>2 DEF FileInv, Newer
    <2> QED BY <1>1, <2>3, FileUnread
  <1>5. ToolInv'
    BY <1>1, <1>2 DEF ToolInv, Away, Stale, Updating, updateVars
  <1> QED BY <1>3, <1>4, <1>5

LEMMA ForgetKeeps ==
  ASSUME Apart, Forget, ~overlapped'
  PROVE  Apart'
  <1> USE DEF Apart
  <1> DEFINE r == [Merge(Tool) EXCEPT ![target] = 0]
  <1>1. /\ tool = "removed" /\ Tool \in Procs /\ tool' = "forgetting"
        /\ records' = [records EXCEPT ![Tool] = r]
        /\ UNCHANGED <<now, diskVars, saved, since, listed, target>>
        /\ Begin(Tool) \/ UNCHANGED updateVars
    BY DEF Forget, Procs
  <1>2. ~Updating(Tool)
    BY <1>1 DEF ToolInv
  <1>3. r \in [Players -> 0..now] /\ now \in Nat
    <2>1. now \in Nat /\ 0 \in 0..now
      BY DEF ActivityTyped
    <2>2. Merge(Tool) \in [Players -> 0..now]
      BY <1>1, MergeNewer
    <2> QED BY <2>1, <2>2
  <1>4. \A x \in Players : IF Tool = Tool /\ x = target THEN r[x] = 0 ELSE r[x] >= saved[x]
    BY <1>1, MergeNewer
  <1> HIDE DEF r
  <1>5. ToolInv'
    BY <1>1 DEF ToolInv, Away
  <1>6. CASE Begin(Tool)
    <2>1. ActivityTyped' /\ FileInv'
      BY <1>1, <1>2, <1>3, <1>4, <1>6, BeginStep DEF diskVars
    <2> QED BY <2>1, <1>5
  <1>7. CASE UNCHANGED updateVars
    <2>1. ActivityTyped'
      BY <1>1, <1>3, <1>7 DEF ActivityTyped, updateVars, diskVars
    <2>2. \A p \in Procs : Updating(p) => p # Tool
      BY <1>2
    <2>3. \A p \in Procs : p # Tool => records'[p] = records[p]
      BY <1>1 DEF ActivityTyped
    <2>4. \A p \in Procs : Updating(p) => Newer(p)' /\ records'[p] = records[p]
      BY <1>1, <2>2, <2>3 DEF FileInv, Newer
    <2>5. FileInv'
      BY <1>1, <1>7, <2>4, FileUnread
    <2> QED BY <1>5, <2>1, <2>5
  <1> QED BY <1>1, <1>6, <1>7

LEMMA RestKeeps ==
  ASSUME Apart, RemoveFriend \/ Forgotten \/ ToolDone
  PROVE  Apart'
  <1> USE DEF Apart
  <1>1. UNCHANGED <<now, records, updateVars, diskVars, saved, since>>
    BY DEF RemoveFriend, Forgotten, ToolDone
  <1>2. /\ target' \in Players \cup {0} /\ listed' \subseteq listed
        /\ tool' \in {"removed", "forgetting"} \/ target' = 0
        /\ tool \in {"removed", "forgetting"} => listed' = listed \ {target}
        /\ ~Updating(Tool)
        /\ \A x \in listed : x # target \/ x \notin listed'
    <2>1. 0 \notin Players
      BY ActivityAssumption
    <2>2. CASE RemoveFriend
      BY <2>1, <2>2 DEF RemoveFriend, ToolInv, ActivityTyped
    <2>3. CASE Forgotten
      BY <2>3 DEF Forgotten, ActivityTyped, Updating
    <2>4. CASE ToolDone
      BY <2>4 DEF ToolDone, ToolInv, ActivityTyped
    <2> QED BY <2>2, <2>3, <2>4
  <1>3. ActivityTyped'
    BY <1>1, <1>2 DEF ActivityTyped, updateVars, diskVars
  <1>4. FileInv'
    <2>1. \A p \in Procs : Updating(p) => p # Tool
      BY <1>2
    <2>2. \A p \in Procs : Updating(p) => Newer(p)' /\ records'[p] = records[p]
      BY <1>1, <2>1 DEF FileInv, Newer
    <2> QED BY <1>1, <2>2, FileUnread
  <1>5. ToolInv'
    BY <1>1, <1>2 DEF ToolInv, Away, Updating, updateVars
  <1> QED BY <1>3, <1>4, <1>5

LEMMA ActivityStep == ActivityInv /\ (Next \/ UNCHANGED actVars) => ActivityInv'
  <1> SUFFICES ASSUME ActivityInv, Next \/ UNCHANGED actVars PROVE ActivityInv'
    OBVIOUS
  <1>1. overlapped' \in BOOLEAN /\ (overlapped => overlapped')
    BY DEF ActivityInv, Next, actVars, updateVars, Create, WriteLine, Rename,
           WriteFails, Begin, End, Crash, Open, RecordJoin, Tick, ToolLists,
           RemoveFriend, Forget, Forgotten, ToolDone
  <1>2. ASSUME ~overlapped' PROVE Apart'
    <2>1. Apart
      BY <1>1, <1>2 DEF ActivityInv
    <2>2. ASSUME NEW p \in Procs, Create(p) \/ WriteLine(p) \/ Rename(p) PROVE Apart'
      BY <2>1, <2>2, CreateKeeps, WriteLineKeeps, RenameKeeps
    <2>3. ASSUME NEW p \in Procs, WriteFails(p) PROVE Apart'
      BY <2>1, <2>3, EndStep DEF WriteFails, End
    <2>4. ASSUME NEW p \in Relays, Crash(p) PROVE Apart'
      <3>1. p \in Procs
        BY DEF Procs
      <3> QED BY <2>1, <2>4, <3>1, EndStep DEF Crash
    <2>5. ASSUME NEW p \in Relays, Open(p) PROVE Apart'
      <3>1. p \in Procs
        BY DEF Procs
      <3> QED BY <2>1, <2>5, <3>1, OpenKeeps
    <2>6. ASSUME NEW p \in Relays, NEW x \in Players, RecordJoin(p, x) PROVE Apart'
      BY <1>2, <2>1, <2>6, RecordJoinKeeps
    <2>7. CASE Tick \/ ToolLists \/ Forget
      BY <1>2, <2>1, <2>7, TickKeeps, ToolListsKeeps, ForgetKeeps
    <2>8. CASE RemoveFriend \/ Forgotten \/ ToolDone
      BY <2>1, <2>8, RestKeeps
    <2>9. CASE UNCHANGED actVars
      BY <2>1, <2>9 DEF actVars, updateVars, diskVars, toolVars, Apart, ActivityTyped,
                        FileInv, ToolInv, Newer, Written, Lines, Updating, Away
    <2> QED BY <2>2, <2>3, <2>4, <2>5, <2>6, <2>7, <2>8, <2>9 DEF Next
  <1> QED BY <1>1, <1>2 DEF ActivityInv

LEMMA JoinsKeptHolds == ActivityInv => JoinsKept
  <1> SUFFICES ASSUME ActivityInv, ~overlapped, NEW x \in Players
               PROVE  Parsed(file)[x] >= saved[x]
    BY DEF JoinsKept
  <1>1. saved[x] \in 0..now /\ Parsed(file)[x] = saved[x]
    BY ParsedFile DEF ActivityInv, Apart, ActivityTyped
  <1> QED BY <1>1

\* Only RemoveFriend removes one, of those who are listed.
LEMMA RemovalHolds ==
  ASSUME ActivityInv, Next \/ UNCHANGED actVars, NEW x \in friends \ friends', ~overlapped
  PROVE  Away(x)
  <1>1. RemoveFriend
    BY DEF Next, actVars, toolVars, Create, WriteLine, Rename, WriteFails, Crash, Open,
       RecordJoin, Tick, ToolLists, Forget, Forgotten, ToolDone
  <1>2. x \in listed /\ tool = "removing"
    BY <1>1 DEF RemoveFriend
  <1>3. x # target
    BY <1>2, ActivityAssumption DEF ActivityInv, Apart, ToolInv, ActivityTyped
  <1> QED BY <1>2, <1>3 DEF ActivityInv, Apart, ToolInv

-----------------------------------------------------------------------------
(* The composition: a part that does not run stays as it is.                 *)

FilesInv == PlayersInv /\ InvitesInv /\ QueueInv /\ ActivityInv

LEMMA FilesParts ==
  ASSUME [MCNext]_mcVars
  PROVE  /\ F!Next \/ UNCHANGED playerVars
         /\ I!Next \/ UNCHANGED inviteVars
         /\ Next \/ UNCHANGED actVars
  BY DEF MCNext, mcVars

LEMMA PlayersStep == PlayersInv /\ (F!Next \/ UNCHANGED playerVars) => PlayersInv'
  <1> SUFFICES ASSUME PlayersInv, F!Next \/ UNCHANGED playerVars PROVE PlayersInv'
    OBVIOUS
  <1>1. CASE F!Append
    BY <1>1, PlayersAppend
  <1>2. CASE F!PruneStep
    BY <1>2, PlayersPrune
  <1>3. CASE F!Restart \/ \E x \in Scraped : F!Expires(x) \/ F!Discover(x)
    BY <1>3, PlayersOther
  <1>4. CASE UNCHANGED playerVars
    BY <1>4 DEF playerVars, PlayersInv, PlayersTyped, AppendInv, PruneInv, Missed,
       PlayersKept, F!RecordedKept, F!CanExpire
  <1> QED BY <1>1, <1>2, <1>3, <1>4 DEF F!Next

LEMMA InvitesStep == InvitesInv /\ (I!Next \/ UNCHANGED inviteVars) => InvitesInv'
  <1> SUFFICES ASSUME InvitesInv, I!Next \/ UNCHANGED inviteVars PROVE InvitesInv'
    OBVIOUS
  <1>1. ASSUME NEW r \in Relays, NEW p \in Invited, I!RecordSent(r, p) PROVE InvitesInv'
    BY <1>1, InvitesSent
  <1>4. ASSUME NEW r \in Relays,
               I!Restart(r) \/ I!LoadSent(r) \/ \E p \in Invited : I!RecordSentFails(r, p)
        PROVE  InvitesInv'
    BY <1>4, InvitesRestart, InvitesUnwritten
  <1>5. ASSUME NEW p \in Invited,
               I!SendInviteUnrecorded(p) \/ \E r \in Relays : I!SendInvite(r, p)
        PROVE  InvitesInv'
    BY <1>5, InvitesInvited
  <1>2. ASSUME NEW j \in Joins,
               \/ \E r \in Relays, p \in Invited : I!OnJoin(j, r, p)
               \/ I!CheckListed(j) \/ I!CheckInvited(j)
               \/ I!AppendAccepted(j) \/ I!AppendFails(j)
        PROVE  InvitesInv'
    BY <1>2, InvitesJoin
  <1>3. CASE \/ I!PruneStart \/ I!AcceptedXUIDs \/ I!ReadQueue \/ I!Rename
             \/ I!RewriteFails \/ I!Tick \/ \E p \in Invited : I!Discover(p)
             \/ UNCHANGED inviteVars
    BY <1>3, InvitesOther
  <1> QED BY <1>1, <1>2, <1>3, <1>4, <1>5 DEF I!Next

LEMMA FilesInit == MCInit => FilesInv
  BY PlayersInit, InvitesInit, QueueInit, ActivityInit DEF MCInit, FilesInv

LEMMA FilesStep == FilesInv /\ [MCNext]_mcVars => FilesInv'
  BY FilesParts, PlayersStep, InvitesStep, QueueStep, ActivityStep DEF FilesInv,
                                                                       InvitesInv

\* The player file has every player recorded clear of a prune until a time of
\* theirs expires, and can expire whoever is in it: through prunes that fail
\* half-way and restarts.
THEOREM FilesPlayersKept == MCSpec => []PlayersKept
  <1>1. FilesInv => PlayersKept
    BY DEF FilesInv, PlayersInv
  <1> QED BY <1>1, FilesInit, FilesStep, PTL DEF MCSpec

\* The activity file shows every join put in place and not forgotten since, as
\* long as no two updates have overlapped, whoever crashes and whatever fails.
THEOREM FilesJoinsKept == MCSpec => []JoinsKept
  <1>1. FilesInv => JoinsKept
    BY JoinsKeptHolds DEF FilesInv
  <1> QED BY <1>1, FilesInit, FilesStep, PTL DEF MCSpec

\* Whoever has an invite on record when a join begins that runs to its end is listed, with the
\* time of the first invite on record, whichever relay sent it and through relays that die
\* anywhere, between an invite and its line too (accepted.go:36-68).  Nobody is listed who
\* had not been invited.
THEOREM FilesAcceptedRight == MCSpec => []AcceptedRight
  <1>1. FilesInv => AcceptedRight
    BY AcceptedRightHolds DEF FilesInv
  <1> QED BY <1>1, FilesInit, FilesStep, PTL DEF MCSpec

\* No friend is removed who has been seen within the window, and no player is
\* dropped from the invite queue who has not expired or has joined.
THEOREM FilesDropsJustified == MCSpec => DropsJustified
  <1>1. FilesInv /\ [MCNext]_mcVars =>
          [\A x \in friends \ friends' :
             overlapped \/ x \in since \/ (saved[x] # 0 /\ saved[x] + Window < now)]_actVars
    BY FilesParts, RemovalHolds DEF FilesInv, Away
  <1>2. FilesInv /\ [MCNext]_mcVars =>
          [\A l \in queue \ queue' : \/ I!Expired(l) /\ l[1] \notin invitePrune.start
                                     \/ l[1] \in invitePrune.arrivals]_(I!recVars)
    BY FilesParts, QueueDrops DEF FilesInv, Droppable
  <1>3. MCSpec => RemovalJustified
    BY <1>1, FilesInit, FilesStep, PTL DEF MCSpec, RemovalJustified
  <1>4. MCSpec => I!PruneDropsOnly
    BY <1>2, FilesInit, FilesStep, PTL DEF MCSpec, I!PruneDropsOnly
  <1> QED BY <1>3, <1>4 DEF DropsJustified
=============================================================================
