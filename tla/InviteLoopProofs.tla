--------------------------- MODULE InviteLoopProofs ---------------------------
(***************************************************************************)
(* Proofs that never more than one invite loop is live and that the saved  *)
(* position belongs to the saved list, for any number of sessions, loops,  *)
(* requests and players.                                                   *)
(***************************************************************************)
EXTENDS InviteLoop, TLAPS

\* The parts of the state the arguments below need the shape of.
ShapeOK ==
    /\ stop \in [Gens -> Loops \cup {NoLoop}]
    /\ pc \in [Loops -> Steps] /\ owner \in [Loops -> Gens \cup {NoGen}]
    /\ dead \in [Loops -> BOOLEAN]
    /\ slot \in Gens \cup {NoGen} /\ gen \in Gens \cup {NoGen}
    /\ sess # "none" => gen # NoGen
    /\ req \in [Requests -> Request]
    /\ \A r \in Requests : req[r].kind # "none" => req[r].gen # NoGen

\* A loop that Stop has not cancelled is the one its controller would cancel.
Linked ==
    \A l \in Loops : pc[l] # "off" /\ ~dead[l] =>
       owner[l] \in Gens /\ stop[owner[l]] = l

\* Starting a loop keeps the shapes and the link (invitewatcher.go:278-303).
LEMMA StartLinks ==
  ASSUME ShapeOK, Linked, NEW g \in Gens, NEW t, NEW fromTop,
         StartList(g, t, fromTop)
  PROVE  /\ stop' \in [Gens -> Loops \cup {NoLoop}]
         /\ pc' \in [Loops -> Steps] /\ owner' \in [Loops -> Gens \cup {NoGen}]
         /\ dead' \in [Loops -> BOOLEAN]
         /\ Linked'
<1>1. CASE stop[g] # NoLoop
  BY <1>1 DEF StartList, loopVars, ShapeOK, Linked
<1>2. CASE stop[g] = NoLoop
  <2>1. PICK l \in Loops :
          /\ pc[l] = "off"
          /\ stop' = [stop EXCEPT ![g] = l]
          /\ pc' = [pc EXCEPT ![l] = "reading"]
          /\ owner' = [owner EXCEPT ![l] = g]
          /\ dead' = [dead EXCEPT ![l] = FALSE]
    BY <1>2 DEF StartList
  <2>2. \A k \in Loops : pc[k] # "off" /\ ~dead[k] => owner[k] # g
    BY <1>2, IdentityAssumption DEF Linked
  <2>3. /\ stop' \in [Gens -> Loops \cup {NoLoop}]
        /\ pc' \in [Loops -> Steps] /\ owner' \in [Loops -> Gens \cup {NoGen}]
    BY <2>1 DEF ShapeOK, Steps
  <2>4. dead' \in [Loops -> BOOLEAN]
    BY <2>1 DEF ShapeOK
  <2>5. ASSUME NEW k \in Loops, pc'[k] # "off", ~dead'[k]
        PROVE  owner'[k] \in Gens /\ stop'[owner'[k]] = k
    <3>1. CASE k = l
      BY <2>1, <3>1 DEF ShapeOK
    <3>2. CASE k # l
      <4>1. pc[k] # "off" /\ ~dead[k] /\ owner'[k] = owner[k]
        BY <2>1, <2>5, <3>2 DEF ShapeOK
      <4> QED
        BY <2>1, <2>2, <4>1 DEF ShapeOK, Linked
    <3> QED
      BY <3>1, <3>2
  <2> QED
    BY <2>3, <2>4, <2>5 DEF Linked
<1> QED
  BY <1>1, <1>2

\* Stopping one does too (invitewatcher.go:306-323).
LEMMA StopLinks ==
  ASSUME ShapeOK, Linked, NEW g \in Gens, StopLoop(g), UNCHANGED <<pc, owner>>
  PROVE  /\ stop' \in [Gens -> Loops \cup {NoLoop}]
         /\ dead' \in [Loops -> BOOLEAN]
         /\ Linked'
<1>1. CASE stop[g] = NoLoop
  BY <1>1 DEF StopLoop, ShapeOK, Linked
<1>2. CASE stop[g] # NoLoop
  <2>1. /\ stop[g] \in Loops
        /\ dead' = [dead EXCEPT ![stop[g]] = TRUE]
        /\ stop' = [stop EXCEPT ![g] = NoLoop]
    BY <1>2 DEF StopLoop, ShapeOK
  <2>2. stop' \in [Gens -> Loops \cup {NoLoop}]
    BY <2>1 DEF ShapeOK
  <2>3. dead' \in [Loops -> BOOLEAN]
    BY <2>1 DEF ShapeOK
  <2>4. ASSUME NEW k \in Loops, pc'[k] # "off", ~dead'[k]
        PROVE  owner'[k] \in Gens /\ stop'[owner'[k]] = k
    <3>1. k # stop[g] /\ ~dead[k]
      BY <2>1, <2>4 DEF ShapeOK
    <3> QED
      BY <2>1, <2>4, <3>1 DEF ShapeOK, Linked
  <2> QED
    BY <2>2, <2>3, <2>4 DEF Linked
<1> QED
  BY <1>1, <1>2

\* Every step keeps the shapes and the link.
LEMMA LinkedStep ==
  ASSUME ShapeOK, Linked, [Next]_vars
  PROVE  ShapeOK' /\ Linked'
<1>1. ASSUME NEW t \in Lists, Edit(t) PROVE ShapeOK' /\ Linked'
  BY <1>1 DEF Edit, sessVars, loopVars, ShapeOK, Linked
<1>2. ASSUME NEW g \in Gens, Install(g) PROVE ShapeOK' /\ Linked'
  BY <1>2, IdentityAssumption DEF Install, Unused, loopVars, ShapeOK, Linked
<1>3. CASE ResumeReads
  BY <1>3 DEF ResumeReads, loopVars, ShapeOK, Linked
<1>4. CASE ResumeStarts
  <2>1. gen \in Gens
    BY <1>4 DEF ResumeStarts, ShapeOK
  <2> QED
    BY <1>4, <2>1, StartLinks DEF ResumeStarts, ShapeOK
<1>5. CASE SessionEnds \/ RoutesRemoved
  BY <1>5 DEF SessionEnds, RoutesRemoved, loopVars, ShapeOK, Linked
<1>6. CASE Restart
  <2>1. req' \in [Requests -> Request] /\ \A r \in Requests : req'[r].kind = "none"
    BY <1>6 DEF Restart, Idle, Request
  <2>2. /\ stop' \in [Gens -> Loops \cup {NoLoop}]
        /\ pc' \in [Loops -> Steps] /\ owner' \in [Loops -> Gens \cup {NoGen}]
    BY <1>6 DEF Restart, Steps
  <2>3. dead' \in [Loops -> BOOLEAN]
    BY <1>6 DEF Restart
  <2>4. sess' = "none" /\ gen' = NoGen /\ slot' = NoGen
    BY <1>6 DEF Restart
  <2>5. \A l \in Loops : pc'[l] = "off"
    BY <1>6 DEF Restart
  <2> QED
    BY <2>1, <2>2, <2>3, <2>4, <2>5 DEF ShapeOK, Linked
<1>7. ASSUME NEW r \in Requests, NEW kind \in {"start", "stop"}, Routed(r, kind)
      PROVE  ShapeOK' /\ Linked'
  BY <1>7 DEF Routed, sessVars, loopVars, ShapeOK, Linked, Request
<1>8. ASSUME NEW r \in Requests, StartServed(r) PROVE ShapeOK' /\ Linked'
  <2>1. req[r].gen \in Gens /\ req[r].kind # "none"
    BY <1>8 DEF StartServed, ShapeOK, Request
  <2>2. PICK t \in Lists, fromTop \in BOOLEAN : StartList(req[r].gen, t, fromTop)
    BY <1>8 DEF StartServed
  <2> QED
    BY <1>8, <2>1, <2>2, StartLinks
       DEF StartServed, sessVars, ShapeOK, Idle, Request
<1>9. ASSUME NEW r \in Requests, StopServed(r) PROVE ShapeOK' /\ Linked'
  <2>1. req[r].gen \in Gens
    BY <1>9 DEF StopServed, ShapeOK, Request
  <2> QED
    BY <1>9, <2>1, StopLinks DEF StopServed, sessVars, ShapeOK, Idle, Request
<1>10. ASSUME NEW l \in Loops, ReadList(l) \/ WaitOver(l) \/ Invite(l) \/ LapComplete(l)
       PROVE  ShapeOK' /\ Linked'
  <2>1. /\ UNCHANGED <<stop, owner, dead, slot, gen, sess, req>>
        /\ pc[l] # "off" /\ pc' \in [Loops -> Steps]
        /\ \A k \in Loops \ {l} : pc'[k] = pc[k]
    <3>1. CASE ReadList(l)
      BY <3>1 DEF ReadList, sessVars, ShapeOK, Steps
    <3>2. CASE WaitOver(l)
      BY <3>2 DEF WaitOver, sessVars, ShapeOK, Steps
    <3>3. CASE Invite(l)
      BY <3>3 DEF Invite, sessVars, ShapeOK, Steps
    <3>4. CASE LapComplete(l)
      BY <3>4 DEF LapComplete, sessVars, ShapeOK, Steps
    <3> QED
      BY <1>10, <3>1, <3>2, <3>3, <3>4
  <2> QED
    BY <2>1 DEF ShapeOK, Linked
<1>11. ASSUME NEW l \in Loops, Exit(l) PROVE ShapeOK' /\ Linked'
  <2>1. /\ UNCHANGED <<stop, slot, gen, sess, req>>
        /\ pc' = [pc EXCEPT ![l] = "off"] /\ owner' = [owner EXCEPT ![l] = NoGen]
        /\ dead' = [dead EXCEPT ![l] = FALSE]
    BY <1>11 DEF Exit, sessVars
  <2>2. pc' \in [Loops -> Steps] /\ owner' \in [Loops -> Gens \cup {NoGen}]
    BY <2>1 DEF ShapeOK, Steps
  <2>3. dead' \in [Loops -> BOOLEAN]
    BY <2>1 DEF ShapeOK
  <2>4. \A k \in Loops : pc'[k] # "off" => k # l
    BY <2>1 DEF ShapeOK
  <2>5. \A k \in Loops \ {l} : /\ pc'[k] = pc[k] /\ dead'[k] = dead[k]
                               /\ owner'[k] = owner[k]
    BY <2>1 DEF ShapeOK
  <2> QED
    BY <2>1, <2>2, <2>3, <2>4, <2>5 DEF ShapeOK, Linked
<1>12. CASE UNCHANGED vars
  BY <1>12 DEF vars, sessVars, loopVars, ShapeOK, Linked
<1> QED
  BY <1>1, <1>2, <1>3, <1>4, <1>5, <1>6, <1>7, <1>8, <1>9, <1>10, <1>11, <1>12
     DEF Next, Serve, Run

\* No loop runs at first.
LEMMA LinkedInit == Init => ShapeOK /\ Linked
<1> SUFFICES ASSUME Init PROVE ShapeOK /\ Linked
  OBVIOUS
<1>1. req \in [Requests -> Request] /\ \A r \in Requests : req[r].kind = "none"
  BY DEF Init, Idle, Request
<1>2. dead \in [Loops -> BOOLEAN]
  BY DEF Init
<1>3. /\ stop \in [Gens -> Loops \cup {NoLoop}]
      /\ pc \in [Loops -> Steps] /\ owner \in [Loops -> Gens \cup {NoGen}]
      /\ sess = "none" /\ gen = NoGen /\ slot = NoGen
      /\ \A l \in Loops : pc[l] = "off"
  BY DEF Init, Steps
<1> QED
  BY <1>1, <1>2, <1>3 DEF ShapeOK, Linked

\* Of all loops ever started, on any session, at most one is live: a session's
\* end cancels its loop, and a controller starts none while it has one
\* (invitewatcher.go:278-303, 421-430).
THEOREM InviteOneLoop == Spec => []OneLoop
<1>1. Init => ShapeOK /\ Linked
  BY LinkedInit
<1>2. ShapeOK /\ Linked => OneLoop
  BY DEF Linked, OneLoop, Live, Cancelled, LoopContext, SessionAlive
<1> QED
  BY <1>1, <1>2, LinkedStep, PTL DEF Spec

-----------------------------------------------------------------------------
FileOK == file = [running |-> file.running, last |-> file.last, list |-> file.list]

\* Every step keeps the position with its list.
LEMMA PositionStep ==
  ASSUME FileOK, PositionOnItsList, [Next]_vars
  PROVE  FileOK' /\ PositionOnItsList'
<1> USE DEF FileOK, PositionOnItsList
<1>1. ASSUME NEW g, NEW t, NEW fromTop, StartList(g, t, fromTop)
      PROVE  FileOK' /\ PositionOnItsList'
  BY <1>1 DEF StartList, Position
<1>2. ASSUME NEW l, NEW last, RecordProgress(l, last)
      PROVE  FileOK' /\ PositionOnItsList'
  BY <1>2 DEF RecordProgress
<1>3. ASSUME NEW g, StopLoop(g), UNCHANGED origin
      PROVE  FileOK' /\ PositionOnItsList'
  BY <1>3 DEF StopLoop
<1>4. CASE UNCHANGED <<file, origin>>
  BY <1>4
<1>5. CASE \E t \in Lists : Edit(t)
  BY <1>4, <1>5 DEF Edit
<1>6. CASE \E g \in Gens : Install(g)
  BY <1>4, <1>6 DEF Install
<1>7. CASE ResumeReads \/ SessionEnds \/ RoutesRemoved \/ Restart
  BY <1>4, <1>7 DEF ResumeReads, SessionEnds, RoutesRemoved, Restart
<1>8. CASE ResumeStarts
  BY <1>1, <1>8 DEF ResumeStarts
<1>9. ASSUME NEW r \in Requests, Routed(r, "start") \/ Routed(r, "stop")
      PROVE  FileOK' /\ PositionOnItsList'
  BY <1>4, <1>9 DEF Routed
<1>10. ASSUME NEW r \in Requests, StartServed(r) \/ StopServed(r)
       PROVE  FileOK' /\ PositionOnItsList'
  BY <1>1, <1>3, <1>10 DEF StartServed, StopServed
<1>11. ASSUME NEW l \in Loops, Run(l) PROVE FileOK' /\ PositionOnItsList'
  BY <1>2, <1>4, <1>11 DEF Run, ReadList, WaitOver, Exit, Invite, LapComplete
<1>12. CASE UNCHANGED vars
  BY <1>4, <1>12 DEF vars
<1> QED
  BY <1>5, <1>6, <1>7, <1>8, <1>9, <1>10, <1>11, <1>12 DEF Next, Serve

\* The position a lap resumes from was recorded on the list it resumes on
\* (invitewatcher.go:276-290).
THEOREM InvitePosition == Spec => []PositionOnItsList
<1>1. Init => FileOK /\ PositionOnItsList
  BY DEF Init, FileOK, PositionOnItsList
<1> QED
  BY <1>1, PositionStep, PTL DEF Spec
-----------------------------------------------------------------------------
\* What one request at a time to a settled session makes true: a request finds
\* the session it was routed to still up, no other request is under way, a
\* session that is about to resume a loop still should, and the file says
\* "running" only while the controller has a loop to cancel.
Orderly ==
    /\ \A r \in Requests : req[r] # Idle => sess = "up" /\ req[r].gen = gen
    /\ \A r, q \in Requests : req[r] # Idle /\ req[q] # Idle => r = q
    /\ sess = "resuming" => file.running
    /\ sess = "up" /\ file.running => stop[gen] # NoLoop

\* After "stopped", no start is under way.
Quiet == /\ Live = {} /\ ~file.running
         /\ \A r \in Requests : req[r].kind # "start"

StopInv == ~raced => Orderly /\ (told => Quiet)

\* A loop is live exactly when its controller, that of a session still there,
\* would cancel it.
LEMMA LiveLinked ==
  ASSUME ShapeOK, Linked, NEW l \in Loops
  PROVE  l \in Live => sess # "none" /\ owner[l] = gen /\ stop[gen] = l
BY DEF Linked, Live, Cancelled, LoopContext, SessionAlive

\* A step of a loop leaves the file alone, or writes what was there already: a
\* live loop says "running" while its controller has it to cancel.
LEMMA RunKeepsOrder ==
  ASSUME ShapeOK, Linked, Orderly, told => Quiet, NEW l \in Loops, Run(l)
  PROVE  Orderly' /\ (told' => Quiet')
<1>1. /\ UNCHANGED <<stop, sess, gen, req, told>>
      /\ Live' \subseteq Live
      /\ UNCHANGED file \/ (~Cancelled(l) /\ file'.running)
      /\ pc[l] # "off"
  <2>1. CASE ReadList(l)
    BY <2>1 DEF ReadList, sessVars, ShapeOK, Live, Cancelled, LoopContext, SessionAlive
  <2>2. CASE WaitOver(l)
    BY <2>2 DEF WaitOver, sessVars, ShapeOK, Live, Cancelled, LoopContext, SessionAlive
  <2>3. CASE Exit(l)
    BY <2>3 DEF Exit, sessVars, ShapeOK, Live, Cancelled, LoopContext, SessionAlive
  <2>4. CASE Invite(l)
    BY <2>4 DEF Invite, RecordProgress, sessVars, ShapeOK, Live, Cancelled, LoopContext,
                SessionAlive
  <2>5. CASE LapComplete(l)
    BY <2>5 DEF LapComplete, RecordProgress, sessVars, ShapeOK, Live, Cancelled,
                LoopContext, SessionAlive
  <2> QED
    BY <2>1, <2>2, <2>3, <2>4, <2>5 DEF Run
<1>2. CASE UNCHANGED file
  BY <1>1, <1>2 DEF Orderly, Quiet
<1>3. CASE ~Cancelled(l) /\ file'.running
  <2>1. l \in Live
    BY <1>1, <1>3 DEF Live
  <2>2. ~told /\ stop[gen] = l
    BY <2>1, LiveLinked DEF Quiet
  <2> QED
    BY <1>1, <1>3, <2>2, IdentityAssumption DEF Orderly
<1> QED
  BY <1>1, <1>2, <1>3

\* Every step keeps what orderly requests make true.
LEMMA StopStep ==
  ASSUME ShapeOK, Linked, FileOK, StopInv, [Next]_vars
  PROVE  StopInv'
<1> SUFFICES ASSUME ~raced' PROVE Orderly' /\ (told' => Quiet')
  BY DEF StopInv
<1>0. ASSUME raced' = raced \/ (raced' = (raced \/ ~Settled))
                \/ (raced' = (raced \/ ~(Settled /\ slot = gen)))
      PROVE  Orderly /\ (told => Quiet)
  BY <1>0 DEF StopInv
<1>1. ASSUME NEW t \in Lists, Edit(t) PROVE Orderly' /\ (told' => Quiet')
  BY <1>0, <1>1 DEF Edit, sessVars, loopVars, Orderly, Quiet, Live, Cancelled,
                    LoopContext, SessionAlive
<1>2. ASSUME NEW g \in Gens, Install(g) PROVE Orderly' /\ (told' => Quiet')
  <2>1. Orderly /\ (told => Quiet)
    BY <1>0, <1>2 DEF Install
  <2>2. Live' = {}
    BY <1>2, IdentityAssumption DEF Install, Unused, loopVars, Live, Cancelled,
                                    LoopContext, SessionAlive
  <2> QED
    BY <1>2, <2>1, <2>2 DEF Install, Orderly, Quiet
<1>3. CASE ResumeReads
  <2>1. Orderly /\ (told => Quiet)
    BY <1>0, <1>3 DEF ResumeReads
  <2>2. Live' = Live
    BY <1>3 DEF ResumeReads, loopVars, Live, Cancelled, LoopContext, SessionAlive
  <2>3. Orderly'
    BY <1>3, <2>1 DEF ResumeReads, Orderly
  <2> QED
    BY <1>3, <2>1, <2>2, <2>3 DEF ResumeReads, Quiet
<1>4. CASE ResumeStarts
  <2>1. Orderly /\ (told => Quiet) /\ gen \in Gens
    BY <1>0, <1>4 DEF ResumeStarts, ShapeOK
  <2>2. ~told'
    BY <1>4, <2>1 DEF ResumeStarts, Orderly, Quiet
  <2>3. stop'[gen'] # NoLoop
    BY <1>4, <2>1, IdentityAssumption DEF ResumeStarts, StartList, ShapeOK
  <2>4. \A r \in Requests : req'[r] = Idle
    BY <1>4, <2>1 DEF ResumeStarts, Orderly
  <2> QED
    BY <1>4, <2>2, <2>3, <2>4 DEF ResumeStarts, Orderly
<1>5. CASE SessionEnds
  <2>1. Orderly /\ (told => Quiet) /\ Settled
    BY <1>0, <1>5 DEF SessionEnds
  <2>2. Live' = {}
    BY <1>5 DEF SessionEnds, loopVars, Live, Cancelled, LoopContext, SessionAlive
  <2> QED
    BY <1>5, <2>1, <2>2 DEF SessionEnds, Settled, Orderly, Quiet
<1>6. CASE RoutesRemoved
  BY <1>0, <1>6 DEF RoutesRemoved, loopVars, Orderly, Quiet, Live, Cancelled,
                    LoopContext, SessionAlive
<1>7. CASE Restart
  <2>1. Orderly /\ (told => Quiet)
    BY <1>0, <1>7 DEF Restart
  <2>2. Live' = {} /\ \A r \in Requests : req'[r] = Idle
    BY <1>7 DEF Restart, Live
  <2> QED
    BY <1>7, <2>1, <2>2 DEF Restart, Orderly, Quiet, Idle
<1>8. ASSUME NEW r \in Requests, NEW kind \in {"start", "stop"}, Routed(r, kind)
      PROVE  Orderly' /\ (told' => Quiet')
  <2>1. Orderly /\ (told => Quiet) /\ Settled /\ slot = gen
    BY <1>0, <1>8 DEF Routed
  <2>2. /\ req'[r] = [kind |-> kind, gen |-> gen]
        /\ \A q \in Requests \ {r} : req'[q] = Idle
    BY <1>8, <2>1 DEF Routed, Settled, ShapeOK
  <2>3. Live' = Live
    BY <1>8 DEF Routed, sessVars, loopVars, Live, Cancelled, LoopContext, SessionAlive
  <2>4. Orderly'
    BY <1>8, <2>1, <2>2 DEF Routed, sessVars, Settled, Orderly
  <2>5. told' => told /\ kind # "start"
    BY <1>8 DEF Routed
  <2>6. UNCHANGED file
    BY <1>8 DEF Routed
  <2>7. Quiet /\ kind # "start" => Quiet'
    BY <2>2, <2>3, <2>6 DEF Quiet, Idle
  <2> QED
    BY <2>1, <2>4, <2>5, <2>7
<1>9. ASSUME NEW r \in Requests, StartServed(r) PROVE Orderly' /\ (told' => Quiet')
  <2>1. Orderly /\ (told => Quiet) /\ req[r] # Idle
    BY <1>0, <1>9 DEF StartServed, Idle
  <2>2. sess = "up" /\ req[r].gen = gen /\ gen \in Gens /\ ~told
    BY <1>9, <2>1 DEF StartServed, Orderly, Quiet, ShapeOK
  <2>3. \A q \in Requests : req'[q] = Idle
    BY <1>9, <2>1 DEF StartServed, Orderly, ShapeOK
  <2>4. PICK t \in Lists, fromTop \in BOOLEAN : StartList(gen, t, fromTop)
    BY <1>9, <2>2 DEF StartServed
  <2>5. stop'[gen] # NoLoop
    BY <2>2, <2>4, IdentityAssumption DEF StartList, ShapeOK
  <2> QED
    BY <1>9, <2>2, <2>3, <2>5 DEF StartServed, sessVars, Orderly
<1>10. ASSUME NEW r \in Requests, StopServed(r) PROVE Orderly' /\ (told' => Quiet')
  <2>1. Orderly /\ (told => Quiet) /\ req[r] # Idle
    BY <1>0, <1>10 DEF StopServed, Idle
  <2>2. sess = "up" /\ req[r].gen = gen /\ gen \in Gens
    BY <1>10, <2>1 DEF StopServed, Orderly, ShapeOK
  <2>3. \A q \in Requests : req'[q] = Idle
    BY <1>10, <2>1 DEF StopServed, Orderly, ShapeOK
  <2>4. stop'[gen] = NoLoop /\ ~file'.running
    BY <1>10, <2>1, <2>2 DEF StopServed, StopLoop, Orderly, FileOK, ShapeOK
  <2>5. ShapeOK' /\ Linked' /\ gen' = gen /\ sess' = sess
    BY <1>10, LinkedStep DEF Next, Serve, StopServed, sessVars
  <2>6. Live' = {}
    BY <2>4, <2>5, IdentityAssumption DEF Linked, Live, Cancelled, LoopContext,
                                          SessionAlive
  <2> QED
    BY <2>2, <2>3, <2>4, <2>5, <2>6 DEF Orderly, Quiet, Idle
<1>11. ASSUME NEW l \in Loops, Run(l) PROVE Orderly' /\ (told' => Quiet')
  <2>1. Orderly /\ (told => Quiet)
    BY <1>0, <1>11 DEF Run, ReadList, WaitOver, Exit, Invite, LapComplete
  <2> QED
    BY <1>11, <2>1, RunKeepsOrder
<1>12. CASE UNCHANGED vars
  BY <1>0, <1>12 DEF vars, sessVars, loopVars, Orderly, Quiet, Live, Cancelled,
                     LoopContext, SessionAlive
<1> QED
  BY <1>1, <1>2, <1>3, <1>4, <1>5, <1>6, <1>7, <1>8, <1>9, <1>10, <1>11, <1>12
     DEF Next, Serve

\* The inductive invariant.
StopIInv == ShapeOK /\ Linked /\ FileOK /\ PositionOnItsList /\ StopInv

\* As long as requests come one at a time to settled sessions, an operator who
\* was told "stopped" has no loop going on and none resumed by a later session
\* or process (invitewatcher.go:186-200, 306-323).
THEOREM InviteStop == Spec => []StopHonoured
<1>1. Init => StopIInv
  <2> SUFFICES ASSUME Init PROVE StopIInv
    OBVIOUS
  <2>1. ShapeOK /\ Linked
    BY LinkedInit
  <2>2. FileOK /\ PositionOnItsList
    BY DEF Init, FileOK, PositionOnItsList
  <2>3. StopInv
    BY DEF Init, StopInv, Orderly, Idle
  <2> QED
    BY <2>1, <2>2, <2>3 DEF StopIInv
<1>2. StopIInv /\ [Next]_vars => StopIInv'
  BY LinkedStep, PositionStep, StopStep DEF StopIInv
<1>3. StopIInv => StopHonoured
  BY DEF StopIInv, StopInv, Quiet, StopHonoured
<1> QED
  BY <1>1, <1>2, <1>3, PTL DEF Spec
=============================================================================
