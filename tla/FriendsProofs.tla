---------------------------- MODULE FriendsProofs ----------------------------
(***************************************************************************)
(* Proofs about MCFriends and its parts: FriendRequests, for any people,   *)
(* queue and limits; FriendAdder, for any accounts and players; and        *)
(* FriendsInviter, for any number of sessions and starts.                  *)
(***************************************************************************)
EXTENDS MCFriends, TLAPS

\* Run is one of the scanners.
LEMMA RunScans == "run" \in Scanners
  BY DEF Scanners

\* What the proofs need to know of the shape of the state: the functions of
\* scanner, and the values of trigger and notified.
ShapeOK ==
    /\ scan \in [Scanners -> {"waiting", "woken", "getting", "queueing"}]
    /\ trigger \in BOOLEAN /\ notified \in BOOLEAN
    /\ timer \in {"due", "retry", "poll", "off"}

\* WakeupKept is inductive with one fact more: while Run scans, a push that came
\* since is in the channel, since the timer is about to be set to a poll.
WakeupInv ==
    /\ ShapeOK /\ WakeupKept
    /\ notified /\ scan["run"] \in {"getting", "queueing"} => trigger

\* No step loses a push: the inductive step of WakeupKept.
LEMMA WakeupStep == WakeupInv /\ [Next]_vars => WakeupInv'
<1> SUFFICES ASSUME WakeupInv, [Next]_vars PROVE WakeupInv'
  OBVIOUS
<1> USE RunScans DEF WakeupInv, ShapeOK, WakeupKept
<1>1. CASE World
  <2>1. CASE Push
    BY <2>1 DEF Push
  <2>2. CASE RetryAfterPasses
    BY <2>2 DEF RetryAfterPasses
  <2>3. ASSUME NEW x \in People, Asks(x) \/ Leaves(x) PROVE WakeupInv'
    BY <2>3 DEF Asks, Leaves
  <2> QED
    BY <1>1, <2>1, <2>2, <2>3 DEF World
<1>2. CASE Wakes
  BY <1>2 DEF Wakes, SetScan
<1>3. CASE WaitBeforeCheck
  BY <1>3 DEF WaitBeforeCheck, SetScan
<1>4. CASE Work
  BY <1>4 DEF Work, Takes, Accepts, NotAccepted, AcceptUnanswered, AcceptPutOff,
              Clears, ClearFails
<1>5. ASSUME NEW c \in Scanners, Scan(c) PROVE WakeupInv'
  <2>1. CASE Begins(c)
    BY <2>1 DEF Begins, SetScan
  <2>2. CASE GetFails(c)
    BY <2>2 DEF GetFails, Ends, SetScan
  <2>3. CASE GetAnswered(c)
    BY <2>3 DEF GetAnswered, SetScan
  <2>4. CASE Enqueue(c)
    BY <2>4 DEF Enqueue
  <2>5. CASE ScanEnds(c)
    BY <2>5 DEF ScanEnds, Ends, SetScan
  <2> QED
    BY <1>5, <2>1, <2>2, <2>3, <2>4, <2>5 DEF Scan
<1>6. CASE UNCHANGED vars
  BY <1>6 DEF vars
<1> QED
  BY <1>1, <1>2, <1>3, <1>4, <1>5, <1>6 DEF Next

\* A push is never lost: a scan of Run follows at once, or as soon as the rate
\* limit allows.
THEOREM FriendWakeup == Spec => []WakeupKept
<1>1. Init => WakeupInv
  BY RunScans DEF Init, WakeupInv, ShapeOK, WakeupKept
<1>2. WakeupInv => WakeupKept
  BY DEF WakeupInv
<1> QED
  BY <1>1, <1>2, WakeupStep, PTL DEF Spec

-----------------------------------------------------------------------------
\* Friends that were accepted are friends, and whoever of them is being denied
\* has just had an accept without an answer, or with an error for one.
KeptInv ==
    /\ accepted \subseteq friends
    /\ work.step = "denying" => work.who \notin accepted \/ work.who \in unsure
    /\ work = [step |-> work.step, who |-> work.who]
    /\ FriendsKept

\* No step removes a friend but after an error: the inductive step.
LEMMA KeptStep == KeptInv /\ [Next]_vars => KeptInv'
<1> SUFFICES ASSUME KeptInv, [Next]_vars PROVE KeptInv'
  OBVIOUS
<1> USE DEF KeptInv, FriendsKept, Resting, Denies, Unsure, xboxVars, historyVars
<1>1. CASE World
  BY <1>1 DEF World, Asks, Leaves, RetryAfterPasses, Push
<1>2. CASE Wakes \/ WaitBeforeCheck
  BY <1>2 DEF Wakes, WaitBeforeCheck
<1>3. CASE Work
  <2>1. CASE Takes
    BY <2>1 DEF Takes
  <2>2. CASE Accepts
    BY <2>2 DEF Accepts
  <2>3. CASE NotAccepted
    BY <2>3 DEF NotAccepted
  <2>4. CASE AcceptUnanswered
    BY <2>4 DEF AcceptUnanswered
  <2>5. CASE AcceptPutOff
    BY <2>5 DEF AcceptPutOff
  <2>6. CASE Clears
    BY <2>6 DEF Clears
  <2>7. CASE ClearFails
    BY <2>7 DEF ClearFails
  <2> QED
    BY <1>3, <2>1, <2>2, <2>3, <2>4, <2>5, <2>6, <2>7 DEF Work
<1>4. ASSUME NEW c \in Scanners, Scan(c) PROVE KeptInv'
  BY <1>4 DEF Scan, Begins, GetFails, GetAnswered, Enqueue, ScanEnds
<1>5. CASE UNCHANGED vars
  BY <1>5 DEF vars
<1> QED
  BY <1>1, <1>2, <1>3, <1>4, <1>5 DEF Next

\* The manager never removes a friend it has accepted, however often the same person
\* is in the queue, but when this very accept of theirs is answered with an error
\* or not at all (friends.go:212-243).
THEOREM FriendKept == Spec => []FriendsKept
<1>1. Init => KeptInv
  BY DEF Init, KeptInv, FriendsKept, Resting
<1>2. KeptInv => FriendsKept
  BY DEF KeptInv
<1> QED
  BY <1>1, <1>2, KeptStep, PTL DEF Spec

-----------------------------------------------------------------------------
(* The whole.                                                              *)

\* A step of the whole is one of each part, or leaves the part alone.
LEMMA FriendsParts ==
  ASSUME [MCNext]_mcVars
  PROVE  [A!Next]_adderVars /\ [I!Next]_inviterVars
<1>1. CASE focus = "requests" /\ Next /\ UNCHANGED <<focus, adderVars, inviterVars>>
  BY <1>1
<1>2. CASE focus = "adder" /\ A!Next /\ UNCHANGED <<focus, vars, inviterVars>>
  BY <1>2
<1>3. CASE focus = "inviter" /\ I!Next /\ UNCHANGED <<focus, vars, adderVars>>
  BY <1>3
<1>4. CASE UNCHANGED mcVars
  BY <1>4 DEF mcVars
<1> QED
  BY <1>1, <1>2, <1>3, <1>4 DEF MCNext

-----------------------------------------------------------------------------
(* FriendAdder: whom the accounts have asked.                              *)

Worker == [step : A!Steps, todo : SUBSET Players, who : Players \cup {A!Nobody},
           failures : Nat, cancelled : BOOLEAN]

AdderType ==
    /\ adderFriends \in [Accounts -> SUBSET Players]
    /\ adderAsked \in [Accounts -> SUBSET Players]
    /\ twice \in [Accounts -> SUBSET Players]
    /\ adderUnsure \in [Accounts -> SUBSET Players]
    /\ added \subseteq Players
    /\ running \in [Accounts -> BOOLEAN] /\ told \in [Accounts -> BOOLEAN]
    /\ stop \in [Accounts -> Workers]
    /\ run \in [Accounts -> [Workers -> Worker]]

\* An account has one run at most, that which Stop would cancel.
OneRun ==
    \A a \in Accounts, w \in Workers :
        run[a][w] # A!Off => running[a] /\ stop[a] = w

\* What worker w of account a still has to do: the player whose turn it is is
\* to do, the account itself is not, and of the players it was to ask it has
\* reached those only whom it is about to write down, or of whom it lost the answer.
Worklist(a, w) ==
    /\ Self[a] \notin run[a][w].todo
    /\ run[a][w].step \in {"sending", "recording"} => run[a][w].who \in run[a][w].todo
    /\ run[a][w].step = "recording" => run[a][w].who \in adderAsked[a]
    /\ \A x \in run[a][w].todo \cap adderAsked[a] :
         x \in adderUnsure[a] \/ (run[a][w].step = "recording" /\ x = run[a][w].who)

\* Everyone an account has reached is in the file, or about to be written down, or
\* the answer was lost.
WrittenDown(a) ==
    \A x \in adderAsked[a] :
        \/ x \in added \/ x \in adderUnsure[a]
        \/ \E w \in Workers : run[a][w].step = "recording" /\ run[a][w].who = x

\* Everyone in the file was reached by some account.
FileTrue == \A x \in added : \E b \in Accounts : x \in adderAsked[b]

AdderInv ==
    /\ AdderType /\ OneRun /\ FileTrue
    /\ \A a \in Accounts : WrittenDown(a) /\ \A w \in Workers : Worklist(a, w)
    /\ AdderExact

\* A step of the run of account a, worker w, which becomes r: the request of a
\* player reaches them, the player is written down, the answer is lost.
Becomes(a, w, r, reached, written, lost) ==
    /\ r \in Worker /\ run' = [run EXCEPT ![a][w] = r]
    /\ \/ UNCHANGED running
       \/ r = A!Off /\ running' = [running EXCEPT ![a] = FALSE]
    /\ adderAsked' = [adderAsked EXCEPT ![a] = @ \cup reached]
    /\ twice' = [twice EXCEPT ![a] = @ \cup (adderAsked[a] \cap reached)]
    /\ adderUnsure' = [adderUnsure EXCEPT ![a] = @ \cup lost]
    /\ added' = added \cup written
    /\ UNCHANGED <<adderFriends, stop, told>>

\* Such a step is in order: only a player to be asked is reached, and who was
\* reached is written down next or was lost; who is to be written down is, and is
\* not asked again.
InOrder(a, w, r, reached, written, lost) ==
    /\ running[a] /\ stop[a] = w
    /\ reached \subseteq run[a][w].todo /\ lost \subseteq Players
    /\ reached # {} => run[a][w].step # "recording"
    /\ \A x \in reached : x \in lost \/ (r.step = "recording" /\ r.who = x)
    /\ r.step = "recording" => reached = {r.who}
    /\ r.todo \subseteq run[a][w].todo
    /\ r.step \in {"sending", "recording"} => r.who \in r.todo
    /\ written \subseteq adderAsked[a]
    /\ run[a][w].step = "recording" =>
         run[a][w].who \in written /\ run[a][w].who \notin r.todo

\* A step that is in order keeps AdderInv.
LEMMA WorkerStep ==
  ASSUME AdderInv, NEW a \in Accounts, NEW w \in Workers,
         NEW r, NEW reached, NEW written, NEW lost,
         Becomes(a, w, r, reached, written, lost), InOrder(a, w, r, reached, written, lost)
  PROVE  AdderInv'
<1> USE DEF AdderInv
<1>1. /\ run'[a][w] = r
      /\ \A b \in Accounts, v \in Workers : b # a \/ v # w => run'[b][v] = run[b][v]
  BY DEF AdderType, Becomes
<1>2. /\ adderAsked'[a] = adderAsked[a] \cup reached
      /\ twice'[a] = twice[a] \cup (adderAsked[a] \cap reached)
      /\ adderUnsure'[a] = adderUnsure[a] \cup lost
      /\ \A b \in Accounts \ {a} : /\ adderAsked'[b] = adderAsked[b] /\ twice'[b] = twice[b]
                                   /\ adderUnsure'[b] = adderUnsure[b]
  BY DEF AdderType, Becomes
<1>3. reached \subseteq Players /\ written \subseteq Players
  BY DEF AdderType, InOrder, Worker
<1>4. AdderType'
  <2>1. run' \in [Accounts -> [Workers -> Worker]]
    BY DEF AdderType, Becomes
  <2>2. running' \in [Accounts -> BOOLEAN]
    BY DEF AdderType, Becomes
  <2>3. adderAsked' \in [Accounts -> SUBSET Players] /\ twice' \in [Accounts -> SUBSET Players]
        /\ adderUnsure' \in [Accounts -> SUBSET Players] /\ added' \subseteq Players
    BY <1>3 DEF AdderType, Becomes, InOrder
  <2> QED
    BY <2>1, <2>2, <2>3 DEF AdderType, Becomes
<1>5. OneRun'
  BY <1>1 DEF OneRun, Becomes, InOrder, AdderType
<1>6. FileTrue'
  BY <1>2 DEF FileTrue, Becomes, InOrder
<1>7. ASSUME NEW b \in Accounts PROVE WrittenDown(b)'
  <2>1. CASE b # a
    BY <1>1, <1>2, <2>1 DEF WrittenDown, Becomes
  <2>2. CASE b = a
    <3>1. \A v \in Workers \ {w} : run[a][v].step # "recording"
      BY DEF OneRun, InOrder, A!Off
    <3> QED
      BY <1>1, <1>2, <2>2, <3>1 DEF WrittenDown, Becomes, InOrder
  <2> QED
    BY <2>1, <2>2
<1>8. ASSUME NEW b \in Accounts, NEW v \in Workers PROVE Worklist(b, v)'
  <2>1. CASE b # a
    BY <1>1, <1>2, <2>1 DEF Worklist
  <2>2. CASE b = a /\ v # w
    <3>1. run[b][v].todo = {} /\ run[b][v].step = "off"
      BY <2>2 DEF OneRun, InOrder, A!Off
    <3> QED
      BY <1>1, <2>2, <3>1 DEF Worklist
  <2>3. CASE b = a /\ v = w
    BY <1>1, <1>2, <2>3 DEF Worklist, InOrder
  <2> QED
    BY <2>1, <2>2, <2>3
<1>9. AdderExact'
  <2>1. A!AskedOnce'
    <3>1. adderAsked[a] \cap reached \subseteq adderUnsure[a] /\ Self[a] \notin reached
      BY DEF Worklist, InOrder
    <3> QED
      BY <1>2, <3>1 DEF AdderExact, A!AskedOnce
  <2>2. \A b \in Accounts : adderAsked[b] \subseteq adderAsked'[b]
    BY <1>2
  <2>3. A!NothingLeft'
    BY <2>2 DEF AdderExact, A!NothingLeft, Becomes
  <2> QED
    BY <2>1, <2>3 DEF AdderExact
<1> QED
  BY <1>4, <1>5, <1>6, <1>7, <1>8, <1>9

\* Every step of a run is in order.
LEMMA RunStep ==
  ASSUME AdderInv, NEW a \in Accounts, NEW w \in Workers, A!Run(a, w)
  PROVE  AdderInv'
<1> DEFINE now == run[a][w]
<1>1. /\ now \in Worker
      /\ adderAsked = [adderAsked EXCEPT ![a] = @ \cup {}]
      /\ twice = [twice EXCEPT ![a] = @ \cup (adderAsked[a] \cap {})]
      /\ adderUnsure = [adderUnsure EXCEPT ![a] = @ \cup {}]
  BY DEF AdderInv, AdderType
<1>2. now.step # "off" => running[a] /\ stop[a] = w
  BY DEF AdderInv, OneRun, A!Off
<1>3. /\ now.step \in {"sending", "recording"} => now.who \in now.todo
      /\ now.step = "recording" => now.who \in adderAsked[a]
  BY DEF AdderInv, Worklist
<1>4. A!Off \in Worker /\ A!Off.step = "off" /\ A!Off.todo = {}
  BY DEF A!Off, Worker, A!Steps, A!Nobody
<1>5. CASE A!Tick(a, w)
  <2>1. PICK x \in now.todo :
          run' = [run EXCEPT ![a][w].step = "sending", ![a][w].who = x]
    BY <1>5 DEF A!Tick
  <2> DEFINE r == [now EXCEPT !.step = "sending", !.who = x]
  <2>2. r \in Worker /\ r.step = "sending" /\ r.who = x /\ r.todo = now.todo
    BY <1>1, <2>1 DEF Worker, A!Steps
  <2>3. run' = [run EXCEPT ![a][w] = r]
    BY <2>1 DEF AdderInv, AdderType
  <2> HIDE DEF r
  <2>4. Becomes(a, w, r, {}, {}, {})
    BY <1>1, <1>5, <2>2, <2>3 DEF Becomes, A!Tick, A!xboxVars
  <2>5. InOrder(a, w, r, {}, {}, {})
    BY <1>2, <1>5, <2>1, <2>2 DEF InOrder, A!Tick
  <2> QED
    BY <2>4, <2>5, WorkerStep
<1>6. CASE A!Finishes(a, w)
  <2>1. Becomes(a, w, A!Off, {}, {}, {})
    BY <1>1, <1>4, <1>6 DEF Becomes, A!Finishes, A!Returns, A!xboxVars
  <2>2. InOrder(a, w, A!Off, {}, {}, {})
    BY <1>2, <1>4, <1>6 DEF InOrder, A!Finishes
  <2> QED
    BY <2>1, <2>2, WorkerStep
<1>7. CASE A!Sent(a, w)
  <2> DEFINE r == [now EXCEPT !.step = "recording"]
  <2>1. r \in Worker /\ r.step = "recording" /\ r.who = now.who /\ r.todo = now.todo
    BY <1>1 DEF Worker, A!Steps
  <2>2. run' = [run EXCEPT ![a][w] = r]
    BY <1>7 DEF AdderInv, AdderType, A!Sent
  <2> HIDE DEF r
  <2>3. Becomes(a, w, r, {now.who}, {}, {})
    BY <1>1, <1>7, <2>1, <2>2 DEF Becomes, A!Sent, A!Reaches
  <2>4. InOrder(a, w, r, {now.who}, {}, {})
    BY <1>2, <1>3, <1>7, <2>1 DEF InOrder, A!Sent
  <2> QED
    BY <2>3, <2>4, WorkerStep
<1>8. CASE A!Records(a, w)
  <2> DEFINE r == [now EXCEPT !.step = "waiting", !.failures = 0, !.todo = @ \ {now.who}]
  <2>1. r \in Worker /\ r.step = "waiting" /\ r.todo = now.todo \ {now.who}
    BY <1>1 DEF Worker, A!Steps
  <2>2. run' = [run EXCEPT ![a][w] = r]
    BY <1>8 DEF AdderInv, AdderType, A!Records
  <2> HIDE DEF r
  <2>3. Becomes(a, w, r, {}, {now.who}, {})
    BY <1>1, <1>8, <2>1, <2>2 DEF Becomes, A!Records, A!xboxVars
  <2>4. InOrder(a, w, r, {}, {now.who}, {})
    BY <1>2, <1>3, <1>8, <2>1 DEF InOrder, A!Records
  <2> QED
    BY <2>3, <2>4, WorkerStep
<1>9. CASE A!Fails(a, w)
  <2>1. PICK r \in Worker :
          /\ run' = [run EXCEPT ![a][w] = r]
          /\ UNCHANGED running \/ (r = A!Off /\ running' = [running EXCEPT ![a] = FALSE])
          /\ r.step \in {"off", "waiting"} /\ r.todo \subseteq now.todo
    <3>1. CASE now.failures + 1 >= AdderFailures
      <4>1. run' = [run EXCEPT ![a][w] = A!Off] /\ running' = [running EXCEPT ![a] = FALSE]
        BY <1>9, <3>1 DEF A!Fails, A!CountsFailure, A!Returns
      <4> QED
        BY <1>4, <4>1
    <3>2. CASE ~(now.failures + 1 >= AdderFailures)
      <4>0. PICK c \in Nat : c = now.failures + 1
        BY <1>1 DEF Worker
      <4> DEFINE r == [now EXCEPT !.step = "waiting", !.failures = c,
                                  !.todo = @ \ {now.who}]
      <4>1. r \in Worker /\ r.step = "waiting" /\ r.todo \subseteq now.todo
        BY <1>1 DEF Worker, A!Steps
      <4>2. run' = [run EXCEPT ![a][w] = r] /\ UNCHANGED running
        <5>1. /\ run' = [run EXCEPT ![a][w].step = "waiting", ![a][w].failures = @ + 1,
                                    ![a][w].todo = @ \ {run[a][w].who}]
              /\ UNCHANGED running
          BY <1>9, <3>2 DEF A!Fails, A!CountsFailure
        <5>2. run' = [run EXCEPT ![a][w].step = "waiting", ![a][w].failures = c,
                                 ![a][w].todo = @ \ {run[a][w].who}]
          BY <4>0, <5>1 DEF AdderInv, AdderType, Worker
        <5>3. run \in [Accounts -> [Workers -> Worker]]
          BY DEF AdderInv, AdderType
        <5>4. run' = [run EXCEPT ![a][w] = r]
          BY ONLY <5>2, <5>3, c \in Nat, a \in Accounts, w \in Workers DEF Worker
        <5> QED
          BY <5>1, <5>4
      <4> QED
        BY <4>1, <4>2
    <3> QED
      BY <3>1, <3>2
  <2>2. CASE UNCHANGED <<adderAsked, twice, adderUnsure>>
    <3>1. Becomes(a, w, r, {}, {}, {})
      BY <1>1, <1>9, <2>1, <2>2 DEF Becomes, A!Fails
    <3>2. InOrder(a, w, r, {}, {}, {})
      BY <1>2, <1>9, <2>1 DEF InOrder, A!Fails
    <3> QED
      BY <3>1, <3>2, WorkerStep
  <2>3. CASE /\ A!Reaches(a, now.who)
             /\ adderUnsure' = [adderUnsure EXCEPT ![a] = @ \cup {now.who}]
    <3>1. Becomes(a, w, r, {now.who}, {}, {now.who})
      BY <1>1, <1>9, <2>1, <2>3 DEF Becomes, A!Fails, A!Reaches
    <3>2. now.who \in Players
      BY <1>1, <1>3, <1>9 DEF Worker, A!Fails
    <3>3. InOrder(a, w, r, {now.who}, {}, {now.who})
      BY <1>2, <1>3, <1>9, <2>1, <3>2 DEF InOrder, A!Fails
    <3> QED
      BY <3>1, <3>3, WorkerStep
  <2> QED
    BY <1>9, <2>2, <2>3 DEF A!Fails
<1>10. CASE A!Limited(a, w) \/ A!LimitOver(a, w)
  <2> DEFINE r == [now EXCEPT !.step = IF now.step = "sending" THEN "limited" ELSE "waiting"]
  <2>1. r \in Worker /\ r.step \in {"limited", "waiting"} /\ r.todo = now.todo
    BY <1>1 DEF Worker, A!Steps
  <2>2. run' = [run EXCEPT ![a][w] = r]
    BY <1>10 DEF AdderInv, AdderType, A!Limited, A!LimitOver
  <2> HIDE DEF r
  <2>3. Becomes(a, w, r, {}, {}, {})
    BY <1>1, <1>10, <2>1, <2>2 DEF Becomes, A!Limited, A!LimitOver, A!xboxVars
  <2>4. InOrder(a, w, r, {}, {}, {})
    BY <1>2, <1>10, <2>1 DEF InOrder, A!Limited, A!LimitOver
  <2> QED
    BY <2>3, <2>4, WorkerStep
<1> QED
  BY <1>5, <1>6, <1>7, <1>8, <1>9, <1>10 DEF A!Run

\* Every step keeps AdderInv.
LEMMA AdderStep == AdderInv /\ [A!Next]_adderVars => AdderInv'
<1> SUFFICES ASSUME AdderInv, [A!Next]_adderVars PROVE AdderInv'
  OBVIOUS
<1>1. ASSUME NEW a \in Accounts, A!Start(a) PROVE AdderInv'
  <2>1. CASE A!Pending(a) = {}
    <3>1. UNCHANGED <<run, stop, running, adderFriends, adderAsked, twice, adderUnsure, added>>
      BY <1>1, <2>1 DEF A!Start, A!xboxVars
    <3>2. Players \ {Self[a]}
            \subseteq adderFriends[a] \cup UNION {adderAsked[b] : b \in Accounts}
      BY <2>1 DEF A!Pending, A!ListFriends, AdderInv, FileTrue
    <3>3. A!NothingLeft'
      BY <1>1, <3>1, <3>2 DEF A!Start, A!NothingLeft, AdderInv, AdderExact, AdderType
    <3>4. AdderType'
      BY <1>1, <3>1 DEF A!Start, AdderInv, AdderType
    <3> QED
      BY <3>1, <3>3, <3>4 DEF AdderInv, OneRun, FileTrue, WrittenDown, Worklist,
                              AdderExact, A!AskedOnce
  <2>2. CASE A!Pending(a) # {}
    <3>1. PICK w \in Workers :
            /\ run[a][w] = A!Off
            /\ run' = [run EXCEPT ![a][w] =
                         [A!Off EXCEPT !.step = "waiting", !.todo = A!Pending(a)]]
            /\ stop' = [stop EXCEPT ![a] = w]
      BY <1>1, <2>2 DEF A!Start
    <3> DEFINE r == [A!Off EXCEPT !.step = "waiting", !.todo = A!Pending(a)]
    <3>2. r \in Worker /\ r.step = "waiting" /\ r.todo = A!Pending(a)
      BY DEF A!Off, Worker, A!Steps, A!Nobody, A!Pending
    <3> HIDE DEF r
    <3>3. run' = [run EXCEPT ![a][w] = r]
      BY <3>1 DEF r
    <3>4. /\ run'[a][w] = r
          /\ \A b \in Accounts, v \in Workers : b # a \/ v # w => run'[b][v] = run[b][v]
      BY <3>3 DEF AdderInv, AdderType
    <3>5. /\ UNCHANGED <<adderFriends, adderAsked, twice, adderUnsure, added>>
          /\ ~running[a] /\ running' = [running EXCEPT ![a] = TRUE]
          /\ told' = [told EXCEPT ![a] = FALSE]
      BY <1>1, <2>2 DEF A!Start, A!xboxVars
    <3>6. AdderType'
      BY <3>1, <3>2, <3>3, <3>5 DEF AdderInv, AdderType
    <3>7. \A v \in Workers : run[a][v] = A!Off
      BY <3>5 DEF AdderInv, OneRun
    <3>8. OneRun'
      BY <3>1, <3>4, <3>5, <3>7 DEF AdderInv, AdderType, OneRun
    <3>9. ASSUME NEW b \in Accounts PROVE WrittenDown(b)'
      BY <3>1, <3>4, <3>5 DEF AdderInv, WrittenDown, A!Off
    <3>10. ASSUME NEW b \in Accounts, NEW v \in Workers PROVE Worklist(b, v)'
      <4>1. CASE b = a /\ v = w
        <5>1. \A u \in Workers : run[a][u].step # "recording"
          BY <3>7 DEF A!Off
        <5> QED
          BY <3>2, <3>4, <3>5, <4>1, <5>1 DEF Worklist, AdderInv, WrittenDown, A!Pending
      <4>2. CASE b # a \/ v # w
        BY <3>4, <3>5, <4>2 DEF Worklist, AdderInv
      <4> QED
        BY <4>1, <4>2
    <3>11. AdderExact' /\ FileTrue'
      BY <3>5 DEF AdderInv, AdderType, AdderExact, FileTrue, A!AskedOnce, A!NothingLeft
    <3> QED
      BY <3>6, <3>8, <3>9, <3>10, <3>11 DEF AdderInv
  <2> QED
    BY <2>1, <2>2
<1>2. ASSUME NEW a \in Accounts, A!Stop(a) PROVE AdderInv'
  <2> DEFINE w == stop[a]
             r == [run[a][w] EXCEPT !.cancelled = TRUE]
  <2>1. w \in Workers /\ run[a][w] \in Worker
    BY DEF AdderInv, AdderType
  <2>2. r \in Worker /\ r.step = run[a][w].step /\ r.todo = run[a][w].todo
        /\ r.who = run[a][w].who
    BY <2>1 DEF Worker
  <2> HIDE DEF r
  <2>3. run' = [run EXCEPT ![a][w] = r]
    BY <1>2 DEF AdderInv, AdderType, A!Stop, r
  <2>4. \A b \in Accounts, v \in Workers :
          /\ run'[b][v].step = run[b][v].step /\ run'[b][v].todo = run[b][v].todo
          /\ run'[b][v].who = run[b][v].who
          /\ b # a \/ v # w => run'[b][v] = run[b][v]
    BY <2>2, <2>3 DEF AdderInv, AdderType
  <2>5. /\ running[a]
        /\ UNCHANGED <<running, stop, told, adderFriends, adderAsked, twice,
                       adderUnsure, added>>
    BY <1>2 DEF A!Stop, A!xboxVars
  <2>6. AdderType'
    BY <2>1, <2>2, <2>3, <2>5 DEF AdderInv, AdderType
  <2>7. OneRun'
    BY <2>4, <2>5 DEF AdderInv, OneRun
  <2>8. AdderExact' /\ FileTrue'
    BY <2>5 DEF AdderInv, AdderExact, FileTrue, A!AskedOnce, A!NothingLeft
  <2>9. ASSUME NEW b \in Accounts PROVE WrittenDown(b)' /\ \A v \in Workers : Worklist(b, v)'
    BY <2>4, <2>5 DEF AdderInv, WrittenDown, Worklist
  <2> QED
    BY <2>6, <2>7, <2>8, <2>9 DEF AdderInv
<1>3. ASSUME NEW a \in Accounts, NEW w \in Workers, A!Run(a, w) PROVE AdderInv'
  BY <1>3, RunStep
<1>4. ASSUME NEW a \in Accounts, NEW x \in Players, A!Befriends(a, x) PROVE AdderInv'
  <2>1. /\ adderFriends' = [adderFriends EXCEPT ![a] = @ \cup {x}]
        /\ UNCHANGED <<running, stop, told, run, adderAsked, twice, adderUnsure, added>>
    BY <1>4 DEF A!Befriends
  <2>2. AdderType'
    BY <2>1 DEF AdderInv, AdderType
  <2>3. \A b \in Accounts : adderFriends[b] \subseteq adderFriends'[b]
    BY <2>1 DEF AdderInv, AdderType
  <2>4. AdderExact' /\ FileTrue'
    BY <2>1, <2>3 DEF AdderInv, AdderExact, FileTrue, A!AskedOnce, A!NothingLeft
  <2> QED
    BY <2>1, <2>2, <2>4 DEF AdderInv, OneRun, WrittenDown, Worklist
<1>5. CASE A!Restart
  <2> DEFINE unwritten(a) ==
        {run[a][w].who : w \in {v \in Workers : run[a][v].step = "recording"}}
  <2>1. /\ adderUnsure' = [a \in Accounts |-> adderUnsure[a] \cup unwritten(a)]
        /\ run' = [a \in Accounts |-> [w \in Workers |-> A!Off]]
        /\ running' = [a \in Accounts |-> FALSE] /\ told' = [a \in Accounts |-> FALSE]
        /\ UNCHANGED <<stop, adderFriends, adderAsked, twice, added>>
    BY <1>5 DEF A!Restart
  <2>2. A!Off \in Worker /\ A!Off.step = "off" /\ A!Off.todo = {}
    BY DEF A!Off, Worker, A!Steps, A!Nobody
  <2>3. \A a \in Accounts : unwritten(a) \subseteq Players
    BY DEF AdderInv, AdderType, Worklist
  <2>4. AdderType'
    BY <2>1, <2>2, <2>3 DEF AdderInv, AdderType
  <2>5. OneRun'
    BY <2>1 DEF OneRun
  <2>6. \A a \in Accounts : /\ adderUnsure[a] \subseteq adderUnsure'[a]
                            /\ unwritten(a) \subseteq adderUnsure'[a]
    BY <2>1
  <2>7. ASSUME NEW a \in Accounts PROVE WrittenDown(a)' /\ \A v \in Workers : Worklist(a, v)'
    BY <2>1, <2>2, <2>6 DEF AdderInv, WrittenDown, Worklist
  <2>8. AdderExact' /\ FileTrue'
    BY <2>1, <2>6 DEF AdderInv, AdderExact, FileTrue, A!AskedOnce, A!NothingLeft
  <2> QED
    BY <2>4, <2>5, <2>7, <2>8 DEF AdderInv
<1>6. CASE UNCHANGED adderVars
  BY <1>6 DEF adderVars, AdderInv, AdderType, OneRun, FileTrue, WrittenDown, Worklist,
              AdderExact, A!AskedOnce, A!NothingLeft
<1> QED
  BY <1>1, <1>2, <1>3, <1>4, <1>5, <1>6 DEF A!Next

\* Whatever the number of accounts that share the file, and however their runs are
\* stopped, started again, refused, limited or killed, nobody is asked twice by one
\* account but for a request whose outcome was lost or not yet written down, none
\* asks itself, and a start finds nothing to do only when everyone was asked or is
\* a friend (friendadder.go:40, 94-100, 164-220, 237).
THEOREM FriendsAdderExact == MCSafe => []AdderExact
<1>1. MCInit => AdderInv
  <2> SUFFICES ASSUME A!Init PROVE AdderInv
    BY DEF MCInit
  <2>1. A!Off \in Worker /\ A!Off.step = "off" /\ A!Off.todo = {}
    BY DEF A!Off, Worker, A!Steps, A!Nobody
  <2>2. stop \in [Accounts -> Workers]
    BY AdderAssumption DEF A!Init
  <2>3. AdderType
    BY <2>1, <2>2 DEF A!Init, AdderType
  <2> QED
    BY <2>1, <2>3 DEF A!Init, AdderInv, OneRun, FileTrue, WrittenDown, Worklist,
                      AdderExact, A!AskedOnce, A!NothingLeft
<1>2. AdderInv /\ [MCNext]_mcVars => AdderInv'
  BY AdderStep, FriendsParts
<1>3. AdderInv => AdderExact
  BY DEF AdderInv
<1> QED
  BY <1>1, <1>2, <1>3, PTL DEF MCSafe

-----------------------------------------------------------------------------
(* FriendsInviter: the loops of an account's sessions.                     *)

InviterType ==
    /\ current \in I!Sessions
    /\ inviterRunning \in [I!Sessions -> BOOLEAN]
    /\ loop \in [I!Sessions -> I!Loops \cup {0}]
    /\ owner \in [I!Loops -> I!Sessions \cup {0}]
    /\ stopped \in [I!Loops -> BOOLEAN]
    /\ DOMAIN pc = I!Loops
    /\ late \in [I!Loops -> Nat]

\* A loop belongs to a session that has begun; while it goes on it is the one
\* that the controller of its session would stop, and it has delivered nothing late.
\* Once it has, it is canceled for good and has nothing on the wire.
LoopHeld(l) ==
    /\ owner[l] <= current
    /\ owner[l] = 0 => pc[l] = "off" /\ late[l] = 0
    /\ owner[l] # 0 /\ ~stopped[l] =>
         inviterRunning[owner[l]] /\ loop[owner[l]] = l
    /\ late[l] # 0 => late[l] = 1 /\ I!Canceled(l) /\ pc[l] # "wire"

InviterInv ==
    /\ InviterType
    /\ \A s \in I!Sessions : inviterRunning[s] => loop[s] # 0 /\ owner[loop[s]] = s
    /\ \A l \in I!Loops : LoopHeld(l)

\* A step of loop l goes on, and leaves the controllers alone; it delivers late
\* only what is on the wire, and puts nothing there once it is canceled.
LoopGoesOn(l) ==
    /\ \E step \in {"list", "wait", "invite", "wire", "idle", "done"} :
         /\ pc' = [pc EXCEPT ![l] = step]
         /\ step = "wire" => ~I!Canceled(l)
    /\ pc[l] # "off"
    /\ \/ UNCHANGED late
       \/ pc[l] = "wire" /\ late' = [late EXCEPT ![l] = @ + IF I!Canceled(l) THEN 1 ELSE 0]
    /\ UNCHANGED <<current, inviterRunning, loop, owner, stopped>>

\* What every step of run does.
LEMMA LoopSteps ==
  ASSUME NEW l \in I!Loops, I!Run(l) PROVE LoopGoesOn(l)
<1> USE DEF LoopGoesOn, I!Goto
<1>1. CASE I!ListFails(l)
  BY <1>1 DEF I!ListFails
<1>2. CASE I!ListFriends(l)
  BY <1>2 DEF I!ListFriends
<1>3. CASE I!Proceed(l)
  BY <1>3 DEF I!Proceed
<1>4. CASE I!Ends(l)
  BY <1>4 DEF I!Ends
<1>5. CASE I!Skip(l)
  BY <1>5 DEF I!Skip, I!Advance
<1>6. CASE I!SendInvite(l)
  BY <1>6 DEF I!SendInvite, I!Advance
<1>7. CASE I!Answered(l)
  BY <1>7 DEF I!Answered, I!Advance
<1> QED
  BY <1>1, <1>2, <1>3, <1>4, <1>5, <1>6, <1>7 DEF I!Run

\* Every step keeps InviterInv.
LEMMA InviterStep == InviterInv /\ [I!Next]_inviterVars => InviterInv'
<1> SUFFICES ASSUME InviterInv, [I!Next]_inviterVars PROVE InviterInv'
  OBVIOUS
<1> USE InviterAssumption DEF InviterInv, InviterType, LoopHeld, I!Canceled, I!Sessions, I!Loops
<1>1. CASE I!Rebuild
  BY <1>1 DEF I!Rebuild
<1>2. ASSUME NEW s \in I!Sessions, I!Start(s) PROVE InviterInv'
  BY <1>2 DEF I!Start, I!Launch
<1>3. ASSUME NEW s \in I!Sessions, I!Stop(s) PROVE InviterInv'
  BY <1>3 DEF I!Stop
<1>4. ASSUME NEW l \in I!Loops, I!Run(l) PROVE InviterInv'
  <2>1. LoopGoesOn(l)
    BY <1>4, LoopSteps
  <2>2. /\ UNCHANGED <<current, inviterRunning, loop, owner, stopped>>
        /\ DOMAIN pc' = I!Loops /\ pc'[l] # "off"
        /\ pc'[l] = "wire" => ~I!Canceled(l)
        /\ \A k \in I!Loops \ {l} : pc'[k] = pc[k] /\ late'[k] = late[k]
    BY <2>1 DEF LoopGoesOn
  <2>3. late' \in [I!Loops -> Nat]
    BY <2>1 DEF LoopGoesOn
  <2>4. late'[l] # 0 => late'[l] = 1 /\ I!Canceled(l) /\ pc'[l] # "wire"
    <3>1. CASE UNCHANGED late
      BY <2>2, <3>1
    <3>2. CASE pc[l] = "wire" /\ late' = [late EXCEPT ![l] = @ + IF I!Canceled(l) THEN 1 ELSE 0]
      BY <2>2, <3>2
    <3> QED
      BY <2>1, <3>1, <3>2 DEF LoopGoesOn
  <2>5. owner[l] # 0
    BY <2>1 DEF LoopGoesOn
  <2>6. \A k \in I!Loops : LoopHeld(k)'
    BY <2>2, <2>4, <2>5
  <2> QED
    BY <2>2, <2>3, <2>6
<1>5. ASSUME NEW f \in Friends, I!Befriend(f) \/ I!Join(f) PROVE InviterInv'
  BY <1>5 DEF I!Befriend, I!Join
<1>6. CASE UNCHANGED inviterVars
  BY <1>6 DEF inviterVars
<1> QED
  BY <1>1, <1>2, <1>3, <1>4, <1>5, <1>6 DEF I!Next

\* However often the loop that invites the friends is started and stopped, and its
\* session rebuilt, one loop at most goes on inviting, and one that was stopped delivers
\* what it has on the wire at most (friendsinviter.go, main.go).
THEOREM FriendsOneInviter == MCSafe => []OneInviter
<1>1. MCInit => InviterInv
  BY InviterAssumption DEF MCInit, I!Init, InviterInv, InviterType, LoopHeld,
                           I!Canceled, I!Sessions, I!Loops
<1>2. InviterInv /\ [MCNext]_mcVars => InviterInv'
  BY InviterStep, FriendsParts
<1>3. ASSUME InviterInv PROVE OneInviter
  <2>1. \A l \in I!Loops : I!Inviting(l) => owner[l] = current /\ loop[current] = l
    BY <1>3, InviterAssumption DEF InviterInv, InviterType, LoopHeld, I!Inviting,
       I!Canceled, I!Sessions, I!Loops
  <2>2. I!OneInviter
    BY <2>1 DEF I!OneInviter
  <2>3. I!StopHonoured
    BY <1>3 DEF InviterInv, LoopHeld, I!StopHonoured
  <2> QED
    BY <2>2, <2>3 DEF OneInviter
<1> QED
  BY <1>1, <1>2, <1>3, PTL DEF MCSafe
=============================================================================
