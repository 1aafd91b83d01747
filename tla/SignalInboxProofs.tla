-------------------------- MODULE SignalInboxProofs --------------------------
(***************************************************************************)
(* Proofs that no candidate overtakes its description, and that every      *)
(* signal is passed on once while callbacks do not overlap, for any number *)
(* of signals and however often stores are swept.                          *)
(***************************************************************************)
EXTENDS SignalInbox, TLAPS

\* Next by the goroutine that takes the step, for the case analyses below.
LEMMA InboxCases ==
  ASSUME [Next]_vars
  PROVE  \/ \E s \in Signals : \/ LookUp(s) \/ Pass(s) \/ Check(s) \/ Send(s)
                               \/ Describe(s) \/ RangeOver(s) \/ Flush(s)
                               \/ Clear(s) \/ Load(s) \/ AppendPending(s)
         \/ \E t \in Stores : GoesIdle(t)
         \/ Sweep \/ Ends \/ UNCHANGED vars
BY DEF Next, Handle

\* Looking a store up, or making one, gives one of the stores.
LEMMA LookUpStore ==
  ASSUME StoresOK, NEW s \in Signals, LookUp(s)
  PROVE  current' \in Stores /\ made' \in Stores
<1>1. MaxStores \in Nat
  BY InboxAssumption
<1> QED
  BY <1>1 DEF StoresOK, LookUp, Stores

\* No step changes the shape of a handler's state or of what was delivered.
LEMMA HandlersStep ==
  ASSUME HandlersOK, StoresOK, [Next]_vars
  PROVE  HandlersOK'
<1> USE DEF HandlersOK, StoresOK, Goto
<1>1. ASSUME NEW s \in Signals, LookUp(s) PROVE HandlersOK'
  <2>1. held' \in [Signals -> Stores]
    BY <1>1, LookUpStore DEF LookUp
  <2>2. handler' \in [Signals -> Steps]
    BY <1>1 DEF LookUp, Steps
  <2>3. UNCHANGED <<snap, delivered>>
    BY <1>1 DEF LookUp
  <2> QED
    BY <2>1, <2>2, <2>3
<1>2. ASSUME NEW s \in Signals, Pass(s) \/ Check(s) \/ Send(s) \/ Describe(s)
      PROVE  HandlersOK'
  <2>1. CASE Pass(s) \/ Check(s) \/ Describe(s)
    BY <2>1 DEF Pass, Check, Describe, Steps
  <2>2. CASE Send(s)
    BY <2>2 DEF Send, Steps
  <2> QED
    BY <1>2, <2>1, <2>2
<1>3. ASSUME NEW s \in Signals, RangeOver(s) \/ Load(s) PROVE HandlersOK'
  BY <1>3 DEF RangeOver, Load, Steps
<1>4. ASSUME NEW s \in Signals, Flush(s) PROVE HandlersOK'
  BY <1>4 DEF Flush
<1>5. ASSUME NEW s \in Signals, Clear(s) \/ AppendPending(s) PROVE HandlersOK'
  BY <1>5 DEF Clear, AppendPending, Steps
<1>6. CASE (\E t \in Stores : GoesIdle(t)) \/ Sweep \/ Ends \/ UNCHANGED vars
  BY <1>6 DEF GoesIdle, Sweep, Ends, vars
<1> QED
  BY <1>1, <1>2, <1>3, <1>4, <1>5, <1>6, InboxCases

\* No step changes the shape of the stores.
LEMMA StoresStep ==
  ASSUME HandlersOK, StoresOK, [Next]_vars
  PROVE  StoresOK'
<1> USE DEF HandlersOK, StoresOK
<1>1. ASSUME NEW s \in Signals, LookUp(s) PROVE StoresOK'
  BY <1>1, LookUpStore DEF LookUp
<1>2. ASSUME NEW s \in Signals, Pass(s) \/ Check(s) \/ Send(s) \/ Describe(s)
      PROVE  StoresOK'
  BY <1>2 DEF Pass, Check, Send, Describe, storeVars
<1>3. ASSUME NEW s \in Signals, RangeOver(s) \/ Load(s) \/ Flush(s)
      PROVE  StoresOK'
  BY <1>3 DEF RangeOver, Load, Flush, storeVars
<1>4. ASSUME NEW s \in Signals, Clear(s) \/ AppendPending(s) PROVE StoresOK'
  <2>1. <<>> \in Seq(Signals) /\ Append(snap[s], s) \in Seq(Signals)
    OBVIOUS
  <2>2. buffer' \in [Stores -> Seq(Signals)]
    BY <1>4, <2>1 DEF Clear, AppendPending
  <2> QED
    BY <1>4, <2>2 DEF Clear, AppendPending
<1>5. CASE (\E t \in Stores : GoesIdle(t)) \/ Sweep \/ Ends \/ UNCHANGED vars
  <2>1. 0 \in Stores
    BY InboxAssumption DEF Stores
  <2> QED
    BY <1>5, <2>1 DEF GoesIdle, Sweep, Ends, vars, storeVars
<1> QED
  BY <1>1, <1>2, <1>3, <1>4, <1>5, InboxCases

-----------------------------------------------------------------------------
\* A description has reached the listener.
Announced == \E j \in 1..Len(delivered) : delivered[j] \in Descriptions

\* Whoever may pass a candidate on knows that a description went before: a
\* store's flag, a handler about to send a candidate, and one flushing.
Known ==
    /\ \A t \in Stores : described[t] => Announced
    /\ \A s \in Signals :
         /\ s \in Candidates /\ handler[s] = "sending" => Announced
         /\ handler[s] \in {"describing", "ranging", "flushing"} => Announced

\* Passing one more signal on keeps the order, if a candidate comes only after
\* a description.
LEMMA DeliverStep ==
  ASSUME delivered \in Seq(Signals), CandidatesAfterDescription,
         NEW r \in Signals, delivered' = Append(delivered, r),
         r \in Candidates => Announced
  PROVE  /\ CandidatesAfterDescription'
         /\ Announced \/ r \in Descriptions => Announced'
BY DEF CandidatesAfterDescription, Announced

\* Every step keeps the order of delivery and what the handlers know of it.
LEMMA KnownStep ==
  ASSUME HandlersOK, StoresOK, Known, CandidatesAfterDescription, [Next]_vars
  PROVE  Known' /\ CandidatesAfterDescription'
<1> USE DEF HandlersOK, StoresOK
<1>1. ASSUME UNCHANGED delivered
      PROVE  CandidatesAfterDescription' /\ (Announced => Announced')
  BY <1>1 DEF CandidatesAfterDescription, Announced
<1>2. ASSUME NEW s \in Signals, LookUp(s) \/ Pass(s)
      PROVE  Known' /\ CandidatesAfterDescription'
  BY <1>1, <1>2, InboxAssumption DEF LookUp, Pass, Goto, storeVars, Known
<1>3. ASSUME NEW s \in Signals, Check(s)
      PROVE  Known' /\ CandidatesAfterDescription'
  <2>1. s \in Candidates /\ handler'[s] = "sending" => Announced
    BY <1>3, InboxAssumption DEF Check, Goto, Known, Describes, Descriptions
  <2> QED
    BY <1>1, <1>3, <2>1 DEF Check, Goto, Known
<1>4. ASSUME NEW s \in Signals, Send(s)
      PROVE  Known' /\ CandidatesAfterDescription'
  <2>1. s \in Candidates => Announced
    BY <1>4 DEF Send, Known
  <2>2. CandidatesAfterDescription' /\ (Announced \/ s \in Descriptions => Announced')
    BY <1>4, <2>1, DeliverStep DEF Send
  <2> QED
    BY <1>4, <2>2 DEF Send, Goto, storeVars, Known, Describes
<1>5. ASSUME NEW s \in Signals, Flush(s)
      PROVE  Known' /\ CandidatesAfterDescription'
  <2>1. Announced /\ Head(snap[s]) \in Signals
    BY <1>5 DEF Flush, Known
  <2>2. CandidatesAfterDescription' /\ Announced'
    BY <1>5, <2>1, DeliverStep DEF Flush
  <2> QED
    BY <1>5, <2>2 DEF Flush, storeVars, Known
<1>6. ASSUME NEW s \in Signals, Describe(s) \/ RangeOver(s) \/ Load(s)
      PROVE  Known' /\ CandidatesAfterDescription'
  BY <1>1, <1>6 DEF Describe, RangeOver, Load, Goto, storeVars, Known
<1>7. ASSUME NEW s \in Signals, Clear(s) \/ AppendPending(s)
      PROVE  Known' /\ CandidatesAfterDescription'
  BY <1>1, <1>7 DEF Clear, AppendPending, Goto, Known
<1>8. CASE (\E t \in Stores : GoesIdle(t)) \/ Sweep \/ Ends \/ UNCHANGED vars
  BY <1>1, <1>8 DEF GoesIdle, Sweep, Ends, vars, storeVars, Known
<1> QED
  BY <1>2, <1>3, <1>4, <1>5, <1>6, <1>7, <1>8, InboxCases

\* Nothing was received at first.
LEMMA ShapeInit == Init => HandlersOK /\ StoresOK
<1> 0 \in Stores
  BY InboxAssumption DEF Stores
<1>1. Init => HandlersOK
  BY DEF Init, HandlersOK, Steps
<1>2. Init => StoresOK
  BY DEF Init, StoresOK
<1> QED
  BY <1>1, <1>2

\* However the callbacks overlap, no candidate reaches the listener before the
\* description it waits for (messaging/conn.go:79-101).
THEOREM InboxOrder == Spec => []CandidatesAfterDescription
<1>1. Init => HandlersOK /\ StoresOK
  BY ShapeInit
<1>2. Init => Known /\ CandidatesAfterDescription
  BY DEF Init, Known, CandidatesAfterDescription
<1>3. HandlersOK /\ StoresOK /\ Known /\ CandidatesAfterDescription /\ [Next]_vars
        => (HandlersOK /\ StoresOK /\ Known /\ CandidatesAfterDescription)'
  BY HandlersStep, StoresStep, KnownStep
<1> QED
  BY <1>1, <1>2, <1>3, PTL DEF Spec

-----------------------------------------------------------------------------
(* Each signal once, as long as no two callbacks overlapped.               *)

\* x is somewhere in the sequence q, and nothing is in q twice.
Has(q, x) == \E i \in 1..Len(q) : q[i] = x
Once(q) == \A i, j \in 1..Len(q) : q[i] = q[j] => i = j

\* At most one callback runs, and what it is about is what it looked at.
Alone ==
    /\ \A r, s \in Signals : Active(r) /\ Active(s) => r = s
    /\ \A s \in Signals :
         /\ handler[s] \in {"loading", "appending"} => s \in Candidates
         /\ handler[s] \in {"describing", "ranging", "flushing"} => s \in Descriptions
         /\ handler[s] = "checking" => s \in Candidates \cup Descriptions
         /\ handler[s] = "appending" => snap[s] = buffer[held[s]]

\* A signal is passed on once.  The candidates in a store's buffer wait, each in
\* one buffer and once; while a description is being flushed, those it has not
\* come to yet do.
Waiting ==
    /\ Once(delivered)
    /\ \A s \in Signals :
         handler[s] \in {"unsent", "checking", "sending", "loading", "appending"} =>
            ~Has(delivered, s)
    /\ \A t \in Stores :
         /\ Once(buffer[t])
         /\ \A s \in Signals : Has(buffer[t], s) =>
              /\ handler[s] = "done" /\ s \in Candidates
              /\ \A u \in Stores : Has(buffer[u], s) => u = t
              /\ Has(delivered, s) => \E f \in Signals : handler[f] = "flushing" /\ held[f] = t

\* What a description that is being flushed has come to of the buffer.
Flushing ==
    \A f \in Signals : handler[f] = "flushing" =>
       /\ Once(snap[f])
       /\ \A s \in Signals :
            /\ Has(snap[f], s) => Has(buffer[held[f]], s)
            /\ Has(buffer[held[f]], s) => (Has(snap[f], s) <=> ~Has(delivered, s))

\* As long as no store was dropped there is only one; a candidate that was
\* handled was passed on or waits in it, and once a description has been handled
\* none waits.
Kept ==
    /\ \A s \in Candidates \cup Descriptions :
         handler[s] # "unsent" => held[s] = current /\ current # 0
    /\ \A c \in Candidates :
         handler[c] = "done" => Has(delivered, c) \/ Has(buffer[current], c)
    /\ \A s \in Signals :
         /\ handler[s] \in {"loading", "appending"} => ~described[current]
         /\ s \in Descriptions /\ handler[s] \in {"ranging", "flushing", "done"} =>
              described[current]
    /\ described[current] =>
         \/ buffer[current] = <<>>
         \/ \E f \in Signals : handler[f] \in {"ranging", "flushing"}

OnceInv == ~overlapped => Alone /\ Waiting /\ Flushing /\ (~swept => Kept)

\* What one more signal at the end, or the first one gone, changes.
LEMMA HasAppend ==
  ASSUME NEW S, NEW q \in Seq(S), NEW x \in S
  PROVE  /\ \A y : Has(Append(q, x), y) <=> Has(q, y) \/ y = x
         /\ Once(q) /\ ~Has(q, x) => Once(Append(q, x))
<1>1. ASSUME NEW y PROVE Has(Append(q, x), y) <=> Has(q, y) \/ y = x
  <2>1. CASE y = x
    <3>1. /\ Len(q) + 1 \in 1..Len(Append(q, x))
          /\ Append(q, x)[Len(q) + 1] = x
      OBVIOUS
    <3> QED
      BY <2>1, <3>1 DEF Has
  <2>2. CASE y # x
    BY <2>2 DEF Has
  <2> QED
    BY <2>1, <2>2
<1>2. Once(q) /\ ~Has(q, x) => Once(Append(q, x))
  BY DEF Once, Has
<1> QED
  BY <1>1, <1>2

LEMMA HasTail ==
  ASSUME NEW S, NEW q \in Seq(S), q # <<>>, Once(q)
  PROVE  /\ Head(q) \in S /\ Tail(q) \in Seq(S) /\ Once(Tail(q)) /\ Has(q, Head(q))
         /\ \A y : Has(Tail(q), y) <=> Has(q, y) /\ y # Head(q)
<1>1. Head(q) \in S /\ Tail(q) \in Seq(S) /\ Len(q) > 0 /\ Head(q) = q[1]
  OBVIOUS
<1>2. Once(Tail(q)) /\ Has(q, Head(q))
  BY <1>1 DEF Once, Has
<1>3. ASSUME NEW y PROVE Has(Tail(q), y) => Has(q, y) /\ y # Head(q)
  BY <1>1 DEF Has, Once
<1>4. ASSUME NEW y, Has(q, y), y # Head(q) PROVE Has(Tail(q), y)
  <2>1. PICK i \in 1..Len(q) : q[i] = y
    BY <1>4 DEF Has
  <2>2. i # 1 /\ i - 1 \in 1..Len(Tail(q)) /\ Tail(q)[i - 1] = y
    BY <1>1, <1>4, <2>1
  <2> QED
    BY <2>2 DEF Has
<1> QED
  BY <1>1, <1>2, <1>3, <1>4

LEMMA HasEmpty ==
  /\ Once(<<>>) /\ \A y : ~Has(<<>>, y)
  /\ \A S : \A q \in Seq(S) : q # <<>> => \E y \in S : Has(q, y)
<1>1. Once(<<>>) /\ \A y : ~Has(<<>>, y)
  BY DEF Once, Has
<1>2. ASSUME NEW S, NEW q \in Seq(S), q # <<>> PROVE \E y \in S : Has(q, y)
  <2>1. 1 \in 1..Len(q) /\ q[1] \in S
    BY <1>2
  <2> QED
    BY <2>1 DEF Has
<1> QED
  BY <1>1, <1>2

\* A callback that begins while none runs is alone.
LEMMA OnceLookUp ==
  ASSUME HandlersOK, StoresOK, OnceInv, NEW s \in Signals, LookUp(s), ~overlapped'
  PROVE  Alone' /\ Waiting' /\ Flushing' /\ (~swept' => Kept')
<1>1. ~overlapped /\ \A r \in Signals : ~Active(r)
  BY DEF LookUp, Received
<1>2. Alone /\ Waiting /\ Flushing /\ (~swept => Kept)
  BY <1>1 DEF OnceInv
<1>3. /\ handler[s] = "unsent" /\ handler'[s] = "checking"
      /\ \A r \in Signals \ {s} : handler'[r] = handler[r] /\ held'[r] = held[r]
      /\ held'[s] = current' /\ s \in Candidates \cup Descriptions
  BY DEF LookUp, Received, Goto, HandlersOK
<1>4. UNCHANGED <<snap, described, buffer, idle, swept, delivered>>
  BY DEF LookUp
<1>5. \A r \in Signals : handler'[r] \in {"unsent", "done"} \/ r = s
  BY <1>1, <1>3 DEF Active
<1>6. Alone'
  BY <1>3, <1>5 DEF Alone, Active
<1>7. Waiting'
  BY <1>1, <1>2, <1>3, <1>4, <1>5 DEF Waiting, Active
<1>8. Flushing'
  BY <1>3, <1>5 DEF Flushing
<1>9. ASSUME ~swept' PROVE Kept'
  <2>1. Kept
    BY <1>2, <1>4, <1>9
  <2>2. CASE current # 0
    <3>1. current' = current
      BY <2>2 DEF LookUp
    <3> QED
      BY <1>1, <1>3, <1>4, <1>5, <2>1, <2>2, <3>1 DEF Kept, Active, Signals
  <2>3. CASE current = 0
    <3>1. current' # 0 /\ current' \in Stores
      BY <2>3, InboxAssumption, LookUpStore DEF LookUp, StoresOK, Stores
    <3>2. \A r \in Candidates \cup Descriptions : handler[r] = "unsent"
      BY <2>1, <2>3 DEF Kept
    <3>3. \A y \in Signals : ~Has(buffer[current'], y)
      BY <1>2, <3>1, <3>2 DEF Waiting, Signals
    <3>4. buffer[current'] = <<>>
      BY <3>1, <3>3, HasEmpty DEF StoresOK
    <3> QED
      BY <1>3, <1>4, <1>5, <3>1, <3>2, <3>4 DEF Kept, Signals
  <2> QED
    BY <2>2, <2>3
<1> QED
  BY <1>6, <1>7, <1>8, <1>9

LEMMA OncePass ==
  ASSUME HandlersOK, StoresOK, OnceInv, NEW s \in Signals, Pass(s), ~overlapped'
  PROVE  Alone' /\ Waiting' /\ Flushing' /\ (~swept' => Kept')
<1>1. ~overlapped /\ \A r \in Signals : ~Active(r)
  BY DEF Pass, Received
<1>2. Alone /\ Waiting /\ Flushing /\ (~swept => Kept)
  BY <1>1 DEF OnceInv
<1>3. /\ handler[s] = "unsent" /\ handler'[s] = "sending"
      /\ \A r \in Signals \ {s} : handler'[r] = handler[r]
      /\ s \notin Candidates \cup Descriptions
  BY InboxAssumption DEF Pass, Received, Goto, HandlersOK, Descriptions
<1>4. UNCHANGED <<held, snap, storeVars, delivered>>
  BY DEF Pass
<1>5. \A r \in Signals : handler'[r] \in {"unsent", "done"} \/ r = s
  BY <1>1, <1>3 DEF Active
<1>6. Alone'
  BY <1>3, <1>5 DEF Alone, Active
<1>7. Waiting'
  BY <1>1, <1>2, <1>3, <1>4, <1>5 DEF Waiting, Active, storeVars
<1>8. Flushing'
  BY <1>3, <1>5 DEF Flushing
<1>9. ~swept' => Kept'
  BY <1>1, <1>2, <1>3, <1>4, <1>5 DEF Kept, Active, storeVars, Signals
<1> QED
  BY <1>6, <1>7, <1>8, <1>9

\* While one callback runs, the others have not begun or have returned.
LEMMA OthersRest ==
  ASSUME HandlersOK, OnceInv, ~overlapped, NEW s \in Signals, Active(s)
  PROVE  /\ Alone /\ Waiting /\ Flushing /\ (~swept => Kept)
         /\ \A r \in Signals \ {s} : handler[r] \in {"unsent", "done"}
BY DEF OnceInv, Alone, Active

LEMMA OnceCheck ==
  ASSUME HandlersOK, StoresOK, OnceInv, NEW s \in Signals, Check(s), ~overlapped'
  PROVE  Alone' /\ Waiting' /\ Flushing' /\ (~swept' => Kept')
<1>1. ~overlapped /\ Active(s)
  BY DEF Check, Active
<1>2. /\ Alone /\ Waiting /\ Flushing /\ (~swept => Kept)
      /\ \A r \in Signals \ {s} : handler[r] \in {"unsent", "done"}
  BY <1>1, OthersRest
<1>3. /\ handler[s] = "checking" /\ held[s] \in Stores
      /\ handler'[s] = IF Describes(s) \/ described[held[s]] THEN "sending"
                       ELSE "loading"
      /\ \A r \in Signals \ {s} : handler'[r] = handler[r]
      /\ s \in Candidates \cup Descriptions
  BY <1>2, InboxAssumption DEF Check, Goto, HandlersOK, Alone, Describes
<1>4. UNCHANGED <<held, snap, current, described, buffer, swept, delivered>>
  BY DEF Check
<1>5. handler'[s] \in {"sending", "loading"}
  BY <1>3
<1>6. handler'[s] = "loading" => s \in Candidates /\ ~described[held[s]]
  BY <1>3 DEF Describes
<1>7. Alone'
  BY <1>2, <1>3, <1>5, <1>6 DEF Alone, Active
<1>8. Waiting'
  BY <1>2, <1>3, <1>4, <1>5 DEF Waiting
<1>9. Flushing'
  BY <1>2, <1>3, <1>5 DEF Flushing
<1>10. ~swept' => Kept'
  BY <1>2, <1>3, <1>4, <1>5, <1>6 DEF Kept, Signals
<1> QED
  BY <1>7, <1>8, <1>9, <1>10

LEMMA OnceSend ==
  ASSUME HandlersOK, StoresOK, OnceInv, NEW s \in Signals, Send(s), ~overlapped'
  PROVE  Alone' /\ Waiting' /\ Flushing' /\ (~swept' => Kept')
<1>1. ~overlapped /\ Active(s)
  BY DEF Send, Active
<1>2. /\ Alone /\ Waiting /\ Flushing /\ (~swept => Kept)
      /\ \A r \in Signals \ {s} : handler[r] \in {"unsent", "done"}
  BY <1>1, OthersRest
<1>3. /\ handler[s] = "sending"
      /\ handler'[s] = IF s \in Descriptions THEN "describing" ELSE "done"
      /\ \A r \in Signals \ {s} : handler'[r] = handler[r]
  BY DEF Send, Goto, HandlersOK, Describes
<1>4. UNCHANGED <<held, snap, current, described, buffer, swept>>
  BY DEF Send, storeVars
<1>5. /\ \A y : Has(delivered', y) <=> Has(delivered, y) \/ y = s
      /\ Once(delivered')
  BY <1>2, <1>3, HasAppend DEF Send, HandlersOK, Waiting
<1>6. \A t \in Stores : ~Has(buffer[t], s)
  BY <1>2, <1>3 DEF Waiting
<1>7. Alone'
  BY <1>2, <1>3, <1>4 DEF Alone, Active
<1>8. Waiting'
  BY <1>2, <1>3, <1>4, <1>5, <1>6 DEF Waiting
<1>9. Flushing'
  BY <1>2, <1>3 DEF Flushing
<1>10. ~swept' => Kept'
  BY <1>2, <1>3, <1>4, <1>5, InboxAssumption DEF Kept, Signals, Descriptions
<1> QED
  BY <1>7, <1>8, <1>9, <1>10

LEMMA OnceDescribe ==
  ASSUME HandlersOK, StoresOK, OnceInv, NEW s \in Signals, Describe(s), ~overlapped'
  PROVE  Alone' /\ Waiting' /\ Flushing' /\ (~swept' => Kept')
<1>1. ~overlapped /\ Active(s)
  BY DEF Describe, Active
<1>2. /\ Alone /\ Waiting /\ Flushing /\ (~swept => Kept)
      /\ \A r \in Signals \ {s} : handler[r] \in {"unsent", "done"}
  BY <1>1, OthersRest
<1>3. /\ handler[s] = "describing" /\ handler'[s] = "ranging" /\ s \in Descriptions
      /\ \A r \in Signals \ {s} : handler'[r] = handler[r]
      /\ held[s] \in Stores
      /\ described' = [described EXCEPT ![held[s]] = TRUE]
  BY <1>2 DEF Describe, Goto, HandlersOK, Alone
<1>4. UNCHANGED <<held, snap, current, buffer, swept, delivered>>
  BY DEF Describe
<1>5. Alone'
  BY <1>2, <1>3 DEF Alone, Active
<1>6. Waiting'
  BY <1>2, <1>3, <1>4 DEF Waiting
<1>7. Flushing'
  BY <1>2, <1>3 DEF Flushing
<1>8. ASSUME ~swept' PROVE Kept'
  <2>1. Kept /\ held[s] = current
    BY <1>2, <1>3, <1>4, <1>8 DEF Kept
  <2>2. described'[current] = TRUE
    BY <1>3, <2>1 DEF StoresOK
  <2> QED
    BY <1>2, <1>3, <1>4, <2>1, <2>2 DEF Kept, Signals
<1> QED
  BY <1>5, <1>6, <1>7, <1>8

LEMMA OnceRange ==
  ASSUME HandlersOK, StoresOK, OnceInv, NEW s \in Signals, RangeOver(s), ~overlapped'
  PROVE  Alone' /\ Waiting' /\ Flushing' /\ (~swept' => Kept')
<1>1. ~overlapped /\ Active(s)
  BY DEF RangeOver, Active
<1>2. /\ Alone /\ Waiting /\ Flushing /\ (~swept => Kept)
      /\ \A r \in Signals \ {s} : handler[r] \in {"unsent", "done"}
  BY <1>1, OthersRest
<1>3. /\ handler[s] = "ranging" /\ handler'[s] = "flushing" /\ s \in Descriptions
      /\ \A r \in Signals \ {s} : handler'[r] = handler[r]
      /\ held[s] \in Stores /\ snap'[s] = buffer[held[s]]
  BY <1>2 DEF RangeOver, Goto, HandlersOK, Alone
<1>4. UNCHANGED <<held, current, described, buffer, swept, delivered>>
  BY DEF RangeOver, storeVars
<1>5. Alone'
  BY <1>2, <1>3 DEF Alone, Active
<1>6. Waiting'
  BY <1>2, <1>3, <1>4 DEF Waiting
<1>7. Flushing'
  <2>1. Once(snap'[s])
    BY <1>2, <1>3 DEF Waiting
  <2>2. \A f \in Signals : handler[f] # "flushing"
    BY <1>2, <1>3
  <2>3. \A r \in Signals : Has(buffer[held[s]], r) => ~Has(delivered, r)
    BY <1>2, <1>3, <2>2 DEF Waiting
  <2> QED
    BY <1>2, <1>3, <1>4, <2>1, <2>3 DEF Flushing
<1>8. ~swept' => Kept'
  BY <1>2, <1>3, <1>4 DEF Kept, Signals
<1> QED
  BY <1>5, <1>6, <1>7, <1>8

LEMMA OnceFlush ==
  ASSUME HandlersOK, StoresOK, OnceInv, NEW s \in Signals, Flush(s), ~overlapped'
  PROVE  Alone' /\ Waiting' /\ Flushing' /\ (~swept' => Kept')
<1>1. ~overlapped /\ Active(s)
  BY DEF Flush, Active
<1>2. /\ Alone /\ Waiting /\ Flushing /\ (~swept => Kept)
      /\ \A r \in Signals \ {s} : handler[r] \in {"unsent", "done"}
  BY <1>1, OthersRest
<1>3. /\ handler[s] = "flushing" /\ UNCHANGED handler
      /\ held[s] \in Stores /\ snap[s] \in Seq(Signals) /\ snap[s] # <<>>
      /\ snap'[s] = Tail(snap[s])
      /\ delivered' = Append(delivered, Head(snap[s]))
  BY DEF Flush, HandlersOK
<1>4. UNCHANGED <<held, current, described, buffer, swept>>
  BY DEF Flush, storeVars
<1>5. /\ Head(snap[s]) \in Signals /\ Once(snap'[s]) /\ Has(snap[s], Head(snap[s]))
      /\ \A y : Has(snap'[s], y) <=> Has(snap[s], y) /\ y # Head(snap[s])
  <2>1. Once(snap[s])
    BY <1>2, <1>3 DEF Flushing
  <2> QED
    BY <1>3, <2>1, HasTail
<1>6. Has(buffer[held[s]], Head(snap[s])) /\ ~Has(delivered, Head(snap[s]))
  BY <1>2, <1>3, <1>5 DEF Flushing
<1>7. /\ \A y : Has(delivered', y) <=> Has(delivered, y) \/ y = Head(snap[s])
      /\ Once(delivered')
  BY <1>2, <1>3, <1>5, <1>6, HasAppend DEF HandlersOK, Waiting
<1>8. handler[Head(snap[s])] = "done" /\ Head(snap[s]) \in Candidates
      /\ \A u \in Stores : Has(buffer[u], Head(snap[s])) => u = held[s]
  BY <1>2, <1>3, <1>5, <1>6 DEF Waiting
<1>9. Alone'
  BY <1>2, <1>3, <1>4 DEF Alone, Active
<1>10. Waiting'
  BY <1>2, <1>3, <1>4, <1>7, <1>8 DEF Waiting
<1>11. Flushing'
  BY <1>2, <1>3, <1>4, <1>5, <1>6, <1>7 DEF Flushing
<1>12. ~swept' => Kept'
  BY <1>2, <1>3, <1>4, <1>7 DEF Kept, Signals
<1> QED
  BY <1>9, <1>10, <1>11, <1>12

LEMMA OnceClear ==
  ASSUME HandlersOK, StoresOK, OnceInv, NEW s \in Signals, Clear(s), ~overlapped'
  PROVE  Alone' /\ Waiting' /\ Flushing' /\ (~swept' => Kept')
<1>1. ~overlapped /\ Active(s)
  BY DEF Clear, Active
<1>2. /\ Alone /\ Waiting /\ Flushing /\ (~swept => Kept)
      /\ \A r \in Signals \ {s} : handler[r] \in {"unsent", "done"}
  BY <1>1, OthersRest
<1>3. /\ handler[s] = "flushing" /\ handler'[s] = "done" /\ s \in Descriptions
      /\ \A r \in Signals \ {s} : handler'[r] = handler[r]
      /\ held[s] \in Stores /\ snap[s] = <<>>
      /\ buffer'[held[s]] = <<>>
      /\ \A t \in Stores \ {held[s]} : buffer'[t] = buffer[t]
  BY <1>2 DEF Clear, Goto, HandlersOK, StoresOK, Alone
<1>4. UNCHANGED <<held, snap, current, described, swept, delivered>>
  BY DEF Clear
<1>5. \A r \in Signals : Has(buffer[held[s]], r) => Has(delivered, r)
  BY <1>2, <1>3, HasEmpty DEF Flushing
<1>6. \A r \in Signals : handler'[r] \in {"unsent", "done"}
  BY <1>2, <1>3
<1>7. Alone'
  BY <1>6 DEF Alone, Active
<1>8. Waiting'
  <2>1. \A t \in Stores : Once(buffer'[t])
    BY <1>2, <1>3, HasEmpty DEF Waiting
  <2>2. \A t \in Stores : \A y : Has(buffer'[t], y) => t # held[s] /\ Has(buffer[t], y)
    BY <1>3, HasEmpty
  <2>3. ASSUME NEW t \in Stores, NEW r \in Signals, Has(buffer'[t], r)
        PROVE  /\ handler'[r] = "done" /\ r \in Candidates
               /\ \A u \in Stores : Has(buffer'[u], r) => u = t
               /\ ~Has(delivered', r)
    <3>1. t # held[s] /\ Has(buffer[t], r)
      BY <2>2, <2>3
    <3>2. /\ handler[r] = "done" /\ r \in Candidates
          /\ \A u \in Stores : Has(buffer[u], r) => u = t
          /\ Has(delivered, r) => \E f \in Signals : handler[f] = "flushing" /\ held[f] = t
      BY <1>2, <3>1 DEF Waiting
    <3>3. ~Has(delivered, r)
      BY <1>2, <1>3, <3>1, <3>2
    <3> QED
      BY <1>3, <1>4, <2>2, <3>2, <3>3
  <2> QED
    BY <1>2, <1>3, <1>4, <1>6, <2>1, <2>3 DEF Waiting
<1>9. Flushing'
  BY <1>6 DEF Flushing
<1>10. ASSUME ~swept' PROVE Kept'
  <2>1. Kept /\ held[s] = current
    BY <1>2, <1>3, <1>4, <1>10 DEF Kept
  <2> QED
    BY <1>2, <1>3, <1>4, <1>5, <1>6, <2>1, InboxAssumption
       DEF Kept, Signals, Descriptions
<1> QED
  BY <1>7, <1>8, <1>9, <1>10

LEMMA OnceLoad ==
  ASSUME HandlersOK, StoresOK, OnceInv, NEW s \in Signals, Load(s), ~overlapped'
  PROVE  Alone' /\ Waiting' /\ Flushing' /\ (~swept' => Kept')
<1>1. ~overlapped /\ Active(s)
  BY DEF Load, Active
<1>2. /\ Alone /\ Waiting /\ Flushing /\ (~swept => Kept)
      /\ \A r \in Signals \ {s} : handler[r] \in {"unsent", "done"}
  BY <1>1, OthersRest
<1>3. /\ handler[s] = "loading" /\ handler'[s] = "appending" /\ s \in Candidates
      /\ \A r \in Signals \ {s} : handler'[r] = handler[r] /\ snap'[r] = snap[r]
      /\ snap'[s] = buffer[held[s]]
  BY <1>2 DEF Load, Goto, HandlersOK, Alone
<1>4. UNCHANGED <<held, current, described, buffer, swept, delivered>>
  BY DEF Load, storeVars
<1>5. Alone'
  BY <1>2, <1>3, <1>4 DEF Alone, Active
<1>6. Waiting'
  BY <1>2, <1>3, <1>4 DEF Waiting
<1>7. Flushing'
  BY <1>2, <1>3 DEF Flushing
<1>8. ~swept' => Kept'
  BY <1>2, <1>3, <1>4 DEF Kept, Signals
<1> QED
  BY <1>5, <1>6, <1>7, <1>8

LEMMA OnceAppendPending ==
  ASSUME HandlersOK, StoresOK, OnceInv, NEW s \in Signals, AppendPending(s), ~overlapped'
  PROVE  Alone' /\ Waiting' /\ Flushing' /\ (~swept' => Kept')
<1>1. ~overlapped /\ Active(s)
  BY DEF AppendPending, Active
<1>2. /\ Alone /\ Waiting /\ Flushing /\ (~swept => Kept)
      /\ \A r \in Signals \ {s} : handler[r] \in {"unsent", "done"}
  BY <1>1, OthersRest
<1>3. /\ handler[s] = "appending" /\ handler'[s] = "done" /\ s \in Candidates
      /\ s \notin Descriptions
      /\ \A r \in Signals \ {s} : handler'[r] = handler[r]
      /\ held[s] \in Stores
      /\ buffer'[held[s]] = Append(buffer[held[s]], s)
      /\ \A t \in Stores \ {held[s]} : buffer'[t] = buffer[t]
  BY <1>2, InboxAssumption
     DEF AppendPending, Goto, HandlersOK, StoresOK, Alone, Descriptions
<1>4. UNCHANGED <<held, snap, current, described, swept, delivered>>
  BY DEF AppendPending
<1>5. \A t \in Stores : ~Has(buffer[t], s)
  BY <1>2, <1>3 DEF Waiting
<1>6. /\ Once(buffer'[held[s]])
      /\ \A y : Has(buffer'[held[s]], y) <=> Has(buffer[held[s]], y) \/ y = s
  <2>1. buffer[held[s]] \in Seq(Signals) /\ Once(buffer[held[s]])
    BY <1>2, <1>3 DEF Waiting, StoresOK
  <2> QED
    BY <1>3, <1>5, <2>1, HasAppend
<1>7. \A r \in Signals : handler'[r] \in {"unsent", "done"}
  BY <1>2, <1>3
<1>8. Alone'
  BY <1>7 DEF Alone, Active
<1>9. Waiting'
  <2>1. \A t \in Stores : Once(buffer'[t])
    BY <1>2, <1>3, <1>6 DEF Waiting
  <2>2. \A t \in Stores, y \in Signals : Has(buffer'[t], y) <=>
           Has(buffer[t], y) \/ (t = held[s] /\ y = s)
    BY <1>3, <1>6
  <2>3. \A r \in Signals, t \in Stores : Has(buffer[t], r) => ~Has(delivered, r)
    BY <1>2, <1>3 DEF Waiting
  <2>4. ~Has(delivered, s) /\ s \in Signals
    BY <1>2, <1>3 DEF Waiting
  <2> QED
    BY <1>2, <1>3, <1>4, <1>5, <1>7, <2>1, <2>2, <2>3, <2>4 DEF Waiting
<1>10. Flushing'
  BY <1>7 DEF Flushing
<1>11. ASSUME ~swept' PROVE Kept'
  <2>1. Kept /\ held[s] = current /\ ~described[current]
    BY <1>2, <1>3, <1>4, <1>11 DEF Kept
  <2> QED
    BY <1>2, <1>3, <1>4, <1>6, <1>7, <2>1 DEF Kept, Signals
<1> QED
  BY <1>8, <1>9, <1>10, <1>11

\* Every step keeps it.
LEMMA OnceStep ==
  ASSUME HandlersOK, StoresOK, OnceInv, [Next]_vars
  PROVE  OnceInv'
<1> SUFFICES ASSUME ~overlapped'
             PROVE  Alone' /\ Waiting' /\ Flushing' /\ (~swept' => Kept')
  BY DEF OnceInv
<1>1. ASSUME NEW s \in Signals,
             \/ LookUp(s) \/ Pass(s) \/ Check(s) \/ Send(s) \/ Describe(s)
             \/ RangeOver(s) \/ Flush(s) \/ Clear(s) \/ Load(s) \/ AppendPending(s)
      PROVE  Alone' /\ Waiting' /\ Flushing' /\ (~swept' => Kept')
  BY <1>1, OnceLookUp, OncePass, OnceCheck, OnceSend, OnceDescribe, OnceRange,
     OnceFlush, OnceClear, OnceLoad, OnceAppendPending
<1>2. CASE Sweep
  <2>1. Alone /\ Waiting /\ Flushing /\ swept'
    BY <1>2 DEF Sweep, OnceInv
  <2>2. UNCHANGED <<handler, held, snap, buffer, delivered>>
    BY <1>2 DEF Sweep
  <2> QED
    BY <2>1, <2>2 DEF Alone, Active, Waiting, Flushing
<1>3. CASE (\E t \in Stores : GoesIdle(t)) \/ Ends \/ UNCHANGED vars
  <2>1. UNCHANGED <<handler, held, snap, overlapped, current, described, buffer,
                    swept, delivered>>
    BY <1>3 DEF GoesIdle, Ends, vars, storeVars
  <2>2. Alone /\ Waiting /\ Flushing /\ (~swept => Kept)
    BY <2>1 DEF OnceInv
  <2> QED
    BY <2>1, <2>2 DEF Alone, Active, Waiting, Flushing, Kept
<1> QED
  BY <1>1, <1>2, <1>3, InboxCases

\* As long as no two callbacks overlapped, every signal reaches the listener
\* once: none is passed on twice, however often a description is repeated, and
\* none is left in a store that was not dropped (messaging/conn.go:55-101).
THEOREM InboxOnce == Spec => []DeliveredOnce
<1>1. Init => HandlersOK /\ StoresOK
  BY ShapeInit
<1>2. Init => OnceInv
  <2> SUFFICES ASSUME Init PROVE OnceInv
    OBVIOUS
  <2>1. \A s \in Signals : handler[s] = "unsent"
    BY DEF Init
  <2>2. delivered = <<>> /\ \A t \in Stores : buffer[t] = <<>>
    BY DEF Init
  <2>3. Alone /\ Flushing
    BY <2>1 DEF Alone, Flushing, Active
  <2>4. Waiting
    BY <2>1, <2>2, HasEmpty DEF Waiting
  <2>5. Kept
    <3>1. ~described[current]
      BY InboxAssumption DEF Init, Stores
    <3> QED
      BY <2>1, <3>1 DEF Kept, Signals
  <2> QED
    BY <2>3, <2>4, <2>5 DEF OnceInv
<1>3. HandlersOK /\ StoresOK /\ OnceInv /\ [Next]_vars
        => (HandlersOK /\ StoresOK /\ OnceInv)'
  BY HandlersStep, StoresStep, OnceStep
<1>4. HandlersOK /\ StoresOK /\ OnceInv => DeliveredOnce
  <2> SUFFICES ASSUME HandlersOK, StoresOK, OnceInv, ~overlapped
               PROVE  DeliveredOnce
    BY DEF DeliveredOnce, NoneTwice, NoneStranded
  <2>1. NoneTwice
    BY DEF OnceInv, Waiting, Once, NoneTwice
  <2>2. ASSUME Settled, NEW c \in Candidates PROVE ~LeftBehind(c)
    <3>1. SUFFICES ASSUME handler[c] = "done", ~swept PROVE Has(delivered, c)
      BY DEF LeftBehind, Has
    <3>2. Kept
      BY <3>1 DEF OnceInv
    <3>3. PICK d \in Descriptions : handler[d] = "done"
      BY <2>2 DEF Settled
    <3>4. \A f \in Signals : handler[f] \notin {"ranging", "flushing"}
      BY <2>2 DEF Settled, Active
    <3>5. buffer[current] = <<>>
      BY <3>2, <3>3, <3>4 DEF Kept, Signals
    <3> QED
      BY <3>1, <3>2, <3>5, HasEmpty DEF Kept
  <2> QED
    BY <2>1, <2>2 DEF DeliveredOnce, NoneStranded
<1> QED
  BY <1>1, <1>2, <1>3, <1>4, PTL DEF Spec
=============================================================================
